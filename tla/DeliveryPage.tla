---------------------------- MODULE DeliveryPage ----------------------------
(***************************************************************************)
(* The page on which a freelancer hands in the work of a milestone.  One   *)
(* click encodes the files in the browser, has the API pin each of them    *)
(* and a document that lists them, stores the attempt, and then asks the   *)
(* wallet to register the document's URI with the escrow contract.  When   *)
(* the last part fails, the page keeps the attempt and offers to retry it. *)
(*                                                                         *)
(* One visit by whoever opens the page, of a milestone open for work.      *)
(* What happens to an attempt after the visit is in MilestoneWorkflow.     *)
(***************************************************************************)
EXTENDS Pinning, Sequences, TLC

CONSTANTS
  Visitors,        \* who may open the page: guest, newcomer, stranger, freelancer
  Files, Links,
  Blank,           \* a link left empty
  Bound,           \* is the project bound to the escrow contract
  MaxPicked,       \* deliverables of one attempt
  UriMax,          \* ON_CHAIN_URI_MAX_BYTES
  UriBytes,        \* the length of a document's URI
  MaxEdits,        \* bound: fields filled in during the visit
  MaxSwitches,     \* bound: times the contract is paused or unpaused
  MaxTxs           \* bound: transactions the page sends

DeliveryAssumption ==
  /\ Visitors \subseteq {"guest", "newcomer", "stranger", "freelancer"}
  /\ Bound \in BOOLEAN /\ MaxPicked \in Nat \ {0}

VARIABLES
  viewer,    \* unknown until the session and the profile have been fetched
  form,      \* files chosen and link typed
  page,      \* the click under way, what it says, and the attempts it shows
  request,   \* what the API is doing for the page
  pinned,    \* what the pinning service holds
  attempts,  \* submissions stored
  milestone, \* [row |-> the milestone's status, seen |-> the page's copy]
  contract,  \* paused or not, what the page was told of it, URIs registered
  txs,       \* transactions the page has sent: sent, done, reverted
  network,   \* the wallet's chain: is it the project's
  edits

pageVars == <<viewer, form, page, request>>
apiVars == <<pinned, attempts, milestone>>
chainVars == <<contract, txs, network>>
vars == <<pageVars, apiVars, chainVars, edits>>

Idle == [at |-> "idle"]
(* The page with no click under way: what it says, the attempt it offers to *)
(* retry, the attempt it reports done.                                      *)
Rest(says, pending, success) ==
  [at |-> "idle", says |-> says, pending |-> pending, success |-> success, attempt |-> 0, tx |-> 0]

EmptyForm == [files |-> <<>>, link |-> Blank]

Init ==
  /\ viewer = "unknown" /\ form = EmptyForm /\ edits = 0
  /\ page = Rest("nothing", 0, 0)
  /\ request = Idle /\ pinned = [files |-> {}, documents |-> {}] /\ attempts = <<>>
  /\ milestone = [row |-> "FUNDED", seen |-> "FUNDED"]
  /\ contract = [paused |-> FALSE, seen |-> FALSE, uris |-> <<>>, switches |-> 0]
  /\ txs = <<>> /\ network \in {"right", "wrong"}

-----------------------------------------------------------------------------
(* The page finds out who looks at it, and sends a guest and a newcomer     *)
(* elsewhere.                                                               *)
Resolve ==
  /\ viewer = "unknown"
  /\ \E who \in Visitors : viewer' = IF who \in {"guest", "newcomer"} THEN "sent away" ELSE who
  /\ UNCHANGED <<form, page, request, apiVars, chainVars, edits>>

Shown == viewer \in {"stranger", "freelancer"}

Fill(new) ==
  /\ Shown /\ edits < MaxEdits /\ form' = new /\ edits' = edits + 1
  /\ UNCHANGED <<viewer, page, request, apiVars, chainVars>>

ChooseFiles == \E n \in 0..MaxPicked + 1 : \E files \in [1..n -> Files] :
                 Fill([form EXCEPT !.files = files])
TypeLink == \E link \in Links : Fill([form EXCEPT !.link = link])

ChainMismatch == Bound /\ network = "wrong"
SwitchNetwork ==
  /\ Shown /\ network' = IF network = "right" THEN "wrong" ELSE "right"
  /\ UNCHANGED <<pageVars, apiVars, contract, txs, edits>>

SubmitGuard == viewer = "freelancer" /\ milestone.seen = "FUNDED"

MaySubmit ==
  /\ Shown /\ page.at = "idle" /\ page.pending = 0
  /\ ~ChainMismatch /\ ~contract.seen /\ SubmitGuard

(* A file without a byte has no base64 text, and one that cannot be encoded *)
(* fails the click before anything is sent.                                 *)
Encodes(files) == \A i \in DOMAIN files : files[i].bytes > 0

Says(message) == page' = Rest(message, 0, 0)

Submit ==
  /\ MaySubmit
  /\ IF form.files # <<>> /\ Encodes(form.files)
     THEN /\ page' = [Rest("nothing", 0, 0) EXCEPT !.at = "upload"]
          /\ request' = [at |-> "received", with |-> form]
     ELSE /\ page' = Rest("failed", 0, 0)
          /\ UNCHANGED request
  /\ UNCHANGED <<viewer, form, apiVars, chainVars, edits>>

-----------------------------------------------------------------------------
(* The API.                                                                 *)

Respond(answer) == request' = [at |-> "answer", is |-> answer, attempt |-> 0]

BodyAccepted(body) == Len(body.files) \in 1..MaxPicked /\ body.link # "no url"

MilestoneState_Any == TRUE
MilestoneState == milestone.row = "FUNDED"

CheckRequest ==
  /\ request.at = "received"
  /\ IF BodyAccepted(request.with) /\ viewer = "freelancer" /\ MilestoneState
     THEN request' = [at |-> "files", with |-> request.with, left |-> DOMAIN request.with.files,
                      round |-> Len(attempts) + 1]
     ELSE Respond("refused")
  /\ UNCHANGED <<viewer, form, page, apiVars, chainVars, edits>>

(* The files are uploaded side by side.  The first to fail fails the        *)
(* request; the others stay pinned.                                         *)
FileAnswered_Settled(i, answer) ==
  LET result == UploadFile(request.with.files[i], answer) IN
  /\ pinned' = IF result.code = "ok" THEN [pinned EXCEPT !.files = @ \cup {result.uri}] ELSE pinned
  /\ request' = [request EXCEPT !.left = @ \ {i}]
FileAnswered(i, answer) ==
  LET result == UploadFile(request.with.files[i], answer) IN
  IF result.code = "ok"
  THEN /\ pinned' = [pinned EXCEPT !.files = @ \cup {result.uri}]
       /\ request' = [request EXCEPT !.left = @ \ {i}]
  ELSE Respond("refused") /\ UNCHANGED pinned

PinFile ==
  /\ request.at = "files"
  /\ \E i \in request.left, answer \in Answers \ {"timeout"} : FileAnswered(i, answer)
  /\ UNCHANGED <<viewer, form, page, attempts, milestone, chainVars, edits>>

(* What the page keeps of a click is what the document says of it.          *)
DocumentOf_LinkNow(body, round) ==
  [round |-> round, files |-> [i \in DOMAIN body.files |-> body.files[i].content],
   link |-> form.link]
DocumentOf(body, round) ==
  [round |-> round, files |-> [i \in DOMAIN body.files |-> body.files[i].content],
   link |-> body.link]

DocumentAnswered(document, answer) ==
  LET result == UploadJson(document, Len(document.files), answer) IN
  IF result.code = "ok"
  THEN /\ request' = [at |-> "store", with |-> request.with, document |-> document]
       /\ pinned' = [pinned EXCEPT !.documents = @ \cup {result.uri}]
  ELSE Respond("refused") /\ UNCHANGED pinned

PinDocument ==
  /\ request.at = "files" /\ request.left = {}
  /\ \E answer \in Answers \ {"timeout"} :
       DocumentAnswered(DocumentOf(request.with, request.round), answer)
  /\ UNCHANGED <<viewer, form, page, attempts, milestone, chainVars, edits>>

(* Whatever upload is out, the timer ends it.                               *)
AbortUpload ==
  /\ request.at = "files"
  /\ IF request.left = {}
     THEN DocumentAnswered(DocumentOf(request.with, request.round), "timeout")
     ELSE \E i \in request.left : FileAnswered(i, "timeout")
  /\ UNCHANGED <<viewer, form, page, attempts, milestone, chainVars, edits>>

(* One row per round: of two requests that counted the same attempts only   *)
(* one is stored.                                                           *)
StoreAttempt ==
  /\ request.at = "store"
  /\ IF request.document.round > Len(attempts)
     THEN /\ attempts' = Append(attempts, [document |-> request.document, chosen |-> request.with])
          /\ milestone' = [milestone EXCEPT !.row = "SUBMITTED"]
          /\ request' = [at |-> "answer", is |-> "created", attempt |-> request.document.round]
     ELSE Respond("refused") /\ UNCHANGED <<attempts, milestone>>
  /\ UNCHANGED <<viewer, form, page, pinned, chainVars, edits>>

(* The freelancer hands in from another window.                             *)
StoreElsewhere ==
  /\ milestone.row = "FUNDED"
  /\ \E files \in {<<file>> : file \in {f \in Files : FileAccepted(f)}} :
       LET body == [files |-> files, link |-> Blank]
           document == DocumentOf(body, Len(attempts) + 1) IN
       /\ attempts' = Append(attempts, [document |-> document, chosen |-> body])
       /\ pinned' = [files |-> pinned.files \cup {files[1].content},
                      documents |-> pinned.documents \cup {document}]
  /\ milestone' = [milestone EXCEPT !.row = "SUBMITTED"]
  /\ UNCHANGED <<pageVars, chainVars, edits>>

Refetch ==
  /\ milestone.seen # milestone.row
  /\ milestone' = [milestone EXCEPT !.seen = milestone.row]
  /\ UNCHANGED <<pageVars, pinned, attempts, chainVars, edits>>

-----------------------------------------------------------------------------
(* The transaction.                                                         *)

(* What the page does with an attempt that is registered, or needs not be.  *)
Succeed(attempt) ==
  /\ page' = Rest("nothing", 0, attempt)
  /\ form' = EmptyForm

(* A retry that fails keeps its attempt; of a first try it is kept now.     *)
Unregistered(attempt) ==
  page' = Rest(IF page.pending = 0 THEN "saved" ELSE "retry failed", attempt, 0)

UriFits(attempt) == UriBytes <= UriMax

(* confirmSubmitMilestoneOnChain, up to the wallet's prompt.                *)
Confirm(attempt) ==
  IF UriFits(attempt) /\ network = "right"
  THEN page' = [page EXCEPT !.at = "chain", !.says = "nothing", !.attempt = attempt]
  ELSE Unregistered(attempt)

Hear(answer) ==
  /\ request.at = "answer" /\ request' = Idle
  /\ IF answer # "created" THEN Says("failed") /\ UNCHANGED form
     ELSE IF Bound THEN Confirm(request.attempt) /\ UNCHANGED form
     ELSE Succeed(request.attempt)
  /\ UNCHANGED <<viewer, apiVars, chainVars, edits>>

LoseAnswer_Saved ==
  /\ request.at = "answer" /\ request' = Idle /\ Says("saved")
  /\ UNCHANGED <<viewer, form, apiVars, chainVars, edits>>
HearAnswer == request.at = "answer" /\ Hear(request.is)
LoseAnswer == Hear("broken")

RetryOnChain ==
  /\ Shown /\ page.at = "idle" /\ page.pending # 0 /\ ~ChainMismatch
  /\ Confirm(page.pending)
  /\ UNCHANGED <<viewer, form, request, apiVars, chainVars, edits>>

(* The gas is estimated first, but an estimate that fails, as it does for a *)
(* call the contract would revert, only means a fixed gas limit.            *)
Sign ==
  /\ page.at = "chain" /\ page.tx = 0 /\ Len(txs) < MaxTxs
  /\ txs' = Append(txs, [document |-> attempts[page.attempt].document, is |-> "sent"])
  /\ page' = [page EXCEPT !.tx = Len(txs) + 1]
  /\ UNCHANGED <<viewer, form, request, apiVars, contract, network, edits>>

RefuseToSign ==
  /\ page.at = "chain" /\ page.tx = 0 /\ Unregistered(page.attempt)
  /\ UNCHANGED <<viewer, form, request, apiVars, chainVars, edits>>

(* submitMilestone takes one URI, of a milestone that is pending.           *)
TakesSubmission == ~contract.paused /\ contract.uris = <<>>
Mine(k) ==
  /\ txs[k].is = "sent"
  /\ IF TakesSubmission
     THEN /\ contract' = [contract EXCEPT !.uris = <<txs[k].document>>]
          /\ txs' = [txs EXCEPT ![k].is = "done"]
     ELSE txs' = [txs EXCEPT ![k].is = "reverted"] /\ UNCHANGED contract
  /\ UNCHANGED <<pageVars, apiVars, network, edits>>

AwaitsReceipt == page.at = "chain" /\ page.tx # 0

(* The receipt is there: the page does not look at its status.              *)
SeeReceipt ==
  /\ AwaitsReceipt /\ txs[page.tx].is # "sent" /\ Succeed(page.attempt)
  /\ UNCHANGED <<viewer, request, apiVars, chainVars, edits>>

(* waitForTransactionReceipt gives up.                                      *)
WaitTimesOut_Never == FALSE /\ UNCHANGED vars
WaitTimesOut ==
  /\ AwaitsReceipt /\ txs[page.tx].is = "sent" /\ Unregistered(page.attempt)
  /\ UNCHANGED <<viewer, form, request, apiVars, chainVars, edits>>

Pause ==
  /\ contract.switches < MaxSwitches
  /\ contract' = [contract EXCEPT !.paused = ~@, !.switches = @ + 1]
  /\ UNCHANGED <<pageVars, apiVars, txs, network, edits>>
ReadPaused ==
  /\ contract.seen # contract.paused /\ contract' = [contract EXCEPT !.seen = contract.paused]
  /\ UNCHANGED <<pageVars, apiVars, txs, network, edits>>

Leave ==
  /\ page.at = "idle" /\ Shown /\ viewer' = "sent away"
  /\ UNCHANGED <<form, page, request, apiVars, chainVars, edits>>

PageStep ==
  \/ Resolve \/ ChooseFiles \/ TypeLink \/ SwitchNetwork \/ Submit \/ RetryOnChain \/ Leave
  \/ HearAnswer \/ LoseAnswer \/ Sign \/ RefuseToSign \/ SeeReceipt \/ WaitTimesOut
ApiStep ==
  \/ CheckRequest \/ PinFile \/ PinDocument \/ AbortUpload \/ StoreAttempt
  \/ StoreElsewhere \/ Refetch
ChainStep == Pause \/ ReadPaused \/ \E k \in DOMAIN txs : Mine(k)

Next == PageStep \/ ApiStep \/ ChainStep

Spec == Init /\ [][Next]_vars

(* The API runs on, its timers and the page's fire, and the freelancer      *)
(* answers the wallet.  Neither the pinning service nor the chain owes an   *)
(* answer.                                                                  *)
Fairness ==
  /\ WF_vars(CheckRequest) /\ WF_vars(PinFile \/ PinDocument \/ AbortUpload)
  /\ WF_vars(StoreAttempt) /\ WF_vars(HearAnswer)
  /\ WF_vars(RefuseToSign) /\ WF_vars(SeeReceipt \/ WaitTimesOut)

FairSpec == Spec /\ Fairness

-----------------------------------------------------------------------------
(* What the contract holds of the milestone is the document of a stored     *)
(* attempt, and it lists the files and the link that were in the form when  *)
(* it was clicked, whatever was chosen since.                               *)
RegisteredAsChosen ==
  \A k \in DOMAIN contract.uris : \E n \in DOMAIN attempts :
    /\ attempts[n].document = contract.uris[k]
    /\ contract.uris[k].link = attempts[n].chosen.link
    /\ contract.uris[k].files =
         [i \in DOMAIN attempts[n].chosen.files |-> attempts[n].chosen.files[i].content]

(* "Files are stored on IPFS ... Submission metadata is also pinned": no    *)
(* attempt is stored of which a file or the document is not pinned, however *)
(* the uploads beside each other end.                                       *)
StoredIsPinned ==
  \A n \in DOMAIN attempts :
    LET document == attempts[n].document IN
    /\ document \in pinned.documents
    /\ \A i \in DOMAIN document.files : document.files[i] \in pinned.files

(* "Your submission is saved in the app": the page says so, and offers the  *)
(* retry, of an attempt that is stored and of the milestone's last one.     *)
SavedMeansSaved ==
  page.says = "saved" \/ page.pending # 0
  => page.pending = Len(attempts) /\ milestone.row = "SUBMITTED"

(* However often it is clicked, from two windows, with answers lost, the    *)
(* milestone is handed in once.                                             *)
HandedInOnce == Len(attempts) <= 1

(* A click ends: neither a pinning service nor a chain that stays silent    *)
(* leaves the page submitting.                                              *)
ClickEnds == (page.at # "idle") ~> (page.at = "idle")

(* "the escrow registry records this milestone as submitted on-chain": the  *)
(* card that says so is shown of a registered attempt.                      *)
SuccessMeansRegistered ==
  page.success # 0 /\ Bound => attempts[page.success].document \in
                                 {contract.uris[k] : k \in DOMAIN contract.uris}

TypeOK ==
  /\ viewer \in {"unknown", "sent away", "stranger", "freelancer"}
  /\ page.at \in {"idle", "upload", "chain"}
  /\ page.says \in {"nothing", "failed", "saved", "retry failed"}
  /\ page.pending \in 0..Len(attempts) /\ page.success \in 0..Len(attempts)
  /\ (page.at = "upload") = (request # Idle)
  /\ page.pending # 0 => page.success = 0
  /\ network \in {"right", "wrong"} /\ edits \in 0..MaxEdits
  /\ \A k \in DOMAIN txs : txs[k].is \in {"sent", "done", "reverted"}
=============================================================================
