--------------------------- MODULE ProjectPosting ---------------------------
(***************************************************************************)
(* From the form a client fills in to the project on the chain: the form   *)
(* checks what was typed, the API checks it again, pins the agreement and  *)
(* stores the rows, and later a panel turns the rows into the arguments of *)
(* createProject, which the registry checks a third time.  The three       *)
(* checks are written apart, in three languages.                           *)
(*                                                                         *)
(* One page visit of either form.  Titles and descriptions are left out:   *)
(* form and API bound them alike and the registry never sees them.         *)
(***************************************************************************)
EXTENDS Pinning, Sequences, FiniteSets, SequencesExt

CONSTANTS
  Blank, Junk,
  Kind,             \* "direct" names a freelancer, "marketplace" takes applications
  Client,           \* the wallet of the client who fills the form in
  Users,            \* wallets of registered users
  Freelancers,      \* of them, those with the FREELANCER role
  Amounts, Dues,    \* what may be typed, besides nothing
  Wallets, Tokens, Chains, Files,
  DefaultToken, DefaultChain,
  AllowedTokens,    \* tokens the registry takes
  ClientOverride, ServerOverride,  \* settings that let other registries in
  UintMax,          \* the largest amount and sum the registry can hold
  IntMax,           \* the largest chain id the database can hold
  LastDate,         \* the end of the year 9999
  FormMilestones,   \* bound of the form and of the API
  MaxMilestones,    \* MAX_MILESTONES of the registry
  MaxEdits,         \* bound: fields filled in during the visit
  MaxRows           \* bound: projects stored

(* Blank is an empty field, Junk no number or address at all, "badsum" an   *)
(* address whose capitals are not its checksum.  Times count from 1970.     *)
PostingAssumption ==
  /\ Kind \in {"direct", "marketplace"}
  /\ Client \in Users /\ Freelancers \subseteq Users
  /\ FormMilestones \in Nat /\ MaxMilestones \in Nat /\ MaxEdits \in Nat /\ MaxRows \in Nat
  /\ ClientOverride \in BOOLEAN /\ ServerOverride \in BOOLEAN

IsDirect == Kind = "direct"
IsNumber(text) == text \notin {Blank, Junk}
LooksLikeAddress(text) == text # Junk
IsAddress(text) == text \notin {Junk, "badsum"}

VARIABLES
  draft,      \* what the form holds
  page,       \* editing, sending, created, left
  message,    \* what the page says of the last attempt
  request,    \* what the API is doing for the page, and with what
  rows,       \* projects stored
  chain,      \* projects the registry has created, and of which row
  told,       \* projects the page has been told of
  edits

vars == <<draft, page, message, request, rows, chain, told, edits>>

EmptyMilestone == [amount |-> Blank, due |-> Blank]
Idle == [at |-> "idle"]

NoFile == [content |-> "none", bytes |-> 0, type |-> "none"]

EmptyForm ==
  [milestones |-> <<EmptyMilestone>>, wallet |-> Blank, registry |-> "canonical",
   chain |-> DefaultChain, token |-> DefaultToken, file |-> NoFile]

Init ==
  /\ draft = EmptyForm /\ page = "editing" /\ message = "none" /\ edits = 0
  /\ request = Idle /\ rows = <<>> /\ chain = <<>> /\ told = 0

-----------------------------------------------------------------------------
(* The form.                                                                *)

Edit(new) ==
  /\ page \in {"editing", "sending"} \/ (page = "created" /\ ~IsDirect)
  /\ edits < MaxEdits
  /\ draft' = new /\ edits' = edits + 1
  /\ UNCHANGED <<page, message, request, rows, chain, told>>

AddMilestone == Edit([draft EXCEPT !.milestones = Append(@, EmptyMilestone)])

RemoveMilestone(i) ==
  Len(draft.milestones) > 1 /\ Edit([draft EXCEPT !.milestones = RemoveAt(@, i)])

TypeMilestone(i, amount, due) ==
  Edit([draft EXCEPT !.milestones[i] = [amount |-> amount, due |-> due]])

TypeContext ==
  \/ \E id \in Chains : Edit([draft EXCEPT !.chain = id])
  \/ \E token \in Tokens : Edit([draft EXCEPT !.token = token])
  \/ ClientOverride /\ Edit([draft EXCEPT !.registry = "other"])

TypeWallet == IsDirect /\ \E wallet \in Wallets : Edit([draft EXCEPT !.wallet = wallet])

ChooseAgreement == \E file \in Files : Edit([draft EXCEPT !.file = file])

MilestoneAccepted(m) == IsNumber(m.amount) /\ m.amount > 0 /\ m.due # Blank

MarketplaceAccepts(d) ==
  /\ Len(d.milestones) \in 1..FormMilestones
  /\ \A i \in DOMAIN d.milestones : MilestoneAccepted(d.milestones[i])
  /\ d.chain = Blank \/ IsNumber(d.chain)
  /\ LooksLikeAddress(d.token)

DirectAccepts(d) ==
  MarketplaceAccepts(d) /\ d.wallet # Blank /\ LooksLikeAddress(d.wallet)

FormAccepts(d) == IF IsDirect THEN DirectAccepts(d) ELSE MarketplaceAccepts(d)

(* The total under the form skips what is no number yet.                    *)
ShownTotal(milestones) ==
  FoldLeft(LAMBDA sum, m : IF IsNumber(m.amount) THEN sum + m.amount ELSE sum,
           0, milestones)

Payload(d) ==
  [d EXCEPT !.registry = IF ClientOverride THEN @ ELSE "canonical"]

(* The button is disabled while a request is out; once the direct form has  *)
(* been told of its project it is replaced by a card.  The marketplace form *)
(* stays until the router has moved on.                                     *)
MaySubmit == page = "editing" \/ (page = "created" /\ ~IsDirect)

Submit ==
  /\ MaySubmit /\ FormAccepts(draft) /\ Len(rows) < MaxRows
  /\ page' = "sending" /\ message' = "none"
  /\ request' = [at |-> "received", with |-> Payload(draft)]
  /\ UNCHANGED <<draft, rows, chain, told, edits>>

-----------------------------------------------------------------------------
(* The API.                                                                 *)

Respond(answer) == request' = [at |-> "answer", is |-> answer]

MarketplaceBodyAccepted(p) ==
  /\ Len(p.milestones) \in 1..FormMilestones
  /\ \A i \in DOMAIN p.milestones :
       MilestoneAccepted(p.milestones[i]) /\ p.milestones[i].due <= LastDate
  /\ p.chain # Blank => p.chain > 0
  /\ p.token # Blank => IsAddress(p.token)

DirectBodyAccepted(p) == MarketplaceBodyAccepted(p) /\ IsAddress(p.wallet)

RegistryAccepted_Any(registry) == TRUE
RegistryAccepted(registry) == registry = "canonical" \/ ServerOverride

FreelancerAccepted_Self(wallet) == wallet \in Freelancers
FreelancerAccepted(wallet) == wallet \in Freelancers /\ wallet # Client

(* What the API checks before it uploads anything.                          *)
PassChecks(checks) ==
  /\ request.at = "received"
  /\ IF checks
     THEN request' = [request EXCEPT !.at = IF request.with.file = NoFile THEN "store" ELSE "pin"]
     ELSE Respond("refused")
  /\ UNCHANGED <<draft, page, message, rows, chain, told, edits>>

CheckDirect ==
  LET p == request.with IN
  IsDirect /\ PassChecks(/\ DirectBodyAccepted(p) /\ RegistryAccepted(p.registry)
                        /\ FreelancerAccepted(p.wallet))

CheckMarketplace ==
  LET p == request.with IN
  ~IsDirect /\ PassChecks(MarketplaceBodyAccepted(p) /\ RegistryAccepted(p.registry))

Uploaded_AlwaysFallsBack(file, answer) ==
  request' = [request EXCEPT !.at = "store"] @@ [uri |-> UploadFile(file, answer).uri]
Uploaded(file, answer) ==
  LET result == UploadFile(file, answer) IN
  IF result.code = "ok" \/ AllowFallback
  THEN request' = [request EXCEPT !.at = "store"] @@ [uri |-> result.uri]
  ELSE Respond("refused")

(* The pinning service answers, or is given up.                             *)
PinAnswers ==
  /\ request.at = "pin"
  /\ \E answer \in Answers \ {"timeout"} : Uploaded(request.with.file, answer)
  /\ UNCHANGED <<draft, page, message, rows, chain, told, edits>>

AbortUpload_NoTimer == FALSE /\ UNCHANGED vars
AbortUpload ==
  /\ request.at = "pin" /\ Uploaded(request.with.file, "timeout")
  /\ UNCHANGED <<draft, page, message, rows, chain, told, edits>>

TotalValue_First(milestones) == milestones[1].amount
TotalValue(milestones) == FoldLeft(LAMBDA sum, m : sum + m.amount, 0, milestones)

(* The rows of payload p: the milestones numbered as sent, and their sum.   *)
RowOf(p, freelancer) ==
  [freelancer |-> freelancer, registry |-> p.registry,
   uri |-> IF p.file = NoFile THEN "none" ELSE request.uri,
   chain |-> IF p.chain = Blank THEN DefaultChain ELSE p.chain,
   token |-> IF p.token = Blank THEN DefaultToken ELSE p.token,
   total |-> TotalValue(p.milestones),
   milestones |-> {[order |-> i, amount |-> p.milestones[i].amount,
                    due |-> p.milestones[i].due] : i \in DOMAIN p.milestones},
   typed |-> p]         \* for the properties

(* A chain id the column cannot hold fails the transaction.                 *)
Store(freelancer) ==
  LET p == request.with IN
  /\ request.at = "store"
  /\ IF p.chain = Blank \/ p.chain <= IntMax
     THEN rows' = Append(rows, RowOf(p, freelancer)) /\ Respond("created")
     ELSE Respond("refused") /\ UNCHANGED rows
  /\ UNCHANGED <<draft, page, message, chain, told, edits>>

StoreDirect == IsDirect /\ Store(request.with.wallet)
StoreMarketplace == ~IsDirect /\ Store("none")

(* The page hears the answer, or of a connection that broke.  The direct    *)
(* form is emptied and replaced by a card until the router has moved on;    *)
(* the marketplace form stays as it is.                                     *)
Hear(answer) ==
  /\ request.at = "answer" /\ request' = Idle
  /\ IF answer = "created"
     THEN page' = "created" /\ message' = "created" /\ told' = told + 1
     ELSE page' = "editing" /\ message' = "failed" /\ UNCHANGED told
  /\ UNCHANGED <<rows, chain, edits>>

HearDirect_KeepsForm(answer) ==
  /\ IsDirect /\ request.at = "answer" /\ request' = Idle
  /\ page' = "editing" /\ message' = IF answer = "created" THEN "created" ELSE "failed"
  /\ told' = IF answer = "created" THEN told + 1 ELSE told
  /\ UNCHANGED <<draft, rows, chain, edits>>
HearDirect(answer) ==
  /\ IsDirect /\ Hear(answer)
  /\ draft' = IF answer = "created" THEN EmptyForm ELSE draft

HearMarketplace(answer) == ~IsDirect /\ Hear(answer) /\ UNCHANGED draft

HearAny(answer) == HearDirect(answer) \/ HearMarketplace(answer)
HearAnswer == request.at = "answer" /\ HearAny(request.is)
LoseAnswer == HearAny("broken")

Leave ==
  /\ page \in {"editing", "created"} /\ page' = "left"
  /\ UNCHANGED <<draft, message, request, rows, chain, told, edits>>

-----------------------------------------------------------------------------
(* The panel that creates the project on the chain.  It may do so again     *)
(* when its report of the new id is lost (ProjectBinding).                  *)

(* An applicant the client accepted (Applications).                         *)
AcceptApplicant_Self(k) ==
  /\ rows[k].freelancer = "none"
  /\ \E wallet \in Freelancers : rows' = [rows EXCEPT ![k].freelancer = wallet]
  /\ UNCHANGED <<draft, page, message, request, chain, told, edits>>
AcceptApplicant(k) ==
  /\ rows[k].freelancer = "none"
  /\ \E wallet \in Freelancers \ {Client} :
       rows' = [rows EXCEPT ![k].freelancer = wallet]
  /\ UNCHANGED <<draft, page, message, request, chain, told, edits>>

InOrder_ByDue(row) ==
  SetToSortSeq(row.milestones, LAMBDA a, b : a.due < b.due \/ (a.due = b.due /\ a.order < b.order))
InOrder(row) ==
  [i \in 1..Cardinality(row.milestones) |-> CHOOSE m \in row.milestones : m.order = i]

(* milestoneInputsFromProject throws unless these hold.                     *)
InputsAccepted(row) == \A m \in row.milestones : m.due > 0 /\ m.amount > 0
Inputs(row) ==
  [i \in DOMAIN InOrder(row) |-> [amount |-> InOrder(row)[i].amount, deadline |-> InOrder(row)[i].due]]

(* An argument that is no uint256 cannot be encoded; the rest is the        *)
(* registry's own check.                                                    *)
CreateAccepted(row) ==
  /\ \A m \in row.milestones : m.amount \in 1..UintMax /\ m.due # 0
  /\ TotalValue(InOrder(row)) <= UintMax
  /\ row.token \in AllowedTokens /\ row.freelancer # Client
  /\ Cardinality(row.milestones) \in 1..MaxMilestones

CanCreate(row) == row.freelancer # "none" /\ InputsAccepted(row) /\ CreateAccepted(row)

CreateOnChain(k) ==
  LET row == rows[k] IN
  /\ CanCreate(row) /\ Len(chain) < MaxRows
  /\ chain' = Append(chain, [row |-> k, milestones |-> Inputs(row), uri |-> row.uri,
                             freelancer |-> row.freelancer, token |-> row.token,
                             total |-> TotalValue(InOrder(row))])
  /\ UNCHANGED <<draft, page, message, request, rows, told, edits>>

(* The fields of either form.                                               *)
MarketplaceFields ==
  \/ AddMilestone \/ TypeContext \/ ChooseAgreement
  \/ \E i \in DOMAIN draft.milestones :
       \/ RemoveMilestone(i)
       \/ \E amount \in Amounts, due \in Dues : TypeMilestone(i, amount, due)

FormStep == MarketplaceFields \/ TypeWallet \/ Submit \/ Leave

ApiStep ==
  \/ CheckDirect \/ CheckMarketplace \/ PinAnswers \/ AbortUpload
  \/ StoreDirect \/ StoreMarketplace

Next ==
  \/ FormStep \/ ApiStep \/ HearAnswer \/ LoseAnswer
  \/ \E k \in DOMAIN rows : AcceptApplicant(k) \/ CreateOnChain(k)

Spec == Init /\ [][Next]_vars

(* The API runs on and the abort timer fires; the pinning service owes no   *)
(* answer.  Any request is answered, if only by a broken connection.        *)
Fairness ==
  /\ WF_vars(CheckDirect \/ CheckMarketplace) /\ WF_vars(AbortUpload)
  /\ WF_vars(StoreDirect \/ StoreMarketplace)
  /\ WF_vars(HearAnswer)

FairSpec == Spec /\ Fairness

-----------------------------------------------------------------------------
(* What the client typed is what the registry holds: the same milestones in *)
(* the same order, the total the form showed, which the row shows too, and  *)
(* the freelancer and the agreement of the row.                             *)
PostedAsTyped ==
  \A k \in DOMAIN chain :
    LET c == chain[k] row == rows[c.row] IN
    /\ Len(c.milestones) = Len(row.typed.milestones)
    /\ \A i \in DOMAIN c.milestones :
         c.milestones[i] = [amount |-> row.typed.milestones[i].amount,
                            deadline |-> row.typed.milestones[i].due]
    /\ c.total = row.total /\ c.total = ShownTotal(row.typed.milestones)
    /\ c.freelancer = row.freelancer
    /\ row.typed.token # Blank => c.token = row.typed.token

(* A stored project whose numbers the registry can hold, due after 1970 and *)
(* paid in a token the registry takes, can be created on the chain: the     *)
(* registry asks for nothing form and API do not.                           *)
StoredCanBeCreated ==
  \A k \in DOMAIN rows :
    LET row == rows[k] IN
    /\ row.freelancer # "none" /\ row.total <= UintMax
    /\ \A m \in row.milestones : m.due > 0
    /\ row.token \in AllowedTokens
    => CanCreate(row)

(* "Uploaded to IPFS with the project record": a project posted with an     *)
(* agreement is stored with it, unless the operator turned the fallback on. *)
AgreementIsKept ==
  \A k \in DOMAIN rows :
    rows[k].typed.file # NoFile /\ FallbackSetting # "true"
    => rows[k].uri = rows[k].typed.file.content

(* "Production lock": without the server's override every stored project is *)
(* of the canonical registry, whatever the form let be typed.               *)
LockedToCanonical == ~ServerOverride => \A k \in DOMAIN rows : rows[k].registry = "canonical"

(* A visit of the direct form that was told of its project stores no other. *)
PostedOnce == (IsDirect /\ told > 0) => Len(rows') = Len(rows)

(* "Could not create project": the page that says so has stored nothing.    *)
FailureMeansNothingStored == message = "failed" => Len(rows) = told

(* The button comes back: whatever the pinning service does, every click is *)
(* answered.                                                                *)
ClickIsAnswered == (page = "sending") ~> (page # "sending")

TypeOK ==
  /\ page \in {"editing", "sending", "created", "left"}
  /\ message \in {"none", "created", "failed"}
  /\ (page = "sending") = (request # Idle)
  /\ Len(draft.milestones) \in 1..MaxEdits + 1 /\ edits \in 0..MaxEdits
  /\ Len(rows) <= MaxRows /\ told <= Len(rows)
=============================================================================
