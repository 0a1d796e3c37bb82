# EscrowFlow: formal model

EscrowFlow is an ERC20 milestone escrow: a Solidity contract that holds the
money, and a web application that offers its transactions, stores what the chain
does not, and mirrors what it does. This directory models the contract, event
synchronisation, the services, and the pages that talk to both; checks them with
TLC on small instances; and proves with TLAPS what the contract promises, for
every number of accounts, projects, milestones and tokens, and that the ledger of
event synchronisation follows the chain, for every chain and every number of
runs. Paths are relative to the repository root `src/`; `~/` stands for
`apps/web/src/`.

## 1. Inventory

| Part | State | Operations | Meets |
|---|---|---|---|
| Roles and arbitrator multisig (`EscrowFlowRegistry.sol`) | role members, arbitrator count, threshold, configuration nonce, approvals and executed ids | grant, revoke, renounce, set threshold, confirm an action | decides disputes and alternative recipients |
| Payout recipients (same contract) | party-authorised recipients per project, scope and leg, with nonces; alternative recipients, pending and executed | authorise, authorise by signature, propose, execute, clear | every payout consults them, every end of a dispute clears them |
| Escrow lifecycle (same contract) | projects with their accounting, milestones, disputes, action and emergency nonces, proposals, token liabilities, pause, allowlist | create, fund, submit, approve, release, evidence, dispute, resolve, stale timeout, cancel, emergency cancel / propose / withdraw / resolve, pause, allowlist, sweep | ERC20 tokens |
| Event synchronisation (`~/server/services/event-sync-service.ts`) | `transaction_logs`, projection tables, `event_sync_checkpoints` | runs triggered by HTTP: verify, rewind, fetch, apply | the node; PostgreSQL; the rows of every part below |
| Projects, funding, binding (`project-service.ts`, `funding-service.ts`, their forms and panels) | project rows | post, create on the chain, bind, import, report a deposit, list | event synchronisation, other tabs |
| Submissions, reviews, disputes (`submission-`, `milestone-review-`, `dispute-`, `admin-dispute-service.ts`) | submission, milestone and dispute rows | deliver, approve, release, dispute, resolve | pages, the pinning service, event synchronisation |
| Applications (`project-application-service.ts`) | application rows, the project's freelancer | apply, accept, decline, withdraw | each other |
| Sign-in and onboarding (`~/lib/auth/*`, `auth-service.ts`, `user-service.ts`) | nonces, users, roles, session tokens | issue, verify, choose a role | each other |
| Notifications | rows, a cached list and a badge | notify, list, mark read | the services above; other windows |
| Governance pages | rows of roles, threshold, tokens; a panel's fields, phase and message | grant, revoke, renounce, allow, pause, check | other administrators; event synchronisation |
| Dashboards and lists | none: queries of the rows and the ledger | sum, select, sort, page | all writers of rows |
| IPFS helpers | none: limits, time-out, URI | pin a file, pin a document | deliveries, agreements |
| Routes, guards, UI kit, schema, scripts, mocks | none of their own | — | section 6 |

What is hard, and where it bites, is listed line by line in `PROJECT.json`
("hazards"). In short:

* **the contract** runs one transaction at a time, but nobody controls their
  order: six paths settle milestones and each keeps the accounting by hand;
  votes, proposals, recipients and consents are stored for later and must be void
  once what they were meant for is over;
* **event synchronisation** has no lock, reads its checkpoint once per run, may
  stop between any two awaits, and copies a chain that reorganises under it;
* **the services** read rows, await something slow, and write, while event
  synchronisation writes the same rows from the chain;
* **the pages** decide from reads that are old by the time the wallet signs, wait
  for answers that may be lost, and let their user click again.

What makes each part correct:

* roles: role pairs stay separate, the threshold is attainable, an action
  executes exactly at its quorum, no vote outlives its configuration;
* recipients: money goes to the party or where the party itself agreed;
* lifecycle: settled milestones form a prefix, the books follow the milestones,
  delivered work stays funded and is not taken back, liabilities are covered, and
  funds nobody decides about get out;
* synchronisation: the ledger is a prefix of the confirmed events, the checkpoint
  does not run ahead, projections follow the ledger, orphaned rows go, confirmed
  events arrive;
* rows: nothing is ahead of the chain, everything mirrors it at rest, what is
  settled stays so and is shown in the end;
* services: one freelancer, one login per nonce, one escrow per row;
* pages: they send what was chosen, show what happened, undo nothing, offer what
  the contract accepts, and answer every click.

## 2. Modules

### The contract

| Module | Models |
|---|---|
| `Addresses` | who holds tokens; the zero address |
| `ArbitratorMultisig` | roles, threshold, `_confirmArbitratorAction`; `ArbitratorCouncil` is it alone, voting on any subject, with the theorems of that specification |
| `PayoutRecipients` | party-authorised and alternative recipients, consents, the clock |
| `EscrowRegistry` | the whole contract; extends the two above |
| `EscrowProperties` | types, invariants, action properties and exits of the contract |
| `EscrowLifecycle` | the abstract escrow: a project is none, open, completed or cancelled; its milestones are settled in order; money goes in, and out for what is settled |
| `EscrowRefinement` | the mapping under which `EscrowRegistry` implements `EscrowLifecycle`, project by project (`KeepsLifecycle`) |
| `ArbitratorMultisigProofs`, `EscrowProofs`, `EscrowStepProofs`, `EscrowRefinementProofs` | the proofs, section 5 |

### Event synchronisation and the rows

| Module | Models |
|---|---|
| `EventSync` | `syncEscrowEventsOnce` and its runs, the checkpoint, the rewind, the chain |
| `EventSyncProofs` | its proofs, section 5 |
| `ProjectRows` | what one database transaction of a service or of event sync does to the rows of a project; operators only |
| `MilestoneWorkflow` | `EscrowLifecycle` with its events, the rows, event sync and the handlers of five pages, composed |
| `ReadModels` | sums and lists of the project page, dashboards and queue, over that |
| `MilestoneProofs` | the proofs of these three, section 5 |
| `ProjectBinding` | how a row finds its escrow: forms, tabs, binding, import, deposits |
| `RegistryMirror` | `EscrowRegistry` composed with the rows of recipients and emergency proposals |
| `CursorState` | and with the JSON of the checkpoint, as live runs merge it |
| `RoleMirror` | `ArbitratorMultisig` composed with the rows of roles and threshold |
| `TokenGovernance` | reviews and allowlist of a token, its row, and the sync notice |

### Services and pages

| Module | Models |
|---|---|
| `Applications` | marketplace applications, statement by statement |
| `SignIn` | nonces, verifications, users, sessions, onboarding, with row locks |
| `SignInProofs` | its proofs, section 5 |
| `Notifications` | who is told of what; list, badge, mark read |
| `Pinning` | the pinning service: limits, answers, time-out; operators only |
| `ProjectPosting` | form, API and contract's check of a new project; posting it |
| `DeliveryPage` | uploading and registering a delivery, with its retry |
| `FundingDesk` | the funding panel in several tabs of one wallet |
| `RecipientPanel` | `PayoutRecipients` under a freelancer's recipient panel |
| `PanelSessions` | `EscrowRegistry` beside the conditions under which panels offer its transactions, and panels that stay open |
| `DisputeCard` | the five handlers of a dispute card and the phase they share; the scene leaves the fifth out (section 4, `WaitingMeansInFlight`) |
| `GovernanceDesk` | `ArbitratorMultisig` under the role, token and pause panels |
| `ContractWatch` | what the browser believes of roles and pause while answers come late |
| `ProjectLists` | paging and sorting of the two project lists |

`MC_*` modules are the instances for TLC (section 3). Each variable's comment
names its column, field or hook; definitions keep the code's names where they
can, and `PROJECT.json` ("map") gives the lines of each.

`EscrowRegistry` composes `ArbitratorMultisig` and `PayoutRecipients`:
`ResolveDispute` contains a vote of the multisig and, at the quorum, the
settlement; every settlement contains the clearing of recipients. That the
registry draws its quorums only from the multisig is `VotesAreMultisigSteps`, so
what is proved of the multisig holds in it; that too is proved. `MilestoneWorkflow` runs the rows
against the abstract `EscrowLifecycle`, which the contract is checked
(`lifecycle`) and proved (`RegistryImplementsLifecycle`) to implement: that is how the two halves of the project are joined.

### Correspondence: the contract

One action is one transaction, with every call it makes. A revert undoes the
transaction, so the reverting conditions (modifiers, custom errors, checked
subtraction, a refused token transfer) are the action's guards.

* A milestone list is a *plan*: running totals, as `createProject` computes them,
  and deadlines; amounts are differences of running totals.
* An action id is the record of what is hashed; hashing is injective.
  `emergencyReadyAt` is likewise keyed by the record.
* A signed consent is a record put in `signedConsents` when the party signs;
  anyone may present it, any number of times. EIP-712 and EIP-1271 checking is
  membership in that set.
* Tokens move exact amounts and do not call back. The contract is `nonReentrant`
  and `_safeTransferExact` reverts unless balances move by the amount, so a
  fee-taking token only adds reverts; an issuer's block list is kept
  (`SetBlocked`), because it can make one payout fail.
* URIs, getters and error texts are left out. An evidence URI is reduced to
  whether there is one. Events are emitted by the actions where a module
  (`MilestoneWorkflow`, `RegistryMirror`, `RoleMirror`) has somebody read them.

### Correspondence: event synchronisation

A run is a process. Each await of the node or the database ends an action, and
other runs, the chain and failures step in between. `run[r].at` is the program
point; what the function holds in local variables is in `run[r]`.

The per-log transaction is two actions, `LookUpLog` and `StoreLog`: it is an
interactive Prisma transaction at PostgreSQL's default level, READ COMMITTED,
without row locks on the read, so what it looked up may be stale when it writes.
Its writes are one action: each holds its row until the commit and all
transactions write projection, ledger and checkpoint in that order. The rewind
transaction is one action; in the instances it never meets another run.

A chain is a sequence of blocks; a hash is the block's number with the fork that
mined it; a log is identified by its transaction. A reorganisation replaces the
last blocks and may drop, repeat or move transactions, never duplicate one. Of
the projections, `EventSync` keeps the pause state (one cell, overwritten) and
the recipients (one cell per project). What all other events are projected into
is in the modules of the rows. There an event is applied in one step, once and in
order — which is what `sync` shows of the ledger — except in `RoleMirror`, which
splits the application at its reads because two runs may share them.
`RegistryMirror` and `CursorState` go further and apply a transaction's events
with the transaction: a state there is what the database says once it is synced.
What a rewind makes of the same events is not that: their numbers are strings by then,
which `asBigInt` reads as 0, so that a rewound state files every entry under project 0
and milestone 0, with no time. `EventSync` has that loss as `StoredKey`. In a live run
the same function loses every small number, which arrives as a JavaScript number and
not as a bigint: `KindAsRead` in `ProjectRows` is what it makes of a decision's kind
(the kind column of an emergency proposal's row, always 0 too, is left out).

### Correspondence: services and pages

* A service takes one action per statement that can see another one's writes, and
  one for a transaction that cannot; rows written in a transaction stay locked
  until it ends where somebody waits for them (`Applications`, `SignIn`).
* A handler of a page takes one action per await: a read, a signature, a receipt,
  an answer. Closures keep what they captured; React state is what was last set.
* A request may be answered and its answer lost; where the code has a time-out or
  an abort it is an action. A receipt says nothing of success unless the code
  reads its status.
* `MilestoneWorkflow` leaves pause, clock and recipients to the other modules.
  `ReadModels` are operators over the rows and the applied prefix of the events.
* `PanelSessions` takes rows to be current, the browser's clock to be the block's
  and the reads of one snapshot to be of one block; `GovernanceDesk` is where
  reads of different blocks are combined.
* `DisputeCard` abstracts the contract to its dispute and one proposal.
  `FundingDesk` has one token; `RecipientPanel` the freelancer's panel, with rows,
  pages and transactions together less late than the contract's 48-hour delay.
* `ProjectPosting` and `DeliveryPage` are one visit of their page; titles and
  descriptions are left out. `Notifications` orders by creation and leaves texts
  out. `ProjectLists` has distinct timestamps and no text filter.
* Sizes, amounts and dates are small numbers around each limit the code checks:
  one below, one at, one above.

## 3. What is checked

A run asks one group of related questions, mostly in *scenes*. An `MC_*` module
of scenes holds several instances of the modules above, each with its own bounds,
and a variable `scene`, chosen in the initial state and never changed; in a scene
one instance moves and the variables of the others stay. The properties of such a
run are conjunctions "in this scene, these properties of this instance", so that
a question costs only the states of the instance that can answer it. What a
theorem states is checked in the component's own words and variables: those of
`EventSync` (*given*, *deep*), `MilestoneWorkflow` and `ReadModels` (*calls*), `SignIn`
(*sign-in*) and `ArbitratorCouncil` (*council*), under the constants of the `.cfg`;
the other scenes of these runs move a second set of variables, or the same under
constants of their own. A single scene can be run by giving `Scenes` one element in the `.cfg`.

| Run | Scene | Instance |
|---|---|---|
| `lifecycle` | | one project, two milestones worth 2 and 1, partial deposits, clock to 5: past every timeout and timelock; the freelancer may name another recipient once for the project, and tokens stay as they are on the list once the project exists |
| `registry` | council | two arbitrators who come and go, an invalid split among the resolutions |
| | proposing | alternative recipients: another address, none, the other party's; replaced, executed, stale |
| | consenting | consents signed for a milestone and for the project, presented in any order beside direct calls |
| | sharing | two projects of one token in opposite directions, stray transfers, a sweep, a block list |
| | exit | a dispute that nobody but the client wants to end |
| | paying | a freelancer the token's issuer may block, and the recipient it names or two arbitrators give it |
| `beside` | recipients, consents | the rows and the JSON of the checkpoint beside the registry's disputes, in live runs |
| | offering, card, sessions | what panels offer, and panels that stay open while the project moves on |
| | deep | the sync runs of the `.cfg`, one at a time; two reorganisations of up to three blocks between runs, one failure |
| `sync` | given | two runs, four blocks of up to two events, batches of two, one reorganisation within the confirmations, one failure |
| | unstorable | with constants of its own: an event no column can hold |
| `milestones` | calls | every call without a page, rows written by event sync alone; the constants of the `.cfg` |
| | reviewing, funding, correcting, disputing | with variables of its own: pages that report what they did, closed half way in *funding* and *disputing*; in *correcting*, approvals and decisions reported late beside everything else |
| | replaying, redepositing | with these too: transactions orphaned and mined again |
| `services` | marketplace | one deciding client, two freelancers who apply and withdraw |
| | sign-in, answering | two browsers of one new wallet, with requests cut off and, with variables of its own, without |
| | binding, tabs | escrows made outside or in a tab that was closed; two tabs at once |
| | governing | a token, its row, a panel waiting for event sync |
| | council | three accounts that may be arbitrators, one of them and the admin in any role; any votes and changes up to the bound |
| | mirroring, rewinding | roles granted and revoked while runs crash; rebuilt after a reorganisation |
| | switching, pausing | the browser's reads while accounts switch or the pause changes |
| `pages` | direct, marketplace | posting a project, files on both sides of every limit |
| | delivery | uploading and registering, wrong network, lost answers |
| | bell | a list of one row, two clicks, a switch of account |
| | roles desk, token desk, check | an administrator's panels while another acts |
| | one tab, two tabs | deposits while the wallet spends elsewhere, or in two tabs |
| | executing, consenting | a recipient panel while arbitrators propose again or strangers relay |
| | walk, few | paging through three rows; as many rows as fit |
| | card | four of the dispute card's five handlers |
| `answers` | seven of the above | does every click come to an end? |
| `sync_race`, `sync_midrun`, `sync_replay_keys` | given | three disagreements of event sync with its promises (section 4) |
| `milestones_refund` | calls | a fourth: what a refund is shown as |

What the joined properties conjoin is written out in the `MC_*` modules; each
conjunct is a definition with its own comment in its component.

* `ApprovalsServeOnce`: executed actions are spent, alternatives live in their
  dispute and wait out their delay, every nonce used was signed. `lifecycle`
  checks it where timelocks matter; `PromisesAreKept` of the run `registry`
  asks it of the scenes in which votes, proposals and consents meet, with
  `TokensCoverLiabilities` for *sharing*, and of every step there that a vote is
  the multisig's (`VotesAreMultisigSteps`) and money goes to whom its party chose
  (`OnlyConsentedRecipientsArePaid`).
* `FundsGetOut`: unless the registry stays paused for ever, the client's deposit
  leaves a dispute on work never delivered, and approved work is paid, or
  disputed, although the token refuses its freelancer.
* `KeepsLifecycle`: every step of the contract is a step of `EscrowLifecycle`, or
  none, in every project (`EscrowRefinement` gives the mapping).
* `LedgerIsPrefix`, `CheckpointNeverAhead`, `ProjectionsFollowLedger`,
  `LedgerCatchesUp`, `OrphansAreRemoved`: the ledger holds the confirmed events up
  to some point and the checkpoint is not past it; in *deep*, orphaned rows are
  found, and pause state and cursor state are what the ledger says; what stays
  confirmed arrives, and what was orphaned goes.
* `NothingIsAhead`, `ShownAsOnChain`, `SettledRowsStay`, `SettlementIsShown`: rows
  claim no payout, decision or deposit the registry does not know; at rest they,
  the sums and the lists are what it says; what is final comes to be shown, and a row
  that event sync has settled is taken back by nothing older or later. What is said of
  decisions is that there was one: a refund or a split is shown as a payout to the
  freelancer (`milestones_refund`, section 4), so `ShownAsOnChain` and
  `SettlementIsShown` expect that, and `ResolvedMeansDecided` takes a dispute's row as
  the service writes it or as event sync does. `ReportsAreTrue` asks, of the scenes in which pages report or transactions
  are orphaned, what still holds there.
* `MirrorsFollowDisputes`, `OffersMatchRegistry`: rows and live JSON of recipients and
  proposals; what panels offer is what the registry accepts, and a cancellation
  does what its panel lists (`CancelDoesAsListed`).
* `ProjectsAreTheirParties`, `LoginsAreSound`, `MirrorsFollowGovernance`,
  `WaitsEnd`: one freelancer and escrow per row; one session per nonce; mirrored
  roles, threshold, token, pause; and requests, notices and banners come to rest.
* `SentAsChosen`, `ShownIsTrue`, `NothingIsUndone`, `EveryClickIsAnswered`: what
  pages send, say, undo and answer.

Each module also states its types (`TypeOK`); the run `lifecycle` checks those of the
contract, multisig included, which the proofs rest on. Every checked property is paired with mutated definitions,
kept beside the original and named after it (`VoteOnDispute_AnyTime`,
`StaleDisputes_Skipped`, ...): plausible mistakes in the code that it detects,
one at least for each scene's part of it.

### Why the bounds are enough

In the contract all conditions compare one project's amounts, one milestone with
its predecessors, or the clock with one deadline: two milestones give "first",
"last" and "next"; two projects give "mine" and "another's"; unequal amounts tell
milestones apart; the clock passes every deadline with time left to act after it.
Counters (configuration nonce, proposals, signed consents) are bounded just above
the number at which the first stale object could be used. In synchronisation two
runs are the least that overlap, a block of two events is the least with a cursor
inside it, four blocks with batches of two give a batch that ends inside the
chain, and rewind depth and confirmations of one are the least at which both
matter. In services and pages a race needs two requests, two tabs or two clicks;
one more is allowed where a retry follows. The proofs of section 5 remove the
bounds for the invariants they cover.

With confirmations C and rewind depth D, a quiet reorganisation (no run in
progress) of up to C + D + 1 blocks leaves only rows that the checkpoint's hash
reveals and the rewind reaches. The scene *deep* checks that depth (3 for
C = D = 1) and `SyncProjections` proves it for every C and D;
with one more block TLC finds an orphaned row below the rewind point, which stays
for good. At the defaults (2 and 50) the tolerance is 53 blocks.

### Fairness

* *Contract.* Nobody is obliged to call it, so most scenes check safety only.
  `FundsGetOut` assumes that time passes, that the client, who wants its deposit
  back, does try (strongly fair, because pausing interrupts), and that the
  freelancer names another recipient when the token refuses it; and it promises
  nothing under an endless pause.
* *Event synchronisation.* Weak fairness of triggering (the scheduler of
  `docs/event-sync.md` keeps calling) and of each run's steps (an await ends in a
  result or a failure). Failures and blocks are bounded: a run that fails for ever
  delivers nothing, and an event is only asked to arrive if it stays confirmed.
* *Rows.* Weak fairness of event sync, and of handlers that have started in a
  page that is not left.
* *Services.* The server goes on with what it has accepted, the browser polls,
  blocks are mined. The pause read is strongly fair: requests may be lost, not all
  of them. *answering* has no cut-off requests: a request that was cut off is not
  answered. Of several requests of one kind, which are alike, one is asked about.
* *Pages.* Each component's own `Fairness`: the steps of a handler that waits,
  including its time-outs. Nothing obliges the user to click or to sign, only to
  answer the wallet's question one way or the other.

`CHECK_DEADLOCK FALSE` stands where a bounded instance comes to an end: all
milestones settled, all clicks made, the clock at its bound.

## 4. Disagreements found

Four are runs that end in a violation:

* **Overlapping runs can put an old pause state back** (`sync_race`). Two runs
  look up the same log and find it missing. One stores it and the next log; the
  other then stores the first again. The ledger is right, so no later run repairs
  the projection. `docs/event-sync.md` line 87 relies on the unique key for
  "replay-safe idempotency".
* **A reorganisation during a run can hide an orphaned row** (`sync_midrun`).
  The checkpoint is verified before `getLogs` and not after. The next log is
  stored with the new block's hash, which then matches for ever.
  `docs/event-sync.md` line 131: "This guarantees reorg-safe replay and
  consistent projections."
* **A rewind files recipients under project 0** (`sync_replay_keys`). Payloads
  hold numbers as strings; `asBigInt` reads a string as `0n`. The rebuild is not
  "deterministic from chain events" (`event-sync-service.ts`, line 456). The JSON of
  the checkpoint is rebuilt by the same reading: entries of recipients and emergency
  decisions end up under the key `0:0`, every set recipient counts as chosen by its
  party (`executableAfter` 0), and `readyAt` is 0.
* **A refund is shown as a payout** (`milestones_refund`). `DisputeResolved` carries
  its kind as a `uint8`, which viem decodes to a number; event sync reads it as
  `Number(asBigInt(...))` (`event-sync-service.ts`, line 1159), and `asBigInt` makes
  `0n` of whatever is not a bigint. So each decision is applied as a payment: after a
  refund the milestone says RELEASED and the dispute RESOLVED_FREELANCER_FAVOR, also
  where the service had recorded the refund before. The integration test hides it, for
  it passes `resolutionKind: 1n` (`event-sync-service.reorg.integration.test.ts`,
  line 118); `docs/smart-contract-design.md` line 98 has Refunded for "funds returned
  to client".

The others were met while modelling. The runs of `PROJECT.json` keep to instances
where they do not occur, so that everything else can be asked; the properties are
in the modules, and TLC finds each violated by the module itself under the
constants of the last column.

| Module | Property | Line | Text and behaviour | Instance |
|---|---|---|---|---|
| `Applications` | `OneAccepted` | `project-application-service.ts:203` | “Freelancers can apply until you accept one”; two accepting requests accept two applications | two `ClientRequests` |
|  | `OnlyPendingIsDecided` | `:289` | “Only pending applications can be declined”; the status is read in one statement and written in another | scene *marketplace* |
|  | `DeclinedAreTold` | `:217` | “One in-app notification per declined freelancer”; one that applies between the two statements is declined untold | same |
| `SignIn` | `OnboardedOnce` | `user-service.ts:63` | “Onboarding has already been completed”; two forms with different roles both pass; once for each role is what holds | both `OnboardingRoles` |
| `MilestoneWorkflow` | `CompletionArrives` | `milestone-review-service.ts:177` | a project is COMPLETED when all is released; the review service may write ACTIVE over it | one milestone, page *approve*, `FairSpec` |
|  | `SettledStays` | `event-sync-service.ts:1018` | RELEASED is terminal; a late approval event takes it back | same |
|  | `NothingPaidAhead` | `milestone-approval-panel.tsx:207` | RELEASED means payout confirmed; the receipt's status is not read | and disputes raised directly |
|  | `SettledRowsStay` | `funding-service.ts:82` | a report of a deposit, delivery or dispute that comes after event sync has settled the row takes it back | all calls, page *fund*, *submit* or *dispute* |
|  | `OneOpenDispute` | `dispute-service.ts:223` | “already has an active dispute”; event sync opens one during the upload | page *dispute* |
|  | `ResolvedMeansDecided` | `admin/disputes/page.tsx:512` | “Dispute resolved and synced”; it may have been one vote of two | page *admin*, `Threshold` 2 |
|  | `ProjectMirrorsChain` | `funding-service.ts:86` | “synced in app state”; a late report makes a disputed project ACTIVE | two milestones, page *fund* |
|  | `MilestonesMirrorChain` | `event-sync-service.ts:447` | “consistent projections”; a rewind leaves milestone rows as orphaned events made them | `MayReorg`, no decisions |
|  | `DisputesLeaveTheQueue` | `event-sync-service.ts:1220` | “synced in app state”; a cancellation leaves dispute rows open | all calls, `FairSpec` |
|  | `StoredDeliveryArrives` | `submit/page.tsx:239` | “use Retry on-chain submit”; once the page is left nothing can retry | page *submit*, `MayLeave`, `RetrySpec` |
|  | `ApprovedIsPaid` | `milestone-approval-panel.tsx:135` | “retry approval”; the retry demands Submitted and the milestone is Approved | page *approve*, `MayLeave`, `RetrySpec` |
| `ProjectBinding` | `ActiveMeansFunded` | `project-service.ts:329` | “already has an on-chain project id”; the later of two tabs replaces a funded binding | scene *tabs* |
|  | `BoundOnce` | `event-sync-service.ts:695` | “then bind it to this app project”; an escrow synced before its binding gets two rows | one tab, one escrow |
|  | `FundedRowIsActive` | `event-sync-service.ts:731` | ACTIVE means funded; the deposit goes to the first of the two rows | and `MayLeave` |
|  | `OpenMeansListed` | `event-sync-service.ts:675` | “visible to freelancers”; a typed id makes the row PRIVATE and leaves it OPEN | `TypedIds` {0, 1} |
| `TokenGovernance` | `CaughtUp` | `event-sync-service.ts:263` | “Indexer caught up”; the checkpoint names the block with its first log | `CONFIRMATIONS` 2, `MaxHead` 7 |
|  | `BehindMeansBehind` | `sync/status/route.ts:59` | “Indexer is behind”; it is compared with the latest block, not the confirmed one | same |
|  | `LatenessIsTold` | `use-sync-reconciliation.ts:39` | “Sync is taking longer”; no effect runs when nothing changes | `BrowserSpec` |
|  | `RefreshFollows` | `use-sync-reconciliation.ts:33` | “Refreshing UI state”; the row was read before event sync | `FairSpec` |
| `RegistryMirror` | `PendingShown` | `event-sync-service.ts:1543` | a party's own choice clears the pending proposal's row | scene *consents* |
|  | `ActiveShown` | `:1545` | “not active until executed”; a new proposal clears the executed one's row | *recipients*, `MaxProposals` 2 |
|  | `LegShown` | `alternative-recipient-state/route.ts:12` | “Client recipient controls”; any text coerces to true | *recipients* |
|  | `ExecutedIsExecuted` | `event-sync-service.ts:1413` | the nonce's advance, emitted first, leaves nothing to mark executed | *recipients* |
|  | `LiveProposalShown` | `admin-dispute-service.ts:564` | “Indexed proposal”; the row updated last may be a cancelled one | *recipients* |
| `ReadModels` | `ReleasedShown` | `project-service.ts:778` | the amount is looked for beside `args`, not in it: the sum is 0 | scene *calls* |
|  | `HeldIsReported` | `dashboard-service.ts:139` | “custody” is summed from agreed values by status | same |
|  | `ResolutionShown` | `admin-dispute-service.ts:548` | the route's test expects a resolution; the query finds none | same |
| `RoleMirror` | `ThresholdMirrored` | `event-sync-service.ts:2287` | after a rewind the threshold is 0 | *mirroring*, `Rewinds` 1 |
|  | `CountMirrorsRows` | `:1837` | two runs count one arbitrator twice | *mirroring*, two `Runs` |
| `ContractWatch` | `CheckIsOfSelection` | `role-governance-panel.tsx:447` | the label names the role now selected, the answer the one asked | two roles, `CheckSpec` |
| `PanelSessions` | `EmergencyRunsWhilePaused` | `admin/disputes/page.tsx:642` | “can run while paused”; the only page for it refuses | scene *card* |
|  | `RefundedAsShown` | `cancel-project-panel.tsx:162` | “refunded to client”; the open panel's list is old | scene *sessions* |
|  | `RefusedMeansBlocked` | `emergency-admin-cancel-panel.tsx:165` | it tests the preflight captured before the one it runs | `Panels` {admin}, two milestones |
| `DisputeCard` | `WaitingMeansInFlight` | `admin/disputes/page.tsx:775` | “Waiting confirmation...” after success | `Controls` with *alternative* |
|  | `ReadyIsExecutable` | `:596` | “Ready to execute”, disabled on the page that proposed | scene *card* |
| `ProjectPosting` | `FailureMeansNothingStored` | `create-project-form.tsx:228` | “Could not create project”; its answer was lost | scene *direct* |
|  | `AgreementIsKept` | `lib/ipfs/env.ts:39` | the text “false” turns the fallback on | `FallbackSetting` "false" |
| `DeliveryPage` | `SuccessMeansRegistered` | `submit/page.tsx:155` | “records this milestone as submitted”; the receipt's status is not read | scene *delivery* |
| `GovernanceDesk` | `SaidIsDone` | `role-governance-panel.tsx:214` | “Granted”; as above | scene *roles desk* |
|  | `TokenNotDenied` | `token-governance-panel.tsx:157` | “update failed”; only the read after it did | scene *token desk* |
|  | `WarningIsTrue` | `role-governance-panel.tsx:149` | four reads of different blocks | scene *check* |
|  | `ConfirmedForSelected` | `:375` | the typed phrase confirms another role | scene *roles desk* |
| `FundingDesk` | `SuccessMeansDeposited` | `project-funding-panel.tsx:327` | “Funding confirmed”; a reverted deposit | one tab, `Leftovers` {1} |
|  | `FullStaysActive` | `funding-service.ts:82` | reports in the wrong order | two tabs, `Total` 2, balance 3 |
|  | `ApprovedOnce` | `project-funding-panel.tsx:282` | “Approve once”; the allowance is not read again | scene *one tab* |
| `RecipientPanel` | `SuccessMeansExecuted` | `alternative-recipient-panel.tsx:178` | “executed successfully”; a reverted transaction | scene *executing* |
| `CursorState` | `CursorIsCleared` | `event-sync-service.ts:856` | “Contract clears alternative recipient legs”; a live run does not | scene *recipients* |
| `ProjectLists` | `NothingMissed` | `project-service.ts:512` | a cursor into a list sorted by update time | `SortKeys` {updatedAt}, `MaxClock` 4 |
|  | `HighestFirst` | `:643` | “Highest amount” of the rows updated last | three projects, `Take` 2 |
|  | `NextDueIsAhead` | `:864` | “Next deadline” may be a released milestone's | scene *walk* |
| `EventSync` | `ConfirmedEventsArrive` | `event-sync-service.ts:1523` | a project-wide index fits no column: every later run fails | scene *unstorable*, one run, `FairSpec` |

Two limits of the design contradict no text: a payout to two recipients reverts if
the token refuses one of them, and a delivered milestone in dispute has no timeout.

## 5. What is proved

Every theorem is checked by TLAPS to the last leaf, for every value of the
constants that the assumptions allow; `PROJECT.json` ("theorems") lists those a
reader should know. The table says which checked property is proved where.

| Module | Proves |
|---|---|
| `ArbitratorMultisigProofs`, `ArbitratorCouncil` | `CouncilTypeOK`, `RoleSeparation`, `ThresholdAttainable`, `LiveVotesAreOfArbitrators`, `QuorumExactlyWhenExecuted`, `VotesOnlyForTheLiveConfiguration` |
| `EscrowProofs` | `TypeOK`, `OneMilestoneInFlight`, `ReservationsMatchDisputes`, `DeliveredWorkStaysFunded`, `BooksFollowMilestones`, and exact quorums inside the registry |
| `EscrowStepProofs` | `ProposalsDieWithTheirDispute`, `ApprovalsServeOnce` |
| `EscrowRefinementProofs` | `KeepsLifecycle`; the registry implements `EscrowLifecycle` for each project; `TokensCoverLiabilities`, `VotesAreMultisigSteps`, `VotesOnlyForTheLiveConfiguration` inside the registry, `DeliveredWorkIsNotTakenBack`, `PauseLeavesOnlyEmergencyPaths`, `OnlyConsentedRecipientsArePaid` |
| `EventSyncProofs` | `LedgerIsPrefix`, `CheckpointNeverAhead`, `ProjectionsFollowLedger`; where nothing rewinds, `RecipientsFollowLedger` |
| `MilestoneProofs` | `NothingIsAhead`, `ShownAsOnChain`, `SettledRowsStay`; of their conjuncts, `FundedMeansDeposited` and `FundedShown` under weaker hypotheses |
| `SignInProofs` | `LoginsAreSound` |

So what the scene *council* of `services` asks, and every property of the run
`lifecycle`, is a theorem (of `Spec`, for `lifecycle`, which `LifeSpec` only
restricts), and the conjuncts of `PromisesAreKept` are theorems of
each registry that run instantiates.

### The multisig

`MultisigInv` = types, separation of roles, attainable threshold, exact quorums,
live votes of arbitrators only, and *no vote from the future*. The last conjunct
is the strengthening: a vote carries the configuration nonce it was cast under,
and only because none carries a nonce still to come does a configuration change
void all of them. Each role operation is reduced to its effect (`RoleEffect`):
threshold attainable, separation kept, and a new nonce whenever the arbitrator
set or the threshold changes.

### The books

`RegistryInv` = types, `MultisigInv`, and every project `Sound`: its milestones
are *in order*; an open project has *open books* (what it has paid is the running
total of its settled milestones, at most the dispute on the next one is reserved,
and what is delivered or disputed is funded); a closed one has *closed books*.

None of the checked invariants is inductive alone. That a release keeps the books
needs that it pays the next milestone, which is the order; that the order is kept
needs that only the next milestone can be delivered, also through a dispute; that
a checked subtraction cannot fail needs the funding of delivered work; and
cancellation, which settles several milestones at once, needs all of them.
`EscrowProofs` first states them on the values of one project, with lemmas that
say what a change of those values does, and then has one lemma per transaction.

### Approvals

`ApprovalsInv` = `RegistryInv` and, of what is stored for later:

* *disputes are dated*: an open one is on a milestone that exists, raised in the
  past;
* *disputed once*: a milestone whose dispute has ended is settled and its
  emergency nonce is 1. This is what makes a single nonce enough;
* *proposals are bound*: no emergency proposal is ahead of its milestone's nonce,
  and one that carries the nonce in force belongs to the open dispute and waits
  out the delay counted from the day it was raised;
* *actions are spent*: an executed action has a nonce that has passed, on a
  milestone of an existing project, settled if the action decided a dispute;
* alternatives live in their dispute, and used consents were signed.

The action ids of the contract hash the milestone with a nonce, so each conjunct
compares a stored nonce with the current one; inductive they are only together.
So that the proof is about effects, and not about every transaction and every
conjunct, `EscrowStepProofs` first shows that every step leaves, raises or ends
the dispute of any one milestone (`DisputeStep`), keeps, clears or moves an
alternative within its dispute (`AlternativeStep`), and spends at most the action it executes
(`ActionStep`); the invariant is then preserved by these.

### The abstract escrow

`EscrowRefinementProofs` classifies what a transaction does to the books of one
project: it *rests*, or it is *agreed*, *funded*, *handed on*, *contested*,
*settled* or *called off*. `EveryBookStep` shows that every step of the registry
leaves all projects at rest, creates one, or moves exactly one and the token's
liabilities with it. Each class is a step of `EscrowLifecycle` under the mapping
of `EscrowRefinement`; `RegistryKeepsLifecycle` and `RegistryImplementsLifecycle`
put the initial states and the steps together. One more invariant is needed,
`TermsOK`: a milestone has a price (an unpaid "settlement" would not be visible in
the running totals) and a project not yet created is blank.

### Promises

* *Solvency.* `TokensCoverLiabilities` compares a number the contract keeps with a
  sum over projects. The library's induction over finite sets takes an operator
  as a parameter, which no installed prover instantiates; what is needed of sums
  (that they are defined, do not depend on the order, change with one summand) is
  proved by looking at a smallest set for which it fails. The step is `BookStep`:
  what one project's liquidity changes by, its token's liability and balance do
  too; a sweep leaves what is owed.
* *Votes.* A new vote is the multisig's, for the current configuration, on an open
  dispute: `VoteSteps` over all transactions.
* *Delivered work.* Only a decision (the arbitrators' quorum or a matured
  emergency proposal) refunds it: timeouts and cancellations require that the
  milestone is pending, and cancellation settles nothing that is delivered.
* *Pause.* While paused, projects change only by a matured emergency proposal or
  by the cancellation of one with nothing in flight; nothing is voted, funded,
  delivered or newly disputed.
* *Payments.* Whoever receives a project's tokens is the party the money is due
  to, was named by that party, or was put in its place by an executed proposal of
  the arbitrators, which by `ApprovalsServeOnce` lives only in the dispute it was
  made in.

### Event synchronisation

Under `Shallow`, no reorganisation deeper than the confirmations, `SyncInv` holds
for any chain, any number of runs that overlap and fail anywhere, any batch size
and start block:

* the ledger is a prefix of the confirmed logs, and everything up to the
  checkpoint's cursor is in it;
* for each run, what it has read stays true although it is old: its safe head is
  confirmed still; up to the checkpoint it saw, nothing is missing; every log of
  its batch is confirmed, carries the hash of its block and has all its
  predecessors in the ledger or in the batch; a block it is about to advance to is
  read completely; and no run rewinds.

The invariant is parameterised by chain and ledger. Two facts do the work: if the
new chain extends the old one's confirmed part and the new ledger contains the old
one, then each clause survives (so an action of one run keeps what all others
know); and the action that stores a log stores the first one of its batch, which
is why a prefix stays one although another run has stored it, or later ones, in
between.

`Shallow` is the hypothesis the confirmations are there for; the scenes of the run
`sync` satisfy it, and the defaults (2 confirmations) ask it of the chain in use.
Without it rows may be orphaned, and then overlapping runs and reorganisations in the
middle of one do what section 4 tells. What holds without it is proved under two
other hypotheses: `OneRun`, no two runs overlap, and `Tolerated`, a reorganisation
comes between runs and replaces at most C + D + 1 blocks. `OneRunInv` then says:

* rows lie in confirmed places, at most one in each, none past the cursor;
* a row of a block that is gone is *given away*: the checkpoint's hash is no longer
  that of its block, and the row is not below the point a rewind goes back to. A
  checkpoint without a hash, which a rewind leaves, gives nothing away; but then every
  row left is deeper than any reorganisation to come;
* the pause state is that of the last pause event of the ledger, and the checkpoint's
  cursorState is the projection;
* what the run holds is what is in the database; once it has verified or rewound, no
  row is orphaned, and what it fetches comes after every row, so each log it stores is
  new and the last.

The second clause is the strengthening: `OrphansAreRewound` is asked between runs,
and survives a second reorganisation only because of what it says of the rows the
first left. The depth C + D + 1 is used in it exactly: with one block more, a row just
below the rewind point can be orphaned. Under `Shallow` as well no run rewinds, and
the table of recipients follows the ledger too (`SyncRecipients`): it is the rewind
alone that files recipients wrongly.

### The rows

`MilestoneProofs` is about a project whose transactions, event sync and pages step
in any order, for any number of milestones, deposits and arbitrators. Each question
has an invariant and hypotheses of its own.

*What is funded.* `BaseInv`: the chain keeps its books; every event it has emitted
still says something true; the total that the funding panel has read, and is about
to report, is no more than the total now. So no row invites work for money that is
not there. This needs only that no transaction is orphaned (an orphaned deposit
leaves its row): any page may be open, late, or closed half way.

*What is decided.* `AheadInv` adds what each open form relies on since it looked at
the chain: a release is of work approved and not in dispute, or settled since; a
decision about to be reported is in the log of events. A resolved dispute's row then
says of a decision in that log the kind that was reported, or what event sync reads
(always the freelancer's, section 4). It survives other actors
only under `PagesActAlone`: no dispute is raised beside the approval panel, and
beside the dispute queue nobody else raises or decides disputes, and one vote is
enough. Each part is needed. TLC finds `NothingIsAhead` violated by the module
without it (approvals beside the dispute panel or a direct `raiseDispute`; the queue
with two votes, or beside a direct `resolveDispute`, `emergencyResolveDispute`, or
`raiseDispute` on work not delivered): these are pages that do not read what the
transaction they waited for did, the lines `NothingPaidAhead` and
`ResolvedMeansDecided` of section 4. A cancellation beside any page needs no such
exclusion: it leaves alone what these pages are waiting for, approved work and
delivered work in dispute.

*What is shown.* `ReplayInv`: the rows are what the first `applied` events come to,
one write after the other, and what *all* events come to mirrors what is shown of the
chain: the registry's state with every decided milestone counted as paid out
(`OutcomeShown`), because event sync reads every decision so. Said so,
it is inductive: a transaction extends the replay at its end, where rows and chain
agree, and event sync moves the rows one place along it. Each kind of event has a
lemma of what its write makes of rows that mirror the chain before it (`MirrorsFunded`
and its neighbours). The hypotheses, that no page is open and nothing is orphaned,
are those of the scene *calls*; with pages the clauses fail one by one as section 4
tells, and `ReportsAreTrue` says which remain in which scene. `ShownAsOnChain` asks of
a milestone in dispute to be DISPUTED whatever its work is: the two guards of
`MirrorOf` overlapped until the proof asked which one was meant.

*What is settled.* Once event sync has applied the event that settles a milestone, its
row stays settled (`SettledRowsAreFinal`), with the approval panel and the dispute queue
open beside any calls, and only if nothing is orphaned. Nobody locks or looks at the
row. The argument is about the log: `WorkEnds`, no delivery, approval or dispute of a
milestone follows its settlement, so what event sync applies after it leaves the row
settled, and what these two pages write late settles it as well. The reports of the
funding, delivery and dispute panels do take such a row back; the theorem leaves them
closed, and section 4 has what TLC finds with each.

*The amount.* The funded sum of the pages is a maximum over the ledger, so
`FundedShown` needs nothing of rows or pages, and holds through reorganisations:
`TotalsInv` says that the log's last total is the chain's, also of the log an orphaned
transaction would leave.

### Sign-in

`SignInInv` says what each request under way may count on: the message it carries
was sent, and its nonce was issued to the one device whose wallet signed it; a
transaction that found its nonce unused holds that row's lock, and one that found no
user holds the lock of the user it is about to insert, so that what was read is still
true when it is written; a login that has committed has spent its nonce and no
session has been signed for it yet. From that, one session per nonce and one welcome
per wallet follow for any number of browsers, wallets and deliveries of a message,
with requests cut off anywhere. Onboarding reads the role without a lock, so that an
account may be onboarded once for each role: `OnboardedOncePerRole` is what holds and
is proved, as part of `LoginsAreSound`.

### Assumptions

All are on constants and evaluated by the runs. Contract: accounts are finite, the
registry and the zero address are not among them, the deployer is; role changes range
over roles and accounts; plans have running totals that start at zero and do not
decrease; inputs have their types; delays, bounds and `MAX_UINT256` are natural
numbers, and there is at least one milestone index. Synchronisation: start block and
batch size are positive, confirmations, depths and bounds are natural numbers, blocks
hold transactions, null is not a checkpoint. Rows: the escrow's agreement is the plan
the row was created with, milestones have a price, deposits are numbers, there are
enough arbitrators for the threshold. Sign-in: wallets, nonces, browsers and requests
are different things. The theorems of event synchronisation have `Shallow`, or
`OneRun` and `Tolerated`, as their hypotheses and those of the rows the ones named
above, spelled out in each statement.

### What is only model-checked

* Liveness under fairness and ENABLED, which these provers do not handle:
  `FundsGetOut`, `LedgerCatchesUp`, `OrphansAreRemoved`, `SettlementIsShown`, `WaitsEnd`,
  `EveryClickIsAnswered`, and `OffersMatchRegistry`, which asks whether the
  registry's transaction is enabled.
* What the recursive sums of dashboards and lists compute for every input.
* What pages report late (`ReportsAreTrue`), because it fails in states the code can
  reach (section 4) and holds only in the scenes named there.
* The other mirrors (`MirrorsFollowDisputes`, `MirrorsFollowGovernance`),
  `ProjectsAreTheirParties`, and what pages send and say (`SentAsChosen`,
  `ShownIsTrue`, `NothingIsUndone`): each is a conjunction over several components
  and depends on how many requests, proposals or clicks its scene allows (section 4
  names what fails with more).
* `PromisesAreKept` as one formula over its scenes; its conjuncts are proved.

## 6. What is not modelled

* Two runs that rewind at the same time.
* The generic wrapper and guards of the routes (session, role and origin checks
  before a service is called), the UI kit, the schema's types and indexes other
  than the unique keys the services rely on, layout and wording.
* Deployment and operations scripts, the seed, generated ABIs, and the mocks of
  the contracts package other than the token's block list.
* Gas, bytecode, key management, the honesty of the node.
* Titles, descriptions and text filters of lists.

## 7. Plan

The model is complete and its core is proved. What would be worth proving next:

1. `Applications`: one freelancer per project, for one deciding client and any number
   of freelancers who apply and withdraw.
2. `RegistryMirror` and `RoleMirror`: the rows that live dispute events and role events
   leave, with the argument of `ReplayInv`.

## 8. Running

    tlc -workers 2 -config MC_Escrow.cfg MC_Escrow
    tlc -workers 2 -config MC_PagesAnswers.cfg MC_Pages
    tlapm EscrowProofs.tla

`PROJECT.json` lists every run with its properties, the mutants, the source lines
of every definition, the hazards and the theorems.
