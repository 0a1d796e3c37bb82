----------------------------- MODULE MC_Escrow -----------------------------
(* The life of one project of two milestones, for TLC. *)
EXTENDS EscrowProperties, EscrowRefinement

CONSTANTS admin, arb, client, freelancer, usdc

(* Milestones worth 2 and 1, due at 1 and 2. *)
TwoMilestones ==
  [milestoneCount |-> 2, runningTotal |-> [k \in 0..2 |-> IF k < 2 THEN 2 * k ELSE 3],
   deadline |-> [i \in 0..1 |-> i + 1]]

LifeAccounts    == {admin, arb, client, freelancer}
LifePlans       == {TwoMilestones}
OneArbiter      == {<<ARBITRATOR_ROLE, arb>>}
OnePair         == {<<client, freelancer>>}
LifeResolutions ==
  {[kind |-> "ReleaseToFreelancer", freelancerAmount |-> 2, clientAmount |-> 0],
   [kind |-> "RefundToClient", freelancerAmount |-> 0, clientAmount |-> 2],
   [kind |-> "RefundToClient", freelancerAmount |-> 0, clientAmount |-> 1]}
NoChoices       == {}
(* The freelancer may have all of it paid to another account. *)
LifeChoices     == {<<2, "freelancer", admin>>}

(* The allowed tokens matter to createProject only, and there is one        *)
(* project: once it exists, tokens are not taken off the list or put back.  *)
LifeNext == Next /\ (projectCount > 0 => UNCHANGED allowedTokens)
LifeSpec == Init /\ [][LifeNext]_vars
=============================================================================
