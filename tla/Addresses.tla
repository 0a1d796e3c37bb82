----------------------------- MODULE Addresses -----------------------------
(* The addresses the contract distinguishes.                                *)
EXTENDS Integers, FiniteSets

CONSTANTS
  Accounts,        \* externally owned accounts and contract wallets
  Registry,        \* address(this)
  NoAddress        \* address(0)

ASSUME AddressAssumption ==
  /\ IsFiniteSet(Accounts)
  /\ Registry \notin Accounts /\ NoAddress \notin Accounts /\ NoAddress # Registry

Holders   == Accounts \cup {Registry}      \* who can hold tokens
Addresses == Holders \cup {NoAddress}
=============================================================================
