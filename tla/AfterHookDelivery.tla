------------------------- MODULE AfterHookDelivery -------------------------
(***************************************************************************)
(* What the after-hook outbox promises, without saying how: every          *)
(* obligation to run an after-hook is owed from the moment it is recorded, *)
(* may fire its side effect, and is then either delivered or given up.     *)
(* Only an obligation that is not delivered can be reopened, and one whose *)
(* table definition goes away is withdrawn.  HookOutbox implements this.   *)
(***************************************************************************)
EXTENDS Naturals

CONSTANT Ids                  \* identities of obligations

VARIABLES
  fate,                       \* where each obligation stands
  fired                       \* how often its side effect has completed

vars == <<fate, fired>>

Fates == {"none", "owed", "delivered", "abandoned", "withdrawn"}

TypeOK ==
  /\ fate \in [Ids -> Fates]
  /\ fired \in [Ids -> Nat]

Init ==
  /\ fate = [i \in Ids |-> "none"]
  /\ fired = [i \in Ids |-> 0]

Become(i, from, to) ==
  /\ fate[i] \in from
  /\ fate' = [fate EXCEPT ![i] = to]
  /\ UNCHANGED fired

Owe(i) == Become(i, {"none"}, "owed")

\* The side effect completes; its definition may have been deleted meanwhile.
Fire(i) ==
  /\ fate[i] \in {"owed", "withdrawn"}
  /\ fired' = [fired EXCEPT ![i] = @ + 1]
  /\ UNCHANGED fate

Settle(i) == fired[i] > 0 /\ Become(i, {"owed"}, "delivered")
GiveUp(i) == Become(i, {"owed"}, "abandoned")
Reopen(i) == Become(i, {"abandoned"}, "owed")

Withdraw(S) ==
  /\ \A i \in S : fate[i] # "none"
  /\ fate' = [i \in Ids |-> IF i \in S THEN "withdrawn" ELSE fate[i]]
  /\ UNCHANGED fired

Next ==
  \/ \E i \in Ids : Owe(i) \/ Fire(i) \/ Settle(i) \/ GiveUp(i) \/ Reopen(i)
  \/ \E S \in SUBSET Ids : Withdraw(S)

Spec == Init /\ [][Next]_vars

\* An obligation is not left owed for ever.
EventuallySettled == \A i \in Ids : fate[i] = "owed" ~> fate[i] # "owed"
=============================================================================
