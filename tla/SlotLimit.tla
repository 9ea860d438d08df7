----------------------------- MODULE SlotLimit -----------------------------
(***************************************************************************)
(* What a slot limiter promises, whatever it is made of: nobody enters     *)
(* while as many hold a slot as the limit allows at that moment.  A limit  *)
(* that is lowered throws nobody out.                                      *)
(***************************************************************************)
EXTENDS Naturals, FiniteSets

CONSTANTS Users, MaxSize
VARIABLES size, holders

LimitInit == size \in 1..MaxSize /\ holders = {}

Enter(p) == /\ p \in Users \ holders /\ Cardinality(holders) < size
            /\ holders' = holders \cup {p} /\ UNCHANGED size
Leave(p) == /\ p \in holders
            /\ holders' = holders \ {p} /\ UNCHANGED size
Resize   == size' \in 1..MaxSize /\ UNCHANGED holders
Reboot   == size' \in 1..MaxSize /\ holders' = {}

LimitNext == (\E p \in Users : Enter(p) \/ Leave(p)) \/ Resize \/ Reboot

LimitSpec == LimitInit /\ [][LimitNext]_<<size, holders>>

=============================================================================
