----------------------------- MODULE ReviewCycle -----------------------------
(***************************************************************************)
(* What the code review loop promises, whatever runs serve it: every       *)
(* decision is about the code on record and each code is decided once, the *)
(* counter of revision cycles moves once per decision and stops at its     *)
(* limit, and code is only replaced after a revision was asked for.        *)
(***************************************************************************)
EXTENDS Naturals

CONSTANT MaxCycles

VARIABLES
    head,      \* the implementation on record
    decided,   \* the last decision: [verdict, head]
    cycles     \* code_review_cycles

Undecided == [verdict |-> "none", head |-> 0]

Init == decided = Undecided /\ cycles = 0 /\ head = 0

Fresh == decided = Undecided \/ decided.head # head

Approve ==
    /\ Fresh
    /\ decided' = [verdict |-> "approved", head |-> head]
    /\ UNCHANGED <<head, cycles>>

AskRevision ==
    /\ Fresh
    /\ decided' = [verdict |-> "needs_revision", head |-> head]
    /\ cycles' = IF cycles < MaxCycles THEN cycles + 1 ELSE cycles
    /\ UNCHANGED head

Revise ==
    /\ cycles > 0
    /\ head' \in Nat
    /\ UNCHANGED <<decided, cycles>>

Next == Approve \/ AskRevision \/ Revise

Spec == Init /\ [][Next]_<<head, decided, cycles>>
=============================================================================
