------------------------------ MODULE RequestOnce ------------------------------
(***************************************************************************)
(* What starting the job of a subject promises.  A subject's request is    *)
(* made once, by nobody but the owner of its claim at the time; it is put  *)
(* on record only after it has been made; and once on record the subject   *)
(* is never claimed again.  An owner may give its claim up before then.    *)
(***************************************************************************)
CONSTANTS Subject, Dispatcher, NoOwner

VARIABLES
    owner,       \* per subject: who holds its claim
    requested,   \* subjects whose request exists
    recorded     \* subjects whose request is on record

vars == <<owner, requested, recorded>>

Init ==
    /\ owner = [s \in Subject |-> NoOwner]
    /\ requested = {} /\ recorded = {}

Claim(s, d) ==
    /\ s \notin recorded /\ owner[s] = NoOwner
    /\ owner' = [owner EXCEPT ![s] = d]
    /\ UNCHANGED <<requested, recorded>>

GiveUp(s) ==
    /\ s \notin recorded
    /\ owner' = [owner EXCEPT ![s] = NoOwner]
    /\ UNCHANGED <<requested, recorded>>

Make(s) ==
    /\ s \notin requested /\ owner[s] # NoOwner
    /\ requested' = requested \union {s}
    /\ UNCHANGED <<owner, recorded>>

Record(s) ==
    /\ s \in requested
    /\ recorded' = recorded \union {s}
    /\ owner' = [owner EXCEPT ![s] = NoOwner]
    /\ UNCHANGED requested

Next ==
    \E s \in Subject :
        (\E d \in Dispatcher : Claim(s, d)) \/ GiveUp(s) \/ Make(s) \/ Record(s)

Spec == Init /\ [][Next]_vars
=============================================================================
