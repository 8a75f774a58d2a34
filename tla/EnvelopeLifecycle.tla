-------------------------- MODULE EnvelopeLifecycle --------------------------
(***************************************************************************)
(* What the job-request store promises of one envelope, with no processes, *)
(* revisions or lost writes: the states it may be in, who owns it, and the *)
(* completions that may be undone.                                         *)
(***************************************************************************)
EXTENDS JobEnvelope

VARIABLES state, owner, completion

lifecycle == <<state, owner, completion>>

Successes == {"verified_complete"} \union FalseDuplicateCompletions
Failures == {"run_failed"} \union RetryableCompletions

Init == state = "absent" /\ owner = NoRun /\ completion = "none"

Create ==
    /\ state = "absent" /\ state' = "pending"
    /\ UNCHANGED <<owner, completion>>

Claim(r) ==
    /\ state = "pending" /\ state' = "claimed" /\ owner' = r
    /\ UNCHANGED completion

Complete ==
    /\ state = "claimed" /\ state' = "completed" /\ completion' \in Successes
    /\ UNCHANGED owner

Fail ==
    /\ state = "claimed" /\ state' = "failed" /\ completion' \in Failures
    /\ UNCHANGED owner

(* Only a completion that proves nothing was done may be undone.           *)
Reopen ==
    /\ \/ state = "completed" /\ completion \in FalseDuplicateCompletions
       \/ state = "failed" /\ completion \in RetryableCompletions
    /\ state' = "pending" /\ owner' = NoRun /\ completion' = "none"

Expire ==
    /\ state \notin {"absent", "expired"} /\ state' = "expired"
    /\ UNCHANGED <<owner, completion>>

Next == Create \/ (\E r \in Run : Claim(r)) \/ Complete \/ Fail \/ Reopen \/ Expire

Spec == Init /\ [][Next]_lifecycle
=============================================================================
