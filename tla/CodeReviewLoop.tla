---------------------------- MODULE CodeReviewLoop ----------------------------
(***************************************************************************)
(* The code review loop of one issue.  Reviewer runs                       *)
(* (src/runner/phases/code-review.ts) and reviser runs (code-revision.ts)  *)
(* share the durable WorkflowStateRecord, written only by compare-and-set  *)
(* through applyWorkflowTransition (src/workflow/state/apply.ts), the      *)
(* issue's Linear status and the branch of the pull request.  A reviewer   *)
(* loads the state, claims a lease on what it reviews, runs an agent, and  *)
(* applies the agent's decision; a reviser claims nothing.                 *)
(***************************************************************************)
EXTENDS Naturals, FiniteSets

CONSTANTS
    Reviewer, Reviser,  \* run ids of the two phases
    NoRun,              \* no lease owner
    Builder,            \* the run that built the pull request
    MaxCycles,          \* cycleLimits.code_review_cycles
    MaxTries,           \* DEFAULT_WORKFLOW_STATE_MAX_RETRIES
    Contention,         \* the branch of the state files has other writers: 409
    MaxCrashes,         \* how many runs may be cancelled, lost or fail anywhere
    Stalls              \* a few API calls may outlast a whole agent run

ASSUME RunsAssumption ==
    /\ Reviewer \intersect Reviser = {}
    /\ {NoRun, Builder} \intersect (Reviewer \union Reviser) = {}
ASSUME LimitsAssumption ==
    MaxCycles \in Nat \ {0} /\ MaxTries \in Nat \ {0} /\ MaxCrashes \in Nat
ASSUME ModesAssumption == {Contention, Stalls} \subseteq BOOLEAN

VARIABLES
    state,   \* the stored WorkflowStateRecord
    linear,  \* the issue's status
    live,    \* the head commit of the pull request
    runs     \* per run: its stage and what it holds

vars == <<state, linear, live, runs>>

Run == Reviewer \union Reviser

Phases == {"code_review", "code_revision", "pm_review", "blocked"}
Statuses == {"Code Review", "Code Revision", "PM Review", "Blocked"}

(* A commit stands for its PR, head sha and diff hash; `gen` is the        *)
(* implementation generation, named for the run that made it.              *)
Artifacts == [gen : Reviser \union {Builder}, head : Nat]
Verdicts == {"approved", "needs_revision"}

(* Decisions and subjects are hashes of these fields.                      *)
Decisions == [verdict : Verdicts, head : Nat, cycle : Nat]
NoDecision == [verdict |-> "none", head |-> 0, cycle |-> 0]
Subjects == [head : Nat, cycle : Nat]

Leases == [owner : Reviewer \union {NoRun}, subject : Subjects, expired : BOOLEAN]
NoLease == [owner |-> NoRun, subject |-> [head |-> 0, cycle |-> 0], expired |-> FALSE]

(* lastTransitionIdentity holds the run id of a claim or a revision, or    *)
(* the identity of a decision.                                             *)
Attempts == [run : Run \union {NoRun}, decision : Decisions \union {NoDecision}]
ByRun(r) == [run |-> r, decision |-> NoDecision]
ByDecision(d) == [run |-> NoRun, decision |-> d]

WorkflowStates ==
    [rev : Nat, phase : Phases, lease : Leases, last : Decisions \union {NoDecision},
     cycles : Nat, art : Artifacts, superseded : SUBSET (Reviser \union {Builder}),
     attempt : Attempts]

(* What handoff leaves: the phase, its artifact, and no lease.             *)
HandedOff ==
    [rev |-> 1, phase |-> "code_review", lease |-> NoLease, last |-> NoDecision,
     cycles |-> 0, art |-> [gen |-> Builder, head |-> 0], superseded |-> {},
     attempt |-> ByRun(NoRun)]

StatusOf(phase) ==
    CASE phase = "code_review"   -> "Code Review"
      [] phase = "code_revision" -> "Code Revision"
      [] phase = "pm_review"     -> "PM Review"
      [] phase = "blocked"       -> "Blocked"

SubjectOf(s) == [head |-> s.art.head, cycle |-> s.cycles]

----------------------------------------------------------------------------
(* The records the three transitions store, from the one they loaded.      *)

(* A claim takes the phase's default next, which is PM Review.             *)
Claimed(s, r, subject) ==
    [s EXCEPT !.rev = @ + 1, !.phase = "pm_review", !.attempt = ByRun(r),
              !.lease = [owner |-> r, subject |-> subject, expired |-> FALSE]]

(* needs_revision takes a cycle, or blocks the issue when none is left.    *)
Decided(s, r, d) ==
    LET limit == d.verdict = "needs_revision" /\ s.cycles + 1 > MaxCycles IN
    [s EXCEPT
        !.rev = @ + 1,
        !.phase = CASE limit                  -> "blocked"
                    [] d.verdict = "approved" -> "pm_review"
                    [] OTHER                  -> "code_revision",
        !.cycles = IF d.verdict = "needs_revision" /\ ~limit THEN @ + 1 ELSE @,
        !.last = d,
        !.lease = IF @.owner = r THEN NoLease ELSE @,
        !.attempt = ByDecision(d)]

(* Variant: the generation and the head of the new artifact swapped.       *)
Revised_Swapped(s, r, head) ==
    [s EXCEPT !.rev = @ + 1, !.phase = "code_review", !.attempt = ByRun(r),
              !.superseded = @ \union {s.art.gen}, !.art = [gen |-> head, head |-> r]]

Revised(s, r, head) ==
    [s EXCEPT !.rev = @ + 1, !.phase = "code_review", !.attempt = ByRun(r),
              !.superseded = @ \union {s.art.gen}, !.art = [gen |-> r, head |-> head]]

(* Variant: holding a lease on the same subject counts as owning it.       *)
Foreign_BySubject(lease, r, subject) ==
    lease.owner # NoRun /\ lease.subject # subject /\ ~lease.expired

(* hasForeignClaim: ownership is by run id only.                           *)
Foreign(lease, r, subject) ==
    lease.owner \notin {NoRun, r} /\ ~lease.expired

(* Variant: only a decision of the current cycle counts.                   *)
Accepted_ThisCycle(s) ==
    s.last # NoDecision /\ s.last.head = s.art.head /\ s.last.cycle = s.cycles

(* A decision about this PR, head and diff is already on record.           *)
Accepted(s) == s.last # NoDecision /\ s.last.head = s.art.head

(* Variant: an expired lease does not own its subject any more.            *)
Leased_Live(s) == s.lease.owner # NoRun /\ s.lease.subject = SubjectOf(s) /\ ~s.lease.expired

(* evaluateCodeReviewExecutionEligibility, whose lease test does not look  *)
(* at the expiry, and whose artifact must be the one inspected.            *)
Leased(s) == s.lease.owner # NoRun /\ s.lease.subject = SubjectOf(s)
Current(s, head) == head = s.art.head /\ s.art.gen \notin s.superseded

(* The head a run goes by after inspecting the pull request: when the      *)
(* inspection fails, the one the caller falls back to.                     *)
Inspected(fallback) == {live, fallback}

----------------------------------------------------------------------------
(* Runs.  `held` is the state a run goes by, with the artifact it loaded   *)
(* before its claim; `expected`, `tries` and `step` are those of the loop  *)
(* in applyWorkflowTransition.  A revision is written once, so the record  *)
(* loaded at `expected` is the stored one while the stored one has it.     *)
Stages == {"idle", "load", "inspect", "claim", "agent", "observe", "apply", "status", "done"}
Results == {"none", "success", "duplicate_phase_completed",
            "active_run_already_claimed", "failed", "crashed"}
Half == {"before", "after", "none"}

RunRecords ==
    [at : Stages, step : {"load", "cas"}, held : WorkflowStates, expected : Nat,
     tries : 0..MaxTries, verdict : Verdicts \union {"none"}, head : Nat,
     ahead : SUBSET (Run \X Half), result : Results]

At(stage) ==
    [at |-> stage, step |-> "load", held |-> HandedOff, expected |-> 0, tries |-> 0,
     verdict |-> "none", head |-> 0, ahead |-> {}, result |-> "none"]

Ended(result) == [At("done") EXCEPT !.result = result]

(* The API calls on either side of an agent's work take seconds, the agent *)
(* takes minutes.  Unless Stalls, an agent outlasts what other runs were   *)
(* in the middle of when it began.                                         *)
HalfOf(r) ==
    CASE runs[r].at \in {"load", "inspect", "claim"}    -> "before"
      [] runs[r].at \in {"observe", "apply", "status"}  -> "after"
      [] OTHER                                          -> "none"

Working(r, held) ==
    [At("agent") EXCEPT
        !.held = held,
        !.ahead = IF Stalls THEN {}
                  ELSE {<<q, HalfOf(q)>> : q \in {p \in Run \ {r} : HalfOf(p) # "none"}}]

AgentMayEnd(r) == \A p \in runs[r].ahead : HalfOf(p[1]) # p[2]

Looping(stage, held) ==
    [At(stage) EXCEPT !.held = held, !.expected = held.rev, !.tries = 1]

(* The loop gives up after MaxTries passes, and otherwise takes the        *)
(* revision it has just read for the one to replace.                       *)
Again(r) ==
    runs' = [runs EXCEPT ![r] =
        IF runs[r].tries < MaxTries
          THEN [runs[r] EXCEPT !.step = "load", !.tries = @ + 1, !.expected = state.rev]
          ELSE Ended("failed")]

Stale(r) == state.rev # runs[r].expected
Goes(r) == runs' = [runs EXCEPT ![r].step = "cas"]
Finish(r, result) == runs' = [runs EXCEPT ![r] = Ended(result)]

CasWon(r, next) == ~Stale(r) /\ state' = next
CasLost(r) == (Stale(r) \/ Contention) /\ UNCHANGED state

----------------------------------------------------------------------------
(* A run starts from the issue's status (inferPhaseFromStatus).            *)
ReviewStart(r) ==
    /\ runs[r].at = "idle" /\ linear = "Code Review"
    /\ runs' = [runs EXCEPT ![r] = At("load")]
    /\ UNCHANGED <<state, linear, live>>

(* A reviser needs a needs_revision decision, in the state or in a comment *)
(* of the issue.  The comment is posted before the status that starts it,  *)
(* so it finds one whatever the state says by then.                        *)
ReviseStart(r) ==
    /\ runs[r].at = "idle" /\ linear = "Code Revision"
    /\ runs' = [runs EXCEPT ![r] = At("load")]
    /\ UNCHANGED <<state, linear, live>>

Load(r) ==
    /\ runs[r].at = "load"
    /\ runs' = [runs EXCEPT ![r] = [At("inspect") EXCEPT !.held = state]]
    /\ UNCHANGED <<state, linear, live>>

(* The pull request is inspected, then the run may not be needed, or not   *)
(* be able to run.                                                         *)
ReviewInspect(r) ==
    /\ runs[r].at = "inspect"
    /\ LET held == runs[r].held IN
       \/ /\ Accepted(held) \/ Leased(held)
          /\ Finish(r, "duplicate_phase_completed")
       \/ /\ ~Accepted(held) /\ ~Leased(held)
          /\ \E head \in Inspected(held.art.head) :
                \/ ~Current(held, head) /\ Finish(r, "failed")
                \/ /\ Current(held, head)
                   /\ runs' = [runs EXCEPT ![r] = Looping("claim", held)]
    /\ UNCHANGED <<state, linear, live>>

(* claimAgentRun.                                                          *)
ClaimLoad(r) ==
    /\ runs[r].at = "claim" /\ runs[r].step = "load"
    /\ LET foreign == Foreign(state.lease, r, SubjectOf(runs[r].held)) IN
       \/ Stale(r) /\ Again(r)
       \/ /\ ~Stale(r) /\ foreign
          /\ Finish(r, IF state.lease.subject = SubjectOf(runs[r].held)
                         THEN "active_run_already_claimed" ELSE "failed")
       \/ ~Stale(r) /\ ~foreign /\ Goes(r)
    /\ UNCHANGED <<state, linear, live>>

ClaimCas(r) ==
    /\ runs[r].at = "claim" /\ runs[r].step = "cas"
    /\ \/ /\ CasWon(r, Claimed(state, r, SubjectOf(runs[r].held)))
          /\ runs' = [runs EXCEPT ![r] =
                         Working(r, [state' EXCEPT !.art = runs[r].held.art])]
       \/ CasLost(r) /\ Again(r)
    /\ UNCHANGED <<linear, live>>

(* The agent reports a decision, or no usable one: then the run fails and  *)
(* leaves its lease.                                                       *)
ReviewAgent(r) ==
    /\ runs[r].at = "agent" /\ AgentMayEnd(r)
    /\ \/ \E verdict \in Verdicts :
             runs' = [runs EXCEPT ![r] =
                        [Looping("apply", runs[r].held) EXCEPT !.verdict = verdict]]
       \/ Finish(r, "failed")
    /\ UNCHANGED <<state, linear, live>>

DecisionOf(r) ==
    [verdict |-> runs[r].verdict, head |-> runs[r].held.art.head,
     cycle |-> runs[r].held.cycles]

SameAttempt(attempt) == state.attempt = attempt

(* Variant: the loaded superseded generations are not looked at.           *)
DecideLoad_AnyGeneration(r) ==
    /\ runs[r].at = "apply" /\ runs[r].step = "load"
    /\ LET d == DecisionOf(r) IN
       \/ /\ IF Stale(r) THEN SameAttempt(ByDecision(d)) ELSE state.last = d
          /\ Finish(r, "duplicate_phase_completed")
       \/ Stale(r) /\ ~SameAttempt(ByDecision(d)) /\ Again(r)
       \/ ~Stale(r) /\ state.last # d /\ Goes(r)
    /\ UNCHANGED <<state, linear, live>>

(* evaluateReviewTransition on the record loaded.                          *)
DecideLoad(r) ==
    /\ runs[r].at = "apply" /\ runs[r].step = "load"
    /\ LET d == DecisionOf(r)
           superseded == runs[r].held.art.gen \in state.superseded
       IN
       \/ /\ IF Stale(r) THEN SameAttempt(ByDecision(d)) ELSE state.last = d
          /\ Finish(r, "duplicate_phase_completed")
       \/ Stale(r) /\ ~SameAttempt(ByDecision(d)) /\ Again(r)
       \/ ~Stale(r) /\ state.last # d /\ superseded /\ Finish(r, "failed")
       \/ ~Stale(r) /\ state.last # d /\ ~superseded /\ Goes(r)
    /\ UNCHANGED <<state, linear, live>>

DecideCas(r) ==
    /\ runs[r].at = "apply" /\ runs[r].step = "cas"
    /\ LET d == DecisionOf(r) IN
       \/ /\ CasWon(r, Decided(state, r, d))
          /\ runs' = [runs EXCEPT ![r] = [At("status") EXCEPT !.held = state']]
       \/ CasLost(r) /\ SameAttempt(ByDecision(d)) /\ Finish(r, "duplicate_phase_completed")
       \/ CasLost(r) /\ ~SameAttempt(ByDecision(d)) /\ Again(r)
    /\ UNCHANGED <<linear, live>>

(* Comment and Linear status, once the transition is stored.               *)
SetStatus(r) ==
    /\ runs[r].at = "status"
    /\ linear' = StatusOf(runs[r].held.phase)
    /\ Finish(r, "success")
    /\ UNCHANGED <<state, live>>

(* A reviser asks for no lease and no decision of the current artifact.    *)
ReviseInspect(r) ==
    /\ runs[r].at = "inspect"
    /\ LET held == runs[r].held IN
       \E head \in Inspected(held.art.head) :
          \/ Current(held, head) /\ runs' = [runs EXCEPT ![r] = Working(r, held)]
          \/ ~Current(held, head) /\ Finish(r, "failed")
    /\ UNCHANGED <<state, linear, live>>

(* The agent pushes to the branch or changes nothing, and reports the head *)
(* it leaves; the report may be refused even after it has pushed.          *)
ReviseAgent(r) ==
    /\ runs[r].at = "agent" /\ AgentMayEnd(r)
    /\ live' \in {live, live + 1}
    /\ \/ runs' = [runs EXCEPT ![r] =
                      [At("observe") EXCEPT !.held = runs[r].held, !.head = live']]
       \/ Finish(r, "failed")
    /\ UNCHANGED <<state, linear>>

(* The new artifact is whatever commit the branch has by now.              *)
ReviseObserve(r) ==
    /\ runs[r].at = "observe"
    /\ \E head \in Inspected(runs[r].head) :
          runs' = [runs EXCEPT ![r] = [Looping("apply", runs[r].held) EXCEPT !.head = head]]
    /\ UNCHANGED <<state, linear, live>>

ReviseLoad(r) ==
    /\ runs[r].at = "apply" /\ runs[r].step = "load"
    /\ (Stale(r) /\ Again(r)) \/ (~Stale(r) /\ Goes(r))
    /\ UNCHANGED <<state, linear, live>>

ReviseCas(r) ==
    /\ runs[r].at = "apply" /\ runs[r].step = "cas"
    /\ \/ /\ CasWon(r, Revised(state, r, runs[r].head))
          /\ runs' = [runs EXCEPT ![r] = [At("status") EXCEPT !.held = state']]
       \/ CasLost(r) /\ Again(r)
    /\ UNCHANGED <<linear, live>>

----------------------------------------------------------------------------
(* An API call throws, the job is cancelled or the runner is lost.         *)
Crash(r) ==
    /\ runs[r].at \notin {"idle", "done"}
    /\ Cardinality({q \in Run : runs[q].result = "crashed"}) < MaxCrashes
    /\ Finish(r, "crashed")
    /\ UNCHANGED <<state, linear, live>>

(* The lease's 45 minutes are over; an agent has 30 and 30 for its repair. *)
(* Unless Stalls, a run does not take as long from its load to its claim.  *)
LeaseExpires ==
    /\ state.lease.owner # NoRun /\ ~state.lease.expired
    /\ Stalls \/ \A q \in Run : runs[q].at \in {"inspect", "claim"} =>
                      runs[q].held.lease.owner = state.lease.owner
    /\ state' = [state EXCEPT !.lease.expired = TRUE]
    /\ UNCHANGED <<linear, live, runs>>

Review(r) ==
    \/ ReviewStart(r) \/ Load(r) \/ ReviewInspect(r)
    \/ ClaimLoad(r) \/ ClaimCas(r) \/ ReviewAgent(r)
    \/ DecideLoad(r) \/ DecideCas(r) \/ SetStatus(r)

Revise(r) ==
    \/ ReviseStart(r) \/ Load(r) \/ ReviseInspect(r) \/ ReviseAgent(r)
    \/ ReviseObserve(r) \/ ReviseLoad(r) \/ ReviseCas(r) \/ SetStatus(r)

Init ==
    /\ state = HandedOff
    /\ linear = "Code Review"
    /\ live = 0
    /\ runs = [r \in Run |-> At("idle")]

Next ==
    \/ \E r \in Reviewer : Review(r)
    \/ \E r \in Reviser : Revise(r)
    \/ \E r \in Run : Crash(r)
    \/ LeaseExpires

Spec == Init /\ [][Next]_vars

(* Actions schedules a run's steps; crashes and expiry are never owed.     *)
Fairness ==
    /\ \A r \in Reviewer : WF_vars(Review(r))
    /\ \A r \in Reviser : WF_vars(Revise(r))

FairSpec == Spec /\ Fairness

----------------------------------------------------------------------------
TypeOK ==
    /\ state \in WorkflowStates
    /\ linear \in Statuses
    /\ live \in Nat
    /\ runs \in [Run -> RunRecords]

(* A lease that has not expired is ended by its owner alone: no claim      *)
(* takes it over and no other run's transition clears it                   *)
(* (applyWorkflowTransition, "Ownership is by owner run id only").         *)
LeaseKept ==
    [][ LET lease == state.lease IN
        lease.owner # NoRun /\ ~lease.expired /\ state'.lease.owner # lease.owner
            => \A r \in Run \ {lease.owner} : runs'[r] = runs[r] ]_vars

(* A decision is only stored for the artifact on record: a reviser that    *)
(* replaces it while the reviewer's agent works makes the decision stale   *)
(* (evaluateReviewTransition, superseded_implementation).                  *)
DecisionIsCurrent ==
    [][ state'.last # state.last => state'.last.head = state.art.head ]_vars

(* "At most one logical paid Cursor agent per immutable phase subject"     *)
(* (tests/workflow/paid-agent-subject-exclusivity.test.ts): no two reviews *)
(* of one artifact are on their way, by agents at work or decisions still  *)
(* to store, whatever was loaded before a claim, and even when the lease   *)
(* has run out under an agent that is still working.  A subject names the  *)
(* head and not the generation: only overlapping revisers that store an    *)
(* older head again bring two agents to one subject.                       *)
OneAgentPerArtifact ==
    \A r, q \in Reviewer :
        /\ r # q
        /\ runs[r].at \in {"agent", "apply"} /\ runs[q].at \in {"agent", "apply"}
        => runs[r].held.art # runs[q].held.art

(* The stored decisions follow ReviewCycle: each is about the artifact on  *)
(* record, no artifact is decided twice, a duplicate or stale decision     *)
(* takes no cycle (ADR 0007, "Revision increments ... once; infra/         *)
(* duplicate/stale do not").                                               *)
Cycle == INSTANCE ReviewCycle
            WITH head    <- state.art.head,
                 decided <- [verdict |-> state.last.verdict, head |-> state.last.head],
                 cycles  <- state.cycles

ImplementsReviewCycle == Cycle!Spec

(* A stored decision reaches the issue: "Accepted review decisions [...]   *)
(* are CAS-written to durable state with pending deterministic side        *)
(* effects (Linear comment, status transition) [...] reconciliation        *)
(* replays only incomplete effects" (ADR 0007).  Another reviewer is still *)
(* to come when the one that stored the decision is lost.                  *)
DecisionShown ==
    state.phase = "code_revision" /\ (\E r \in Reviewer : runs[r].at = "idle")
        ~> linear = "Code Revision" \/ state.phase # "code_revision"
=============================================================================
