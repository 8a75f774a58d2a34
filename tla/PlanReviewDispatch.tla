-------------------------- MODULE PlanReviewDispatch --------------------------
(***************************************************************************)
(* The plan review loop of one issue: planning runs that store a plan and  *)
(* start its review (src/runner/phases/planning.ts), the passes of         *)
(* harness:reconcile-workflow that start or restart it, and the reviewer   *)
(* runs (src/runner/phases/plan-review.ts).  Plans are numbered in the     *)
(* order their comments are posted; subject, dispatch effect and envelope  *)
(* of a plan go by its number.  A plan is on its comment before it is on   *)
(* record, and may never get there.                                        *)
(***************************************************************************)
EXTENDS DispatchEffect

CONSTANTS
    Planner,      \* the dispatchers that are planning runs
    MaxCycles     \* cycleLimits.plan_review_cycles

ASSUME PlannerAssumption == Planner \subseteq Dispatcher
ASSUME CyclesAssumption == MaxCycles \in Nat

VARIABLES
    linear,       \* the issue's status
    review,       \* what else of the stored record is about the review
    runs          \* reviewer runs

reviewVars == <<review, runs>>
vars == <<effectVars, linear, reviewVars>>

Statuses == {"Ready for Planning", "Planning", "Plan Review", "Ready for Build", "Blocked"}
Verdicts == {"approved", "needs_revision"}

(* lastAcceptedReviewDecision; `of` is the plan the reviewer's agent had   *)
(* before it when it came to the verdict, which no record tells; `found`,  *)
(* that the plan was not on record and was taken from its comment.         *)
Decisions == [verdict : Verdicts \union {"none"}, plan : 0..MaxSubject, cycle : Nat,
              of : 0..MaxSubject, found : BOOLEAN]
NoDecision == [verdict |-> "none", plan |-> 0, cycle |-> 0, of |-> 0, found |-> FALSE]

(* `text` is the result of the agent run on record (planReviewerRunId),    *)
(* `of` the plan that agent had before it; `superseded` is                 *)
(* supersededGenerationIdentities; `posted` is not of the record: it       *)
(* counts the planning comments.                                           *)
Texts == Verdicts \union {"none", "unparsed"}
Reviews == [last : Decisions, cycles : Nat, text : Texts, of : 0..MaxSubject,
            superseded : SUBSET Subject, posted : 0..MaxSubject]

RunStages == {"idle", "phase", "agent", "decide", "apply", "show", "end", "done"}
RunRecords ==
    [at : RunStages, job : 0..MaxSubject, rev : Nat, tries : Nat, decision : Decisions,
     agent : 0..MaxSubject, text : Texts, read : 0..MaxSubject, status : Statuses,
     result : Completions]

NoRunYet == [at |-> "idle", job |-> 0, rev |-> 0, tries |-> 0, decision |-> NoDecision,
             agent |-> 0, text |-> "none", read |-> 0, status |-> "Plan Review", result |-> "none"]

----------------------------------------------------------------------------
(* A planning run.  After a review that asked for a revision, a second one *)
(* may start while the first is at work.                                   *)
PlanStart(d) ==
    /\ d \in Planner /\ ~Working(d) /\ review.posted < MaxSubject
    /\ linear = "Ready for Planning" \/ (linear = "Planning" /\ review.cycles > 0)
    /\ linear' = "Planning"
    /\ disp' = [disp EXCEPT ![d] = Starting("plan", "phase", 0, NoState)]
    /\ UNCHANGED <<state, jobs, sent, faults, reviewVars>>

(* The plan is posted before anything is stored.                           *)
PlanPost(d) ==
    /\ disp[d].at = "plan" /\ review.posted < MaxSubject
    /\ review' = [review EXCEPT !.posted = @ + 1]
    /\ disp' = [disp EXCEPT ![d] = Starting("store", "phase", review'.posted, NoState)]
    /\ UNCHANGED <<state, jobs, sent, faults, linear, runs>>

(* What a plan that gets on record supersedes.                             *)
Replaced(plan) == {state.subject} \ {0, plan}

(* The plan is stored with the transition, against whatever record there   *)
(* is by now, and the run goes on from the record it stored.               *)
PlanStore(d) ==
    /\ disp[d].at = "store" /\ disp[d].subject \notin review.superseded
    /\ state' = [state EXCEPT !.rev = @ + 1, !.phase = "plan_review",
                              !.subject = disp[d].subject]
    /\ review' = [review EXCEPT !.superseded = @ \union Replaced(disp[d].subject)]
    /\ disp' = [disp EXCEPT ![d] = Starting("pending", "phase", disp[d].subject, state')]
    /\ UNCHANGED <<jobs, sent, faults, linear, runs>>

(* If it is refused, or the store fails three times, the run goes on all   *)
(* the same, from the record as it is.                                     *)
PlanUnstored(d) ==
    /\ disp[d].at = "store"
    /\ (disp[d].subject \in review.superseded /\ UNCHANGED faults) \/ Fault
    /\ Goes(d, "pending", state)
    /\ UNCHANGED <<state, jobs, sent, linear, reviewVars>>

(* ensurePlanReviewDispatchPending: on a lost write the run goes on with   *)
(* the record it meant to store.                                           *)
Pend(d) ==
    /\ disp[d].at = "pending"
    /\ LET s    == disp[d].subject
           next == [disp[d].held EXCEPT !.active = s,
                       !.effect[s].status = IF @ = "none" THEN "pending" ELSE @]
       IN
       \/ CasWon(d, next) /\ Goes(d, "project", state')
       \/ CasLost(d) /\ Goes(d, "project", next)
    /\ UNCHANGED <<jobs, sent, faults, linear, reviewVars>>

Project(d) ==
    /\ disp[d].at = "project"
    /\ linear' = "Plan Review"
    /\ Goes(d, "claim", disp[d].held)
    /\ UNCHANGED <<state, jobs, sent, faults, reviewVars>>

(* A scheduled pass: with a reviewer's agent on record it only looks for a *)
(* job to send again.                                                      *)
ReconcileStart(d) ==
    /\ d \notin Planner /\ disp[d].at = "idle"
    /\ state.phase = "plan_review" /\ linear \in {"Plan Review", "Blocked"}
    /\ disp' = [disp EXCEPT ![d] =
                   IF state.agent # 0
                     THEN Starting("recover", "pass", state.subject, NoState)
                     ELSE Starting("claim", IF linear = "Blocked" THEN "unblock" ELSE "pass",
                                   state.subject, state)]
    /\ UNCHANGED <<state, jobs, sent, faults, linear, reviewVars>>

(* A pass pinned to the phase takes the subject on record, which an agent  *)
(* on record never comes without, and never claims.                        *)
PinStart(d) ==
    /\ d \notin Planner /\ disp[d].at = "idle"
    /\ state.agent # 0 /\ state.active # 0
    /\ disp' = [disp EXCEPT ![d] = Starting("recover", "pass", state.active, NoState)]
    /\ UNCHANGED <<state, jobs, sent, faults, linear, reviewVars>>

(* ensurePlanReviewJobDispatched.                                          *)
Refuse(d) ==
    /\ disp[d].at = "claim"
    /\ LET s == disp[d].subject IN
       CASE Durable(disp[d].held, s)  -> Ends(d, "report", NoState, "already_dispatched")
         [] ~Durable(disp[d].held, s) -> /\ Taken(disp[d].held, s, d)
                                         /\ Ends(d, "report", NoState, "claim_lost")
    /\ UNCHANGED <<state, jobs, sent, faults, linear, reviewVars>>

Claim(d) ==
    /\ disp[d].at = "claim"
    /\ LET s == disp[d].subject IN
       /\ ~Durable(disp[d].held, s) /\ ~Taken(disp[d].held, s, d)
       /\ \/ /\ CasWon(d, [ClaimedBy(disp[d].held, s, d) EXCEPT !.active = s])
             /\ Goes(d, "present", state')
          \/ CasLost(d) /\ Goes(d, "lost", NoState)
    /\ UNCHANGED <<jobs, sent, faults, linear, reviewVars>>

LostClaim(d) ==
    /\ disp[d].at = "lost"
    /\ Ends(d, "report", NoState,
            IF Durable(state, disp[d].subject) THEN "already_dispatched" ELSE "claim_lost")
    /\ UNCHANGED <<state, jobs, sent, faults, linear, reviewVars>>

(* recoverUnresolvedPlanReviewDispatch: a job that is pending or claimed   *)
(* is sent again as it is, a finished one only if it can be reopened.      *)
Recover(d) ==
    /\ disp[d].at = "recover"
    /\ LET s == disp[d].subject IN
       disp' = [disp EXCEPT
           ![d].at   = CASE jobs[s].state \in {"pending", "claimed"} -> "resend"
                         [] RetryableFailure(jobs[s]) \/ FalseDuplicate(jobs[s]) -> "reopen"
                         [] OTHER -> "report",
           ![d].job  = IF Terminal(jobs[s]) THEN jobs[s] ELSE NoEnvelope,
           ![d].held = NoState]
    /\ UNCHANGED <<state, jobs, sent, faults, linear, reviewVars>>

(* A planning run that fails, or has no token to dispatch with, blocks the *)
(* issue; a pass that found the issue blocked sets the status back.        *)
Report(d) ==
    /\ disp[d].at = "report"
    /\ LET o == disp[d].outcome IN
       linear' = CASE disp[d].mode = "phase" /\ o \in {"missing_dispatch_token", "threw"} -> "Blocked"
                   [] disp[d].mode = "unblock" /\ o \in Found \union {"dispatched"} -> "Plan Review"
                   [] OTHER -> linear
    /\ Stops(d)
    /\ UNCHANGED <<state, jobs, sent, faults, reviewVars>>

Started(d) == PlanStart(d) \/ ReconcileStart(d) \/ PinStart(d)

Attempt(d) ==
    \/ PlanPost(d) \/ PlanStore(d) \/ PlanUnstored(d) \/ Pend(d) \/ Project(d)
    \/ Refuse(d) \/ Claim(d) \/ LostClaim(d) \/ Recover(d) \/ Report(d)

Protocol(d) ==
    /\ \/ Present(d) \/ Block(d) \/ Create(d) \/ Send(d) \/ Repair(d) \/ Reopen(d)
       \/ Mark(d, Patched(disp[d].held, disp[d].subject, "dispatched"), "report")
       \/ RepairMark(d, Patched(disp[d].held, disp[d].subject, "dispatched"), "report")
       \/ Resend(d, "unresolved_decision_recovered")
    /\ UNCHANGED <<linear, reviewVars>>

(* Recovery without a token ends like recovery that throws.                *)
Failure(d) ==
    /\ Misread(d) \/ NoToken(d) \/ Crash(d) \/ Throw(d)
    /\ UNCHANGED <<linear, reviewVars>>

----------------------------------------------------------------------------
(* A reviewer run.  `decision` is what it is about to apply, made out to   *)
(* the plan and the cycle of the record it loaded.                         *)
Results(r, result) ==
    runs' = [runs EXCEPT ![r] = [NoRunYet EXCEPT !.at = "end", !.job = runs[r].job,
                                                 !.result = result]]

StartRun(r) ==
    /\ runs[r].at = "idle"
    /\ \E s \in Subject :
          /\ sent[s] > 0 /\ sent' = [sent EXCEPT ![s] = @ - 1]
          /\ \A q \in Run : runs[q].at \notin {"idle", "done"} => runs[q].job # s
          /\ jobs' = [jobs EXCEPT ![s] = Taking(s, r)]
          /\ runs' = [runs EXCEPT ![r] =
                [NoRunYet EXCEPT !.at = IF TurnedAway(s) THEN "done" ELSE "phase", !.job = s]]
    /\ UNCHANGED <<state, disp, faults, linear, review>>

(* resolve-route goes by the issue's status: while it is not Plan Review   *)
(* the run does another phase, or none, and then leaves its claim behind.  *)
RunElsewhere(r) ==
    /\ runs[r].at = "phase" /\ linear # "Plan Review"
    /\ IF linear = "Blocked"
         THEN runs' = [runs EXCEPT ![r] = [NoRunYet EXCEPT !.at = "done"]]
         ELSE \E result \in {"verified_complete", "duplicate_phase_completed", "run_failed"} :
                 Results(r, result)
    /\ UNCHANGED <<state, jobs, sent, disp, faults, linear, review>>

(* The phase has no gate of its own: it takes the plan on record or, if    *)
(* there is none, the one the newest planning comment names.  What the     *)
(* agent gets to read is the newest planning comment in either case.       *)
RunPhase(r) ==
    /\ runs[r].at = "phase" /\ linear = "Plan Review"
    /\ runs' = [runs EXCEPT ![r].at = "agent", ![r].rev = state.rev,
                   ![r].decision = [NoDecision EXCEPT
                       !.plan  = IF state.subject # 0 THEN state.subject ELSE review.posted,
                       !.found = state.subject = 0,
                       !.cycle = review.cycles,
                       !.of    = review.posted],
                   ![r].agent = state.agent, ![r].text = review.text, ![r].read = review.of]
    /\ UNCHANGED <<state, jobs, sent, disp, faults, linear, review>>

(* Variant: the write does not look at the revision it replaces.           *)
Unchanged_Blind(r) == runs[r].rev > 0
Unchanged(r) == state.rev = runs[r].rev

(* What becomes of an agent's answer: the decision it says; or, when none  *)
(* can be read from it, one more turn that asks for the decision alone.    *)
Reads(r, text, of) ==
    LET says(verdict) ==
            runs' = [runs EXCEPT ![r].at = "decide", ![r].agent = 0, ![r].text = "none",
                                 ![r].read = 0,
                                 ![r].rev = IF Unchanged(r) THEN state'.rev ELSE @,
                                 ![r].decision = [@ EXCEPT !.verdict = verdict, !.of = of]]
    IN
    IF text \in Verdicts THEN says(text)
    ELSE (\E verdict \in Verdicts : says(verdict)) \/ Results(r, "run_crash")

(* A new agent, none being on record or the one on record not resuming,    *)
(* reviews the plan.  Its ids and its run are stored against the record    *)
(* that was loaded, with the plan that was found, or not at all.           *)
RunReview(r) ==
    /\ runs[r].at = "agent"
    /\ (runs[r].agent = 0 /\ UNCHANGED faults) \/ (runs[r].agent # 0 /\ Fault)
    /\ LET plan == runs[r].decision.plan
           of   == runs[r].decision.of
       IN
       \E text \in Verdicts \union {"unparsed"} :
          /\ IF Unchanged(r)
               THEN /\ state' = [state EXCEPT !.rev = @ + 1, !.agent = plan, !.subject = plan,
                                              !.active = IF @ = 0 THEN plan ELSE @]
                    /\ review' = [review EXCEPT !.text = text, !.of = of]
               ELSE UNCHANGED <<state, review>>
          /\ Reads(r, text, of)
    /\ UNCHANGED <<jobs, sent, disp, linear>>

(* The agent on record is resumed, and what it said before read again; an  *)
(* answer in JSON, unlike a marker, names the plan it is about and is      *)
(* refused for another one.                                                *)
RunReparse(r) ==
    /\ runs[r].at = "agent" /\ runs[r].agent # 0
    /\ UNCHANGED <<state, jobs, sent, disp, faults, linear, review>>
    /\ \E text \in {runs[r].text} \union
                       {t \in {"unparsed"} : runs[r].agent # runs[r].decision.plan} :
          Reads(r, text, runs[r].read)

(* Variant: the issue of a plan sent back stays where it was.              *)
StatusOf_Stays(phase) ==
    CASE phase = "implementation_dispatch" -> "Ready for Build"
      [] OTHER -> "planning"

(* nextStatusName.                                                         *)
StatusOf(phase) ==
    CASE phase = "implementation_dispatch" -> "Ready for Build"
      [] phase = "planning_dispatch" -> "Ready for Planning"
      [] OTHER -> "Blocked"

(* "superseded_plan": evaluateReviewTransition.                            *)
Superseded(plan) == plan \in review.superseded

(* decisionIdentity does not tell who decided.                             *)
SameDecision(a, b) == a.verdict = b.verdict /\ a.plan = b.plan /\ a.cycle = b.cycle

(* The phase a decision leads to.                                          *)
NextPhase(decision) ==
    CASE decision.verdict = "approved" -> "implementation_dispatch"
      [] decision.verdict # "approved" /\ review.cycles < MaxCycles -> "planning_dispatch"
      [] OTHER -> "blocked"

(* A plan that was found gets on record with the decision about it, in the *)
(* place of whatever plan has got there meanwhile.                         *)
Accepted(decision) ==
    LET plan == IF decision.found THEN decision.plan ELSE state.subject IN
    /\ state' = [state EXCEPT !.rev = @ + 1, !.decided = decision.plan, !.subject = plan,
                              !.phase = NextPhase(decision)]
    /\ review' = [review EXCEPT !.last = decision,
                      !.superseded = @ \union Replaced(plan),
                      !.cycles = IF NextPhase(decision) = "planning_dispatch" THEN @ + 1 ELSE @]

(* applyWorkflowTransition: three attempts, from the revision the run      *)
(* loaded and then from the one it met.                                    *)
Attempts == 3

Conflict(r) ==
    IF runs[r].tries + 1 = Attempts THEN Results(r, "run_failed")
    ELSE runs' = [runs EXCEPT ![r].at = "decide", ![r].tries = @ + 1, ![r].rev = state.rev]

(* A decision that is refused, or was accepted before, fails the run.      *)
RunDecide(r) ==
    /\ runs[r].at = "decide"
    /\ LET decision == runs[r].decision IN
       IF state.rev # runs[r].rev /\ ~SameDecision(decision, review.last)
         THEN Conflict(r)
         ELSE IF Superseded(decision.plan) \/ SameDecision(decision, review.last)
           THEN Results(r, "run_failed")
           ELSE runs' = [runs EXCEPT ![r].at = "apply",
                                     ![r].status = StatusOf(NextPhase(decision))]
    /\ UNCHANGED <<state, jobs, sent, disp, faults, linear, review>>

(* A write that loses to one of the same decision counts as done.          *)
RunApply(r) ==
    /\ runs[r].at = "apply"
    /\ LET decision == runs[r].decision
           shows    == runs' = [runs EXCEPT ![r] = [NoRunYet EXCEPT !.at = "show",
                                            !.job = runs[r].job, !.status = runs[r].status]]
       IN
       IF Unchanged(r) THEN Accepted(decision) /\ shows
       ELSE /\ IF SameDecision(decision, review.last) /\ state.phase # "plan_review"
                 THEN shows ELSE Conflict(r)
            /\ UNCHANGED <<state, review>>
    /\ UNCHANGED <<jobs, sent, disp, faults, linear>>

(* The comment and the status, as the transition has them.                 *)
RunShow(r) ==
    /\ runs[r].at = "show"
    /\ linear' = runs[r].status
    /\ Results(r, "verified_complete")
    /\ UNCHANGED <<state, jobs, sent, disp, faults, review>>

(* A turn that times out, or a call that fails: some of these failures     *)
(* reconcile takes up again.                                               *)
RunFails(r) ==
    /\ runs[r].at \in {"agent", "decide", "apply", "show"} /\ Fault
    /\ Results(r, "run_failed") \/ Results(r, "run_crash")
    /\ UNCHANGED <<state, jobs, sent, disp, linear, review>>

RunEnd(r) ==
    /\ runs[r].at = "end"
    /\ jobs' = [jobs EXCEPT ![runs[r].job] = Finished(runs[r].job, r, runs[r].result)]
    /\ runs' = [runs EXCEPT ![r] = [NoRunYet EXCEPT !.at = "done"]]
    /\ UNCHANGED <<state, sent, disp, faults, linear, review>>

RunLost(r) ==
    /\ runs[r].at \notin {"idle", "done"} /\ Fault
    /\ runs' = [runs EXCEPT ![r] = [NoRunYet EXCEPT !.at = "done"]]
    /\ UNCHANGED <<state, jobs, sent, disp, linear, review>>

Review(r) ==
    \/ StartRun(r) \/ RunElsewhere(r) \/ RunPhase(r) \/ RunReview(r) \/ RunReparse(r)
    \/ RunDecide(r) \/ RunApply(r) \/ RunShow(r) \/ RunFails(r)
    \/ RunEnd(r) \/ RunLost(r)

(* An operator sends the blocked issue back to planning.                   *)
Resume ==
    /\ linear = "Blocked"
    /\ linear' = "Ready for Planning"
    /\ UNCHANGED <<effectVars, reviewVars>>

----------------------------------------------------------------------------
Init ==
    /\ EffectInit
    /\ state = [NoState EXCEPT !.rev = 1, !.phase = "planning"]
    /\ linear = "Ready for Planning"
    /\ review = [last |-> NoDecision, cycles |-> 0, text |-> "none", of |-> 0,
                 superseded |-> {}, posted |-> 0]
    /\ runs = [r \in Run |-> NoRunYet]

Dispatch(d) == Attempt(d) \/ Protocol(d)

Next ==
    \/ \E d \in Dispatcher : Started(d) \/ Dispatch(d) \/ Failure(d)
    \/ \E r \in Run : Review(r)
    \/ Resume

Spec == Init /\ [][Next]_vars

TypeOK ==
    /\ EffectTypeOK
    /\ linear \in Statuses /\ review \in Reviews
    /\ runs \in [Run -> RunRecords]

(* No decision is accepted for a plan that another one has replaced,       *)
(* however late the reviewer comes with it ("superseded_plan",             *)
(* src/workflow/transition-engine.ts), unless the reviewer found no plan   *)
(* on record: such a decision replaces whatever plan has got there since.  *)
NoStaleDecision ==
    [][review'.last # review.last /\ ~review'.last.found
          => review'.last.plan = state.subject]_vars

(* "Reviewer is a fresh agent with bounded context" and "Reviews must      *)
(* match harness evidence; model-claimed identity is insufficient"         *)
(* (docs/decisions/0007): an accepted decision is one about the plan it is *)
(* accepted for.                                                           *)
DecisionIsAboutPlan ==
    review.last.verdict # "none" => review.last.of = review.last.plan
=============================================================================
