------------------------- MODULE CodeReviewLoopProof -------------------------
(***************************************************************************)
(* Theorems about CodeReviewLoop, for any reviewers and revisers and any   *)
(* limits: its records stay well formed, a lease that has not expired is   *)
(* ended by its owner alone, and a decision is only stored for the         *)
(* artifact on record; and, as long as no call outlasts an agent, no two   *)
(* reviews of one artifact are under way and the stored decisions follow   *)
(* the abstract review cycle.                                              *)
(*                                                                         *)
(* The two action properties rest on what a run that is about to write     *)
(* knows.  Its compare-and-set succeeds only on the revision it loaded, so *)
(* whatever it judged of that record still holds of the stored one; and an *)
(* artifact that a run holds is the stored one until a revision supersedes *)
(* its generation.                                                         *)
(***************************************************************************)
EXTENDS CodeReviewLoop, TLAPS

(* The artifact is the stored one, or its generation is superseded.        *)
Known(s, art) == art.gen \in s.superseded \/ art = s.art

(* A run about to write a claim has found no foreign lease, and a reviewer *)
(* about to write its decision has found its artifact's generation not     *)
(* superseded, in the record its compare-and-set names.                    *)
ClaimJudged(r, q, s) ==
    q.at = "claim" /\ q.step = "cas" /\ q.expected = s.rev
        => s.lease.owner \in {NoRun, r} \/ s.lease.expired

DecisionJudged(r, q, s) ==
    r \in Reviewer /\ q.at = "apply"
        => /\ q.verdict \in Verdicts
           /\ q.step = "cas" /\ q.expected = s.rev => q.held.art.gen \notin s.superseded

RunInv(r, q, s) ==
    /\ q.held.rev =< s.rev /\ q.expected =< s.rev
    /\ Known(s, q.held.art)
    /\ ClaimJudged(r, q, s)
    /\ DecisionJudged(r, q, s)

StateInv(s) == s.rev >= 1 /\ Known(s, HandedOff.art)

Inv ==
    /\ TypeOK
    /\ StateInv(state)
    /\ \A r \in Run : RunInv(r, runs[r], state)

(* What a stored transition does to what the runs know.                    *)
Moved(s, t) ==
    /\ t.rev = s.rev + 1
    /\ s.superseded \subseteq t.superseded
    /\ t.art = s.art \/ s.art.gen \in t.superseded

----------------------------------------------------------------------------
(* A subject, an attempt, and the record handoff leaves.                   *)
LEMMA Parts ==
    /\ NoRun \notin Run /\ HandedOff \in WorkflowStates
    /\ \A s \in WorkflowStates : SubjectOf(s) \in Subjects
    /\ \A r \in Run : ByRun(r) \in Attempts
    /\ \A d \in Decisions : ByDecision(d) \in Attempts
  <1>1. NoRun \notin Run
    BY RunsAssumption DEF Run
  <1>2. NoLease \in Leases
    BY DEF NoLease, Leases, Subjects
  <1>3. /\ \A r \in Run \union {NoRun} : ByRun(r) \in Attempts
        /\ \A d \in Decisions : ByDecision(d) \in Attempts
    BY DEF ByRun, ByDecision, Attempts
  <1>4. [gen |-> Builder, head |-> 0] \in Artifacts
    BY DEF Artifacts
  <1>5. HandedOff \in WorkflowStates
    BY <1>2, <1>3, <1>4 DEF HandedOff, WorkflowStates, Phases
  <1>6. \A s \in WorkflowStates : SubjectOf(s) \in Subjects
    BY DEF WorkflowStates, Artifacts, SubjectOf, Subjects
  <1> QED BY <1>1, <1>3, <1>5, <1>6

(* A claim stores a well-formed record and leaves artifact and decision.   *)
LEMMA ClaimedStores ==
    ASSUME NEW s \in WorkflowStates, NEW r \in Reviewer, NEW subject \in Subjects
    PROVE  LET t == Claimed(s, r, subject) IN
           /\ t \in WorkflowStates /\ Moved(s, t)
           /\ t.lease.owner = r /\ t.last = s.last
  <1>1. s.rev + 1 \in Nat
    BY DEF WorkflowStates
  <1>2. ByRun(r) \in Attempts
    BY Parts DEF Run
  <1>3. [owner |-> r, subject |-> subject, expired |-> FALSE] \in Leases
    BY DEF Leases
  <1> QED BY <1>1, <1>2, <1>3 DEF Claimed, Moved, WorkflowStates, Phases

(* A decision stores itself, and ends the lease of its reviewer at most.   *)
LEMMA DecidedStores ==
    ASSUME NEW s \in WorkflowStates, NEW r \in Reviewer, NEW d \in Decisions
    PROVE  LET t == Decided(s, r, d) IN
           /\ t \in WorkflowStates /\ Moved(s, t)
           /\ t.last = d /\ (t.lease = s.lease \/ s.lease.owner = r)
  <1> DEFINE limit == d.verdict = "needs_revision" /\ s.cycles + 1 > MaxCycles
             phase == CASE limit                  -> "blocked"
                        [] d.verdict = "approved" -> "pm_review"
                        [] OTHER                  -> "code_revision"
             cycles == IF d.verdict = "needs_revision" /\ ~limit THEN s.cycles + 1 ELSE s.cycles
             lease == IF s.lease.owner = r THEN NoLease ELSE s.lease
  <1>1. s.rev + 1 \in Nat /\ cycles \in Nat
    BY DEF WorkflowStates
  <1>2. phase \in Phases
    BY DEF Phases
  <1>3. lease \in Leases
    BY DEF NoLease, Leases, Subjects, WorkflowStates
  <1>4. ByDecision(d) \in Attempts
    BY Parts
  <1>5. Decided(s, r, d) =
          [s EXCEPT !.rev = @ + 1, !.phase = phase, !.cycles = cycles, !.last = d,
                    !.lease = lease, !.attempt = ByDecision(d)]
    BY DEF Decided, WorkflowStates
  <1> HIDE DEF phase, cycles, lease
  <1>6. Decided(s, r, d) \in WorkflowStates /\ Moved(s, Decided(s, r, d))
    BY <1>1, <1>2, <1>3, <1>4, <1>5 DEF WorkflowStates, Moved
  <1>7. Decided(s, r, d).last = d /\ Decided(s, r, d).lease = lease
    BY <1>5 DEF WorkflowStates
  <1> QED BY <1>6, <1>7 DEF lease

(* A revision supersedes the generation it replaces.                       *)
LEMMA RevisedStores ==
    ASSUME NEW s \in WorkflowStates, NEW r \in Reviser, NEW head \in Nat
    PROVE  LET t == Revised(s, r, head) IN
           /\ t \in WorkflowStates /\ Moved(s, t)
           /\ t.last = s.last /\ t.lease = s.lease
  <1>1. s.rev + 1 \in Nat
    BY DEF WorkflowStates
  <1>2. ByRun(r) \in Attempts
    BY Parts DEF Run
  <1>3. [gen |-> r, head |-> head] \in Artifacts
    BY DEF Artifacts
  <1>4. s.superseded \union {s.art.gen} \in SUBSET (Reviser \union {Builder})
    BY DEF WorkflowStates, Artifacts
  <1> QED BY <1>1, <1>2, <1>3, <1>4 DEF Revised, Moved, WorkflowStates, Phases

(* Records of runs that start a stage, end, or loop.                       *)
LEMMA RunTypes ==
    /\ \A stage \in Stages : At(stage) \in RunRecords
    /\ \A result \in Results : Ended(result) \in RunRecords
    /\ \A stage \in Stages, held \in WorkflowStates :
          /\ [At(stage) EXCEPT !.held = held] \in RunRecords
          /\ Looping(stage, held) \in RunRecords
  <1>1. \A stage \in Stages : At(stage) \in RunRecords
    BY Parts, LimitsAssumption DEF At, RunRecords, Results
  <1>2. 1 \in 0..MaxTries
    BY LimitsAssumption
  <1>3. \A held \in WorkflowStates : held.rev \in Nat
    BY DEF WorkflowStates
  <1>4. \A result \in Results : Ended(result) \in RunRecords
    BY <1>1 DEF Ended, RunRecords, Stages
  <1>5. ASSUME NEW stage \in Stages, NEW held \in WorkflowStates
        PROVE  /\ [At(stage) EXCEPT !.held = held] \in RunRecords
               /\ Looping(stage, held) \in RunRecords
    <2>1. At(stage) \in RunRecords /\ held.rev \in Nat
      BY <1>1, <1>3, <1>5
    <2> QED BY <2>1, <1>2, <1>5 DEF Looping, RunRecords
  <1> QED BY <1>1, <1>4, <1>5

LEMMA WorkingType ==
    ASSUME NEW r \in Run, NEW held \in WorkflowStates
    PROVE  Working(r, held) \in RunRecords
  <1> DEFINE ahead == IF Stalls THEN {}
                 ELSE {<<q, HalfOf(q)>> : q \in {p \in Run \ {r} : HalfOf(p) # "none"}}
  <1>1. \A q \in Run : HalfOf(q) \in Half
    BY DEF HalfOf, Half
  <1>2. ahead \in SUBSET (Run \X Half)
    BY <1>1
  <1>3. At("agent") \in RunRecords
    BY RunTypes DEF Stages
  <1>4. Working(r, held) = [At("agent") EXCEPT !.held = held, !.ahead = ahead]
    BY DEF Working
  <1> HIDE DEF ahead
  <1> QED BY <1>2, <1>3, <1>4 DEF RunRecords

(* What every run knows of a record it still knows of the one that follows.*)
LEMMA RunInvMoves ==
    ASSUME NEW r, NEW q \in RunRecords, NEW s \in WorkflowStates, NEW t \in WorkflowStates,
           RunInv(r, q, s), Moved(s, t)
    PROVE  RunInv(r, q, t)
  <1>1. /\ s.rev \in Nat /\ t.rev = s.rev + 1
        /\ q.held.rev \in Nat /\ q.expected \in Nat
    BY DEF RunRecords, WorkflowStates, Moved
  <1>2. q.held.rev =< t.rev /\ q.expected =< t.rev /\ q.expected # t.rev
    BY <1>1 DEF RunInv
  <1>3. Known(t, q.held.art)
    BY DEF RunInv, Moved, Known
  <1> QED BY <1>2, <1>3 DEF RunInv, ClaimJudged, DecisionJudged

LEMMA StateInvMoves ==
    ASSUME NEW s \in WorkflowStates, NEW t \in WorkflowStates, StateInv(s), Moved(s, t)
    PROVE  StateInv(t)
  <1>1. t.rev >= 1
    BY DEF StateInv, Moved, WorkflowStates
  <1> QED BY <1>1 DEF StateInv, Moved, Known

----------------------------------------------------------------------------
(* One run moves: what is left to show is what it knows afterwards.        *)
LEMMA OneRunMoves ==
    ASSUME Inv, NEW r \in Run, NEW q \in RunRecords,
           runs' = [runs EXCEPT ![r] = q],
           state' = state \/ (state' \in WorkflowStates /\ Moved(state, state')),
           linear' \in Statuses, live' \in Nat, RunInv(r, q, state')
    PROVE  Inv'
  <1>1. state \in WorkflowStates /\ runs \in [Run -> RunRecords]
    BY DEF Inv, TypeOK
  <1>2. state' \in WorkflowStates /\ runs' \in [Run -> RunRecords]
    BY <1>1
  <1>3. StateInv(state')
    BY <1>1, <1>2, StateInvMoves DEF Inv
  <1>4. ASSUME NEW p \in Run PROVE RunInv(p, runs'[p], state')
    <2>1. CASE p = r
      BY <1>1, <2>1
    <2>2. CASE p # r
      <3>1. runs'[p] = runs[p] /\ runs[p] \in RunRecords
        BY <1>1, <2>2
      <3>2. RunInv(p, runs[p], state)
        BY DEF Inv
      <3>3. CASE state' = state
        BY <3>1, <3>2, <3>3
      <3>4. CASE state' \in WorkflowStates /\ Moved(state, state')
        BY <1>1, <3>1, <3>2, <3>4, RunInvMoves
      <3> QED BY <3>3, <3>4
    <2> QED BY <2>1, <2>2
  <1> QED BY <1>2, <1>3, <1>4 DEF Inv, TypeOK

(* A run that ends, or starts over with nothing held, knows nothing.       *)
LEMMA NothingHeld ==
    ASSUME NEW r, NEW s \in WorkflowStates, StateInv(s), NEW q \in RunRecords,
           q.held = HandedOff, q.expected = 0, q.at \notin {"claim", "apply"}
    PROVE  RunInv(r, q, s)
  <1>1. HandedOff.rev = 1 /\ s.rev \in Nat /\ s.rev >= 1
    BY DEF HandedOff, WorkflowStates, StateInv
  <1> QED BY <1>1 DEF RunInv, StateInv, ClaimJudged, DecisionJudged

LEMMA FinishKeeps ==
    ASSUME Inv, NEW r \in Run, NEW result \in Results, Finish(r, result),
           UNCHANGED state, linear' \in Statuses, live' \in Nat
    PROVE  Inv'
  <1>1. Ended(result) \in RunRecords
    BY RunTypes
  <1>2. /\ Ended(result).held = HandedOff /\ Ended(result).expected = 0
        /\ Ended(result).at = "done"
    BY DEF Ended, At
  <1>3. state \in WorkflowStates /\ StateInv(state)
    BY DEF Inv, TypeOK
  <1>4. RunInv(r, Ended(result), state)
    BY <1>1, <1>2, <1>3, NothingHeld
  <1>5. RunInv(r, Ended(result), state')
    BY <1>4
  <1> QED BY <1>1, <1>5, OneRunMoves DEF Finish

(* Another pass of the loop: the judgement of the last one is dropped.     *)
LEMMA AgainKeeps ==
    ASSUME Inv, NEW r \in Run, Again(r), UNCHANGED <<state, linear, live>>
    PROVE  Inv'
  <1> DEFINE q == [runs[r] EXCEPT !.step = "load", !.tries = @ + 1, !.expected = state.rev]
  <1>1. /\ state \in WorkflowStates /\ state.rev \in Nat /\ runs[r] \in RunRecords
        /\ linear' \in Statuses /\ live' \in Nat
        /\ RunInv(r, runs[r], state)
    BY DEF Inv, TypeOK, WorkflowStates
  <1>2. CASE runs[r].tries < MaxTries
    <2>1. runs[r].tries + 1 \in 0..MaxTries
      BY <1>1, <1>2, LimitsAssumption DEF RunRecords
    <2>2. q \in RunRecords
      BY <1>1, <2>1 DEF RunRecords
    <2>3. /\ q.step = "load" /\ q.expected = state.rev /\ q.at = runs[r].at
          /\ q.held = runs[r].held /\ q.verdict = runs[r].verdict
      BY <1>1 DEF RunRecords
    <2> HIDE DEF q
    <2>4. RunInv(r, q, state)
      BY <1>1, <2>3 DEF RunInv, ClaimJudged, DecisionJudged
    <2>5. RunInv(r, q, state')
      BY <2>4
    <2>6. runs' = [runs EXCEPT ![r] = q]
      BY <1>2 DEF Again, q
    <2> QED BY <1>1, <2>2, <2>5, <2>6, OneRunMoves
  <1>3. CASE ~(runs[r].tries < MaxTries)
    <2>1. Finish(r, "failed")
      BY <1>3 DEF Again, Finish
    <2> QED BY <1>1, <2>1, FinishKeeps DEF Results
  <1> QED BY <1>2, <1>3

(* A run goes on to its compare-and-set with what it has judged.           *)
LEMMA GoesKeeps ==
    ASSUME Inv, NEW r \in Run, Goes(r), UNCHANGED <<state, linear, live>>,
           runs[r].at = "claim" => state.lease.owner \in {NoRun, r} \/ state.lease.expired,
           r \in Reviewer /\ runs[r].at = "apply"
               => runs[r].held.art.gen \notin state.superseded
    PROVE  Inv'
  <1> DEFINE q == [runs[r] EXCEPT !.step = "cas"]
  <1>1. /\ runs[r] \in RunRecords /\ linear' \in Statuses /\ live' \in Nat
        /\ RunInv(r, runs[r], state)
    BY DEF Inv, TypeOK
  <1>2. q \in RunRecords
    BY <1>1 DEF RunRecords
  <1>3. /\ q.expected = runs[r].expected /\ q.at = runs[r].at
        /\ q.held = runs[r].held /\ q.verdict = runs[r].verdict
    BY <1>1 DEF RunRecords
  <1>4. runs' = [runs EXCEPT ![r] = q]
    BY DEF Goes
  <1> HIDE DEF q
  <1>5. RunInv(r, q, state)
    BY <1>1, <1>3 DEF RunInv, ClaimJudged, DecisionJudged
  <1>6. RunInv(r, q, state')
    BY <1>5
  <1> QED BY <1>1, <1>2, <1>4, <1>6, OneRunMoves

----------------------------------------------------------------------------
(* The invariant holds initially and through every action.                 *)
LEMMA InvInit == Init => Inv
  <1> SUFFICES ASSUME Init PROVE Inv
    OBVIOUS
  <1>1. At("idle") \in RunRecords
    BY RunTypes DEF Stages
  <1>2. state \in WorkflowStates /\ StateInv(state)
    <2>1. state = HandedOff /\ HandedOff \in WorkflowStates
      BY Parts DEF Init
    <2>2. HandedOff.rev = 1
      BY DEF HandedOff
    <2> QED BY <2>1, <2>2 DEF StateInv, Known
  <1>3. TypeOK
    BY <1>1, <1>2 DEF Init, TypeOK, Statuses
  <1>4. ASSUME NEW r \in Run PROVE RunInv(r, runs[r], state)
    <2>1. runs[r] = At("idle")
      BY DEF Init
    <2>2. At("idle").held = HandedOff /\ At("idle").expected = 0 /\ At("idle").at = "idle"
      BY DEF At
    <2> QED BY <1>1, <1>2, <2>1, <2>2, NothingHeld
  <1> QED BY <1>2, <1>3, <1>4 DEF Inv

(* A run's record at a stage where nothing is judged, with what it holds.  *)
LEMMA HoldingKeeps ==
    ASSUME Inv, NEW r \in Run, NEW q \in RunRecords, runs' = [runs EXCEPT ![r] = q],
           state' = state \/ (state' \in WorkflowStates /\ Moved(state, state')),
           linear' \in Statuses, live' \in Nat,
           q.held.rev =< state'.rev, q.expected =< state'.rev, Known(state', q.held.art),
           q.step = "load", q.at = "apply" /\ r \in Reviewer => q.verdict \in Verdicts
    PROVE  Inv'
  <1>1. RunInv(r, q, state')
    BY DEF RunInv, ClaimJudged, DecisionJudged
  <1> QED BY <1>1, OneRunMoves

LEMMA LoopingKeeps ==
    ASSUME Inv, NEW r \in Run, NEW q \in RunRecords,
           runs' = [runs EXCEPT ![r] = q],
           q.held = runs[r].held, q.expected \in {0, runs[r].held.rev}, q.step = "load",
           q.at = "apply" /\ r \in Reviewer => q.verdict \in Verdicts,
           UNCHANGED <<state, linear>>, live' \in Nat
    PROVE  Inv'
  <1>1. /\ state \in WorkflowStates /\ runs[r] \in RunRecords /\ linear' \in Statuses
        /\ RunInv(r, runs[r], state) /\ StateInv(state)
    BY DEF Inv, TypeOK
  <1>2. q.held.rev =< state.rev /\ q.expected =< state.rev /\ Known(state, q.held.art)
    <2>1. state.rev \in Nat
      BY <1>1 DEF WorkflowStates
    <2> QED BY <1>1, <2>1 DEF RunInv
  <1> QED BY <1>1, <1>2, HoldingKeeps

LEMMA StoredKeeps ==
    ASSUME Inv, NEW r \in Run,
           runs' = [runs EXCEPT ![r] = [At("status") EXCEPT !.held = state']],
           state' \in WorkflowStates, Moved(state, state'), UNCHANGED <<linear, live>>
    PROVE  Inv'
  <1> DEFINE q == [At("status") EXCEPT !.held = state']
  <1>1. q \in RunRecords
    BY RunTypes DEF Stages
  <1>2. q.held = state' /\ q.at = "status" /\ q.expected = 0 /\ q.step = "load"
    BY DEF At
  <1>3. q.held.rev =< state'.rev /\ q.expected =< state'.rev /\ Known(state', q.held.art)
    BY <1>2 DEF WorkflowStates, Known
  <1>4. linear' \in Statuses /\ live' \in Nat /\ runs' = [runs EXCEPT ![r] = q]
    BY DEF Inv, TypeOK
  <1> HIDE DEF q
  <1> QED BY <1>1, <1>2, <1>3, <1>4, HoldingKeeps

LEMMA StartKeeps ==
    ASSUME Inv, NEW r \in Run, runs' = [runs EXCEPT ![r] = At("load")],
           UNCHANGED <<state, linear, live>>
    PROVE  Inv'
  <1>1. At("load") \in RunRecords
    BY RunTypes DEF Stages
  <1>2. At("load").held = HandedOff /\ At("load").expected = 0 /\ At("load").at = "load"
    BY DEF At
  <1>3. state \in WorkflowStates /\ StateInv(state) /\ linear' \in Statuses /\ live' \in Nat
    BY DEF Inv, TypeOK
  <1>4. RunInv(r, At("load"), state)
    BY <1>1, <1>2, <1>3, NothingHeld
  <1>5. RunInv(r, At("load"), state')
    BY <1>4
  <1> QED BY <1>1, <1>3, <1>5, OneRunMoves

LEMMA LoadKeeps ==
    ASSUME Inv, NEW r \in Run, Load(r)
    PROVE  Inv'
  <1> DEFINE q == [At("inspect") EXCEPT !.held = state]
  <1>1. state \in WorkflowStates /\ linear' \in Statuses /\ live' \in Nat /\ state' = state
    BY DEF Inv, TypeOK, Load
  <1>2. q \in RunRecords
    BY <1>1, RunTypes DEF Stages
  <1>3. q.held = state /\ q.at = "inspect" /\ q.expected = 0 /\ q.step = "load"
    BY DEF At
  <1>4. q.held.rev =< state.rev /\ q.expected =< state.rev /\ Known(state, q.held.art)
    BY <1>1, <1>3 DEF WorkflowStates, Known
  <1>5. runs' = [runs EXCEPT ![r] = q]
    BY DEF Load
  <1> QED BY <1>1, <1>2, <1>3, <1>4, <1>5, HoldingKeeps

LEMMA ReviewInspectKeeps ==
    ASSUME Inv, NEW r \in Reviewer, ReviewInspect(r)
    PROVE  Inv'
  <1>1. /\ r \in Run /\ UNCHANGED <<state, linear, live>>
        /\ linear' \in Statuses /\ live' \in Nat
        /\ runs[r].held \in WorkflowStates
    BY DEF Inv, TypeOK, ReviewInspect, Run, RunRecords
  <1>2. \/ Finish(r, "duplicate_phase_completed") \/ Finish(r, "failed")
        \/ runs' = [runs EXCEPT ![r] = Looping("claim", runs[r].held)]
    BY DEF ReviewInspect
  <1>3. CASE Finish(r, "duplicate_phase_completed") \/ Finish(r, "failed")
    BY <1>1, <1>3, FinishKeeps DEF Results
  <1>4. CASE runs' = [runs EXCEPT ![r] = Looping("claim", runs[r].held)]
    <2> DEFINE q == Looping("claim", runs[r].held)
    <2>1. q \in RunRecords
      BY <1>1, RunTypes DEF Stages
    <2>2. /\ q.held = runs[r].held /\ q.expected = runs[r].held.rev
          /\ q.step = "load" /\ q.at = "claim"
      BY DEF Looping, At
    <2> HIDE DEF q
    <2>3. runs' = [runs EXCEPT ![r] = q]
      BY <1>4 DEF q
    <2> QED BY <1>1, <2>1, <2>2, <2>3, LoopingKeeps
  <1> QED BY <1>2, <1>3, <1>4

LEMMA ClaimLoadKeeps ==
    ASSUME Inv, NEW r \in Reviewer, ClaimLoad(r)
    PROVE  Inv'
  <1>1. /\ r \in Run /\ UNCHANGED <<state, linear, live>> /\ runs[r].at = "claim"
        /\ linear' \in Statuses /\ live' \in Nat
    BY DEF Inv, TypeOK, ClaimLoad, Run
  <1>2. CASE Again(r)
    BY <1>1, <1>2, AgainKeeps
  <1>3. CASE Finish(r, "active_run_already_claimed") \/ Finish(r, "failed")
    BY <1>1, <1>3, FinishKeeps DEF Results
  <1>4. CASE ~Foreign(state.lease, r, SubjectOf(runs[r].held)) /\ Goes(r)
    <2>1. state.lease.owner \in {NoRun, r} \/ state.lease.expired
      BY <1>4 DEF Foreign
    <2> QED BY <1>1, <1>4, <2>1, GoesKeeps
  <1>5. \/ Again(r)
        \/ Finish(r, "active_run_already_claimed") \/ Finish(r, "failed")
        \/ ~Foreign(state.lease, r, SubjectOf(runs[r].held)) /\ Goes(r)
    BY DEF ClaimLoad
  <1> QED BY <1>2, <1>3, <1>4, <1>5

(* The claim the reviewer stores, with the artifact it loaded before.      *)
LEMMA ClaimCasKeeps ==
    ASSUME Inv, NEW r \in Reviewer, ClaimCas(r)
    PROVE  Inv'
  <1>1. /\ r \in Run /\ linear' \in Statuses /\ live' \in Nat
        /\ UNCHANGED <<linear, live>>
        /\ state \in WorkflowStates /\ runs[r] \in RunRecords
        /\ RunInv(r, runs[r], state)
    BY DEF Inv, TypeOK, ClaimCas, Run
  <1>2. CASE CasLost(r) /\ Again(r)
    BY <1>1, <1>2, AgainKeeps DEF CasLost
  <1>3. CASE /\ state' = Claimed(state, r, SubjectOf(runs[r].held))
             /\ runs' = [runs EXCEPT ![r] =
                            Working(r, [state' EXCEPT !.art = runs[r].held.art])]
    <2> DEFINE held == [state' EXCEPT !.art = runs[r].held.art]
               q == Working(r, held)
    <2>1. runs[r].held \in WorkflowStates /\ SubjectOf(runs[r].held) \in Subjects
      BY <1>1, Parts DEF RunRecords
    <2>2. state' \in WorkflowStates /\ Moved(state, state')
      BY <1>1, <1>3, <2>1, ClaimedStores
    <2>3. held \in WorkflowStates
      BY <2>1, <2>2 DEF WorkflowStates
    <2>4. q \in RunRecords
      BY <1>1, <2>3, WorkingType
    <2>5. q.held = held /\ q.expected = 0 /\ q.step = "load" /\ q.at = "agent"
      BY DEF Working, At
    <2>6. held.rev = state'.rev /\ held.art = runs[r].held.art
      BY <2>2 DEF WorkflowStates
    <2>7. Known(state', held.art)
      BY <1>1, <2>2, <2>6 DEF RunInv, Known, Moved
    <2>8. state'.rev \in Nat
      BY <2>2 DEF WorkflowStates
    <2>9. runs' = [runs EXCEPT ![r] = q]
      BY <1>3
    <2> HIDE DEF q, held
    <2>10. q.held.rev =< state'.rev /\ q.expected =< state'.rev /\ Known(state', q.held.art)
      BY <2>5, <2>6, <2>7, <2>8
    <2> QED BY <1>1, <2>2, <2>4, <2>5, <2>9, <2>10, HoldingKeeps
  <1> QED BY <1>2, <1>3 DEF ClaimCas, CasWon

LEMMA ReviewAgentKeeps ==
    ASSUME Inv, NEW r \in Reviewer, ReviewAgent(r)
    PROVE  Inv'
  <1>1. /\ r \in Run /\ UNCHANGED <<state, linear, live>>
        /\ linear' \in Statuses /\ live' \in Nat
        /\ runs[r].held \in WorkflowStates
    BY DEF Inv, TypeOK, ReviewAgent, Run, RunRecords
  <1>2. CASE Finish(r, "failed")
    BY <1>1, <1>2, FinishKeeps DEF Results
  <1>3. ASSUME NEW verdict \in Verdicts,
               runs' = [runs EXCEPT ![r] =
                          [Looping("apply", runs[r].held) EXCEPT !.verdict = verdict]]
        PROVE  Inv'
    <2> DEFINE q == [Looping("apply", runs[r].held) EXCEPT !.verdict = verdict]
    <2>1. Looping("apply", runs[r].held) \in RunRecords
      BY <1>1, RunTypes DEF Stages
    <2>2. q \in RunRecords
      BY <1>3, <2>1 DEF RunRecords
    <2>3. /\ q.held = runs[r].held /\ q.expected = runs[r].held.rev
          /\ q.step = "load" /\ q.verdict = verdict
      BY DEF Looping, At
    <2>4. runs' = [runs EXCEPT ![r] = q]
      BY <1>3
    <2> HIDE DEF q
    <2> QED BY <1>1, <1>3, <2>2, <2>3, <2>4, LoopingKeeps
  <1> QED BY <1>2, <1>3 DEF ReviewAgent

(* What a reviewer is about to apply is a well-formed decision.            *)
LEMMA DecisionType ==
    ASSUME Inv, NEW r \in Reviewer, runs[r].at = "apply"
    PROVE  DecisionOf(r) \in Decisions
  <1>1. r \in Run /\ runs[r] \in RunRecords /\ RunInv(r, runs[r], state)
    BY DEF Inv, TypeOK, Run
  <1>2. runs[r].held.art.head \in Nat /\ runs[r].held.cycles \in Nat
    BY <1>1 DEF RunRecords, WorkflowStates, Artifacts
  <1>3. runs[r].verdict \in Verdicts
    BY <1>1 DEF RunInv, DecisionJudged
  <1> QED BY <1>2, <1>3 DEF DecisionOf, Decisions

LEMMA DecideLoadKeeps ==
    ASSUME Inv, NEW r \in Reviewer, DecideLoad(r)
    PROVE  Inv'
  <1>1. /\ r \in Run /\ UNCHANGED <<state, linear, live>> /\ runs[r].at = "apply"
        /\ linear' \in Statuses /\ live' \in Nat
    BY DEF Inv, TypeOK, DecideLoad, Run
  <1>2. CASE Again(r)
    BY <1>1, <1>2, AgainKeeps
  <1>3. CASE Finish(r, "duplicate_phase_completed") \/ Finish(r, "failed")
    BY <1>1, <1>3, FinishKeeps DEF Results
  <1>4. CASE runs[r].held.art.gen \notin state.superseded /\ Goes(r)
    BY <1>1, <1>4, GoesKeeps
  <1>5. \/ Again(r)
        \/ Finish(r, "duplicate_phase_completed") \/ Finish(r, "failed")
        \/ runs[r].held.art.gen \notin state.superseded /\ Goes(r)
    BY DEF DecideLoad
  <1> QED BY <1>2, <1>3, <1>4, <1>5

(* A decision is written to the record the reviewer judged.                *)
LEMMA DecideCasKeeps ==
    ASSUME Inv, NEW r \in Reviewer, DecideCas(r)
    PROVE  Inv'
  <1> DEFINE q == [At("status") EXCEPT !.held = state']
  <1>1. /\ r \in Run /\ linear' \in Statuses /\ live' \in Nat
        /\ UNCHANGED <<linear, live>> /\ state \in WorkflowStates
    BY DEF Inv, TypeOK, DecideCas, Run
  <1>2. CASE CasLost(r) /\ Finish(r, "duplicate_phase_completed")
    BY <1>1, <1>2, FinishKeeps DEF CasLost, Results
  <1>3. CASE CasLost(r) /\ Again(r)
    BY <1>1, <1>3, AgainKeeps DEF CasLost
  <1>4. CASE state' = Decided(state, r, DecisionOf(r)) /\ runs' = [runs EXCEPT ![r] = q]
    <2>1. DecisionOf(r) \in Decisions
      BY DecisionType DEF DecideCas
    <2>2. state' \in WorkflowStates /\ Moved(state, state')
      BY <1>1, <1>4, <2>1, DecidedStores
    <2> QED BY <1>1, <1>4, <2>2, StoredKeeps
  <1> QED BY <1>2, <1>3, <1>4 DEF DecideCas, CasWon

LEMMA SetStatusKeeps ==
    ASSUME Inv, NEW r \in Run, SetStatus(r)
    PROVE  Inv'
  <1>1. runs[r].held.phase \in Phases
    BY DEF Inv, TypeOK, RunRecords, WorkflowStates
  <1>2. StatusOf(runs[r].held.phase) \in Statuses
    BY <1>1 DEF StatusOf, Phases, Statuses
  <1>3. live' \in Nat /\ state' = state /\ Finish(r, "success") /\ linear' \in Statuses
    BY <1>2 DEF Inv, TypeOK, SetStatus
  <1> QED BY <1>3, FinishKeeps DEF Results

LEMMA ReviseInspectKeeps ==
    ASSUME Inv, NEW r \in Reviser, ReviseInspect(r)
    PROVE  Inv'
  <1> DEFINE q == Working(r, runs[r].held)
  <1>1. /\ r \in Run /\ UNCHANGED <<state, linear, live>>
        /\ linear' \in Statuses /\ live' \in Nat
        /\ runs[r].held \in WorkflowStates
    BY DEF Inv, TypeOK, ReviseInspect, Run, RunRecords
  <1>2. CASE Finish(r, "failed")
    BY <1>1, <1>2, FinishKeeps DEF Results
  <1>3. CASE runs' = [runs EXCEPT ![r] = q]
    <2>1. q \in RunRecords
      BY <1>1, WorkingType
    <2>2. q.held = runs[r].held /\ q.expected = 0 /\ q.step = "load" /\ q.at = "agent"
      BY DEF Working, At
    <2> HIDE DEF q
    <2> QED BY <1>1, <1>3, <2>1, <2>2, LoopingKeeps
  <1> QED BY <1>2, <1>3 DEF ReviseInspect

LEMMA ReviseAgentKeeps ==
    ASSUME Inv, NEW r \in Reviser, ReviseAgent(r)
    PROVE  Inv'
  <1> DEFINE q == [At("observe") EXCEPT !.held = runs[r].held, !.head = live']
  <1>1. /\ r \in Run /\ UNCHANGED <<state, linear>>
        /\ linear' \in Statuses /\ live' \in Nat
        /\ runs[r].held \in WorkflowStates
    BY DEF Inv, TypeOK, ReviseAgent, Run, RunRecords
  <1>2. CASE Finish(r, "failed")
    BY <1>1, <1>2, FinishKeeps DEF Results
  <1>3. CASE runs' = [runs EXCEPT ![r] = q]
    <2>1. At("observe") \in RunRecords
      BY RunTypes DEF Stages
    <2>2. q \in RunRecords
      BY <1>1, <2>1 DEF RunRecords
    <2>3. q.held = runs[r].held /\ q.expected = 0 /\ q.step = "load" /\ q.at = "observe"
      BY DEF At
    <2> HIDE DEF q
    <2> QED BY <1>1, <1>3, <2>2, <2>3, LoopingKeeps
  <1> QED BY <1>2, <1>3 DEF ReviseAgent

LEMMA ReviseObserveKeeps ==
    ASSUME Inv, NEW r \in Reviser, ReviseObserve(r)
    PROVE  Inv'
  <1>1. /\ r \in Run /\ UNCHANGED <<state, linear, live>>
        /\ linear' \in Statuses /\ live' \in Nat /\ live \in Nat
        /\ runs[r].held \in WorkflowStates /\ runs[r].head \in Nat
    BY DEF Inv, TypeOK, ReviseObserve, Run, RunRecords
  <1>2. PICK head \in Inspected(runs[r].head) :
          runs' = [runs EXCEPT ![r] = [Looping("apply", runs[r].held) EXCEPT !.head = head]]
    BY DEF ReviseObserve
  <1> DEFINE q == [Looping("apply", runs[r].held) EXCEPT !.head = head]
  <1>3. Looping("apply", runs[r].held) \in RunRecords /\ head \in Nat
    BY <1>1, <1>2, RunTypes DEF Stages, Inspected
  <1>4. q \in RunRecords
    BY <1>3 DEF RunRecords
  <1>5. q.held = runs[r].held /\ q.expected = runs[r].held.rev /\ q.step = "load"
    BY DEF Looping, At
  <1>6. runs' = [runs EXCEPT ![r] = q] /\ r \notin Reviewer
    BY <1>2, RunsAssumption
  <1> HIDE DEF q
  <1> QED BY <1>1, <1>4, <1>5, <1>6, LoopingKeeps

LEMMA ReviseLoadKeeps ==
    ASSUME Inv, NEW r \in Reviser, ReviseLoad(r)
    PROVE  Inv'
  <1>1. /\ r \in Run /\ r \notin Reviewer /\ UNCHANGED <<state, linear, live>>
        /\ runs[r].at = "apply"
    BY RunsAssumption DEF ReviseLoad, Run
  <1>2. CASE Again(r)
    BY <1>1, <1>2, AgainKeeps
  <1>3. CASE Goes(r)
    BY <1>1, <1>3, GoesKeeps
  <1> QED BY <1>2, <1>3 DEF ReviseLoad

LEMMA ReviseCasKeeps ==
    ASSUME Inv, NEW r \in Reviser, ReviseCas(r)
    PROVE  Inv'
  <1> DEFINE q == [At("status") EXCEPT !.held = state']
  <1>1. /\ r \in Run /\ linear' \in Statuses /\ live' \in Nat
        /\ UNCHANGED <<linear, live>>
        /\ state \in WorkflowStates /\ runs[r].head \in Nat
    BY DEF Inv, TypeOK, ReviseCas, Run, RunRecords
  <1>2. CASE CasLost(r) /\ Again(r)
    BY <1>1, <1>2, AgainKeeps DEF CasLost
  <1>3. CASE state' = Revised(state, r, runs[r].head) /\ runs' = [runs EXCEPT ![r] = q]
    <2>1. state' \in WorkflowStates /\ Moved(state, state')
      BY <1>1, <1>3, RevisedStores
    <2> QED BY <1>1, <1>3, <2>1, StoredKeeps
  <1> QED BY <1>2, <1>3 DEF ReviseCas, CasWon

LEMMA CrashKeeps ==
    ASSUME Inv, NEW r \in Run, Crash(r)
    PROVE  Inv'
  <1>1. /\ UNCHANGED <<state, linear, live>> /\ Finish(r, "crashed")
        /\ linear' \in Statuses /\ live' \in Nat
    BY DEF Inv, TypeOK, Crash
  <1> QED BY <1>1, FinishKeeps DEF Results

(* An expired lease is one fewer that a claim has to look out for.         *)
LEMMA LeaseExpiresKeeps ==
    ASSUME Inv, LeaseExpires
    PROVE  Inv'
  <1>1. /\ state \in WorkflowStates /\ UNCHANGED <<linear, live, runs>>
        /\ state' = [state EXCEPT !.lease.expired = TRUE]
    BY DEF Inv, TypeOK, LeaseExpires
  <1>2. state.lease \in Leases
    BY <1>1 DEF WorkflowStates
  <1>3. [state.lease EXCEPT !.expired = TRUE] \in Leases
    BY <1>2 DEF Leases
  <1>4. state' = [state EXCEPT !.lease = [state.lease EXCEPT !.expired = TRUE]]
    BY <1>1
  <1>5. state' \in WorkflowStates
    BY <1>1, <1>3, <1>4 DEF WorkflowStates
  <1>6. /\ state'.rev = state.rev /\ state'.superseded = state.superseded
        /\ state'.art = state.art /\ state'.lease.expired
    BY <1>1, <1>2, <1>4 DEF WorkflowStates, Leases
  <1>7. ASSUME NEW r \in Run PROVE RunInv(r, runs'[r], state')
    BY <1>1, <1>6, <1>7 DEF Inv, RunInv, Known, ClaimJudged, DecisionJudged
  <1>8. StateInv(state')
    BY <1>6 DEF Inv, StateInv, Known
  <1> QED BY <1>1, <1>5, <1>7, <1>8 DEF Inv, TypeOK

LEMMA InvNext == Inv /\ [Next]_vars => Inv'
  <1> SUFFICES ASSUME Inv, [Next]_vars PROVE Inv'
    OBVIOUS
  <1>1. ASSUME NEW r \in Reviewer, Review(r) PROVE Inv'
    <2>1. r \in Run
      BY DEF Run
    <2>2. CASE ReviewStart(r)
      BY <2>1, <2>2, StartKeeps DEF ReviewStart
    <2>3. CASE Load(r)
      BY <2>1, <2>3, LoadKeeps
    <2>4. CASE ReviewInspect(r)
      BY <2>4, ReviewInspectKeeps
    <2>5. CASE ClaimLoad(r)
      BY <2>5, ClaimLoadKeeps
    <2>6. CASE ClaimCas(r)
      BY <2>6, ClaimCasKeeps
    <2>7. CASE ReviewAgent(r)
      BY <2>7, ReviewAgentKeeps
    <2>8. CASE DecideLoad(r)
      BY <2>8, DecideLoadKeeps
    <2>9. CASE DecideCas(r)
      BY <2>9, DecideCasKeeps
    <2>10. CASE SetStatus(r)
      BY <2>1, <2>10, SetStatusKeeps
    <2> QED
      BY <1>1, <2>2, <2>3, <2>4, <2>5, <2>6, <2>7, <2>8, <2>9, <2>10 DEF Review
  <1>2. ASSUME NEW r \in Reviser, Revise(r) PROVE Inv'
    <2>1. r \in Run
      BY DEF Run
    <2>2. CASE ReviseStart(r)
      BY <2>1, <2>2, StartKeeps DEF ReviseStart
    <2>3. CASE Load(r)
      BY <2>1, <2>3, LoadKeeps
    <2>4. CASE ReviseInspect(r)
      BY <2>4, ReviseInspectKeeps
    <2>5. CASE ReviseAgent(r)
      BY <2>5, ReviseAgentKeeps
    <2>6. CASE ReviseObserve(r)
      BY <2>6, ReviseObserveKeeps
    <2>7. CASE ReviseLoad(r)
      BY <2>7, ReviseLoadKeeps
    <2>8. CASE ReviseCas(r)
      BY <2>8, ReviseCasKeeps
    <2>9. CASE SetStatus(r)
      BY <2>1, <2>9, SetStatusKeeps
    <2> QED
      BY <1>2, <2>2, <2>3, <2>4, <2>5, <2>6, <2>7, <2>8, <2>9 DEF Revise
  <1>3. ASSUME NEW r \in Run, Crash(r) PROVE Inv'
    BY <1>3, CrashKeeps
  <1>4. CASE LeaseExpires
    BY <1>4, LeaseExpiresKeeps
  <1>5. CASE UNCHANGED vars
    BY <1>5 DEF vars, Inv, TypeOK, StateInv, RunInv, Known, ClaimJudged, DecisionJudged
  <1> QED BY <1>1, <1>2, <1>3, <1>4, <1>5 DEF Next

(* Only three steps of runs write the record; a lease's expiry is the      *)
(* fourth.                                                                 *)
LEMMA Writers ==
    ASSUME [Next]_vars, state' # state
    PROVE  \/ LeaseExpires
           \/ \E r \in Reviewer : ClaimCas(r) \/ DecideCas(r)
           \/ \E r \in Reviser : ReviseCas(r)
  <1>1. ASSUME NEW r \in Reviewer, Review(r) PROVE ClaimCas(r) \/ DecideCas(r)
    BY <1>1 DEF Review, ReviewStart, Load, ReviewInspect, ClaimLoad, ReviewAgent,
                DecideLoad, SetStatus
  <1>2. ASSUME NEW r \in Reviser, Revise(r) PROVE ReviseCas(r)
    BY <1>2 DEF Revise, ReviseStart, Load, ReviseInspect, ReviseAgent, ReviseObserve,
                ReviseLoad, SetStatus
  <1>3. ASSUME NEW r \in Run, Crash(r) PROVE FALSE
    BY <1>3 DEF Crash
  <1>4. Next
    BY DEF vars
  <1> QED BY <1>1, <1>2, <1>3, <1>4 DEF Next

----------------------------------------------------------------------------
(* The records stay well formed (TypeOK).                                  *)
THEOREM TypeCorrect == Spec => []TypeOK
  <1>1. Inv => TypeOK
    BY DEF Inv
  <1> QED BY InvInit, InvNext, <1>1, PTL DEF Spec

(* A live lease is ended by its owner alone (LeaseKept): a claim finds it  *)
(* foreign in the record it would replace, a decision clears the lease of  *)
(* its own reviewer only, a revision none.                                 *)
THEOREM LeasesKept == Spec => LeaseKept
  <1>1. Inv /\ [Next]_vars =>
          LET lease == state.lease IN
          lease.owner # NoRun /\ ~lease.expired /\ state'.lease.owner # lease.owner
              => \A r \in Run \ {lease.owner} : runs'[r] = runs[r]
    <2> SUFFICES ASSUME Inv, [Next]_vars, state.lease.owner # NoRun, ~state.lease.expired,
                        state'.lease.owner # state.lease.owner,
                        NEW p \in Run \ {state.lease.owner}
                 PROVE  runs'[p] = runs[p]
      OBVIOUS
    <2>1. state \in WorkflowStates /\ runs \in [Run -> RunRecords]
      BY DEF Inv, TypeOK
    <2>2. ~LeaseExpires
      <3> SUFFICES ASSUME LeaseExpires PROVE FALSE
        OBVIOUS
      <3>1. state' = [state EXCEPT !.lease.expired = TRUE] /\ state.lease \in Leases
        BY <2>1 DEF LeaseExpires, WorkflowStates
      <3> QED BY <2>1, <3>1 DEF WorkflowStates, Leases
    <2>3. ASSUME NEW r \in Reviewer, ClaimCas(r) PROVE FALSE
      <3>1. r \in Run /\ RunInv(r, runs[r], state) /\ runs[r] \in RunRecords
        BY <2>1 DEF Inv, Run
      <3>2. state' = Claimed(state, r, SubjectOf(runs[r].held)) /\ ~Stale(r)
        BY <2>3 DEF ClaimCas, CasWon, CasLost
      <3>3. SubjectOf(runs[r].held) \in Subjects
        BY <3>1, Parts DEF RunRecords
      <3>4. state'.lease.owner = r
        BY <2>1, <3>2, <3>3, ClaimedStores
      <3>5. state.lease.owner = r
        BY <2>3, <3>1, <3>2 DEF RunInv, ClaimJudged, ClaimCas, Stale
      <3> QED BY <3>4, <3>5
    <2>4. ASSUME NEW r \in Reviser, ReviseCas(r) PROVE FALSE
      <3>1. runs[r].head \in Nat
        BY <2>1 DEF Run, RunRecords
      <3>2. state' = Revised(state, r, runs[r].head)
        BY <2>4 DEF ReviseCas, CasWon, CasLost
      <3> QED BY <2>1, <3>1, <3>2, RevisedStores
    <2>5. ASSUME NEW r \in Reviewer, DecideCas(r) PROVE runs'[p] = runs[p]
      <3>1. DecisionOf(r) \in Decisions
        BY <2>5, DecisionType DEF DecideCas
      <3>2. state' = Decided(state, r, DecisionOf(r))
        BY <2>5 DEF DecideCas, CasWon, CasLost
      <3>3. state.lease.owner = r
        BY <2>1, <3>1, <3>2, DecidedStores
      <3>4. runs' = [runs EXCEPT ![r] = [At("status") EXCEPT !.held = state']]
        BY <2>5 DEF DecideCas, CasWon, CasLost
      <3> QED BY <2>1, <3>3, <3>4
    <2> QED BY <2>2, <2>3, <2>4, <2>5, Writers
  <1> QED BY InvInit, InvNext, <1>1, PTL DEF Spec, LeaseKept

(* A stored decision is about the artifact on record (DecisionIsCurrent):  *)
(* the reviewer has found its artifact's generation not superseded in the  *)
(* record it replaces, and such an artifact is the stored one.             *)
THEOREM DecisionsAreCurrent == Spec => DecisionIsCurrent
  <1>1. Inv /\ [Next]_vars =>
          (state'.last # state.last => state'.last.head = state.art.head)
    <2> SUFFICES ASSUME Inv, [Next]_vars, state'.last # state.last
                 PROVE  state'.last.head = state.art.head
      OBVIOUS
    <2>1. state \in WorkflowStates /\ runs \in [Run -> RunRecords]
      BY DEF Inv, TypeOK
    <2>2. ~LeaseExpires
      <3>1. [state EXCEPT !.lease.expired = TRUE].last = state.last
        BY <2>1 DEF WorkflowStates
      <3> QED BY <3>1 DEF LeaseExpires
    <2>3. ASSUME NEW r \in Reviewer, ClaimCas(r) PROVE FALSE
      <3>1. SubjectOf(runs[r].held) \in Subjects
        BY <2>1, Parts DEF RunRecords, Run
      <3>2. state' = Claimed(state, r, SubjectOf(runs[r].held))
        BY <2>3 DEF ClaimCas, CasWon, CasLost
      <3> QED BY <2>1, <3>1, <3>2, ClaimedStores
    <2>4. ASSUME NEW r \in Reviser, ReviseCas(r) PROVE FALSE
      <3>1. runs[r].head \in Nat
        BY <2>1 DEF Run, RunRecords
      <3>2. state' = Revised(state, r, runs[r].head)
        BY <2>4 DEF ReviseCas, CasWon, CasLost
      <3> QED BY <2>1, <3>1, <3>2, RevisedStores
    <2>5. ASSUME NEW r \in Reviewer, DecideCas(r)
          PROVE  state'.last.head = state.art.head
      <3>1. /\ r \in Run /\ RunInv(r, runs[r], state)
            /\ runs[r].at = "apply" /\ runs[r].step = "cas"
        BY <2>5 DEF Inv, Run, DecideCas
      <3>2. DecisionOf(r) \in Decisions
        BY <3>1, DecisionType
      <3>3. state' = Decided(state, r, DecisionOf(r)) /\ ~Stale(r)
        BY <2>5 DEF DecideCas, CasWon, CasLost
      <3>4. state'.last = DecisionOf(r)
        BY <2>1, <3>2, <3>3, DecidedStores
      <3>5. runs[r].held.art.gen \notin state.superseded
        BY <3>1, <3>3 DEF RunInv, DecisionJudged, Stale
      <3>6. runs[r].held.art = state.art
        BY <3>1, <3>5 DEF RunInv, Known
      <3> QED BY <3>4, <3>6 DEF DecisionOf
    <2> QED BY <2>2, <2>3, <2>4, <2>5, Writers
  <1> QED BY InvInit, InvNext, <1>1, PTL DEF Spec, DecisionIsCurrent

----------------------------------------------------------------------------
(* One agent per artifact, while no call outlasts an agent (~Stalls).  A   *)
(* reviewer at work on the artifact on record holds the lease of its       *)
(* subject, so a run that loads the record now finds it leased.  What is   *)
(* left are the runs that loaded before: as long as one of them is on its  *)
(* way to a claim, the lease it would have to replace is foreign and live. *)

Unclaimed == {"idle", "load", "inspect", "claim"}
Reviewing(r) == runs[r].at \in {"agent", "apply"}
OnRecord(r) == Reviewing(r) /\ runs[r].held.art.gen \notin state.superseded
Eligible(q) == runs[q].at \in {"inspect", "claim"} /\ ~Leased(runs[q].held)

(* Nothing names a reviewer before its claim, or a generation before the   *)
(* reviser that makes it has stored it; and the one on record is current.  *)
ClaimsAreNew ==
    \A p \in Reviewer :
        runs[p].at \in Unclaimed
            => state.lease.owner # p /\ \A q \in Run : runs[q].held.lease.owner # p

RevisionsAreNew ==
    /\ state.art.gen \notin state.superseded
    /\ \A x \in Reviser :
          runs[x].at \notin {"status", "done"}
              => /\ state.art.gen # x /\ x \notin state.superseded
                 /\ \A q \in Run : runs[q].held.art.gen # x

(* A review of the artifact on record has the lease of its subject, and    *)
(* the artifact is not decided yet.                                        *)
LeaseOfReview ==
    \A r \in Reviewer :
        OnRecord(r) => /\ state.lease.owner = r /\ state.lease.subject = SubjectOf(state)
                       /\ ~Accepted(state)

(* Nothing was decided behind a run on its way to a claim.                 *)
SeesLatest ==
    \A q \in Reviewer :
        Eligible(q) => state.last = runs[q].held.last /\ state.cycles = runs[q].held.cycles

(* Such a run has been overtaken by the review it would duplicate, whose   *)
(* agent is still at work on a lease taken after the run's load.           *)
Overtaken ==
    \A q, r \in Reviewer :
        /\ Eligible(q) /\ Reviewing(r)
        /\ OnRecord(r) \/ runs[q].held.art = runs[r].held.art
        => /\ state.lease.owner = r /\ ~state.lease.expired
           /\ runs[q].held.lease.owner # r
           /\ runs[r].at = "agent" /\ <<q, "before">> \in runs[r].ahead

Gated ==
    \A q \in Reviewer :
        runs[q].at = "claim" => ~Leased(runs[q].held) /\ ~Accepted(runs[q].held)

(* A revision is only under way when one was asked for.                    *)
StatusAsked == linear = "Code Revision" => state.cycles > 0

RevisionAsked ==
    /\ StatusAsked
    /\ \A r \in Run :
          runs[r].at = "status" /\ runs[r].held.phase = "code_revision" => state.cycles > 0
    /\ \A x \in Reviser : runs[x].at \notin {"idle", "done"} => state.cycles > 0

LeaseInv ==
    /\ ClaimsAreNew /\ RevisionsAreNew /\ LeaseOfReview /\ SeesLatest
    /\ Overtaken /\ Gated /\ RevisionAsked /\ OneAgentPerArtifact

(* A step that leaves the record alone: what its run may hold afterwards.  *)
Quiet(r, q) ==
    /\ q.held.lease.owner \in {NoRun, runs[r].held.lease.owner, state.lease.owner}
    /\ q.held.art.gen \in {Builder, runs[r].held.art.gen, state.art.gen}
    /\ q.at \in Unclaimed => runs[r].at \in Unclaimed
    /\ q.at = "status" /\ q.held.phase = "code_revision" => state.cycles > 0
    /\ r \in Reviser =>
          /\ q.at \notin {"status", "done"} => runs[r].at \notin {"status", "done"}
          /\ q.at \notin {"idle", "done"} => state.cycles > 0
    /\ r \in Reviewer =>
          /\ q.at \in {"agent", "apply"}
                => /\ Reviewing(r) /\ q.held = runs[r].held
                   /\ (q.at = runs[r].at /\ q.ahead = runs[r].ahead) \/ AgentMayEnd(r)
          /\ q.at \in {"inspect", "claim"} /\ ~Leased(q.held)
                => q.held = state \/ (q.held = runs[r].held /\ Eligible(r))
          /\ q.at = "claim" => ~Leased(q.held) /\ ~Accepted(q.held)

LEMMA QuietKeeps ==
    ASSUME Inv, LeaseInv, NEW r \in Run, NEW q, Quiet(r, q),
           runs' = [runs EXCEPT ![r] = q], state' = state,
           StatusAsked'
    PROVE  LeaseInv'
  <1>1. /\ runs \in [Run -> RunRecords] /\ state \in WorkflowStates
        /\ runs'[r] = q /\ \A p \in Run \ {r} : runs'[p] = runs[p]
        /\ Reviewer \subseteq Run /\ Reviser \subseteq Run
        /\ NoRun \notin Reviewer /\ Builder \notin Reviser
    BY RunsAssumption DEF Inv, TypeOK, Run
  <1>2. ClaimsAreNew'
    BY <1>1 DEF LeaseInv, ClaimsAreNew, Quiet
  <1>3. RevisionsAreNew'
    <2>1. state.art.gen \notin state.superseded
      BY DEF LeaseInv, RevisionsAreNew
    <2>2. ASSUME NEW x \in Reviser, runs'[x].at \notin {"status", "done"}
          PROVE  /\ state.art.gen # x /\ x \notin state.superseded
                 /\ \A p \in Run : runs'[p].held.art.gen # x
      <3>1. runs[x].at \notin {"status", "done"}
        BY <1>1, <2>2 DEF Quiet
      <3>2. /\ state.art.gen # x /\ x \notin state.superseded
            /\ \A p \in Run : runs[p].held.art.gen # x
        BY <3>1 DEF LeaseInv, RevisionsAreNew
      <3> QED BY <1>1, <3>2 DEF Quiet
    <2> QED BY <2>1, <2>2 DEF RevisionsAreNew
  <1>4. ASSUME NEW p \in Reviewer, Reviewing(p)'
        PROVE  Reviewing(p) /\ runs'[p].held = runs[p].held
    BY <1>1, <1>4 DEF Reviewing, Quiet
  <1>5. ASSUME NEW p \in Reviewer, OnRecord(p)' PROVE OnRecord(p)
    BY <1>4, <1>5 DEF OnRecord
  <1>6. LeaseOfReview'
    BY <1>5 DEF LeaseInv, LeaseOfReview, Accepted, SubjectOf
  <1>7. ASSUME NEW p \in Reviewer, Eligible(p)'
        PROVE  runs'[p].held = state \/ (Eligible(p) /\ runs'[p].held = runs[p].held)
    BY <1>1, <1>7 DEF Eligible, Quiet, Leased, SubjectOf
  <1>8. SeesLatest'
    BY <1>7 DEF LeaseInv, SeesLatest
  <1>9. Overtaken'
    <2> SUFFICES ASSUME NEW p \in Reviewer, NEW t \in Reviewer, Eligible(p)', Reviewing(t)',
                        OnRecord(t)' \/ runs'[p].held.art = runs'[t].held.art
                 PROVE  /\ state.lease.owner = t /\ ~state.lease.expired
                        /\ runs'[p].held.lease.owner # t
                        /\ runs'[t].at = "agent" /\ <<p, "before">> \in runs'[t].ahead
      BY DEF Overtaken
    <2>1. Reviewing(t) /\ runs'[t].held = runs[t].held
      BY <1>4
    <2>2. runs'[p].held # state
      <3> SUFFICES ASSUME runs'[p].held = state PROVE FALSE
        OBVIOUS
      <3>1. OnRecord(t)
        BY <1>5, <2>1 DEF LeaseInv, RevisionsAreNew, OnRecord
      <3>2. state.lease.owner = t /\ state.lease.subject = SubjectOf(state)
        BY <3>1 DEF LeaseInv, LeaseOfReview
      <3> QED BY <1>1, <3>2 DEF Eligible, Leased, SubjectOf
    <2>3. Eligible(p) /\ runs'[p].held = runs[p].held
      BY <1>7, <2>2
    <2>4. OnRecord(t) \/ runs[p].held.art = runs[t].held.art
      BY <1>5, <2>1, <2>3
    <2>5. /\ state.lease.owner = t /\ ~state.lease.expired
          /\ runs[p].held.lease.owner # t
          /\ runs[t].at = "agent" /\ <<p, "before">> \in runs[t].ahead
      BY <2>1, <2>3, <2>4 DEF LeaseInv, Overtaken
    <2>6. ~AgentMayEnd(t)
      <3>1. HalfOf(p) = "before"
        BY <2>3 DEF Eligible, HalfOf
      <3>2. <<p, "before">>[1] = p /\ <<p, "before">>[2] = "before"
        OBVIOUS
      <3> QED BY <2>5, <3>1, <3>2 DEF AgentMayEnd
    <2>7. runs'[t].at = runs[t].at /\ runs'[t].ahead = runs[t].ahead
      BY <1>1, <2>6 DEF Quiet, Reviewing
    <2> QED BY <2>3, <2>5, <2>7
  <1>10. Gated'
    BY <1>1 DEF LeaseInv, Gated, Quiet, Leased, Accepted, SubjectOf
  <1>11. RevisionAsked'
    BY <1>1 DEF LeaseInv, RevisionAsked, Quiet
  <1>12. OneAgentPerArtifact'
    BY <1>4 DEF LeaseInv, OneAgentPerArtifact, Reviewing
  <1> QED BY <1>2, <1>3, <1>6, <1>8, <1>9, <1>10, <1>11, <1>12 DEF LeaseInv

LEMMA StatusStays ==
    ASSUME LeaseInv, UNCHANGED <<state, linear>>
    PROVE  StatusAsked'
  <1>1. StatusAsked
    BY DEF LeaseInv, RevisionAsked
  <1> QED BY <1>1 DEF StatusAsked

LEMMA FinishQuiet ==
    ASSUME Inv, LeaseInv, NEW r \in Run, NEW result, Finish(r, result),
           state' = state, StatusAsked'
    PROVE  LeaseInv'
  <1> DEFINE q == Ended(result)
  <1>1. q.held = HandedOff /\ q.at = "done"
    BY DEF Ended, At
  <1>2. HandedOff.lease.owner = NoRun /\ HandedOff.art.gen = Builder
    BY DEF HandedOff, NoLease
  <1>3. runs' = [runs EXCEPT ![r] = q]
    BY DEF Finish
  <1> HIDE DEF q
  <1>4. Quiet(r, q)
    BY <1>1, <1>2 DEF Quiet, Unclaimed
  <1> QED BY <1>3, <1>4, QuietKeeps

(* A run that goes on with what it holds.                                  *)
LEMMA SameQuiet ==
    ASSUME Inv, LeaseInv, NEW r \in Run, NEW q, runs' = [runs EXCEPT ![r] = q],
           q.at = runs[r].at, q.held = runs[r].held, q.ahead = runs[r].ahead,
           UNCHANGED <<state, linear>>
    PROVE  LeaseInv'
  <1>1. r \in Reviewer => (runs[r].at = "claim" => ~Leased(runs[r].held) /\ ~Accepted(runs[r].held))
    BY DEF LeaseInv, Gated
  <1>2. /\ r \in Reviser /\ runs[r].at \notin {"idle", "done"} => state.cycles > 0
        /\ runs[r].at = "status" /\ runs[r].held.phase = "code_revision" => state.cycles > 0
    BY DEF LeaseInv, RevisionAsked
  <1>3. Quiet(r, q)
    BY <1>1, <1>2 DEF Quiet, Reviewing, Eligible
  <1> QED BY <1>3, StatusStays, QuietKeeps

LEMMA AgainQuiet ==
    ASSUME Inv, LeaseInv, NEW r \in Run, Again(r), UNCHANGED <<state, linear>>
    PROVE  LeaseInv'
  <1> DEFINE q == [runs[r] EXCEPT !.step = "load", !.tries = @ + 1, !.expected = state.rev]
  <1>1. runs[r] \in RunRecords
    BY DEF Inv, TypeOK
  <1>2. CASE runs[r].tries < MaxTries
    <2>1. q.at = runs[r].at /\ q.held = runs[r].held /\ q.ahead = runs[r].ahead
      BY <1>1 DEF RunRecords
    <2>2. runs' = [runs EXCEPT ![r] = q]
      BY <1>2 DEF Again
    <2> HIDE DEF q
    <2> QED BY <2>1, <2>2, SameQuiet
  <1>3. CASE ~(runs[r].tries < MaxTries)
    <2>1. Finish(r, "failed")
      BY <1>3 DEF Again, Finish
    <2> QED BY <2>1, StatusStays, FinishQuiet
  <1> QED BY <1>2, <1>3

LEMMA GoesQuiet ==
    ASSUME Inv, LeaseInv, NEW r \in Run, Goes(r), UNCHANGED <<state, linear>>
    PROVE  LeaseInv'
  <1> DEFINE q == [runs[r] EXCEPT !.step = "cas"]
  <1>1. q.at = runs[r].at /\ q.held = runs[r].held /\ q.ahead = runs[r].ahead
    BY DEF Inv, TypeOK, RunRecords
  <1>2. runs' = [runs EXCEPT ![r] = q]
    BY DEF Goes
  <1> HIDE DEF q
  <1> QED BY <1>1, <1>2, SameQuiet

(* A run starts, of a reviser because a revision was asked for.            *)
LEMMA StartQuiet ==
    ASSUME Inv, LeaseInv, NEW r \in Run, runs[r].at = "idle",
           runs' = [runs EXCEPT ![r] = At("load")], UNCHANGED <<state, linear>>,
           r \in Reviser => state.cycles > 0
    PROVE  LeaseInv'
  <1> DEFINE q == At("load")
  <1>1. q.held = HandedOff /\ q.at = "load"
    BY DEF At
  <1>2. HandedOff.lease.owner = NoRun /\ HandedOff.art.gen = Builder
    BY DEF HandedOff, NoLease
  <1>3. runs' = [runs EXCEPT ![r] = q]
    OBVIOUS
  <1> HIDE DEF q
  <1>4. Quiet(r, q)
    BY <1>1, <1>2 DEF Quiet, Unclaimed
  <1> QED BY <1>3, <1>4, StatusStays, QuietKeeps

LEMMA LoadQuiet ==
    ASSUME Inv, LeaseInv, NEW r \in Run, Load(r)
    PROVE  LeaseInv'
  <1> DEFINE q == [At("inspect") EXCEPT !.held = state]
  <1>1. q.held = state /\ q.at = "inspect"
    BY DEF At
  <1>2. /\ runs' = [runs EXCEPT ![r] = q] /\ runs[r].at = "load"
        /\ UNCHANGED <<state, linear>>
    BY DEF Load
  <1> HIDE DEF q
  <1>3. r \in Reviser => state.cycles > 0
    BY <1>2 DEF LeaseInv, RevisionAsked
  <1>4. Quiet(r, q)
    BY <1>1, <1>2, <1>3 DEF Quiet, Unclaimed
  <1> QED BY <1>2, <1>4, StatusStays, QuietKeeps

(* The gate lets a run through that found its subject free.                *)
LEMMA ReviewInspectQuiet ==
    ASSUME Inv, LeaseInv, NEW r \in Reviewer, ReviewInspect(r)
    PROVE  LeaseInv'
  <1> DEFINE held == runs[r].held
             q == Looping("claim", held)
  <1>1. /\ r \in Run /\ r \notin Reviser /\ UNCHANGED <<state, linear>>
        /\ runs[r].at = "inspect"
    BY RunsAssumption DEF ReviewInspect, Run
  <1>2. CASE Finish(r, "duplicate_phase_completed") \/ Finish(r, "failed")
    BY <1>1, <1>2, StatusStays, FinishQuiet
  <1>3. CASE ~Accepted(held) /\ ~Leased(held) /\ runs' = [runs EXCEPT ![r] = q]
    <2>1. q.held = held /\ q.at = "claim"
      BY DEF Looping, At
    <2> HIDE DEF q
    <2>2. Quiet(r, q)
      BY <1>1, <1>3, <2>1 DEF Quiet, Unclaimed, Eligible
    <2> QED BY <1>1, <1>3, <2>2, StatusStays, QuietKeeps
  <1>4. \/ Finish(r, "duplicate_phase_completed") \/ Finish(r, "failed")
        \/ ~Accepted(held) /\ ~Leased(held) /\ runs' = [runs EXCEPT ![r] = q]
    BY DEF ReviewInspect
  <1> QED BY <1>2, <1>3, <1>4

LEMMA ClaimLoadQuiet ==
    ASSUME Inv, LeaseInv, NEW r \in Reviewer, ClaimLoad(r)
    PROVE  LeaseInv'
  <1>1. r \in Run /\ UNCHANGED <<state, linear>>
    BY DEF ClaimLoad, Run
  <1>2. CASE Again(r)
    BY <1>1, <1>2, AgainQuiet
  <1>3. CASE Finish(r, "active_run_already_claimed") \/ Finish(r, "failed")
    BY <1>1, <1>3, StatusStays, FinishQuiet
  <1>4. CASE Goes(r)
    BY <1>1, <1>4, GoesQuiet
  <1> QED BY <1>2, <1>3, <1>4 DEF ClaimLoad

(* The agent has outlasted the runs that were on their way to a claim.     *)
LEMMA ReviewAgentQuiet ==
    ASSUME Inv, LeaseInv, NEW r \in Reviewer, ReviewAgent(r)
    PROVE  LeaseInv'
  <1>1. /\ r \in Run /\ r \notin Reviser /\ UNCHANGED <<state, linear>>
        /\ runs[r].at = "agent" /\ AgentMayEnd(r)
    BY RunsAssumption DEF ReviewAgent, Run
  <1>2. CASE Finish(r, "failed")
    BY <1>1, <1>2, StatusStays, FinishQuiet
  <1>3. ASSUME NEW verdict \in Verdicts,
               runs' = [runs EXCEPT ![r] =
                          [Looping("apply", runs[r].held) EXCEPT !.verdict = verdict]]
        PROVE  LeaseInv'
    <2> DEFINE q == [Looping("apply", runs[r].held) EXCEPT !.verdict = verdict]
    <2>1. q.held = runs[r].held /\ q.at = "apply"
      BY DEF Looping, At
    <2>2. runs' = [runs EXCEPT ![r] = q]
      BY <1>3
    <2> HIDE DEF q
    <2>3. Quiet(r, q)
      BY <1>1, <2>1 DEF Quiet, Unclaimed, Reviewing
    <2> QED BY <1>1, <2>2, <2>3, StatusStays, QuietKeeps
  <1> QED BY <1>2, <1>3 DEF ReviewAgent

LEMMA DecideLoadQuiet ==
    ASSUME Inv, LeaseInv, NEW r \in Reviewer, DecideLoad(r)
    PROVE  LeaseInv'
  <1>1. r \in Run /\ UNCHANGED <<state, linear>>
    BY DEF DecideLoad, Run
  <1>2. CASE Again(r)
    BY <1>1, <1>2, AgainQuiet
  <1>3. CASE Finish(r, "duplicate_phase_completed") \/ Finish(r, "failed")
    BY <1>1, <1>3, StatusStays, FinishQuiet
  <1>4. CASE Goes(r)
    BY <1>1, <1>4, GoesQuiet
  <1> QED BY <1>2, <1>3, <1>4 DEF DecideLoad

(* The status that asks for a revision follows a decision that took one.   *)
LEMMA SetStatusQuiet ==
    ASSUME Inv, LeaseInv, NEW r \in Run, SetStatus(r)
    PROVE  LeaseInv'
  <1>1. /\ Finish(r, "success") /\ state' = state /\ runs[r].at = "status"
        /\ linear' = StatusOf(runs[r].held.phase)
    BY DEF SetStatus
  <1>2. runs[r].held.phase \in Phases
    BY DEF Inv, TypeOK, RunRecords, WorkflowStates
  <1>3. runs[r].held.phase = "code_revision" => state.cycles > 0
    BY <1>1 DEF LeaseInv, RevisionAsked
  <1>4. StatusOf(runs[r].held.phase) = "Code Revision" => runs[r].held.phase = "code_revision"
    BY <1>2 DEF StatusOf, Phases
  <1>5. StatusAsked'
    BY <1>1, <1>3, <1>4 DEF StatusAsked
  <1> QED BY <1>1, <1>5, FinishQuiet

(* What a reviser does before its write: it only has to stay a reviser.    *)
LEMMA ReviserQuiet ==
    ASSUME Inv, LeaseInv, NEW r \in Reviser, NEW q, runs' = [runs EXCEPT ![r] = q],
           q.held = runs[r].held, q.at \in {"agent", "observe", "apply"},
           runs[r].at \in {"inspect", "agent", "observe", "apply"},
           UNCHANGED <<state, linear>>
    PROVE  LeaseInv'
  <1>1. r \in Run /\ r \notin Reviewer
    BY RunsAssumption DEF Run
  <1>2. state.cycles > 0
    BY DEF LeaseInv, RevisionAsked
  <1>3. Quiet(r, q)
    BY <1>1, <1>2 DEF Quiet, Unclaimed
  <1> QED BY <1>1, <1>3, StatusStays, QuietKeeps

LEMMA ReviseInspectQuiet ==
    ASSUME Inv, LeaseInv, NEW r \in Reviser, ReviseInspect(r)
    PROVE  LeaseInv'
  <1> DEFINE q == Working(r, runs[r].held)
  <1>1. r \in Run /\ UNCHANGED <<state, linear>> /\ runs[r].at = "inspect"
    BY DEF ReviseInspect, Run
  <1>2. CASE Finish(r, "failed")
    BY <1>1, <1>2, StatusStays, FinishQuiet
  <1>3. CASE runs' = [runs EXCEPT ![r] = q]
    <2>1. q.held = runs[r].held /\ q.at = "agent"
      BY DEF Working, At
    <2> HIDE DEF q
    <2> QED BY <1>1, <1>3, <2>1, ReviserQuiet
  <1> QED BY <1>2, <1>3 DEF ReviseInspect

LEMMA ReviseAgentQuiet ==
    ASSUME Inv, LeaseInv, NEW r \in Reviser, ReviseAgent(r)
    PROVE  LeaseInv'
  <1> DEFINE q == [At("observe") EXCEPT !.held = runs[r].held, !.head = live']
  <1>1. r \in Run /\ UNCHANGED <<state, linear>> /\ runs[r].at = "agent"
    BY DEF ReviseAgent, Run
  <1>2. CASE Finish(r, "failed")
    BY <1>1, <1>2, StatusStays, FinishQuiet
  <1>3. CASE runs' = [runs EXCEPT ![r] = q]
    <2>1. q.held = runs[r].held /\ q.at = "observe"
      BY DEF At
    <2> HIDE DEF q
    <2> QED BY <1>1, <1>3, <2>1, ReviserQuiet
  <1> QED BY <1>2, <1>3 DEF ReviseAgent

LEMMA ReviseObserveQuiet ==
    ASSUME Inv, LeaseInv, NEW r \in Reviser, ReviseObserve(r)
    PROVE  LeaseInv'
  <1>1. UNCHANGED <<state, linear>> /\ runs[r].at = "observe"
    BY DEF ReviseObserve
  <1>2. PICK head \in Inspected(runs[r].head) :
          runs' = [runs EXCEPT ![r] = [Looping("apply", runs[r].held) EXCEPT !.head = head]]
    BY DEF ReviseObserve
  <1> DEFINE q == [Looping("apply", runs[r].held) EXCEPT !.head = head]
  <1>3. q.held = runs[r].held /\ q.at = "apply"
    BY DEF Looping, At
  <1>4. runs' = [runs EXCEPT ![r] = q]
    BY <1>2
  <1> HIDE DEF q
  <1> QED BY <1>1, <1>3, <1>4, ReviserQuiet

LEMMA ReviseLoadQuiet ==
    ASSUME Inv, LeaseInv, NEW r \in Reviser, ReviseLoad(r)
    PROVE  LeaseInv'
  <1>1. r \in Run /\ UNCHANGED <<state, linear>> /\ (Again(r) \/ Goes(r))
    BY DEF ReviseLoad, Run
  <1> QED BY <1>1, AgainQuiet, GoesQuiet

(* The lease does not expire on a run that loaded before it was taken and  *)
(* is still on its way to a claim, so none is overtaken any more.          *)
LEMMA LeaseExpiresGuarded ==
    ASSUME Inv, LeaseInv, ~Stalls, LeaseExpires
    PROVE  LeaseInv'
  <1>1. state \in WorkflowStates /\ state.lease \in Leases
    BY DEF Inv, TypeOK, WorkflowStates
  <1>2. /\ UNCHANGED <<linear, runs>> /\ state' = [state EXCEPT !.lease.expired = TRUE]
        /\ \A q \in Run : runs[q].at \in {"inspect", "claim"} =>
                 runs[q].held.lease.owner = state.lease.owner
    BY DEF LeaseExpires
  <1>3. /\ state'.lease.owner = state.lease.owner
        /\ state'.lease.subject = state.lease.subject
        /\ state'.art = state.art /\ state'.superseded = state.superseded
        /\ state'.last = state.last /\ state'.cycles = state.cycles
    BY <1>1, <1>2 DEF WorkflowStates, Leases
  <1>4. Reviewer \subseteq Run
    BY DEF Run
  <1>5. ASSUME NEW q \in Reviewer, NEW r \in Reviewer, Eligible(q), Reviewing(r),
               OnRecord(r) \/ runs[q].held.art = runs[r].held.art
        PROVE  FALSE
    <2>1. state.lease.owner = r /\ runs[q].held.lease.owner # r
      BY <1>5 DEF LeaseInv, Overtaken
    <2> QED BY <1>2, <1>4, <1>5, <2>1 DEF Eligible
  <1>6. ClaimsAreNew' /\ RevisionsAreNew'
    BY <1>2, <1>3 DEF LeaseInv, ClaimsAreNew, RevisionsAreNew
  <1>7. \A r \in Reviewer : /\ Reviewing(r)' <=> Reviewing(r)
                            /\ OnRecord(r)' <=> OnRecord(r)
                            /\ Eligible(r)' <=> Eligible(r)
    BY <1>2, <1>3 DEF Reviewing, OnRecord, Eligible, Leased, SubjectOf
  <1>8. LeaseOfReview' /\ SeesLatest'
    BY <1>2, <1>3, <1>7 DEF LeaseInv, LeaseOfReview, SeesLatest, Accepted, SubjectOf
  <1>9. Overtaken'
    BY <1>2, <1>5, <1>7 DEF Overtaken
  <1>10. Gated' /\ OneAgentPerArtifact'
    BY <1>2 DEF LeaseInv, Gated, OneAgentPerArtifact, Leased, Accepted, SubjectOf
  <1>11. RevisionAsked'
    BY <1>2, <1>3 DEF LeaseInv, RevisionAsked, StatusAsked
  <1> QED BY <1>6, <1>8, <1>9, <1>10, <1>11 DEF LeaseInv

(* A claim: had another run been reviewing the artifact, its lease would   *)
(* have been foreign and live.                                             *)
LEMMA ClaimCasGuarded ==
    ASSUME Inv, LeaseInv, ~Stalls, NEW r \in Reviewer, ClaimCas(r)
    PROVE  LeaseInv'
  <1> DEFINE mine == runs[r].held
             held == [state' EXCEPT !.art = mine.art]
             q == Working(r, held)
  <1>1. /\ r \in Run /\ r \notin Reviser /\ NoRun \notin Reviewer
        /\ linear' = linear /\ runs[r].at = "claim" /\ runs[r].step = "cas"
        /\ state \in WorkflowStates /\ runs \in [Run -> RunRecords]
        /\ mine \in WorkflowStates
        /\ Reviewer \subseteq Run /\ Reviser \subseteq Run
    BY RunsAssumption DEF Inv, TypeOK, ClaimCas, Run, RunRecords
  <1>2. CASE CasLost(r) /\ Again(r)
    BY <1>1, <1>2, AgainQuiet DEF CasLost
  <1>3. CASE /\ ~Stale(r) /\ state' = Claimed(state, r, SubjectOf(mine))
             /\ runs' = [runs EXCEPT ![r] = q]
    <2>1. /\ state'.lease = [owner |-> r, subject |-> SubjectOf(mine), expired |-> FALSE]
          /\ state'.art = state.art /\ state'.superseded = state.superseded
          /\ state'.last = state.last /\ state'.cycles = state.cycles
      BY <1>1, <1>3 DEF Claimed, WorkflowStates
    <2>2. state' \in WorkflowStates
      BY <1>1, <1>3, Parts, ClaimedStores
    <2>3. /\ q.at = "agent" /\ q.held = held
          /\ q.ahead = {<<p, HalfOf(p)>> : p \in {p \in Run \ {r} : HalfOf(p) # "none"}}
      BY DEF Working, At
    <2>4. held.lease.owner = r /\ held.art = mine.art /\ held.cycles = state.cycles
      BY <2>1, <2>2 DEF WorkflowStates
    <2>5. runs'[r] = q /\ \A p \in Run \ {r} : runs'[p] = runs[p]
      BY <1>1, <1>3
    <2> HIDE DEF held, q
    <2>6. Eligible(r) /\ ~Accepted(mine)
      BY <1>1 DEF LeaseInv, Gated, Eligible
    <2>7. state.last = mine.last /\ state.cycles = mine.cycles
      BY <2>6 DEF LeaseInv, SeesLatest
    <2>8. state.lease.owner # r
      BY <1>1 DEF LeaseInv, ClaimsAreNew, Unclaimed
    <2>9. state.lease.owner = NoRun \/ state.lease.expired
      <3>1. ClaimJudged(r, runs[r], state)
        BY <1>1 DEF Inv, RunInv
      <3>2. state.lease.owner \in {NoRun, r} \/ state.lease.expired
        BY <1>1, <1>3, <3>1 DEF ClaimJudged, Stale
      <3> QED BY <2>8, <3>2
    <2>10. ASSUME NEW t \in Reviewer, Reviewing(t)
           PROVE  ~OnRecord(t) /\ runs[t].held.art # mine.art
      <3> SUFFICES ASSUME OnRecord(t) \/ mine.art = runs[t].held.art PROVE FALSE
        OBVIOUS
      <3>1. state.lease.owner = t /\ ~state.lease.expired
        BY <2>6, <2>10 DEF LeaseInv, Overtaken
      <3> QED BY <1>1, <2>9, <3>1
    <2>11. ClaimsAreNew'
      <3> SUFFICES ASSUME NEW p \in Reviewer, runs'[p].at \in Unclaimed
                   PROVE  /\ state'.lease.owner # p
                          /\ \A t \in Run : runs'[t].held.lease.owner # p
        BY DEF ClaimsAreNew
      <3>1. p # r
        BY <2>3, <2>5 DEF Unclaimed
      <3>2. \A t \in Run : runs[t].held.lease.owner # p
        BY <1>1, <2>5, <3>1 DEF LeaseInv, ClaimsAreNew
      <3> QED BY <2>1, <2>3, <2>4, <2>5, <3>1, <3>2
    <2>12. RevisionsAreNew'
      <3>1. \A t \in Run : runs'[t].held.art = runs[t].held.art
        BY <2>3, <2>4, <2>5
      <3>2. \A x \in Reviser : runs'[x] = runs[x]
        BY <1>1, <2>5
      <3> QED BY <2>1, <3>1, <3>2 DEF LeaseInv, RevisionsAreNew
    <2>13. ASSUME NEW t \in Reviewer, Reviewing(t)', t # r
           PROVE  Reviewing(t) /\ ~OnRecord(t)' /\ runs'[t].held.art # mine.art
      <3>1. runs'[t] = runs[t] /\ Reviewing(t)
        BY <1>1, <2>5, <2>13 DEF Reviewing
      <3> QED BY <2>1, <2>10, <3>1 DEF OnRecord, Reviewing
    <2>14. LeaseOfReview'
      <3> SUFFICES ASSUME NEW t \in Reviewer, OnRecord(t)'
                   PROVE  /\ state'.lease.owner = t /\ state'.lease.subject = SubjectOf(state')
                          /\ ~Accepted(state')
        BY DEF LeaseOfReview
      <3>1. t = r
        BY <2>13 DEF OnRecord
      <3>2. mine.art.gen \notin state.superseded
        BY <2>1, <2>3, <2>4, <2>5, <3>1 DEF OnRecord
      <3>3. mine.art = state.art
        <4>1. Known(state, mine.art)
          BY <1>1 DEF Inv, RunInv
        <4> QED BY <3>2, <4>1 DEF Known
      <3>4. SubjectOf(mine) = SubjectOf(state') /\ ~Accepted(state')
        BY <2>1, <2>6, <2>7, <3>3 DEF SubjectOf, Accepted
      <3> QED BY <2>1, <3>1, <3>4
    <2>15. ASSUME NEW p \in Reviewer, Eligible(p)'
           PROVE  p # r /\ runs'[p] = runs[p] /\ Eligible(p)
      <3>1. p # r
        BY <2>3, <2>5, <2>15 DEF Eligible
      <3> QED BY <1>1, <2>5, <2>15, <3>1 DEF Eligible, Leased, SubjectOf
    <2>16. SeesLatest'
      BY <2>1, <2>15 DEF LeaseInv, SeesLatest
    <2>17. Overtaken'
      <3> SUFFICES ASSUME NEW p \in Reviewer, NEW t \in Reviewer, Eligible(p)', Reviewing(t)',
                          OnRecord(t)' \/ runs'[p].held.art = runs'[t].held.art
                   PROVE  /\ state'.lease.owner = t /\ ~state'.lease.expired
                          /\ runs'[p].held.lease.owner # t
                          /\ runs'[t].at = "agent" /\ <<p, "before">> \in runs'[t].ahead
        BY DEF Overtaken
      <3>1. p # r /\ runs'[p] = runs[p] /\ Eligible(p)
        BY <2>15
      <3>2. t = r
        <4> SUFFICES ASSUME t # r PROVE FALSE
          OBVIOUS
        <4>1. runs'[t] = runs[t] /\ Reviewing(t) /\ ~OnRecord(t)'
          BY <1>1, <2>5, <2>13
        <4>2. runs[p].held.art = runs[t].held.art
          BY <3>1, <4>1
        <4>3. state.lease.owner = t /\ ~state.lease.expired
          BY <3>1, <4>1, <4>2 DEF LeaseInv, Overtaken
        <4> QED BY <1>1, <2>9, <4>3
      <3>3. <<p, "before">> \in q.ahead
        <4>1. HalfOf(p) = "before" /\ p \in Run
          BY <1>1, <3>1 DEF Eligible, HalfOf
        <4> QED BY <2>3, <3>1, <4>1
      <3>4. runs[p].held.lease.owner # r
        BY <1>1 DEF LeaseInv, ClaimsAreNew, Unclaimed
      <3> QED BY <2>1, <2>3, <2>5, <3>1, <3>2, <3>3, <3>4
    <2>18. Gated'
      <3> SUFFICES ASSUME NEW p \in Reviewer, runs'[p].at = "claim"
                   PROVE  ~Leased(runs'[p].held) /\ ~Accepted(runs'[p].held)
        BY DEF Gated, Leased, Accepted, SubjectOf
      <3>1. runs'[p] = runs[p]
        BY <1>1, <2>3, <2>5
      <3> QED BY <3>1 DEF LeaseInv, Gated
    <2>19. RevisionAsked'
      <3>1. \A p \in Run : runs'[p].at # "agent" => runs'[p] = runs[p]
        BY <2>3, <2>5
      <3>2. \A x \in Reviser : runs'[x] = runs[x]
        BY <1>1, <2>5
      <3>3. StatusAsked'
        BY <1>1, <2>1 DEF LeaseInv, RevisionAsked, StatusAsked
      <3> QED BY <2>1, <3>1, <3>2, <3>3 DEF LeaseInv, RevisionAsked
    <2>20. OneAgentPerArtifact'
      <3> SUFFICES ASSUME NEW p \in Reviewer, NEW t \in Reviewer, p # t,
                          Reviewing(p)', Reviewing(t)'
                   PROVE  runs'[p].held.art # runs'[t].held.art
        BY DEF OneAgentPerArtifact, Reviewing
      <3>1. runs'[r].held.art = mine.art
        BY <2>3, <2>4, <2>5
      <3>2. CASE p = r \/ t = r
        BY <2>13, <3>1, <3>2
      <3>3. CASE p # r /\ t # r
        <4>1. runs'[p] = runs[p] /\ runs'[t] = runs[t] /\ Reviewing(p) /\ Reviewing(t)
          BY <1>1, <2>5, <2>13, <3>3
        <4> QED BY <4>1 DEF LeaseInv, OneAgentPerArtifact, Reviewing
      <3> QED BY <3>2, <3>3
    <2> QED
      BY <2>11, <2>12, <2>14, <2>16, <2>17, <2>18, <2>19, <2>20 DEF LeaseInv
  <1> QED BY <1>2, <1>3 DEF ClaimCas, CasWon

(* A reviewer about to store its decision reviews the artifact on record.  *)
LEMMA DecidesOnRecord ==
    ASSUME Inv, LeaseInv, NEW r \in Reviewer, DecideCas(r), CasWon(r, Decided(state, r, DecisionOf(r)))
    PROVE  OnRecord(r) /\ runs[r].held.art = state.art /\ ~Accepted(state)
  <1>1. /\ r \in Run /\ runs[r].at = "apply" /\ runs[r].step = "cas" /\ ~Stale(r)
    BY DEF DecideCas, CasWon, Run
  <1>2. RunInv(r, runs[r], state)
    BY <1>1 DEF Inv
  <1>3. runs[r].held.art.gen \notin state.superseded
    BY <1>1, <1>2 DEF RunInv, DecisionJudged, Stale
  <1>4. OnRecord(r)
    BY <1>1, <1>3 DEF OnRecord, Reviewing
  <1>5. runs[r].held.art = state.art
    BY <1>2, <1>3 DEF RunInv, Known
  <1> QED BY <1>4, <1>5 DEF LeaseInv, LeaseOfReview

(* A decision: its reviewer has outlasted every run on its way to a claim, *)
(* and holds the lease that any other review of the artifact would hold.   *)
LEMMA DecideCasGuarded ==
    ASSUME Inv, LeaseInv, NEW r \in Reviewer, DecideCas(r)
    PROVE  LeaseInv'
  <1> DEFINE d == DecisionOf(r)
             q == [At("status") EXCEPT !.held = state']
  <1>1. /\ r \in Run /\ r \notin Reviser /\ NoRun \notin Reviewer
        /\ linear' = linear /\ runs[r].at = "apply"
        /\ state \in WorkflowStates /\ runs \in [Run -> RunRecords]
        /\ Reviewer \subseteq Run /\ Reviser \subseteq Run
    BY RunsAssumption DEF Inv, TypeOK, DecideCas, Run
  <1>2. CASE CasLost(r) /\ Finish(r, "duplicate_phase_completed")
    BY <1>1, <1>2, StatusStays, FinishQuiet DEF CasLost
  <1>3. CASE CasLost(r) /\ Again(r)
    BY <1>1, <1>3, AgainQuiet DEF CasLost
  <1>4. CASE CasWon(r, Decided(state, r, d)) /\ runs' = [runs EXCEPT ![r] = q]
    <2>1. d \in Decisions
      BY <1>1, DecisionType
    <2>2. state' = Decided(state, r, d)
      BY <1>4 DEF CasWon
    <2>3. /\ state'.art = state.art /\ state'.superseded = state.superseded
          /\ state'.lease.owner \in {NoRun, state.lease.owner}
      <3>1. /\ state'.art = state.art /\ state'.superseded = state.superseded
            /\ state'.lease = IF state.lease.owner = r THEN NoLease ELSE state.lease
        BY <1>1, <2>2 DEF Decided, WorkflowStates
      <3> QED BY <3>1 DEF NoLease
    <2>4. /\ state.cycles > 0 => state'.cycles > 0
          /\ state'.phase = "code_revision" => state'.cycles > 0
      <3>1. state.cycles \in Nat /\ d.verdict \in Verdicts
        BY <1>1, <2>1 DEF WorkflowStates, Decisions
      <3> DEFINE limit == d.verdict = "needs_revision" /\ state.cycles + 1 > MaxCycles
      <3>2. /\ state'.cycles = IF d.verdict = "needs_revision" /\ ~limit
                                 THEN state.cycles + 1 ELSE state.cycles
            /\ state'.phase = CASE limit                  -> "blocked"
                                [] d.verdict = "approved" -> "pm_review"
                                [] OTHER                  -> "code_revision"
        BY <1>1, <2>2 DEF Decided, WorkflowStates
      <3>3. state'.phase = "code_revision" => ~limit /\ d.verdict = "needs_revision"
        BY <3>1, <3>2 DEF Verdicts
      <3> QED BY <3>1, <3>2, <3>3
    <2>5. q.at = "status" /\ q.held = state'
      BY DEF At
    <2>6. runs'[r] = q /\ \A p \in Run \ {r} : runs'[p] = runs[p]
      BY <1>1, <1>4
    <2> HIDE DEF q
    <2>7. OnRecord(r)
      BY <1>4, DecidesOnRecord
    <2>8. \A p \in Reviewer : ~Eligible(p)
      BY <1>1, <2>7 DEF LeaseInv, Overtaken, OnRecord
    <2>9. ASSUME NEW p \in Reviewer PROVE ~Eligible(p)'
      <3> SUFFICES ASSUME Eligible(p)' PROVE FALSE
        OBVIOUS
      <3>1. p # r
        BY <2>5, <2>6 DEF Eligible
      <3> QED BY <1>1, <2>6, <2>8, <3>1 DEF Eligible, Leased, SubjectOf
    <2>10. ASSUME NEW t \in Reviewer, Reviewing(t)'
           PROVE  t # r /\ runs'[t] = runs[t] /\ Reviewing(t)
      <3>1. t # r
        BY <2>5, <2>6, <2>10 DEF Reviewing
      <3> QED BY <1>1, <2>6, <2>10, <3>1 DEF Reviewing
    <2>11. ASSUME NEW t \in Reviewer, OnRecord(t)' PROVE FALSE
      <3>1. t # r /\ OnRecord(t)
        BY <2>3, <2>10, <2>11 DEF OnRecord
      <3> QED BY <2>7, <3>1 DEF LeaseInv, LeaseOfReview
    <2>12. ClaimsAreNew'
      <3> SUFFICES ASSUME NEW p \in Reviewer, runs'[p].at \in Unclaimed
                   PROVE  /\ state'.lease.owner # p
                          /\ \A t \in Run : runs'[t].held.lease.owner # p
        BY DEF ClaimsAreNew
      <3>1. p # r
        BY <2>5, <2>6 DEF Unclaimed
      <3>2. state.lease.owner # p /\ \A t \in Run : runs[t].held.lease.owner # p
        BY <1>1, <2>6, <3>1 DEF LeaseInv, ClaimsAreNew
      <3> QED BY <1>1, <2>3, <2>5, <2>6, <3>2
    <2>13. RevisionsAreNew'
      <3>1. \A x \in Reviser : runs'[x] = runs[x]
        BY <1>1, <2>6
      <3>2. \A t \in Run : runs'[t].held.art \in {runs[t].held.art, state.art}
        BY <2>3, <2>5, <2>6
      <3> QED BY <2>3, <3>1, <3>2 DEF LeaseInv, RevisionsAreNew
    <2>14. LeaseOfReview' /\ SeesLatest' /\ Overtaken'
      BY <2>9, <2>11 DEF LeaseOfReview, SeesLatest, Overtaken
    <2>15. Gated'
      <3> SUFFICES ASSUME NEW p \in Reviewer, runs'[p].at = "claim"
                   PROVE  ~Leased(runs'[p].held) /\ ~Accepted(runs'[p].held)
        BY DEF Gated, Leased, Accepted, SubjectOf
      <3>1. runs'[p] = runs[p]
        BY <1>1, <2>5, <2>6
      <3> QED BY <3>1 DEF LeaseInv, Gated
    <2>16. RevisionAsked'
      <3>1. StatusAsked'
        BY <1>1, <2>4 DEF LeaseInv, RevisionAsked, StatusAsked
      <3>2. \A x \in Reviser : runs'[x] = runs[x]
        BY <1>1, <2>6
      <3> QED BY <2>4, <2>5, <2>6, <3>1, <3>2 DEF LeaseInv, RevisionAsked
    <2>17. OneAgentPerArtifact'
      BY <2>10 DEF LeaseInv, OneAgentPerArtifact, Reviewing
    <2> QED BY <2>12, <2>13, <2>14, <2>15, <2>16, <2>17 DEF LeaseInv
  <1> QED BY <1>2, <1>3, <1>4 DEF DecideCas

(* A revision: every review under way is of an artifact that is superseded *)
(* now, and what its run still holds of the lease is as it was.            *)
LEMMA ReviseCasGuarded ==
    ASSUME Inv, LeaseInv, NEW x \in Reviser, ReviseCas(x)
    PROVE  LeaseInv'
  <1> DEFINE q == [At("status") EXCEPT !.held = state']
  <1>1. /\ x \in Run /\ x \notin Reviewer /\ NoRun \notin Reviewer
        /\ linear' = linear /\ runs[x].at = "apply"
        /\ state \in WorkflowStates /\ runs \in [Run -> RunRecords]
        /\ Reviewer \subseteq Run /\ Reviser \subseteq Run
    BY RunsAssumption DEF Inv, TypeOK, ReviseCas, Run
  <1>2. CASE CasLost(x) /\ Again(x)
    BY <1>1, <1>2, AgainQuiet DEF CasLost
  <1>3. CASE state' = Revised(state, x, runs[x].head) /\ runs' = [runs EXCEPT ![x] = q]
    <2>1. /\ state'.lease = state.lease /\ state'.last = state.last
          /\ state'.cycles = state.cycles /\ state'.phase = "code_review"
          /\ state'.art.gen = x /\ state'.superseded = state.superseded \union {state.art.gen}
      BY <1>1, <1>3 DEF Revised, WorkflowStates
    <2>2. q.at = "status" /\ q.held = state'
      BY DEF At
    <2>3. runs'[x] = q /\ \A p \in Run \ {x} : runs'[p] = runs[p]
      BY <1>1, <1>3
    <2> HIDE DEF q
    <2>4. \A p \in Reviewer : runs'[p] = runs[p]
      BY <1>1, <2>3
    <2>5. ASSUME NEW t \in Reviewer PROVE ~OnRecord(t)'
      <3> SUFFICES ASSUME OnRecord(t)' PROVE FALSE
        OBVIOUS
      <3>1. runs[t].held.art.gen \notin state.superseded \union {state.art.gen}
        BY <2>1, <2>4 DEF OnRecord
      <3>2. Known(state, runs[t].held.art)
        BY <1>1 DEF Inv, RunInv
      <3> QED BY <3>1, <3>2 DEF Known
    <2>6. \A t \in Reviewer : (Reviewing(t)' <=> Reviewing(t)) /\ (Eligible(t)' <=> Eligible(t))
      BY <2>4 DEF Reviewing, Eligible, Leased, SubjectOf
    <2>7. ClaimsAreNew'
      BY <2>1, <2>2, <2>3, <2>4 DEF LeaseInv, ClaimsAreNew
    <2>8. RevisionsAreNew'
      <3>1. /\ state.art.gen # x /\ x \notin state.superseded
            /\ \A t \in Run : runs[t].held.art.gen # x
        BY <1>1 DEF LeaseInv, RevisionsAreNew
      <3>2. ASSUME NEW y \in Reviser, runs'[y].at \notin {"status", "done"}
            PROVE  /\ state'.art.gen # y /\ y \notin state'.superseded
                   /\ \A t \in Run : runs'[t].held.art.gen # y
        <4>1. y # x /\ runs'[y] = runs[y]
          BY <1>1, <2>2, <2>3, <3>2
        <4>2. /\ state.art.gen # y /\ y \notin state.superseded
              /\ \A t \in Run : runs[t].held.art.gen # y
          BY <3>2, <4>1 DEF LeaseInv, RevisionsAreNew
        <4> QED BY <2>1, <2>2, <2>3, <4>1, <4>2
      <3> QED BY <2>1, <3>1, <3>2 DEF RevisionsAreNew
    <2>9. LeaseOfReview'
      BY <2>5 DEF LeaseOfReview
    <2>10. SeesLatest'
      BY <2>1, <2>4, <2>6 DEF LeaseInv, SeesLatest
    <2>11. Overtaken'
      BY <2>1, <2>4, <2>5, <2>6 DEF LeaseInv, Overtaken
    <2>12. Gated'
      BY <2>4 DEF LeaseInv, Gated, Leased, Accepted, SubjectOf
    <2>13. RevisionAsked'
      <3>1. StatusAsked'
        BY <1>1, <2>1 DEF LeaseInv, RevisionAsked, StatusAsked
      <3>2. state.cycles > 0
        BY <1>1 DEF LeaseInv, RevisionAsked
      <3> QED BY <2>1, <3>1, <3>2 DEF RevisionAsked
    <2>14. OneAgentPerArtifact'
      BY <2>4 DEF LeaseInv, OneAgentPerArtifact
    <2> QED
      BY <2>7, <2>8, <2>9, <2>10, <2>11, <2>12, <2>13, <2>14 DEF LeaseInv
  <1> QED BY <1>2, <1>3 DEF ReviseCas, CasWon

LEMMA LeaseInvInit == Init => LeaseInv
  <1> SUFFICES ASSUME Init PROVE LeaseInv
    OBVIOUS
  <1>1. /\ \A r \in Run : runs[r] = At("idle")
        /\ At("idle").at = "idle" /\ At("idle").held = HandedOff
        /\ Reviewer \subseteq Run /\ Reviser \subseteq Run
    BY DEF Init, At, Run
  <1>2. /\ state = HandedOff /\ HandedOff.lease.owner = NoRun
        /\ HandedOff.art.gen = Builder /\ HandedOff.superseded = {}
        /\ NoRun \notin Reviewer /\ Builder \notin Reviser
    BY RunsAssumption DEF Init, HandedOff, NoLease
  <1>3. ClaimsAreNew /\ RevisionsAreNew
    BY <1>1, <1>2 DEF ClaimsAreNew, RevisionsAreNew
  <1>4. \A r \in Reviewer : ~Reviewing(r) /\ ~Eligible(r) /\ ~OnRecord(r)
    BY <1>1 DEF Reviewing, Eligible, OnRecord
  <1>5. LeaseOfReview /\ SeesLatest /\ Overtaken
    BY <1>4 DEF LeaseOfReview, SeesLatest, Overtaken
  <1>6. Gated /\ OneAgentPerArtifact
    BY <1>1 DEF Gated, OneAgentPerArtifact
  <1>7. StatusAsked
    BY DEF Init, StatusAsked
  <1>8. RevisionAsked
    BY <1>1, <1>7 DEF RevisionAsked
  <1> QED BY <1>3, <1>5, <1>6, <1>8 DEF LeaseInv

LEMMA LeaseInvNext == ~Stalls /\ Inv /\ LeaseInv /\ [Next]_vars => LeaseInv'
  <1> SUFFICES ASSUME ~Stalls, Inv, LeaseInv, [Next]_vars PROVE LeaseInv'
    OBVIOUS
  <1>1. ASSUME NEW r \in Reviewer, Review(r) PROVE LeaseInv'
    <2>1. r \in Run /\ r \notin Reviser
      BY RunsAssumption DEF Run
    <2>2. CASE ReviewStart(r)
      BY <2>1, <2>2, StartQuiet DEF ReviewStart
    <2>3. CASE Load(r)
      BY <2>1, <2>3, LoadQuiet
    <2>4. CASE ReviewInspect(r)
      BY <2>4, ReviewInspectQuiet
    <2>5. CASE ClaimLoad(r)
      BY <2>5, ClaimLoadQuiet
    <2>6. CASE ClaimCas(r)
      BY <2>6, ClaimCasGuarded
    <2>7. CASE ReviewAgent(r)
      BY <2>7, ReviewAgentQuiet
    <2>8. CASE DecideLoad(r)
      BY <2>8, DecideLoadQuiet
    <2>9. CASE DecideCas(r)
      BY <2>9, DecideCasGuarded
    <2>10. CASE SetStatus(r)
      BY <2>1, <2>10, SetStatusQuiet
    <2> QED
      BY <1>1, <2>2, <2>3, <2>4, <2>5, <2>6, <2>7, <2>8, <2>9, <2>10 DEF Review
  <1>2. ASSUME NEW r \in Reviser, Revise(r) PROVE LeaseInv'
    <2>1. r \in Run
      BY DEF Run
    <2>2. CASE ReviseStart(r)
      <3>1. state.cycles > 0
        BY <2>2 DEF LeaseInv, RevisionAsked, StatusAsked, ReviseStart
      <3> QED BY <2>1, <2>2, <3>1, StartQuiet DEF ReviseStart
    <2>3. CASE Load(r)
      BY <2>1, <2>3, LoadQuiet
    <2>4. CASE ReviseInspect(r)
      BY <2>4, ReviseInspectQuiet
    <2>5. CASE ReviseAgent(r)
      BY <2>5, ReviseAgentQuiet
    <2>6. CASE ReviseObserve(r)
      BY <2>6, ReviseObserveQuiet
    <2>7. CASE ReviseLoad(r)
      BY <2>7, ReviseLoadQuiet
    <2>8. CASE ReviseCas(r)
      BY <2>8, ReviseCasGuarded
    <2>9. CASE SetStatus(r)
      BY <2>1, <2>9, SetStatusQuiet
    <2> QED
      BY <1>2, <2>2, <2>3, <2>4, <2>5, <2>6, <2>7, <2>8, <2>9 DEF Revise
  <1>3. ASSUME NEW r \in Run, Crash(r) PROVE LeaseInv'
    BY <1>3, StatusStays, FinishQuiet DEF Crash
  <1>4. CASE LeaseExpires
    BY <1>4, LeaseExpiresGuarded
  <1>5. CASE UNCHANGED vars
    <2>1. state' = state /\ runs' = runs /\ StatusAsked'
      BY <1>5, StatusStays DEF vars
    <2> QED BY <2>1 DEF LeaseInv, ClaimsAreNew, RevisionsAreNew, LeaseOfReview, SeesLatest,
                        Overtaken, Gated, RevisionAsked, OneAgentPerArtifact,
                        OnRecord, Reviewing, Eligible, Leased, Accepted, SubjectOf
  <1> QED BY <1>1, <1>2, <1>3, <1>4, <1>5 DEF Next

(* No two reviews of one artifact are under way (OneAgentPerArtifact),     *)
(* while no call outlasts an agent.                                        *)
THEOREM OneReviewPerArtifact == ASSUME ~Stalls PROVE Spec => []OneAgentPerArtifact
  <1>1. Init => Inv /\ LeaseInv
    BY InvInit, LeaseInvInit
  <1>2. Inv /\ LeaseInv /\ [Next]_vars => (Inv /\ LeaseInv)'
    BY InvNext, LeaseInvNext
  <1>3. LeaseInv => OneAgentPerArtifact
    BY DEF LeaseInv
  <1> QED BY <1>1, <1>2, <1>3, PTL DEF Spec

(* The stored decisions follow the abstract cycle (ImplementsReviewCycle): *)
(* a stored decision is the first about the artifact on record, and a      *)
(* revision is stored after one was asked for.                             *)
THEOREM FollowsReviewCycle == ASSUME ~Stalls PROVE Spec => ImplementsReviewCycle
  <1>1. Init => Cycle!Init
    <2>1. Init => state = HandedOff
      BY DEF Init
    <2> QED BY <2>1 DEF HandedOff, NoDecision, Cycle!Init, Cycle!Undecided
  <1>2. Inv /\ LeaseInv /\ [Next]_vars
          => [Cycle!Next]_<<state.art.head,
                            [verdict |-> state.last.verdict, head |-> state.last.head],
                            state.cycles>>
    <2> SUFFICES ASSUME Inv, LeaseInv, [Next]_vars
                 PROVE  \/ Cycle!Next
                        \/ /\ state'.art = state.art /\ state'.last = state.last
                           /\ state'.cycles = state.cycles
      OBVIOUS
    <2>1. state \in WorkflowStates /\ runs \in [Run -> RunRecords]
      BY DEF Inv, TypeOK
    <2>2. CASE state' = state
      BY <2>2
    <2>3. CASE LeaseExpires
      <3>1. state' = [state EXCEPT !.lease.expired = TRUE]
        BY <2>3 DEF LeaseExpires
      <3> QED BY <2>1, <3>1 DEF WorkflowStates
    <2>4. ASSUME NEW r \in Reviewer, ClaimCas(r), state' # state
          PROVE  state'.art = state.art /\ state'.last = state.last /\ state'.cycles = state.cycles
      <3>1. state' = Claimed(state, r, SubjectOf(runs[r].held))
        BY <2>4 DEF ClaimCas, CasWon, CasLost
      <3> QED BY <2>1, <3>1 DEF Claimed, WorkflowStates
    <2>5. ASSUME NEW r \in Reviewer, DecideCas(r), state' # state PROVE Cycle!Next
      <3> DEFINE d == DecisionOf(r)
      <3>1. CasWon(r, Decided(state, r, d)) /\ runs[r].at = "apply"
        BY <2>5 DEF DecideCas, CasLost
      <3>2. d \in Decisions /\ state' = Decided(state, r, d)
        BY <3>1, DecisionType DEF CasWon
      <3>3. d.verdict \in Verdicts /\ state.cycles \in Nat /\ MaxCycles \in Nat
        BY <2>1, <3>2, LimitsAssumption DEF Decisions, WorkflowStates
      <3>4. d.head = state.art.head /\ ~Accepted(state)
        BY <2>5, <3>1, DecidesOnRecord DEF DecisionOf
      <3>5. Cycle!Fresh
        BY <3>4 DEF Cycle!Fresh, Cycle!Undecided, Accepted, NoDecision
      <3>6. /\ state'.art = state.art /\ state'.last = d
            /\ state'.cycles = IF d.verdict = "needs_revision" /\ ~(state.cycles + 1 > MaxCycles)
                                 THEN state.cycles + 1 ELSE state.cycles
        BY <2>1, <3>2 DEF Decided, WorkflowStates
      <3> HIDE DEF d
      <3>7. CASE d.verdict = "approved"
        <4>1. Cycle!Approve
          BY <3>4, <3>5, <3>6, <3>7 DEF Cycle!Approve
        <4> QED BY <4>1 DEF Cycle!Next
      <3>8. CASE d.verdict = "needs_revision"
        <4>1. state'.cycles = IF state.cycles < MaxCycles THEN state.cycles + 1 ELSE state.cycles
          BY <3>3, <3>6, <3>8
        <4>2. Cycle!AskRevision
          BY <3>4, <3>5, <3>6, <3>8, <4>1 DEF Cycle!AskRevision
        <4> QED BY <4>2 DEF Cycle!Next
      <3> QED BY <3>3, <3>7, <3>8 DEF Verdicts
    <2>6. ASSUME NEW x \in Reviser, ReviseCas(x), state' # state PROVE Cycle!Next
      <3>1. state' = Revised(state, x, runs[x].head) /\ runs[x].at = "apply"
        BY <2>6 DEF ReviseCas, CasWon, CasLost
      <3>2. runs[x].head \in Nat
        BY <2>1 DEF Run, RunRecords
      <3>3. state'.art.head \in Nat /\ state'.last = state.last /\ state'.cycles = state.cycles
        BY <2>1, <3>1, <3>2 DEF Revised, WorkflowStates
      <3>4. state.cycles > 0
        BY <3>1 DEF LeaseInv, RevisionAsked
      <3>5. Cycle!Revise
        BY <3>3, <3>4 DEF Cycle!Revise
      <3> QED BY <3>5 DEF Cycle!Next
    <2> QED BY <2>2, <2>3, <2>4, <2>5, <2>6, Writers
  <1>3. Init => Inv /\ LeaseInv
    BY InvInit, LeaseInvInit
  <1>4. Inv /\ LeaseInv /\ [Next]_vars => (Inv /\ LeaseInv)'
    BY InvNext, LeaseInvNext
  <1> QED BY <1>1, <1>2, <1>3, <1>4, PTL DEF Spec, ImplementsReviewCycle, Cycle!Spec
=============================================================================
