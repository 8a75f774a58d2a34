--------------------------- MODULE MergePhaseProof ----------------------------
(***************************************************************************)
(* Proofs about MergePhase, for any number of runs of either kind and any  *)
(* repair limit.  The inductive invariant ties what a run has read to what *)
(* the issue and the pull request are now: with no other run at work, the  *)
(* completion comments, the repair count and the status that a run read    *)
(* still tell it what it needs to know when it acts on them.  A run that   *)
(* takes the pull request for merged is right, or has still to check, or   *)
(* was misled.                                                             *)
(***************************************************************************)
EXTENDS MergePhase, TLAPS

Merging == {"checks", "repair", "agent", "merge"}
Merged == {"post", "claim", "publish", "finish"}

(* How the fields of a run belong together.                                *)
Sound(h) ==
    /\ h.step \in {"idle", "queued"} => ~h.entered
    /\ h.step = "enter" => h.saw = "ready"
    /\ h.step \in {"error", "block"} => h.entered
    /\ h.entered \/ h.step \in {"finalize", "stop"} => h.saw # "merged"
    /\ h.step \in Merging => h.marker \/ Eligible(h.saw, h.force)
    /\ h.step \in Merging /\ ~h.recovery => Eligible(h.saw, h.force)
    /\ h.step \in {"post", "claim"} /\ ~h.recovery => h.saw # "merged"
    /\ h.step = "claim" => ~h.recovery
    /\ h.step \in Merged => h.merged

(* What a run at work relies on when no other is.                          *)
Current(h) ==
    /\ h.step \notin {"idle", "queued", "finalize"} /\ h.saw # "merged" => status # "merged"
    /\ h.step \in {"enter", "inspect"} /\ ~h.marker => completions = 0
    /\ h.step \in Merging \cup {"post", "claim", "publish"} => completions = 0 \/ misled
    /\ h.step \in {"enter", "inspect", "checks"} => h.repairs = repairs
    /\ h.step \in {"repair", "agent"} => repairs < RepairLimit

Fits(h) ==
    /\ Sound(h)
    /\ h.step \in Merged => pr = "merged" \/ misled \/ (h.step = "post" /\ h.entered)
    /\ ~overlapped => Current(h)

Alone == ~overlapped => \A p, q \in Runs : Working(p) /\ Working(q) => p = q

Counts ==
    /\ completions > 0 => pr = "merged" \/ misled
    /\ ~overlapped => (completions <= 1 \/ misled) /\ repairs <= RepairLimit

IInv ==
    /\ TypeOK
    /\ ShownIsMerged /\ Counts /\ Alone
    /\ \A r \in Runs : Fits(run[r])

----------------------------------------------------------------------------
(* Run r, and no other, is changed.                                        *)
Becomes(r) == run'[r] \in RunRecords /\ run' = [run EXCEPT ![r] = run'[r]]

LEMMA IdleFits == Idle \in RunRecords /\ Sound(Idle) /\ Fits(Idle) /\ Fits(Idle)'
<1>1. Idle \in RunRecords
  BY DEF Idle, RunRecords, RunSteps, Statuses
<1>2. Sound(Idle) /\ Fits(Idle) /\ Fits(Idle)'
  BY DEF Idle, Fits, Sound, Current, Merging, Merged
<1> QED BY <1>1, <1>2

LEMMA Given ==
    ASSUME IInv, NEW r \in Runs
    PROVE  /\ run \in [Runs -> RunRecords] /\ run[r] \in RunRecords
           /\ Fits(run[r]) /\ Sound(run[r])
           /\ status \in Statuses /\ pr \in PullStates
           /\ completions \in 0..MaxNotes /\ repairs \in 0..MaxNotes
           /\ failures \in BOOLEAN
           /\ overlapped \in BOOLEAN /\ misled \in BOOLEAN /\ cut \in BOOLEAN
BY DEF IInv, TypeOK, Fits

(* A step of a run at work.                                                *)
LEMMA Local ==
    ASSUME IInv, NEW r \in Runs, Working(r), Becomes(r), Fits(run[r])',
           UNCHANGED overlapped, misled' \in BOOLEAN, misled => misled',
           cut' \in BOOLEAN, failures' \in BOOLEAN,
           status' \in Statuses, pr' \in PullStates,
           completions' \in 0..MaxNotes, repairs' \in 0..MaxNotes,
           pr = "merged" => pr' = "merged", ShownIsMerged', Counts'
    PROVE  IInv'
<1>1. run \in [Runs -> RunRecords] /\ run' \in [Runs -> RunRecords]
  BY Given DEF Becomes
<1>2. \A q \in Runs \ {r} : run'[q] = run[q]
  BY <1>1 DEF Becomes
<1>3. TypeOK'
  BY <1>1 DEF IInv, TypeOK
<1>4. Alone'
  BY <1>1, <1>2 DEF IInv, Alone, Working
<1>5. ASSUME NEW q \in Runs \ {r} PROVE Fits(run[q])'
  <2>1. Fits(run[q]) /\ run'[q] = run[q]
    BY <1>2 DEF IInv
  <2>2. ~overlapped => run[q].step \in {"idle", "queued"}
    BY DEF IInv, Alone, Working
  <2>3. ~overlapped' => Current(run[q])'
    BY <2>1, <2>2 DEF Current, Merging
  <2> QED BY <2>1, <2>3 DEF Fits, Sound
<1>6. \A q \in Runs : Fits(run[q])'
  BY <1>5
<1> QED BY <1>3, <1>4, <1>6 DEF IInv

(* The same for a step that leaves the issue and the pull request alone.   *)
LEMMA Quiet ==
    ASSUME IInv, NEW r \in Runs, Working(r), Becomes(r), Fits(run[r])',
           UNCHANGED <<status, pr, notes, overlapped, misled>>, cut' \in BOOLEAN
    PROVE  IInv'
<1>1. ShownIsMerged' /\ Counts'
  BY DEF IInv, ShownIsMerged, Counts, notes
<1> QED BY <1>1, Local, Given DEF notes

----------------------------------------------------------------------------
(* The ways in which a run ends.                                           *)
LEMMA NotShown ==
    ASSUME IInv, NEW r \in Runs, run[r].step \notin {"idle", "queued", "finalize"},
           run[r].entered \/ run[r].saw # "merged", ~overlapped
    PROVE  status # "merged"
BY Given DEF Fits, Current, Sound

LEMMA EndFits ==
    ASSUME IInv, NEW r \in Runs, End(r)
    PROVE  Becomes(r) /\ Fits(run[r])'
<1>1. run'[r] = Idle /\ Becomes(r)
  BY Given, IdleFits DEF End, Becomes
<1> QED BY <1>1 DEF Idle, Fits, Sound, Current, Merging, Merged

LEMMA FailedFits ==
    ASSUME IInv, NEW r \in Runs, NEW owns \in BOOLEAN, Failed(r, owns)
    PROVE  Becomes(r) /\ Fits(run[r])'
<1>1. [Idle EXCEPT !.step = "finalize", !.owns = owns] \in RunRecords
  BY DEF Idle, RunRecords, RunSteps, Statuses
<1>2. Becomes(r)
  BY <1>1, Given, IdleFits DEF Failed, Becomes
<1>3. run'[r] \in {Idle, [Idle EXCEPT !.step = "finalize", !.owns = owns]}
  BY Given DEF Failed
<1>4. run'[r].step \in {"idle", "finalize"} /\ run'[r].entered = FALSE /\ run'[r].saw # "merged"
  <2>1. Idle.step = "idle" /\ Idle.entered = FALSE /\ Idle.saw # "merged"
    BY DEF Idle
  <2>2. /\ [Idle EXCEPT !.step = "finalize", !.owns = owns].step = "finalize"
        /\ [Idle EXCEPT !.step = "finalize", !.owns = owns].entered = FALSE
        /\ [Idle EXCEPT !.step = "finalize", !.owns = owns].saw # "merged"
    BY DEF Idle
  <2> QED BY <1>3, <2>1, <2>2
<1>5. Fits(run[r])'
  BY <1>4 DEF Fits, Sound, Current, Merging, Merged
<1> QED BY <1>2, <1>5

LEMMA CaughtFits ==
    ASSUME IInv, NEW r \in Runs, NEW h \in RunRecords, NEW linear \in BOOLEAN,
           Caught(r, h, linear), UNCHANGED <<overlapped, misled>>,
           h.entered => h.saw # "merged",
           h.entered /\ ~overlapped => status' # "merged"
    PROVE  Becomes(r) /\ Fits(run[r])'
<1>1. CASE h.entered /\ ~(h.merged /\ linear)
  <2> DEFINE e == [Idle EXCEPT !.step = "error", !.saw = h.saw, !.entered = TRUE]
  <2>1. run' = [run EXCEPT ![r] = e]
    BY <1>1 DEF Caught
  <2>2. /\ e \in RunRecords /\ e.step = "error" /\ e.entered = TRUE /\ e.saw = h.saw
    BY DEF Idle, RunRecords, RunSteps
  <2>3. run'[r] = e /\ Becomes(r)
    BY <2>1, <2>2, Given DEF Becomes
  <2>4. /\ run'[r].step = "error" /\ run'[r].entered = h.entered /\ run'[r].saw = h.saw
    BY <1>1, <2>2, <2>3
  <2>5. Fits(run[r])'
    BY <1>1, <2>4 DEF Fits, Sound, Current, Merging, Merged
  <2> QED BY <2>3, <2>5
<1>2. CASE ~(h.entered /\ ~(h.merged /\ linear))
  <2>1. (h.saw = "merging" \/ (h.merged /\ linear)) \in BOOLEAN
    OBVIOUS
  <2> QED BY <1>2, <2>1, FailedFits DEF Caught
<1> QED BY <1>1, <1>2

(* A failed call of a run at work, seen from the run itself.               *)
LEMMA FailFits ==
    ASSUME IInv, NEW r \in Runs, run[r].step \notin {"idle", "queued", "finalize"},
           status' = status, Fail(r)
    PROVE  /\ Becomes(r) /\ Fits(run[r])'
           /\ UNCHANGED faults
BY Given, NotShown, CaughtFits DEF Fail, faults, Sound

LEMMA RefusedFits ==
    ASSUME IInv, NEW r \in Runs, run[r].step \notin {"idle", "queued", "finalize"},
           status' = status \/ status' # "merged", Refused(r, run[r])
    PROVE  /\ Becomes(r) /\ Fits(run[r])'
           /\ UNCHANGED <<overlapped, misled>> /\ cut' \in BOOLEAN
<1>1. (cut \/ Untold(r, run[r])) \in BOOLEAN
  BY Given DEF RunRecords, Untold
<1> QED BY <1>1, Given, NotShown, CaughtFits DEF Refused, Sound

(* A refused write that leaves the issue as it was, or at Merging.         *)
LEMMA RefusedKeeps ==
    ASSUME IInv, NEW r \in Runs, run[r].step \notin {"idle", "queued", "finalize"},
           status' \in {status, "merging"}, Refused(r, run[r]), UNCHANGED <<pr, notes>>
    PROVE  IInv'
<1>1. Becomes(r) /\ Fits(run[r])' /\ UNCHANGED <<overlapped, misled>> /\ cut' \in BOOLEAN
  BY RefusedFits
<1>2. status' \in Statuses /\ ShownIsMerged' /\ Counts'
  BY <1>1, Given DEF IInv, ShownIsMerged, Counts, Statuses, notes
<1> QED BY <1>1, <1>2, Local, Given DEF notes, Working

----------------------------------------------------------------------------
(* Every step keeps the invariant.                                         *)
LEMMA Waiting ==
    ASSUME IInv, NEW r \in Runs, Becomes(r),
           run'[r].step \in {"idle", "queued"}, ~run'[r].entered,
           UNCHANGED <<status, pr, notes, overlapped, misled>>, cut' \in BOOLEAN
    PROVE  IInv'
<1>1. /\ run \in [Runs -> RunRecords] /\ run' \in [Runs -> RunRecords]
      /\ \A q \in Runs \ {r} : run'[q] = run[q]
  BY Given DEF Becomes
<1>2. TypeOK' /\ ShownIsMerged' /\ Counts'
  BY <1>1 DEF IInv, TypeOK, ShownIsMerged, Counts, notes
<1>3. Alone'
  BY <1>1 DEF IInv, Alone, Working
<1>4. ASSUME NEW q \in Runs PROVE Fits(run[q])'
  <2>1. CASE q = r
    BY <2>1, <1>1 DEF Fits, Sound, Current, Merging, Merged
  <2>2. CASE q # r
    BY <2>2, <1>1 DEF IInv, Fits, Sound, Current, notes
  <2> QED BY <2>1, <2>2
<1> QED BY <1>2, <1>3, <1>4 DEF IInv

LEMMA BeginKeeps == ASSUME IInv, NEW r \in Runs, Begin(r) PROVE IInv'
<1>1. PICK force \in BOOLEAN :
          run' = [run EXCEPT ![r] = [Idle EXCEPT !.step = "queued", !.force = force]]
  BY DEF Begin, Route, Invoke
<1>2. UNCHANGED <<status, pr, notes, faults>>
  BY DEF Begin, Route, Invoke
<1> DEFINE h == [Idle EXCEPT !.step = "queued", !.force = force]
<1>3. h \in RunRecords /\ h.step = "queued" /\ ~h.entered
  BY DEF Idle, RunRecords, RunSteps, Statuses
<1>4. run'[r] = h /\ Becomes(r)
  BY <1>1, <1>3, Given DEF Becomes
<1> QED BY <1>2, <1>3, <1>4, Waiting, Given DEF faults, notes

LEMMA StartKeeps == ASSUME IInv, NEW r \in Runs, Start(r) PROVE IInv'
<1> DEFINE others == \E q \in Runs : Working(q)
<1>1. /\ status' = status /\ pr' = pr /\ completions' = completions
      /\ failures' = failures /\ repairs' = repairs
      /\ misled' = misled /\ overlapped' = (overlapped \/ others)
  BY DEF Start, notes
<1>2. Becomes(r) /\ cut' \in BOOLEAN /\ Fits(run[r])'
  <2>1. CASE /\ run' = [run EXCEPT ![r].step = "comments", ![r].saw = status,
                                   ![r].force = @ /\ status = "merging"]
             /\ UNCHANGED cut
    <3> DEFINE h == [run[r] EXCEPT !.step = "comments", !.saw = status,
                                   !.force = @ /\ status = "merging"]
    <3>1. h \in RunRecords
      BY Given DEF RunRecords, RunSteps
    <3>2. run' = [run EXCEPT ![r] = h]
      BY <2>1
    <3>3. run'[r] = h /\ Becomes(r)
      BY <3>1, <3>2, Given DEF Becomes
    <3>4. run'[r].step = "comments" /\ run'[r].saw = status /\ run'[r].entered = run[r].entered
      BY <3>3, Given DEF RunRecords
    <3>5. ~run[r].entered
      BY Given DEF Start, Sound
    <3> QED BY <1>1, <2>1, <3>3, <3>4, <3>5, Given DEF Fits, Sound, Current, Merging, Merged
  <2>2. CASE Failed(r, TRUE) /\ cut' = TRUE
    BY <2>2, FailedFits
  <2> QED BY <2>1, <2>2 DEF Start
<1>3. /\ run \in [Runs -> RunRecords] /\ run' \in [Runs -> RunRecords]
      /\ \A q \in Runs \ {r} : run'[q] = run[q]
  BY <1>2, Given DEF Becomes
<1>4. TypeOK'
  BY <1>1, <1>2, <1>3, Given DEF IInv, TypeOK
<1>5. ShownIsMerged' /\ Counts'
  BY <1>1, Given DEF IInv, ShownIsMerged, Counts
<1>6. Alone'
  BY <1>1, <1>3 DEF Alone, Working
<1>7. ASSUME NEW q \in Runs \ {r} PROVE Fits(run[q])'
  <2>1. Fits(run[q]) /\ run'[q] = run[q]
    BY <1>3 DEF IInv
  <2>2. overlapped => overlapped'
    BY <1>1
  <2> QED BY <1>1, <2>1, <2>2, Given DEF Fits, Sound, Current
<1> QED BY <1>2, <1>4, <1>5, <1>6, <1>7 DEF IInv

LEMMA CommentsKeeps == ASSUME IInv, NEW r \in Runs, Comments(r) PROVE IInv'
<1> DEFINE h == [run[r] EXCEPT !.step = IF run[r].saw = "ready" THEN "enter" ELSE "inspect",
                               !.marker = Marker, !.repairs = repairs]
<1>1. run[r].step = "comments" /\ Working(r) /\ UNCHANGED <<status, pr, notes>>
  BY DEF Comments, Working
<1>2. CASE End(r) /\ UNCHANGED faults
  BY <1>1, <1>2, EndFits, Quiet, Given DEF faults, notes
<1>3. CASE run' = [run EXCEPT ![r] = h] /\ UNCHANGED faults
  <2>1. h \in RunRecords
    <3>1. Marker \in BOOLEAN /\ repairs \in Nat
      BY Given, NotesAssumption DEF Marker
    <3>2. (IF run[r].saw = "ready" THEN "enter" ELSE "inspect") \in RunSteps
      BY DEF RunSteps
    <3> QED BY <3>1, <3>2, Given DEF RunRecords
  <2>2. run'[r] = h /\ Becomes(r)
    BY <1>3, <2>1, Given DEF Becomes
  <2>3. /\ h.step \in {"enter", "inspect"} /\ (h.step = "enter" => h.saw = "ready")
        /\ h.saw = run[r].saw /\ h.entered = run[r].entered
        /\ h.marker = Marker /\ h.repairs = repairs
    BY Given DEF RunRecords
  <2>4. Sound(h)
    BY <2>3, Given DEF Sound, Merging, Merged
  <2>5. ~overlapped => Current(h)
    <3>1. ~h.marker => completions = 0
      <4>1. ~Marker => completions = 0
        BY Given, NotesAssumption DEF Marker
      <4> QED BY <2>3, <4>1
    <3>2. ~overlapped /\ h.saw # "merged" => status # "merged"
      BY <1>1, <2>3, Given DEF Fits, Current
    <3> QED BY <2>3, <3>1, <3>2 DEF Current, Merging
  <2>6. Fits(run[r])'
    BY <1>1, <1>3, <2>2, <2>3, <2>4, <2>5 DEF Fits, Sound, Current, Merged, notes, faults
  <2> QED BY <1>1, <1>3, <2>2, <2>6, Quiet, Given DEF faults, notes
<1>4. CASE Refused(r, run[r])
  BY <1>1, <1>4, RefusedFits, Quiet DEF notes
<1> QED BY <1>2, <1>3, <1>4 DEF Comments

LEMMA EnterKeeps == ASSUME IInv, NEW r \in Runs, Enter(r) PROVE IInv'
<1> DEFINE entered == [run[r] EXCEPT !.entered = TRUE]
           h == [entered EXCEPT !.step = "inspect"]
<1>1. /\ run[r].step = "enter" /\ Working(r)
      /\ pr' = pr /\ completions' = completions /\ failures' = failures /\ repairs' = repairs
  BY DEF Enter, Working, notes
<1>2. entered \in RunRecords /\ entered.saw = "ready" /\ h \in RunRecords
  BY <1>1, Given DEF RunRecords, RunSteps, Sound
<1>3. ASSUME status' = "merging", Becomes(r), Fits(run[r])',
             UNCHANGED <<overlapped, misled>>, cut' \in BOOLEAN
      PROVE  IInv'
  <2>1. ShownIsMerged' /\ Counts' /\ status' \in Statuses
    BY <1>1, <1>3 DEF IInv, ShownIsMerged, Counts, Statuses
  <2> QED BY <1>1, <1>3, <2>1, Local, Given
<1>4. CASE status' = "merging" /\ run' = [run EXCEPT ![r] = h] /\ UNCHANGED faults
  <2>1. run'[r] = h /\ Becomes(r)
    BY <1>2, <1>4, Given DEF Becomes
  <2>2. /\ h.step = "inspect" /\ h.saw = "ready" /\ h.marker = run[r].marker
        /\ h.repairs = run[r].repairs
    BY <1>2, Given DEF RunRecords
  <2>3. ~overlapped => (~h.marker => completions = 0) /\ h.repairs = repairs
    BY <1>1, <2>2, Given DEF Fits, Current
  <2>4. Fits(run[r])'
    BY <1>1, <1>4, <2>1, <2>2, <2>3 DEF Fits, Sound, Current, Merging, Merged, faults
  <2> QED BY <1>3, <1>4, <2>1, <2>4, Given DEF faults
<1>5. CASE status' = "merging" /\ Refused(r, entered)
  <2>1. (cut \/ Untold(r, entered)) \in BOOLEAN
    BY <1>2, Given DEF RunRecords, Untold
  <2> QED BY <1>2, <1>3, <1>5, <2>1, CaughtFits DEF Refused
<1>6. CASE status' \in {status, "merging"} /\ Refused(r, run[r])
  BY <1>1, <1>6, RefusedKeeps DEF notes
<1> QED BY <1>4, <1>5, <1>6 DEF Enter

LEMMA DoneFacts ==
    ASSUME NEW h \in RunRecords
    PROVE  /\ Done(h) \in RunRecords /\ Done(h).step = "post"
           /\ Done(h).saw = h.saw /\ Done(h).entered = h.entered
           /\ Done(h).recovery = h.recovery /\ Done(h).merged
BY DEF Done, Idle, RunRecords, RunSteps

LEMMA InspectKeeps == ASSUME IInv, NEW r \in Runs, Inspect(r) PROVE IInv'
<1> DEFINE merged == pr = "merged"
           verdict == Verdict(run[r].marker, merged, run[r].saw, run[r].force)
           held == [run[r] EXCEPT !.merged = merged, !.recovery = verdict = "recovery"]
           h == IF merged THEN Done(held) ELSE [held EXCEPT !.step = "checks"]
<1>1. run[r].step = "inspect" /\ Working(r) /\ UNCHANGED <<status, pr, notes>>
  BY DEF Inspect, Working
<1>2. /\ held \in RunRecords /\ h \in RunRecords
      /\ held.saw = run[r].saw /\ held.entered = run[r].entered
  <2> HIDE DEF verdict
  <2>1. merged \in BOOLEAN /\ (verdict = "recovery") \in BOOLEAN
    OBVIOUS
  <2> HIDE DEF merged
  <2>2. held \in RunRecords
    BY <2>1, Given DEF RunRecords
  <2>3. held.saw = run[r].saw /\ held.entered = run[r].entered
    BY Given DEF RunRecords
  <2>4. Done(held) \in RunRecords
    BY <2>2, DoneFacts
  <2>5. [held EXCEPT !.step = "checks"] \in RunRecords
    <3> HIDE DEF held
    <3> QED BY <2>2 DEF RunRecords, RunSteps
  <2> QED BY <2>2, <2>3, <2>4, <2>5
<1>3. CASE End(r) /\ UNCHANGED faults
  BY <1>1, <1>3, EndFits, Quiet, Given DEF faults, notes
<1>4. CASE Caught(r, held, FALSE) /\ UNCHANGED faults
  <2>1. Becomes(r) /\ Fits(run[r])'
    BY <1>1, <1>2, <1>4, Given, NotShown, CaughtFits DEF faults, Sound
  <2> QED BY <1>1, <1>4, <2>1, Quiet, Given DEF faults, notes
<1>5. CASE /\ verdict \in {"recovery", "proceed"}
           /\ run' = [run EXCEPT ![r] = h] /\ UNCHANGED faults
  <2>1. run'[r] = h /\ Becomes(r)
    BY <1>2, <1>5, Given DEF Becomes
  <2>2. /\ h.step \in {"post", "checks"} /\ (h.step = "post" <=> merged)
        /\ h.saw = run[r].saw /\ h.entered = run[r].entered
        /\ h.recovery <=> verdict = "recovery"
        /\ merged => h.merged
        /\ ~merged => /\ h.force = run[r].force /\ h.marker = run[r].marker
                      /\ h.repairs = run[r].repairs
    <3> HIDE DEF verdict, merged
    <3>1. held \in RunRecords /\ (held.recovery <=> verdict = "recovery")
      BY <1>2, Given DEF RunRecords
    <3>2. CASE merged
      BY <1>2, <3>1, <3>2, DoneFacts
    <3>3. CASE ~merged
      BY <3>3, Given DEF RunRecords
    <3> QED BY <3>2, <3>3
  <2>3. verdict = "proceed" => Eligible(run[r].saw, run[r].force) /\ ~merged
    BY DEF Verdict
  <2>4. verdict = "recovery" /\ ~merged => h.marker
    BY <2>2 DEF Verdict
  <2>5. merged => ~run[r].marker
    BY <1>5 DEF Verdict
  <2>6. ~merged => completions = 0 \/ misled
    BY Given DEF IInv, Counts
  <2>7. Sound(h)
    BY <1>5, <2>2, <2>3, <2>4, Given DEF Sound, Merging, Merged
  <2>8. ~overlapped => Current(h)
    BY <1>1, <2>2, <2>5, <2>6, Given DEF Fits, Current, Merging
  <2>9. Fits(run[r])'
    <3> HIDE DEF h, verdict
    <3> QED BY <1>1, <1>5, <2>1, <2>2, <2>7, <2>8 DEF Fits, Sound, Current, Merging,
             Merged, notes, faults
  <2> QED BY <1>1, <1>5, <2>1, <2>9, Quiet, Given DEF faults, notes
<1>6. CASE Fail(r)
  BY <1>1, <1>6, FailFits, Quiet, Given DEF faults, notes
<1> QED BY <1>3, <1>4, <1>5, <1>6 DEF Inspect

(* A run at work goes on to another step and changes nothing of its own.   *)
LEMMA GotoFacts ==
    ASSUME IInv, NEW r \in Runs, NEW step \in RunSteps, Goto(r, step)
    PROVE  /\ Becomes(r) /\ run'[r].step = step
           /\ run'[r].saw = run[r].saw /\ run'[r].force = run[r].force
           /\ run'[r].marker = run[r].marker /\ run'[r].repairs = run[r].repairs
           /\ run'[r].entered = run[r].entered /\ run'[r].recovery = run[r].recovery
           /\ run'[r].merged = run[r].merged
<1> DEFINE h == [run[r] EXCEPT !.step = step]
<1>1. h \in RunRecords /\ run' = [run EXCEPT ![r] = h]
  BY Given DEF RunRecords, Goto
<1>2. run'[r] = h /\ Becomes(r)
  BY <1>1, Given DEF Becomes
<1> QED BY <1>2, Given DEF RunRecords

LEMMA ChecksKeeps == ASSUME IInv, NEW r \in Runs, Checks(r) PROVE IInv'
<1>1. run[r].step = "checks" /\ Working(r) /\ UNCHANGED <<status, pr, notes>>
  BY DEF Checks, Working
<1>2. CASE Goto(r, "merge") /\ UNCHANGED faults
  <2>1. /\ Becomes(r) /\ run'[r].step = "merge"
        /\ run'[r].saw = run[r].saw /\ run'[r].force = run[r].force
        /\ run'[r].marker = run[r].marker /\ run'[r].entered = run[r].entered
        /\ run'[r].recovery = run[r].recovery
    BY <1>2, GotoFacts DEF RunSteps
  <2>2. Fits(run[r])'
    BY <1>1, <1>2, <2>1, Given DEF Fits, Sound, Current, Merging, Merged, notes, faults
  <2> QED BY <1>1, <1>2, <2>1, <2>2, Quiet, Given DEF faults, notes
<1>3. CASE run[r].repairs < RepairLimit /\ Goto(r, "repair") /\ UNCHANGED faults
  <2>1. /\ Becomes(r) /\ run'[r].step = "repair"
        /\ run'[r].saw = run[r].saw /\ run'[r].force = run[r].force
        /\ run'[r].marker = run[r].marker /\ run'[r].entered = run[r].entered
        /\ run'[r].recovery = run[r].recovery
    BY <1>3, GotoFacts DEF RunSteps
  <2>2. Fits(run[r])'
    BY <1>1, <1>3, <2>1, Given DEF Fits, Sound, Current, Merging, Merged, notes, faults
  <2> QED BY <1>1, <1>3, <2>1, <2>2, Quiet, Given DEF faults, notes
<1>4. CASE Fail(r)
  BY <1>1, <1>4, FailFits, Quiet, Given DEF faults, notes
<1> QED BY <1>2, <1>3, <1>4 DEF Checks

LEMMA RepairFailedKeeps ==
    ASSUME IInv, NEW r \in Runs, run[r].step \in {"repair", "agent"}, RepairFailed(r),
           pr' = pr \/ (pr = "behind" /\ pr' = "clean")
    PROVE  IInv'
<1>1. /\ Working(r) /\ status' = status /\ completions' = completions /\ failures' = failures
      /\ repairs' \in {repairs, Counted(repairs)} /\ Fail(r)
  BY DEF RepairFailed, Working
<1>2. Becomes(r) /\ Fits(run[r])' /\ UNCHANGED faults
  BY <1>1, FailFits
<1>3. repairs' \in 0..MaxNotes /\ (~overlapped => repairs' <= RepairLimit)
  BY <1>1, Given, NotesAssumption DEF Counted, Fits, Current
<1>4. pr' \in PullStates /\ (pr = "merged" => pr' = "merged")
  BY Given DEF PullStates
<1>5. ShownIsMerged' /\ Counts'
  BY <1>1, <1>2, <1>3, <1>4 DEF IInv, ShownIsMerged, Counts, faults
<1> QED BY <1>1, <1>2, <1>3, <1>4, <1>5, Local, Given DEF faults

LEMMA RepairDoneKeeps ==
    ASSUME IInv, NEW r \in Runs, run[r].step \in {"repair", "agent"}, RepairDone(r),
           pr \in {"clean", "behind"}
    PROVE  IInv'
<1>1. /\ Working(r) /\ status' = status /\ completions' = completions /\ failures' = failures
      /\ repairs' = repairs /\ pr' = "clean" /\ Goto(r, "merge") /\ UNCHANGED faults
  BY DEF RepairDone, Working, notes
<1>2. /\ Becomes(r) /\ run'[r].step = "merge"
      /\ run'[r].saw = run[r].saw /\ run'[r].force = run[r].force
      /\ run'[r].marker = run[r].marker /\ run'[r].entered = run[r].entered
      /\ run'[r].recovery = run[r].recovery
  BY <1>1, GotoFacts DEF RunSteps
<1>3. Fits(run[r])'
  BY <1>1, <1>2, Given DEF Fits, Sound, Current, Merging, Merged, faults
<1>4. pr' \in PullStates /\ ShownIsMerged' /\ Counts'
  BY <1>1 DEF IInv, ShownIsMerged, Counts, PullStates, faults
<1> QED BY <1>1, <1>2, <1>3, <1>4, Local, Given DEF faults

LEMMA RepairKeeps == ASSUME IInv, NEW r \in Runs, Repair(r) \/ RepairAgent(r) PROVE IInv'
<1>1. run[r].step \in {"repair", "agent"} /\ Working(r)
  BY DEF Repair, RepairAgent, Working
<1>2. CASE pr \in {"clean", "behind"} /\ RepairDone(r)
  BY <1>1, <1>2, RepairDoneKeeps
<1>3. CASE RepairFailed(r) /\ (UNCHANGED pr \/ (pr = "behind" /\ pr' = "clean"))
  BY <1>1, <1>3, RepairFailedKeeps
<1>4. CASE run[r].step = "repair" /\ Goto(r, "agent") /\ UNCHANGED <<status, pr, notes, faults>>
  <2>1. /\ Becomes(r) /\ run'[r].step = "agent"
        /\ run'[r].saw = run[r].saw /\ run'[r].force = run[r].force
        /\ run'[r].marker = run[r].marker /\ run'[r].entered = run[r].entered
        /\ run'[r].recovery = run[r].recovery
    BY <1>4, GotoFacts DEF RunSteps
  <2>2. Fits(run[r])'
    BY <1>4, <2>1, Given DEF Fits, Sound, Current, Merging, Merged, notes, faults
  <2> QED BY <1>1, <1>4, <2>1, <2>2, Quiet, Given DEF faults, notes
<1> QED BY <1>2, <1>3, <1>4 DEF Repair, RepairAgent

LEMMA MergeKeeps == ASSUME IInv, NEW r \in Runs, Merge(r) PROVE IInv'
<1>1. /\ run[r].step = "merge" /\ Working(r) /\ status' = status /\ completions' = completions
      /\ failures' = failures /\ repairs' = repairs /\ pr' \in {pr, "merged"}
      /\ overlapped' = overlapped /\ cut' = cut
      /\ misled' \in BOOLEAN /\ (misled => misled')
  <2>1. (misled \/ ~run[r].entered) \in BOOLEAN
    BY Given DEF RunRecords
  <2>2. /\ run[r].step = "merge" /\ UNCHANGED <<status, notes>> /\ pr' \in {pr, "merged"}
        /\ \/ UNCHANGED faults
           \/ misled' = (misled \/ ~run[r].entered) /\ UNCHANGED <<overlapped, cut>>
    BY DEF Merge, Fail
  <2>3. /\ overlapped' = overlapped /\ cut' = cut
        /\ misled' \in BOOLEAN /\ (misled => misled')
    <3>1. misled \in BOOLEAN
      BY Given
    <3>2. CASE UNCHANGED faults
      BY <3>1, <3>2 DEF faults
    <3>3. CASE misled' = (misled \/ ~run[r].entered) /\ UNCHANGED <<overlapped, cut>>
      BY <2>1, <3>3
    <3> QED BY <2>2, <3>2, <3>3
  <2> QED BY <2>2, <2>3 DEF Working, notes
<1>2. pr' \in PullStates /\ ShownIsMerged' /\ Counts'
  BY <1>1, Given DEF IInv, ShownIsMerged, Counts, PullStates
<1>3. CASE /\ run' = [run EXCEPT ![r] = Done(run[r])]
           /\ pr' = "merged" \/ misled' \/ run[r].entered
  <2> DEFINE h == Done(run[r])
  <2>1. /\ h \in RunRecords /\ h.step = "post" /\ h.saw = run[r].saw
        /\ h.entered = run[r].entered /\ h.recovery = run[r].recovery /\ h.merged
    BY Given, DoneFacts
  <2>2. run'[r] = h /\ Becomes(r)
    BY <1>3, <2>1, Given DEF Becomes
  <2>3. ~h.recovery => h.saw # "merged"
    BY <1>1, <2>1, Given DEF Sound, Merging, Eligible
  <2>4. Fits(run[r])'
    BY <1>1, <1>3, <2>1, <2>2, <2>3, Given DEF Fits, Sound, Current, Merging, Merged
  <2> QED BY <1>1, <1>2, <2>2, <2>4, Local, Given
<1>4. CASE Fail(r)
  BY <1>1, <1>2, <1>4, FailFits, Local, Given DEF faults
<1> QED BY <1>3, <1>4 DEF Merge

LEMMA PostKeeps == ASSUME IInv, NEW r \in Runs, Post(r) PROVE IInv'
<1>1. run[r].step = "post" /\ Working(r) /\ UNCHANGED <<status, pr, notes>>
  BY DEF Post, Working
<1>2. CASE /\ pr = "merged" \/ ~run[r].entered
           /\ Goto(r, IF run[r].entered \/ run[r].recovery THEN "publish" ELSE "claim")
           /\ UNCHANGED faults
  <2>1. /\ Becomes(r) /\ run'[r].step \in {"publish", "claim"}
        /\ run'[r].step = "claim" => ~run[r].recovery
        /\ run'[r].saw = run[r].saw /\ run'[r].force = run[r].force
        /\ run'[r].entered = run[r].entered /\ run'[r].recovery = run[r].recovery
        /\ run'[r].merged = run[r].merged
    BY <1>2, GotoFacts DEF RunSteps
  <2>2. Fits(run[r])'
    BY <1>1, <1>2, <2>1, Given DEF Fits, Sound, Current, Merging, Merged, notes, faults
  <2> QED BY <1>1, <1>2, <2>1, <2>2, Quiet, Given DEF faults, notes
<1>3. CASE Fail(r)
  BY <1>1, <1>3, FailFits, Quiet, Given DEF faults, notes
<1> QED BY <1>2, <1>3 DEF Post

LEMMA ClaimKeeps == ASSUME IInv, NEW r \in Runs, Claim(r) PROVE IInv'
<1>1. /\ run[r].step = "claim" /\ Working(r) /\ pr' = pr /\ completions' = completions
      /\ failures' = failures /\ repairs' = repairs
  BY DEF Claim, Working, notes
<1>2. CASE /\ status' = "merging" /\ UNCHANGED faults
           /\ run' = [run EXCEPT ![r].step = "publish", ![r].entered = TRUE]
  <2> DEFINE h == [run[r] EXCEPT !.step = "publish", !.entered = TRUE]
  <2>1. h \in RunRecords /\ run' = [run EXCEPT ![r] = h]
    BY <1>2, Given DEF RunRecords, RunSteps
  <2>2. run'[r] = h /\ Becomes(r)
    BY <2>1, Given DEF Becomes
  <2>3. h.step = "publish" /\ h.saw = run[r].saw /\ h.merged = run[r].merged
    BY Given DEF RunRecords
  <2>4. run[r].saw # "merged" /\ run[r].merged
    BY <1>1, Given DEF Sound, Merged
  <2>5. Fits(run[r])'
    BY <1>1, <1>2, <2>2, <2>3, <2>4, Given DEF Fits, Sound, Current, Merging, Merged, faults
  <2>6. status' \in Statuses /\ ShownIsMerged' /\ Counts'
    BY <1>1, <1>2 DEF IInv, ShownIsMerged, Counts, Statuses, faults
  <2> QED BY <1>1, <1>2, <2>2, <2>5, <2>6, Local, Given DEF faults
<1>3. CASE status' \in {status, "merging"} /\ Refused(r, run[r])
  BY <1>1, <1>3, RefusedKeeps DEF notes
<1> QED BY <1>2, <1>3 DEF Claim

LEMMA PublishKeeps == ASSUME IInv, NEW r \in Runs, Publish(r) PROVE IInv'
<1>1. /\ run[r].step = "publish" /\ Working(r) /\ status' = status /\ pr' = pr
      /\ failures' = failures /\ repairs' = repairs
      /\ completions' \in {completions, Counted(completions)}
  BY DEF Publish, Working
<1>2. (pr = "merged" \/ misled) /\ (~overlapped => completions = 0 \/ misled)
  BY <1>1, Given DEF Fits, Current, Merged
<1>3. completions' \in 0..MaxNotes /\ (~overlapped => completions' <= 1 \/ misled)
  BY <1>1, <1>2, Given, NotesAssumption DEF Counted
<1>4. CASE Goto(r, "finish") /\ UNCHANGED faults
  <2>1. /\ Becomes(r) /\ run'[r].step = "finish"
        /\ run'[r].saw = run[r].saw /\ run'[r].entered = run[r].entered
        /\ run'[r].merged = run[r].merged
    BY <1>4, GotoFacts DEF RunSteps
  <2>2. Fits(run[r])'
    BY <1>1, <1>2, <1>4, <2>1, Given DEF Fits, Sound, Current, Merging, Merged, faults
  <2>3. ShownIsMerged' /\ Counts'
    BY <1>1, <1>2, <1>3, <1>4 DEF IInv, ShownIsMerged, Counts, faults
  <2> QED BY <1>1, <1>3, <1>4, <2>1, <2>2, <2>3, Local, Given DEF faults
<1>5. CASE Refused(r, run[r])
  <2>1. Becomes(r) /\ Fits(run[r])' /\ UNCHANGED <<overlapped, misled>> /\ cut' \in BOOLEAN
    BY <1>1, <1>5, RefusedFits
  <2>2. ShownIsMerged' /\ Counts'
    BY <1>1, <1>2, <1>3, <2>1 DEF IInv, ShownIsMerged, Counts
  <2> QED BY <1>1, <1>3, <2>1, <2>2, Local, Given
<1> QED BY <1>4, <1>5 DEF Publish

LEMMA FinishKeeps == ASSUME IInv, NEW r \in Runs, Finish(r) PROVE IInv'
<1>1. run[r].step = "finish" /\ Working(r) /\ pr' = pr /\ UNCHANGED notes
  BY DEF Finish, Working
<1>2. (pr = "merged" \/ misled) /\ run[r].merged
  BY <1>1, Given DEF Fits, Sound, Merged
<1>3. ASSUME status' \in {status, "merged"}, UNCHANGED misled
      PROVE  status' \in Statuses /\ (overlapped' = overlapped => ShownIsMerged' /\ Counts')
  BY <1>1, <1>2, <1>3, Given DEF IInv, ShownIsMerged, Counts, Statuses, notes
<1>4. CASE status' = "merged" /\ End(r) /\ UNCHANGED faults
  BY <1>1, <1>3, <1>4, EndFits, Local, Given DEF notes, faults
<1>5. CASE status' \in {status, "merged"} /\ Refused(r, run[r])
  <2>1. /\ Failed(r, TRUE) \/ Failed(r, run[r].saw = "merging")
        /\ UNCHANGED <<overlapped, misled>> /\ cut' = (cut \/ Untold(r, run[r]))
    BY <1>2, <1>5 DEF Refused, Caught
  <2>2. (cut \/ Untold(r, run[r])) \in BOOLEAN /\ (run[r].saw = "merging") \in BOOLEAN
    BY Given DEF RunRecords, Untold
  <2>3. Becomes(r) /\ Fits(run[r])'
    BY <2>1, <2>2, FailedFits
  <2> QED BY <1>1, <1>3, <1>5, <2>1, <2>2, <2>3, Local, Given DEF notes
<1> QED BY <1>4, <1>5 DEF Finish

LEMMA ReportErrorKeeps == ASSUME IInv, NEW r \in Runs, ReportError(r) PROVE IInv'
<1>1. /\ run[r].step = "error" /\ Working(r) /\ status' = status /\ pr' = pr
      /\ completions' = completions /\ repairs' = repairs
      /\ overlapped' = overlapped /\ misled' = misled
      /\ failures' \in BOOLEAN /\ cut' \in BOOLEAN
  <2>1. (cut \/ Untold(r, run[r])) \in BOOLEAN
    BY Given DEF Untold, RunRecords
  <2> QED BY <2>1, Given DEF ReportError, Working, faults
<1>2. Becomes(r) /\ Fits(run[r])'
  <2>1. CASE Goto(r, "block")
    <3>1. /\ Becomes(r) /\ run'[r].step = "block"
          /\ run'[r].saw = run[r].saw /\ run'[r].entered = run[r].entered
      BY <2>1, GotoFacts DEF RunSteps
    <3> QED BY <1>1, <3>1, Given DEF Fits, Sound, Current, Merging, Merged
  <2>2. CASE Failed(r, TRUE)
    BY <2>2, FailedFits
  <2> QED BY <2>1, <2>2 DEF ReportError
<1>3. ShownIsMerged' /\ Counts'
  BY <1>1 DEF IInv, ShownIsMerged, Counts
<1> QED BY <1>1, <1>2, <1>3, Local, Given

(* A run at work that blocks the issue, or not, and ends.                  *)
LEMMA EndKeeps ==
    ASSUME IInv, NEW r \in Runs, Working(r), status' \in {status, "blocked"},
           End(r) \/ \E owns \in BOOLEAN : Failed(r, owns),
           UNCHANGED <<pr, notes, overlapped, misled>>, cut' \in BOOLEAN
    PROVE  IInv'
<1>1. Becomes(r) /\ Fits(run[r])'
  BY EndFits, FailedFits
<1>2. status' \in Statuses /\ ShownIsMerged' /\ Counts'
  BY Given DEF IInv, ShownIsMerged, Counts, Statuses, notes
<1> QED BY <1>1, <1>2, Local, Given DEF notes

LEMMA LastStepsKeep ==
    ASSUME IInv, NEW r \in Runs, Block(r) \/ Finalize(r) \/ Stop(r) \/ Crash(r)
    PROVE  IInv'
<1>1. (cut \/ Untold(r, run[r])) \in BOOLEAN /\ (run[r].saw = "merging") \in BOOLEAN
  BY Given DEF Untold, RunRecords
<1>2. Working(r) /\ UNCHANGED <<pr, notes, overlapped, misled>> /\ cut' \in BOOLEAN
  BY <1>1, Given DEF Block, Finalize, Stop, Crash, Working
<1>3. CASE Finalize(r) /\ Goto(r, "stop") /\ status = "merging"
  <2>1. /\ Becomes(r) /\ run'[r].step = "stop" /\ run'[r].saw = run[r].saw
        /\ run'[r].entered = run[r].entered
    BY <1>3, GotoFacts DEF RunSteps
  <2>2. UNCHANGED status
    BY <1>3 DEF Finalize
  <2>3. run[r].saw # "merged"
    BY <1>3, Given DEF Finalize, Sound
  <2>4. Fits(run[r])'
    BY <1>3, <2>1, <2>2, <2>3 DEF Fits, Sound, Current, Merging, Merged
  <2> QED BY <1>2, <2>1, <2>2, <2>4, Quiet
<1>4. CASE /\ status' \in {status, "blocked"}
           /\ End(r) \/ \E owns \in BOOLEAN : Failed(r, owns)
  BY <1>2, <1>4, EndKeeps
<1> QED BY <1>1, <1>3, <1>4 DEF Block, Finalize, Stop, Crash

LEMMA LostJobKeeps == ASSUME IInv, NEW r \in Runs, LostJob(r) PROVE IInv'
<1>1. End(r) /\ cut' = TRUE /\ UNCHANGED <<status, pr, notes, overlapped, misled>>
  BY DEF LostJob
<1>2. CASE Working(r)
  BY <1>1, <1>2, EndKeeps
<1>3. CASE ~Working(r)
  <2>1. run'[r] = Idle
    BY <1>1, Given DEF End
  <2> QED BY <1>1, <2>1, EndFits, Waiting DEF Idle
<1> QED BY <1>2, <1>3

LEMMA PeopleKeep == ASSUME IInv, Approve \/ Withdraw \/ BranchesMove PROVE IInv'
<1>1. /\ UNCHANGED <<notes, run, faults>>
      /\ status' = status \/ (status # "merged" /\ status' \in {"ready", "pm_review"})
      /\ status' \in Statuses /\ pr' \in PullStates /\ (pr = "merged" => pr' = "merged")
  BY DEF Approve, Withdraw, BranchesMove, IInv, TypeOK, Statuses
<1>2. TypeOK' /\ ShownIsMerged' /\ Counts' /\ Alone'
  BY <1>1 DEF IInv, TypeOK, ShownIsMerged, Counts, Alone, Working, notes, faults
<1>3. \A r \in Runs : Fits(run[r])'
  BY <1>1 DEF IInv, Fits, Sound, Current, notes, faults
<1> QED BY <1>2, <1>3 DEF IInv

LEMMA StepKeeps == IInv /\ [Next]_vars => IInv'
<1> SUFFICES ASSUME IInv, [Next]_vars PROVE IInv'
  OBVIOUS
<1>1. CASE Next
  <2>1. ASSUME NEW r \in Runs, Work(r) PROVE IInv'
    BY <2>1, CommentsKeeps, EnterKeeps, InspectKeeps, ChecksKeeps, RepairKeeps, MergeKeeps,
       PostKeeps, ClaimKeeps, PublishKeeps, FinishKeeps, ReportErrorKeeps, LastStepsKeep
       DEF Work
  <2>2. ASSUME NEW r \in Runs, Begin(r) \/ Start(r) \/ LostJob(r) \/ Crash(r) PROVE IInv'
    BY <2>2, BeginKeeps, StartKeeps, LostJobKeeps, LastStepsKeep
  <2> QED BY <1>1, <2>1, <2>2, PeopleKeep DEF Next
<1>2. CASE UNCHANGED vars
  BY <1>2 DEF vars, notes, faults, IInv, TypeOK, ShownIsMerged, Counts, Alone, Working, Fits,
     Sound, Current
<1> QED BY <1>1, <1>2

LEMMA InitKeeps == Init => IInv
<1> SUFFICES ASSUME Init PROVE IInv
  OBVIOUS
<1>1. TypeOK
  <2>1. run \in [Runs -> RunRecords]
    BY IdleFits DEF Init
  <2>2. 0 \in 0..MaxNotes
    BY NotesAssumption
  <2> QED BY <2>1, <2>2 DEF Init, TypeOK, Statuses, PullStates
<1>2. ShownIsMerged /\ Counts
  BY NotesAssumption DEF Init, ShownIsMerged, Counts
<1>3. Alone
  BY DEF Init, Alone, Working, Idle
<1>4. \A r \in Runs : Fits(run[r])
  BY IdleFits DEF Init
<1> QED BY <1>1, <1>2, <1>3, <1>4 DEF IInv

LEMMA Invariance == Spec => []IInv
BY InitKeeps, StepKeeps, PTL DEF Spec

----------------------------------------------------------------------------
(* Issue, pull request, comments and runs stay in their domains.           *)
THEOREM TypeCorrect == Spec => []TypeOK
<1>1. IInv => TypeOK
  BY DEF IInv
<1> QED BY <1>1, Invariance, PTL

(* An issue says it is merged only when its pull request is, whichever     *)
(* calls of executeMergePhase fail and however its runs overlap, until a   *)
(* run that did not move the issue to Merging takes a 409 for a merge.     *)
THEOREM ShownAsMerged == Spec => []ShownIsMerged
<1>1. IInv => ShownIsMerged
  BY DEF IInv
<1> QED BY <1>1, Invariance, PTL

(* Two completion comments of executeMergePhase take two runs side by side *)
(* or such a run.                                                          *)
THEOREM CompletedOnce == Spec => []OneCompletion
<1>1. IInv => OneCompletion
  BY Given DEF IInv, Counts, OneCompletion, TypeOK
<1> QED BY <1>1, Invariance, PTL

(* Failed integration repairs stop at the limit, over any number of runs   *)
(* that follow one another.                                                *)
THEOREM RepairsStop == Spec => []RepairsEnd
<1>1. IInv => RepairsEnd
  BY NotesAssumption DEF IInv, Counts, RepairsEnd, TypeOK
<1> QED BY <1>1, Invariance, PTL

(* Neither a merge run nor its finalization takes back the status of a     *)
(* merged issue, unless runs work side by side.                            *)
THEOREM MergedRemains == Spec => MergedStays
<1>1. ASSUME IInv, Next, status = "merged", status' # "merged" PROVE overlapped
  <2>1. ~(Approve \/ Withdraw \/ BranchesMove)
    BY <1>1 DEF Approve, Withdraw, BranchesMove
  <2>2. PICK r \in Runs : Enter(r) \/ Claim(r) \/ Block(r) \/ Stop(r)
    BY <1>1, <2>1 DEF Next, Begin, Route, Invoke, Start, Work, Comments, Inspect, Checks, Repair,
       RepairAgent, RepairDone, RepairFailed, Merge, Post, Publish, Finish, ReportError,
       Finalize, LostJob, Crash
  <2>3. /\ run[r].step \notin {"idle", "queued", "finalize"}
        /\ run[r].step \in {"enter", "claim", "block", "stop"}
    BY <2>2 DEF Enter, Claim, Block, Stop
  <2>4. run[r].saw # "merged"
    BY <1>1, <2>3, Given DEF Sound, Eligible
  <2> QED BY <1>1, <2>3, <2>4, NotShown
<1>2. IInv /\ [Next]_vars => [status = "merged" /\ status' # "merged" => overlapped]_vars
  BY <1>1
<1> QED BY <1>2, Invariance, PTL DEF Spec, MergedStays

(* A run merges an open pull request only when the status it read at its   *)
(* start was an approval, or the comment of an earlier merge run, failed   *)
(* ones included, was on the issue.                                        *)
THEOREM UnmarkedApproved == Spec => UnmarkedMergeIsApproved
<1>1. ASSUME IInv, NEW r \in Runs, Merges(r)
      PROVE  run[r].marker \/ Eligible(run[r].saw, run[r].force)
  BY <1>1, Given DEF Merges, Sound, Merging
<1>2. IInv /\ [Next]_vars
        => [\A r \in Runs : Merges(r) => run[r].marker \/ Eligible(run[r].saw, run[r].force)]_vars
  BY <1>1
<1> QED BY <1>2, Invariance, PTL DEF Spec, UnmarkedMergeIsApproved

=============================================================================
