------------------------- MODULE ProductionSyncProof -------------------------
(***************************************************************************)
(* Proofs about ProductionSync, for any passes and any number of           *)
(* disturbances.  The inductive invariant says, of every pass, what the    *)
(* record it holds owes to the world and to the stored record: its effects *)
(* have taken place, those before its place in Program are in it, and,     *)
(* where one completion is at stake, the stored record has them too.       *)
(***************************************************************************)
EXTENDS ProductionSync, TLAPS

InProgram(r) == r.pc \in {"run", "save"}

(* One completion identity, or one pass at a time.                         *)
Single == marked \/ ~overlapped

(* What a pass r holds or is about to record has taken place.              *)
Sound(r) ==
    /\ r.held # NoRecord => r.held.done \subseteq projected
    /\ r.pc = "save" => Program[r.at] \in Effects /\ Program[r.at] \in projected
    /\ r.listed > 0 => "linear_production_comment" \in projected
    /\ r.status = "production" => "linear_status_transition" \in projected

(* The place of a pass in Program says what it has done.                   *)
Placed(r) ==
    /\ InProgram(r) /\ r.dry => r.pc = "run" /\ r.at \in {1, 2, 5}
    /\ Single /\ InProgram(r) /\ ~r.dry =>
         \A i \in 1..14 : i < r.at /\ Program[i] \in Effects => Program[i] \in r.held.done
    /\ InProgram(r) /\ r.at > 5 => ready
    /\ r.pc \notin {"run", "save", "blocked"} => r.at = 1

(* The stored record has what the pass holds, from its first persist on.   *)
Kept(r) ==
    /\ marked /\ r.held # NoRecord => r.held.id = "merge"
    /\ Single /\ r.held # NoRecord /\ r.held.state = "completed" => Effects \subseteq r.held.done
    /\ Single /\ InProgram(r) /\ r.at > 1 =>
         /\ record # NoRecord /\ record.id = r.held.id
         /\ r.held.done \subseteq record.done

(* Without overlap, a pass that listed no comment finds none when it posts. *)
MayPost(r) ==
    /\ r.listed = 0
    /\ \/ r.pc \in {"load", "prove"}
       \/ r.pc = "run" /\ r.at <= 9
       \/ r.pc = "save" /\ r.at < 9
Lists(r) == ~overlapped /\ MayPost(r) => comments = 0

Holding(r) == r.pc \in {"run", "save", "blocked"} => r.held \in Records

Fits(r) == Sound(r) /\ Placed(r) /\ Kept(r) /\ Lists(r)

Alone == ~overlapped => \A p, q \in Passes :
             pass[p].pc # "idle" /\ pass[q].pc # "idle" => p = q

Shown ==
    /\ comments > 0 => "linear_production_comment" \in projected
    /\ status = "production" => "linear_status_transition" \in projected

OneId == marked /\ record # NoRecord => record.id = "merge"

IInv ==
    /\ TypeOK
    /\ RecordedIsProjected /\ CompletedIsComplete
    /\ ~overlapped => comments <= 1
    /\ Alone /\ Shown /\ OneId
    /\ \A p \in Passes : Fits(pass[p])

----------------------------------------------------------------------------
LEMMA ProgramFacts ==
    /\ Len(Program) = 14
    /\ \A i \in 1..14 : Program[i] = "completed" <=> i = 14
    /\ \A i \in 1..14 : Program[i] = "configured" => i = 2
    /\ \A i \in 1..14 : Program[i] = "verify" => i = 5
    /\ \A i \in 1..14 : Program[i] = "linear_production_comment" => i = 9
    /\ \A i \in 1..14 : Program[i] = "linear_status_transition" => i = 10
    /\ \A i \in 1..14 : Program[i] \in Effects => i \in {3, 4, 6, 9, 10, 12, 13}
    /\ \A i \in 1..14 : Program[i] \in States => i \in {1, 7, 8, 11, 14}
    /\ \A k \in Effects : \E i \in 1..13 : Program[i] = k
<1>1. /\ Program[1] = "promotion_proven" /\ Program[2] = "configured"
      /\ Program[3] = "langfuse_promoted_to_main"
      /\ Program[4] = "langfuse_production_deployment_started"
      /\ Program[5] = "verify"
      /\ Program[6] = "langfuse_production_deployment_ready"
      /\ Program[7] = "deployment_verified" /\ Program[8] = "linear_projection_pending"
      /\ Program[9] = "linear_production_comment"
      /\ Program[10] = "linear_status_transition"
      /\ Program[11] = "langfuse_projection_pending"
      /\ Program[12] = "langfuse_production_verified"
      /\ Program[13] = "langfuse_delivery_outcome" /\ Program[14] = "completed"
  BY DEF Program
<1>2. Len(Program) = 14
  BY DEF Program
<1>3. \A i \in 1..14 : i \in {1, 2, 3, 4, 5, 6, 7, 8, 9, 10, 11, 12, 13, 14}
  OBVIOUS
<1>4. /\ \A i \in 1..14 : Program[i] = "completed" <=> i = 14
      /\ \A i \in 1..14 : Program[i] = "configured" => i = 2
      /\ \A i \in 1..14 : Program[i] = "verify" => i = 5
      /\ \A i \in 1..14 : Program[i] = "linear_production_comment" => i = 9
      /\ \A i \in 1..14 : Program[i] = "linear_status_transition" => i = 10
  BY <1>1, <1>3
<1>5. \A i \in 1..14 : Program[i] \in Effects => i \in {3, 4, 6, 9, 10, 12, 13}
  BY <1>1, <1>3 DEF Effects, Scores
<1>6. \A i \in 1..14 : Program[i] \in States => i \in {1, 7, 8, 11, 14}
  BY <1>1, <1>3 DEF States
<1>7. \A k \in Effects : \E i \in 1..13 : Program[i] = k
  BY <1>1 DEF Effects, Scores
<1> QED BY <1>2, <1>4, <1>5, <1>6, <1>7

LEMMA IdleFits == Idle \in PassRecords /\ Holding(Idle) /\ Fits(Idle) /\ Fits(Idle)'
<1>1. Idle \in PassRecords /\ Holding(Idle)
  BY ProgramFacts DEF Idle, PassRecords, PassSteps, Statuses, Holding
<1>2. Fits(Idle) /\ Fits(Idle)'
  BY DEF Idle, Fits, Sound, Placed, Kept, Lists, MayPost, InProgram
<1> QED BY <1>1, <1>2

(* Pass p, and no other, is changed to r.                                  *)
Becomes(p, r) == r \in PassRecords /\ Holding(r) /\ pass' = [pass EXCEPT ![p] = r]

(* A step of one pass that leaves the stored record alone.                 *)
LEMMA Local ==
    ASSUME IInv, NEW p \in Passes, Becomes(p, pass'[p]), Fits(pass[p])',
           pass'[p].pc # "idle" => pass[p].pc # "idle",
           UNCHANGED <<record, github, overlapped>>,
           upsets' \in Nat, status' \in Statuses, comments' \in Nat,
           projected' \subseteq Effects, projected \subseteq projected',
           Shown', ~overlapped => comments' <= 1,
           comments' = comments \/ pass[p].pc # "idle"
    PROVE  IInv'
<1>1. pass \in [Passes -> PassRecords] /\ pass' \in [Passes -> PassRecords]
  BY DEF IInv, TypeOK, Becomes
<1>2. \A q \in Passes \ {p} : pass'[q] = pass[q]
  BY <1>1 DEF Becomes
<1>3. TypeOK'
  BY <1>1, <1>2 DEF IInv, TypeOK, Becomes, Holding, github
<1>4. RecordedIsProjected' /\ CompletedIsComplete' /\ OneId'
  BY DEF IInv, RecordedIsProjected, CompletedIsComplete, OneId, github
<1>5. Alone'
  BY <1>1, <1>2 DEF IInv, Alone
<1>6. ASSUME NEW q \in Passes \ {p} PROVE Fits(pass[q])'
  <2>1. Fits(pass[q]) /\ pass'[q] = pass[q]
    BY <1>2 DEF IInv
  <2>2. Sound(pass[q])' /\ Placed(pass[q])' /\ Kept(pass[q])'
    BY <2>1 DEF Fits, Sound, Placed, Kept, InProgram, Single, github
  <2>3. CASE comments' = comments
    BY <2>1, <2>2, <2>3 DEF Fits, Lists, MayPost
  <2>4. CASE pass[p].pc # "idle"
    <3>1. ~overlapped => pass[q].pc = "idle"
      BY <2>4 DEF IInv, Alone
    <3> QED BY <2>1, <2>2, <3>1 DEF Fits, Lists, MayPost
  <2> QED BY <2>3, <2>4
<1>7. \A q \in Passes : Fits(pass[q])'
  BY <1>2, <1>6
<1> QED BY <1>3, <1>4, <1>5, <1>7 DEF IInv

(* A step of one pass that persists the record new.                        *)
LEMMA Persist ==
    ASSUME IInv, NEW p \in Passes, NEW new \in Records,
           Becomes(p, pass'[p]), Fits(pass[p])',
           pass[p].pc # "idle", pass[p].held \in Records,
           record' = new, new.id = pass[p].held.id,
           Base(p).done \subseteq new.done, new.done \subseteq projected,
           Single /\ new.state = "completed" => Effects \subseteq new.done,
           UNCHANGED <<linear, github, counts>>
    PROVE  IInv'
<1>1. pass \in [Passes -> PassRecords] /\ pass' \in [Passes -> PassRecords]
  BY DEF IInv, TypeOK, Becomes
<1>2. \A q \in Passes \ {p} : pass'[q] = pass[q]
  BY <1>1 DEF Becomes
<1>3. TypeOK'
  BY <1>1, <1>2 DEF IInv, TypeOK, Becomes, Holding, linear, github, counts
<1>4. new # NoRecord
  BY NoRecordAssumption
<1>5. RecordedIsProjected' /\ CompletedIsComplete'
  BY DEF RecordedIsProjected, CompletedIsComplete, Single, linear, github, counts
<1>6. OneId' /\ Shown' /\ (~overlapped => comments <= 1)'
  <2>1. marked => new.id = "merge"
    BY NoRecordAssumption DEF IInv, Fits, Kept
  <2> QED BY <2>1 DEF IInv, OneId, Shown, linear, github, counts
<1>7. Alone'
  BY <1>1, <1>2 DEF IInv, Alone, counts
<1>8. ASSUME NEW q \in Passes \ {p} PROVE Fits(pass[q])'
  <2>1. Fits(pass[q]) /\ pass'[q] = pass[q]
    BY <1>2 DEF IInv
  <2>2. Sound(pass[q])' /\ Placed(pass[q])' /\ Lists(pass[q])'
    BY <2>1 DEF Fits, Sound, Placed, Lists, MayPost, InProgram, Single, linear, github, counts
  <2>3. Kept(pass[q])'
    <3>1. ~overlapped => pass[q].pc = "idle"
      BY DEF IInv, Alone
    <3>2. marked /\ record # NoRecord => record.id = new.id
      BY NoRecordAssumption DEF IInv, OneId, Fits, Kept
    <3>3. record # NoRecord /\ record.id = new.id => record.done \subseteq new.done
      BY DEF Base
    <3> QED BY <1>4, <2>1, <3>1, <3>2, <3>3 DEF Fits, Kept, InProgram, Single, github, counts
  <2> QED BY <2>1, <2>2, <2>3 DEF Fits
<1>9. \A q \in Passes : Fits(pass[q])'
  BY <1>2, <1>8
<1> QED BY <1>3, <1>5, <1>6, <1>7, <1>9 DEF IInv

----------------------------------------------------------------------------
LEMMA Given ==
    ASSUME IInv, NEW p \in Passes
    PROVE  pass[p] \in PassRecords /\ Holding(pass[p]) /\ Fits(pass[p])
BY DEF IInv, TypeOK, Holding

(* An unchanged world leaves nothing to show but what the pass now holds.  *)
LEMMA Quiet ==
    ASSUME IInv, NEW p \in Passes, Becomes(p, pass'[p]), Fits(pass[p])',
           pass'[p].pc # "idle" => pass[p].pc # "idle",
           UNCHANGED <<record, linear, github, overlapped>>, upsets' \in Nat
    PROVE  IInv'
<1>1. /\ UNCHANGED <<record, github, overlapped, status, comments, projected>>
      /\ Shown' /\ (~overlapped => comments' <= 1)
  BY DEF IInv, Shown, linear
<1>2. status \in Statuses /\ comments \in Nat /\ projected \subseteq Effects
  BY DEF IInv, TypeOK
<1> QED BY <1>1, <1>2, Local

LEMMA Put ==
    ASSUME IInv, NEW p \in Passes, NEW r \in PassRecords, Holding(r),
           pass' = [pass EXCEPT ![p] = r]
    PROVE  Becomes(p, pass'[p]) /\ pass'[p] = r
<1>1. pass \in [Passes -> PassRecords]
  BY DEF IInv, TypeOK
<1>2. pass'[p] = r
  BY <1>1
<1> QED BY <1>2 DEF Becomes

LEMMA Ends ==
    ASSUME IInv, NEW p \in Passes, End(p),
           UNCHANGED <<record, linear, github, overlapped>>, upsets' \in Nat
    PROVE  IInv'
<1>1. Becomes(p, pass'[p]) /\ pass'[p] = Idle
  BY IdleFits, Put DEF End
<1>2. Fits(pass[p])' /\ pass'[p].pc = "idle"
  BY <1>1, IdleFits DEF Idle
<1> QED BY <1>1, <1>2, Quiet

LEMMA BeginKeeps ==
    ASSUME IInv, NEW p \in Passes, NEW dry \in BOOLEAN, NEW force \in BOOLEAN,
           Begin(p, dry, force)
    PROVE  IInv'
<1> DEFINE r == [Idle EXCEPT !.pc = "fetch", !.dry = dry, !.force = force]
<1>1. /\ r \in PassRecords /\ Holding(r) /\ Fits(r)'
      /\ r.pc = "fetch"
  BY IdleFits DEF Idle, PassRecords, PassSteps, Holding, Fits, Sound, Placed, Kept, Lists, MayPost,
     InProgram
<1>2. pass \in [Passes -> PassRecords] /\ pass' = [pass EXCEPT ![p] = r]
  BY DEF IInv, TypeOK, Begin
<1>3. pass' \in [Passes -> PassRecords] /\ pass'[p] = r
      /\ \A q \in Passes \ {p} : pass'[q] = pass[q]
  BY <1>1, <1>2
<1>4. upsets' \in Nat /\ overlapped' \in BOOLEAN
  BY DEF IInv, TypeOK, Begin, Upset
<1>5. TypeOK'
  BY <1>1, <1>3, <1>4 DEF IInv, TypeOK, Begin, Holding, linear, github
<1>6. overlapped => overlapped'
  BY DEF IInv, TypeOK, Begin
<1>7. /\ RecordedIsProjected' /\ CompletedIsComplete' /\ Shown' /\ OneId'
      /\ (~overlapped => comments <= 1)'
  BY <1>6 DEF IInv, RecordedIsProjected, CompletedIsComplete, Shown, OneId, Begin, linear, github
<1>8. Alone'
  BY <1>3, <1>6 DEF IInv, Alone, Begin
<1>9. ASSUME NEW q \in Passes \ {p} PROVE Fits(pass[q])'
  <2>1. Fits(pass[q]) /\ pass'[q] = pass[q]
    BY <1>3 DEF IInv
  <2> QED BY <1>6, <2>1 DEF Fits, Sound, Placed, Kept, Lists, MayPost, InProgram, Single, Begin,
          linear, github
<1>10. \A q \in Passes : Fits(pass[q])'
  BY <1>1, <1>3, <1>9
<1> QED BY <1>5, <1>7, <1>8, <1>10 DEF IInv

LEMMA FailKeeps == ASSUME IInv, NEW p \in Passes, Fail(p) PROVE IInv'
<1>1. upsets' \in Nat
  BY DEF IInv, TypeOK, Fail, Upset
<1> QED BY <1>1, Ends DEF Fail

----------------------------------------------------------------------------
LEMMA FetchKeeps == ASSUME IInv, NEW p \in Passes, Fetch(p) PROVE IInv'
<1> DEFINE r == [pass[p] EXCEPT !.pc = "list", !.status = status]
<1>1. pass[p] \in PassRecords /\ Fits(pass[p]) /\ pass[p].pc = "fetch" /\ status \in Statuses
  BY Given DEF Fetch, IInv, TypeOK
<1>2. r \in PassRecords /\ Holding(r)
  BY <1>1 DEF PassRecords, PassSteps, Holding
<1>3. Becomes(p, pass'[p]) /\ pass'[p] = r
  <2>1. pass' = [pass EXCEPT ![p] = r]
    BY DEF Fetch, IInv, TypeOK
  <2> QED BY <1>2, <2>1, Put
<1>4. UNCHANGED <<record, linear, github, overlapped>> /\ upsets' \in Nat
  BY DEF Fetch, IInv, TypeOK, counts
<1>5. /\ pass'[p].pc = "list" /\ pass'[p].status = status
      /\ pass'[p].at = pass[p].at /\ pass'[p].listed = pass[p].listed
      /\ pass'[p].held = pass[p].held
  BY <1>1, <1>3 DEF PassRecords
<1>6. UNCHANGED <<record, projected, comments, ready, marked, overlapped>>
  BY <1>4 DEF linear, github
<1>7. Sound(pass[p])'
  BY <1>1, <1>5, <1>6 DEF Fits, Sound, IInv, Shown
<1>8. Placed(pass[p])' /\ Kept(pass[p])'
  BY <1>1, <1>5, <1>6 DEF Fits, Placed, Kept, InProgram, Single
<1>9. Lists(pass[p])'
  BY <1>1, <1>5, <1>6 DEF Lists, MayPost
<1> QED BY <1>1, <1>3, <1>4, <1>5, <1>7, <1>8, <1>9, Quiet DEF Fits

LEMMA ListKeeps == ASSUME IInv, NEW p \in Passes, List(p) PROVE IInv'
<1> DEFINE r == [pass[p] EXCEPT !.pc = "load", !.listed = comments]
<1>1. pass[p] \in PassRecords /\ Fits(pass[p]) /\ pass[p].pc = "list" /\ comments \in Nat
  BY Given DEF List, IInv, TypeOK
<1>2. r \in PassRecords /\ Holding(r)
  BY <1>1 DEF PassRecords, PassSteps, Holding
<1>3. Becomes(p, pass'[p]) /\ pass'[p] = r
  <2>1. pass' = [pass EXCEPT ![p] = r]
    BY DEF List, IInv, TypeOK
  <2> QED BY <1>2, <2>1, Put
<1>4. UNCHANGED <<record, linear, github, overlapped>> /\ upsets' \in Nat
  BY DEF List, IInv, TypeOK, counts
<1>5. /\ pass'[p].pc = "load" /\ pass'[p].listed = comments
      /\ pass'[p].at = pass[p].at /\ pass'[p].status = pass[p].status
      /\ pass'[p].held = pass[p].held
  BY <1>1, <1>3 DEF PassRecords
<1>6. UNCHANGED <<record, projected, comments, ready, marked, overlapped>>
  BY <1>4 DEF linear, github
<1>7. Sound(pass[p])'
  BY <1>1, <1>5, <1>6 DEF Fits, Sound, IInv, Shown
<1>8. Placed(pass[p])' /\ Kept(pass[p])'
  BY <1>1, <1>5, <1>6 DEF Fits, Placed, Kept, InProgram, Single
<1>9. Lists(pass[p])'
  BY <1>1, <1>5, <1>6 DEF Lists, MayPost
<1> QED BY <1>1, <1>3, <1>4, <1>5, <1>7, <1>8, <1>9, Quiet DEF Fits

LEMMA LoadKeeps == ASSUME IInv, NEW p \in Passes, Load(p) PROVE IInv'
<1>1. pass[p] \in PassRecords /\ Fits(pass[p]) /\ pass[p].pc = "load"
      /\ record \in Records \cup {NoRecord}
  BY Given DEF Load, IInv, TypeOK
<1>2. UNCHANGED <<record, linear, github, overlapped>> /\ upsets' \in Nat
  BY DEF Load, IInv, TypeOK, counts
<1>3. CASE End(p)
  BY <1>2, <1>3, Ends
<1>4. CASE ~End(p)
  <2> DEFINE r == [pass[p] EXCEPT !.pc = "prove", !.held = record]
  <2>1. r \in PassRecords /\ Holding(r)
    BY <1>1 DEF PassRecords, PassSteps, Holding
  <2>2. Becomes(p, pass'[p]) /\ pass'[p] = r
    <3>1. pass' = [pass EXCEPT ![p] = r]
      BY <1>4 DEF Load, IInv, TypeOK
    <3> QED BY <2>1, <3>1, Put
  <2>3. /\ pass'[p].pc = "prove" /\ pass'[p].held = record
        /\ pass'[p].at = pass[p].at /\ pass'[p].status = pass[p].status
        /\ pass'[p].listed = pass[p].listed
    BY <1>1, <2>2 DEF PassRecords
  <2>4. Fits(pass[p])'
    BY <1>1, <1>2, <2>3 DEF Fits, Sound, Placed, Kept, Lists, MayPost, InProgram, Single, IInv,
       RecordedIsProjected, CompletedIsComplete, OneId, linear, github
  <2> QED BY <1>1, <1>2, <2>2, <2>4, Quiet
<1> QED BY <1>3, <1>4

LEMMA ProveKeeps == ASSUME IInv, NEW p \in Passes, Prove(p) PROVE IInv'
<1>1. pass[p] \in PassRecords /\ Fits(pass[p]) /\ pass[p].pc = "prove"
  BY Given DEF Prove
<1>2. UNCHANGED <<record, linear, github, overlapped>> /\ upsets' \in Nat
  BY DEF Prove, IInv, TypeOK, counts
<1>3. CASE End(p)
  BY <1>2, <1>3, Ends
<1>4. ASSUME NEW id \in Ids, NEW pc \in {"run", "blocked"}, marked => id = "merge",
             pass' = [pass EXCEPT ![p].pc = pc, ![p].held = Resolved(pass[p].held, id)]
      PROVE  IInv'
  <2> DEFINE held == Resolved(pass[p].held, id)
             r == [pass[p] EXCEPT !.pc = pc, !.held = held]
  <2>1. Fresh(id) \in Records /\ Fresh(id).done = {} /\ Fresh(id).state # "completed"
        /\ Fresh(id).id = id
    BY DEF Fresh, Records, States
  <2>2. /\ held \in Records /\ held.id = id
        /\ held.done \subseteq projected
        /\ Single /\ held.state = "completed" => Effects \subseteq held.done
    BY <1>1, <2>1 DEF Resolved, PassRecords, Fits, Sound, Kept
  <2> HIDE DEF held
  <2>3. r \in PassRecords /\ Holding(r)
    BY <1>1, <2>2 DEF PassRecords, PassSteps, Holding
  <2>4. Becomes(p, pass'[p]) /\ pass'[p] = r
    <3>1. pass' = [pass EXCEPT ![p] = r]
      BY <1>4 DEF held, IInv, TypeOK
    <3> QED BY <2>3, <3>1, Put
  <2>5. /\ pass'[p].pc = pc /\ pass'[p].held = held /\ pass'[p].at = 1
        /\ pass'[p].status = pass[p].status /\ pass'[p].listed = pass[p].listed
    BY <1>1, <2>4 DEF PassRecords, Fits, Placed
  <2>6. Sound(pass[p])' /\ Kept(pass[p])'
    <3>1. UNCHANGED <<record, projected, marked, overlapped>>
      BY <1>2 DEF linear, github
    <3>2. Sound(pass[p])'
      BY <1>1, <2>2, <2>5, <3>1 DEF Fits, Sound
    <3>3. Kept(pass[p])'
      <4>1. (marked => held.id = "merge") /\ ~(pass'[p].at > 1)
        BY <1>4, <2>2, <2>5
      <4> QED BY <2>2, <2>5, <3>1, <4>1 DEF Kept, Single
    <3> QED BY <3>2, <3>3
  <2>7. Placed(pass[p])' /\ Lists(pass[p])'
    BY <1>1, <1>2, <2>5 DEF Fits, Placed, InProgram, Lists, MayPost, linear
  <2> QED BY <1>1, <1>2, <2>4, <2>6, <2>7, Quiet DEF Fits
<1>5. promotion \in {"none", "squashed", "merged"}
  BY DEF IInv, TypeOK
<1> QED BY <1>3, <1>4, <1>5 DEF Prove, Ids, Proven, Unsupported

----------------------------------------------------------------------------
(* A running pass, and what its place says.                                *)
LEMMA Running0 ==
    ASSUME IInv, NEW p \in Passes, InProgram(pass[p])
    PROVE  /\ pass[p] \in PassRecords /\ Fits(pass[p])
           /\ pass[p].held \in Records /\ pass[p].held # NoRecord
           /\ pass[p].at \in 1..14 /\ pass[p].pc # "idle"
BY Given, ProgramFacts, NoRecordAssumption DEF PassRecords, Holding, InProgram

(* To the next place: only there does the pass owe more than before.       *)
LEMMA Advances ==
    ASSUME IInv, NEW p \in Passes, pass[p].pc = "run", pass[p].at <= 13,
           NEW n \in 1..14, n = pass[p].at + 1 \/ (pass[p].dry /\ n = 5),
           pass' = [pass EXCEPT ![p].at = n],
           pass[p].dry => n \in {2, 5},
           pass[p].at > 1,
           n > 5 => ready,
           ~pass[p].dry /\ Program[pass[p].at] \in Effects
              => Program[pass[p].at] \in pass[p].held.done,
           pass[p].at <= n,
           UNCHANGED <<record, linear, github, counts>>
    PROVE  IInv'
<1>1. /\ pass[p] \in PassRecords /\ Fits(pass[p]) /\ pass[p].held \in Records
      /\ pass[p].at \in 1..14 /\ pass[p].pc # "idle"
  BY Running0 DEF InProgram
<1> DEFINE r == [pass[p] EXCEPT !.at = n]
<1>2. r \in PassRecords /\ Holding(r)
  BY <1>1, ProgramFacts DEF PassRecords, PassSteps, Holding
<1>3. Becomes(p, pass'[p]) /\ pass'[p] = r
  <2>1. pass' = [pass EXCEPT ![p] = r]
    BY DEF IInv, TypeOK
  <2> QED BY <1>2, <2>1, Put
<1>4. UNCHANGED <<record, linear, github, overlapped>> /\ upsets' \in Nat
  BY DEF IInv, TypeOK, counts
<1>5. /\ pass'[p].at = n /\ pass'[p].pc = "run" /\ pass'[p].held = pass[p].held
      /\ pass'[p].dry = pass[p].dry /\ pass'[p].listed = pass[p].listed
      /\ pass'[p].status = pass[p].status
  BY <1>1, <1>3 DEF PassRecords
<1>6. UNCHANGED <<record, projected, comments, ready, marked, overlapped>>
  BY <1>4 DEF linear, github
<1>7. Sound(pass[p])' /\ Kept(pass[p])'
  BY <1>1, <1>5, <1>6 DEF Fits, Sound, Kept, InProgram, Single
<1>8. Placed(pass[p])'
  <2>1. Single /\ ~pass[p].dry => \A i \in 1..14 : i < n /\ Program[i] \in Effects
                                    => Program[i] \in pass[p].held.done
    BY <1>1 DEF Fits, Placed, InProgram
  <2> QED BY <1>5, <1>6, <2>1 DEF Placed, InProgram, Single
<1>9. Lists(pass[p])'
  BY <1>1, <1>5, <1>6 DEF Fits, Lists, MayPost
<1> QED BY <1>1, <1>3, <1>4, <1>7, <1>8, <1>9, Quiet DEF Fits

LEMMA SkipKeeps == ASSUME IInv, NEW p \in Passes, Skip(p) PROVE IInv'
<1>1. InProgram(pass[p]) /\ pass[p].pc = "run"
  BY DEF Skip, Running, InProgram
<1>2. /\ pass[p].at \in 1..14 /\ Program[pass[p].at] \in Effects /\ Fits(pass[p])
      /\ pass[p] \in PassRecords
  BY <1>1, Running0 DEF Skip, Running, Op
<1>3. pass[p].at \in {3, 4, 6, 9, 10, 12, 13} /\ ~pass[p].dry
  BY <1>1, <1>2, ProgramFacts DEF Fits, Placed
<1>4. pass' = [pass EXCEPT ![p].at = pass[p].at + 1]
  BY <1>1, <1>2 DEF Skip, Advance, Continue, IInv, TypeOK, PassRecords
<1>5. /\ pass[p].at + 1 > 5 => ready
      /\ Program[pass[p].at] \in pass[p].held.done
      /\ UNCHANGED <<record, linear, github, counts>>
  <2>1. pass[p].at + 1 > 5 => pass[p].at > 5
    BY <1>3
  <2> QED BY <1>1, <1>2, <2>1 DEF Skip, Op, Fits, Placed
<1>6. pass[p].at + 1 \in 1..14 /\ pass[p].at <= 13 /\ pass[p].at > 1
      /\ pass[p].at <= pass[p].at + 1
  BY <1>3
<1> QED BY <1>1, <1>3, <1>4, <1>5, <1>6, Advances

LEMMA BlockedKeeps ==
    ASSUME IInv, NEW p \in Passes, pass[p].pc = "run", Goto(p, "blocked"),
           UNCHANGED <<record, linear, github, counts>>
    PROVE  IInv'
<1>1. InProgram(pass[p])
  BY DEF InProgram
<1>2. /\ pass[p] \in PassRecords /\ Fits(pass[p]) /\ pass[p].held \in Records
  BY <1>1, Running0
<1> DEFINE r == [pass[p] EXCEPT !.pc = "blocked"]
<1>3. r \in PassRecords /\ Holding(r)
  BY <1>2 DEF PassRecords, PassSteps, Holding
<1>4. Becomes(p, pass'[p]) /\ pass'[p] = r
  BY <1>3, Put DEF Goto
<1>5. /\ pass'[p].pc = "blocked" /\ pass'[p].held = pass[p].held
      /\ pass'[p].listed = pass[p].listed /\ pass'[p].status = pass[p].status
  BY <1>2, <1>4 DEF PassRecords
<1>6. UNCHANGED <<record, linear, github, overlapped, projected, marked>> /\ upsets' \in Nat
  BY DEF linear, github, counts, IInv, TypeOK
<1>7. Fits(pass[p])'
  BY <1>2, <1>5, <1>6 DEF Fits, Sound, Placed, Kept, Lists, MayPost, InProgram, Single
<1> QED BY <1>4, <1>6, <1>7, Quiet

LEMMA VerifyKeeps == ASSUME IInv, NEW p \in Passes, Verify(p) PROVE IInv'
<1>1. InProgram(pass[p]) /\ pass[p].pc = "run"
  BY DEF Verify, Running, InProgram
<1>2. /\ pass[p].at \in 1..14 /\ Fits(pass[p]) /\ pass[p] \in PassRecords
      /\ pass[p].held \in Records
  BY <1>1, Running0
<1>3. pass[p].at = 5
  BY <1>2, ProgramFacts DEF Verify, Running, Op
<1>4. UNCHANGED <<record, linear, github, counts, overlapped>> /\ upsets' \in Nat
  BY DEF Verify, IInv, TypeOK, counts
<1>5. CASE End(p)
  BY <1>4, <1>5, Ends
<1>6. CASE Goto(p, "blocked")
  BY <1>1, <1>2, <1>4, <1>6, BlockedKeeps
<1>7. CASE Advance(p) /\ ready /\ ~pass[p].dry
  <2>1. pass' = [pass EXCEPT ![p].at = 6]
    BY <1>1, <1>2, <1>3, <1>7 DEF Advance, Continue, IInv, TypeOK, PassRecords
  <2>2. Program[pass[p].at] \notin Effects
    BY <1>3, ProgramFacts
  <2>3. /\ pass[p].at <= 13 /\ 6 \in 1..14 /\ 6 = pass[p].at + 1
        /\ pass[p].at > 1 /\ pass[p].at <= 6
    BY <1>3
  <2> QED BY <1>1, <1>4, <1>7, <2>1, <2>2, <2>3, Advances
<1> QED BY <1>5, <1>6, <1>7 DEF Verify, Deployed

LEMMA ConfiguredKeeps == ASSUME IInv, NEW p \in Passes, Configured(p) PROVE IInv'
<1>1. InProgram(pass[p]) /\ pass[p].pc = "run"
  BY DEF Configured, Running, InProgram
<1>2. /\ pass[p].at \in 1..14 /\ Fits(pass[p]) /\ pass[p] \in PassRecords
      /\ pass[p].held \in Records
  BY <1>1, Running0
<1>3. pass[p].at = 2
  BY <1>2, ProgramFacts DEF Configured, Running, Op
<1>4. UNCHANGED <<record, linear, github, counts, overlapped>> /\ upsets' \in Nat
  BY DEF Configured, IInv, TypeOK, counts
<1>5. Program[pass[p].at] \notin Effects
  BY <1>3, ProgramFacts
<1>6. CASE Goto(p, "blocked")
  BY <1>1, <1>2, <1>4, <1>6, BlockedKeeps
<1>7. CASE Advance(p) /\ ~pass[p].dry
  <2>1. pass' = [pass EXCEPT ![p].at = 3]
    BY <1>1, <1>2, <1>3, <1>7 DEF Advance, Continue, IInv, TypeOK, PassRecords
  <2>2. /\ pass[p].at <= 13 /\ 3 \in 1..14 /\ 3 = pass[p].at + 1
        /\ pass[p].at > 1 /\ pass[p].at <= 3 /\ ~(3 > 5)
    BY <1>3
  <2> QED BY <1>1, <1>4, <1>5, <1>7, <2>1, <2>2, Advances
<1>8. CASE pass' = [pass EXCEPT ![p].at = 5] /\ pass[p].dry
  <2>1. /\ pass[p].at <= 13 /\ 5 \in 1..14
        /\ pass[p].at > 1 /\ pass[p].at <= 5 /\ ~(5 > 5)
    BY <1>3
  <2> QED BY <1>1, <1>4, <1>5, <1>8, <2>1, Advances
<1>9. verifier \in BOOLEAN /\ pass[p].dry \in BOOLEAN
  BY <1>2 DEF IInv, TypeOK, PassRecords
<1> QED BY <1>6, <1>7, <1>8, <1>9 DEF Configured, VerifyStep

----------------------------------------------------------------------------
(* An effect takes place, or is found to have: the pass is about to record it. *)
LEMMA Projects ==
    ASSUME IInv, NEW p \in Passes, pass[p].pc = "run", Op(p) \in Effects,
           Goto(p, "save"),
           UNCHANGED <<record, github, counts>>,
           status' \in Statuses, comments' \in Nat,
           projected' \subseteq Effects, projected \subseteq projected',
           Op(p) \in projected',
           Shown', ~overlapped => comments' <= 1,
           comments' = comments \/ Op(p) = "linear_production_comment"
    PROVE  IInv'
<1>1. InProgram(pass[p])
  BY DEF InProgram
<1>2. /\ pass[p] \in PassRecords /\ Fits(pass[p]) /\ pass[p].held \in Records
      /\ pass[p].at \in 1..14 /\ pass[p].pc # "idle"
  BY <1>1, Running0
<1>3. pass[p].at \in {3, 4, 6, 9, 10, 12, 13} /\ ~pass[p].dry
  BY <1>1, <1>2, ProgramFacts DEF Fits, Placed, Op
<1> DEFINE r == [pass[p] EXCEPT !.pc = "save"]
<1>4. r \in PassRecords /\ Holding(r)
  BY <1>2 DEF PassRecords, PassSteps, Holding
<1>5. Becomes(p, pass'[p]) /\ pass'[p] = r
  BY <1>4, Put DEF Goto
<1>6. /\ pass'[p].pc = "save" /\ pass'[p].at = pass[p].at /\ pass'[p].held = pass[p].held
      /\ pass'[p].dry = pass[p].dry /\ pass'[p].listed = pass[p].listed
      /\ pass'[p].status = pass[p].status
  BY <1>2, <1>5 DEF PassRecords
<1>7. UNCHANGED <<record, ready, marked, overlapped>> /\ upsets' \in Nat
  BY DEF github, counts, IInv, TypeOK
<1>8. Sound(pass[p])'
  BY <1>2, <1>6 DEF Fits, Sound, Op
<1>9. Placed(pass[p])' /\ Kept(pass[p])'
  BY <1>1, <1>2, <1>3, <1>6, <1>7 DEF Fits, Placed, Kept, InProgram, Single
<1>10. Lists(pass[p])'
  <2>1. comments' = comments \/ pass[p].at = 9
    BY <1>2, ProgramFacts DEF Op
  <2> QED BY <1>2, <1>6, <1>7, <2>1 DEF Fits, Lists, MayPost
<1> QED BY <1>2, <1>5, <1>7, <1>8, <1>9, <1>10, Local DEF Fits

LEMMA ScoreKeeps == ASSUME IInv, NEW p \in Passes, Score(p) PROVE IInv'
<1>1. /\ pass[p].pc = "run" /\ Op(p) \in Scores /\ Goto(p, "save")
      /\ projected' = projected \cup {Op(p)}
      /\ UNCHANGED <<record, github, counts, status, comments>>
  BY DEF Score, Todo, Running
<1>2. /\ status \in Statuses /\ comments \in Nat /\ projected \subseteq Effects
      /\ Shown /\ (~overlapped => comments <= 1)
  BY DEF IInv, TypeOK
<1>3. Scores \subseteq Effects
  BY DEF Effects
<1>4. Shown'
  BY <1>1, <1>2 DEF Shown
<1> QED BY <1>1, <1>2, <1>3, <1>4, Projects

LEMMA CommentKeeps == ASSUME IInv, NEW p \in Passes, Comment(p) PROVE IInv'
<1>1. /\ pass[p].pc = "run" /\ Op(p) = "linear_production_comment" /\ Goto(p, "save")
      /\ UNCHANGED <<record, github, counts, status>>
  BY DEF Comment, Todo, Running
<1>2. InProgram(pass[p])
  BY <1>1 DEF InProgram
<1>3. /\ pass[p] \in PassRecords /\ Fits(pass[p]) /\ pass[p].at \in 1..14
      /\ status \in Statuses /\ comments \in Nat /\ projected \subseteq Effects
      /\ Shown /\ (~overlapped => comments <= 1) /\ pass[p].listed \in Nat
  BY <1>2, Running0 DEF IInv, TypeOK, PassRecords
<1>4. Op(p) \in Effects /\ pass[p].at = 9
  BY <1>1, <1>3, ProgramFacts DEF Op, Effects
<1>5. CASE pass[p].listed > 0
  <2>1. UNCHANGED <<comments, projected>> /\ Op(p) \in projected
    BY <1>1, <1>3, <1>5 DEF Comment, Adoptable, Fits, Sound
  <2>2. Shown'
    BY <1>1, <1>3, <2>1 DEF Shown
  <2> QED BY <1>1, <1>3, <1>4, <2>1, <2>2, Projects
<1>6. CASE ~(pass[p].listed > 0)
  <2>1. comments' = comments + 1 /\ projected' = projected \cup {Op(p)}
    BY <1>1, <1>6 DEF Comment, Adoptable
  <2>2. ~overlapped => comments = 0
    BY <1>1, <1>3, <1>4, <1>6 DEF Fits, Lists, MayPost
  <2>3. Shown'
    BY <1>1, <1>3, <2>1 DEF Shown
  <2>4. comments' \in Nat /\ (~overlapped => comments' <= 1)
    BY <1>3, <2>1, <2>2
  <2> QED BY <1>1, <1>3, <1>4, <2>1, <2>3, <2>4, Projects
<1> QED BY <1>5, <1>6

LEMMA TransitionKeeps == ASSUME IInv, NEW p \in Passes, Transition(p) PROVE IInv'
<1>1. /\ pass[p].pc = "run" /\ Op(p) = "linear_status_transition"
      /\ UNCHANGED <<record, github, counts, comments>>
  BY DEF Transition, Todo, Running
<1>2. InProgram(pass[p])
  BY <1>1 DEF InProgram
<1>3. /\ pass[p] \in PassRecords /\ Fits(pass[p])
      /\ status \in Statuses /\ comments \in Nat /\ projected \subseteq Effects
      /\ Shown /\ (~overlapped => comments <= 1) /\ upsets \in Nat
  BY <1>2, Running0 DEF IInv, TypeOK
<1>4. Op(p) \in Effects /\ "production" \in Statuses
  BY <1>1 DEF Effects, Statuses
<1>5. CASE pass[p].status = "production"
  <2>1. UNCHANGED <<status, projected>> /\ Goto(p, "save") /\ Op(p) \in projected
    BY <1>1, <1>3, <1>5 DEF Transition, Fits, Sound
  <2>2. Shown'
    BY <1>1, <1>3, <2>1 DEF Shown
  <2> QED BY <1>1, <1>3, <1>4, <2>1, <2>2, Projects
<1>6. CASE pass[p].status = "integration"
  <2>1. status' = "production" /\ projected' = projected \cup {Op(p)} /\ Goto(p, "save")
    BY <1>1, <1>6 DEF Transition
  <2>2. Shown'
    BY <1>1, <1>3, <2>1 DEF Shown
  <2> QED BY <1>1, <1>3, <1>4, <2>1, <2>2, Projects
<1>7. CASE pass[p].status = "elsewhere"
  <2>1. End(p) /\ UNCHANGED <<status, projected>>
    BY <1>7 DEF Transition
  <2> QED BY <1>1, <1>3, <2>1, Ends DEF linear, counts
<1>8. pass[p].status \in {"production", "integration", "elsewhere"}
  BY <1>3 DEF PassRecords, Statuses
<1> QED BY <1>5, <1>6, <1>7, <1>8

----------------------------------------------------------------------------
(* What a persist builds on: the stored record where the pass has its      *)
(* identity, which holds all the pass does.                                *)
LEMMA BaseFacts ==
    ASSUME IInv, NEW p \in Passes, pass[p].held \in Records
    PROVE  /\ Base(p) \in Records /\ Base(p).id = pass[p].held.id
           /\ Base(p).done \subseteq projected
           /\ Single /\ Base(p).state = "completed" => Effects \subseteq Base(p).done
           /\ Single /\ InProgram(pass[p]) /\ pass[p].at > 1
                => pass[p].held.done \subseteq Base(p).done
<1>1. pass[p].held # NoRecord /\ Fits(pass[p])
  BY NoRecordAssumption DEF IInv
<1>2. CASE record # NoRecord /\ record.id = pass[p].held.id
  <2>1. Base(p) = record
    BY <1>2 DEF Base
  <2> QED BY <1>1, <1>2, <2>1 DEF IInv, TypeOK, RecordedIsProjected, CompletedIsComplete, Single,
          Fits, Kept
<1>3. CASE ~(record # NoRecord /\ record.id = pass[p].held.id)
  <2>1. Base(p) = pass[p].held
    BY <1>3 DEF Base
  <2> QED BY <1>1, <2>1 DEF Fits, Sound, Kept
<1> QED BY <1>2, <1>3

LEMMA BlockKeeps == ASSUME IInv, NEW p \in Passes, Block(p) PROVE IInv'
<1>1. pass[p].pc = "blocked" /\ pass[p].held \in Records /\ pass[p].pc # "idle"
  BY Given DEF Block, Holding
<1> DEFINE new == WithState(Base(p), "blocked")
<1>2. /\ Base(p) \in Records /\ Base(p).id = pass[p].held.id
      /\ Base(p).done \subseteq projected
  BY <1>1, BaseFacts
<1>3. /\ new \in Records /\ new.id = pass[p].held.id
      /\ new.done = Base(p).done /\ new.state = "blocked"
  BY <1>2 DEF WithState, Records, States
<1>4. Becomes(p, pass'[p]) /\ pass'[p] = Idle
  BY IdleFits, Put DEF Block, End
<1>5. Fits(pass[p])'
  BY <1>4, IdleFits
<1>6. record' = new /\ UNCHANGED <<linear, github, counts>>
  BY DEF Block
<1> HIDE DEF new
<1>7. Base(p).done \subseteq new.done /\ new.done \subseteq projected
      /\ (Single /\ new.state = "completed" => Effects \subseteq new.done)
  BY <1>2, <1>3
<1> QED BY <1>1, <1>3, <1>4, <1>5, <1>6, <1>7, Persist

(* A persisted record is what the pass then holds, one place further.      *)
LEMMA Goes ==
    ASSUME IInv, NEW p \in Passes, InProgram(pass[p]), pass[p].at <= 13,
           NEW new \in Records, record' = new, Continue(p, new),
           new.id = pass[p].held.id,
           Base(p).done \subseteq new.done, new.done \subseteq projected,
           Single /\ new.state = "completed" => Effects \subseteq new.done,
           pass[p].dry => pass[p].at = 1,
           ~pass[p].dry /\ Program[pass[p].at] \in Effects
              => Program[pass[p].at] \in new.done,
           pass[p].at # 5,
           pass[p].pc = "save" \/ pass[p].at # 9,
           UNCHANGED <<linear, github, counts>>
    PROVE  IInv'
<1>1. /\ pass[p] \in PassRecords /\ Fits(pass[p])
      /\ pass[p].held \in Records /\ pass[p].held # NoRecord
      /\ pass[p].at \in 1..14 /\ pass[p].pc # "idle"
  BY Running0
<1> DEFINE r == [pass[p] EXCEPT !.pc = "run", !.at = pass[p].at + 1, !.held = new]
<1>2. r \in PassRecords /\ Holding(r)
  <2>1. pass[p].at + 1 \in 1..Len(Program)
    BY <1>1, ProgramFacts
  <2> QED BY <1>1, <2>1 DEF PassRecords, PassSteps, Holding
<1>3. Becomes(p, pass'[p]) /\ pass'[p] = r
  <2>1. pass' = [pass EXCEPT ![p] = r]
    BY DEF Continue, IInv, TypeOK
  <2> QED BY <1>2, <2>1, Put
<1>4. /\ pass'[p].at = pass[p].at + 1 /\ pass'[p].pc = "run" /\ pass'[p].held = new
      /\ pass'[p].dry = pass[p].dry /\ pass'[p].listed = pass[p].listed
      /\ pass'[p].status = pass[p].status
  BY <1>1, <1>3 DEF PassRecords
<1>5. /\ UNCHANGED <<projected, comments, ready, marked, overlapped>>
      /\ record' = new /\ new # NoRecord
  BY NoRecordAssumption DEF linear, github, counts
<1>6. Sound(pass[p])'
  BY <1>1, <1>4, <1>5 DEF Fits, Sound
<1>7. Kept(pass[p])'
  BY <1>1, <1>4, <1>5 DEF Fits, Kept, Single, InProgram
<1>8. Placed(pass[p])'
  <2>1. ASSUME Single, ~pass[p].dry, NEW i \in 1..14, i < pass[p].at + 1, Program[i] \in Effects
        PROVE  Program[i] \in new.done
    <3>1. CASE i = pass[p].at
      BY <2>1, <3>1
    <3>2. CASE i < pass[p].at
      <4>1. Program[i] \in pass[p].held.done /\ pass[p].at > 1
        BY <1>1, <2>1, <3>2 DEF Fits, Placed
      <4>2. pass[p].held.done \subseteq Base(p).done
        BY <1>1, <2>1, <4>1, BaseFacts
      <4> QED BY <4>1, <4>2
    <3> QED BY <1>1, <2>1, <3>1, <3>2
  <2>2. pass[p].at + 1 > 5 => ready
    BY <1>1 DEF Fits, Placed
  <2>3. pass[p].dry => pass[p].at + 1 \in {1, 2, 5}
    BY <1>1
  <2> QED BY <1>4, <1>5, <2>1, <2>2, <2>3 DEF Placed, InProgram, Single
<1>9. Lists(pass[p])'
  <2>1. pass[p].pc = "run" \/ pass[p].pc = "save"
    BY DEF InProgram
  <2> QED BY <1>1, <1>4, <1>5, <2>1 DEF Fits, Lists, MayPost
<1> QED BY <1>1, <1>3, <1>6, <1>7, <1>8, <1>9, Persist DEF Fits

LEMMA SetStateKeeps == ASSUME IInv, NEW p \in Passes, SetState(p) PROVE IInv'
<1>1. InProgram(pass[p]) /\ pass[p].pc = "run" /\ Op(p) \in States
  BY DEF SetState, Running, InProgram
<1>2. /\ pass[p] \in PassRecords /\ Fits(pass[p]) /\ pass[p].held \in Records
      /\ pass[p].at \in 1..14 /\ pass[p].pc # "idle" /\ Len(Program) = 14
  BY <1>1, Running0, ProgramFacts
<1>3. pass[p].at \in {1, 7, 8, 11, 14}
  BY <1>1, <1>2, ProgramFacts DEF Op
<1>4. pass[p].dry => pass[p].at = 1
  BY <1>1, <1>2, <1>3 DEF Fits, Placed
<1> DEFINE new == WithState(Base(p), Op(p))
<1>5. /\ Base(p) \in Records /\ Base(p).id = pass[p].held.id
      /\ Base(p).done \subseteq projected
      /\ Single /\ pass[p].at > 1 => pass[p].held.done \subseteq Base(p).done
  BY <1>1, <1>2, BaseFacts
<1>6. /\ new \in Records /\ new.id = pass[p].held.id
      /\ new.done = Base(p).done /\ new.state = Op(p)
  BY <1>1, <1>5 DEF WithState, Records
<1>7. record' = new /\ UNCHANGED <<linear, github, counts>>
  BY DEF SetState
<1>8. Single /\ new.state = "completed" => Effects \subseteq new.done
  <2> SUFFICES ASSUME Single, new.state = "completed" PROVE Effects \subseteq new.done
    OBVIOUS
  <2>1. pass[p].at = 14
    BY <1>2, <1>6, ProgramFacts DEF Op
  <2>2. \A i \in 1..13 : Program[i] \in Effects => Program[i] \in pass[p].held.done
    <3>1. ~pass[p].dry
      BY <1>4, <2>1
    <3>2. \A i \in 1..13 : i \in 1..14 /\ i < pass[p].at
      BY <2>1
    <3> QED BY <1>1, <1>2, <3>1, <3>2 DEF Fits, Placed
  <2>3. Effects \subseteq pass[p].held.done
    BY <2>2, ProgramFacts
  <2> QED BY <1>5, <1>6, <2>1, <2>3
<1> HIDE DEF new
<1>9. CASE pass[p].at = 14
  <2>1. Becomes(p, pass'[p]) /\ pass'[p] = Idle
    BY <1>2, <1>9, IdleFits, Put DEF SetState, End
  <2>2. Fits(pass[p])'
    BY <2>1, IdleFits
  <2> QED BY <1>2, <1>5, <1>6, <1>7, <1>8, <2>1, <2>2, Persist
<1>10. CASE pass[p].at # 14
  <2>1. Continue(p, new)
    BY <1>2, <1>7, <1>10 DEF SetState
  <2>2. Program[pass[p].at] \notin Effects
    BY <1>2, <1>3, ProgramFacts
  <2>3. pass[p].at <= 13 /\ pass[p].at # 5 /\ pass[p].at # 9
    BY <1>3, <1>10
  <2> QED BY <1>1, <1>4, <1>5, <1>6, <1>7, <1>8, <2>1, <2>2, <2>3, Goes
<1> QED BY <1>9, <1>10

LEMMA SaveKeeps == ASSUME IInv, NEW p \in Passes, Save(p) PROVE IInv'
<1>1. InProgram(pass[p]) /\ pass[p].pc = "save"
  BY DEF Save, InProgram
<1>2. /\ pass[p] \in PassRecords /\ Fits(pass[p]) /\ pass[p].held \in Records
      /\ pass[p].at \in 1..14
  BY <1>1, Running0
<1>3. /\ Op(p) \in Effects /\ Op(p) \in projected /\ ~pass[p].dry
  BY <1>1, <1>2 DEF Fits, Sound, Placed, Op
<1>4. pass[p].at <= 13 /\ pass[p].at # 5
  BY <1>2, <1>3, ProgramFacts DEF Op
<1> DEFINE new == WithEffect(Base(p), Op(p))
<1>5. /\ Base(p) \in Records /\ Base(p).id = pass[p].held.id
      /\ Base(p).done \subseteq projected
      /\ Single /\ Base(p).state = "completed" => Effects \subseteq Base(p).done
  BY <1>2, BaseFacts
<1>6. /\ new \in Records /\ new.id = pass[p].held.id
      /\ new.done = Base(p).done \cup {Op(p)} /\ new.state = Base(p).state
  BY <1>3, <1>5 DEF WithEffect, Records
<1>7. record' = new /\ Continue(p, new) /\ UNCHANGED <<linear, github, counts>>
  BY DEF Save
<1> HIDE DEF new
<1>8. /\ Base(p).done \subseteq new.done /\ new.done \subseteq projected
      /\ (Single /\ new.state = "completed" => Effects \subseteq new.done)
      /\ Program[pass[p].at] \in new.done
  BY <1>3, <1>5, <1>6 DEF Op
<1> QED BY <1>1, <1>3, <1>4, <1>6, <1>7, <1>8, Goes

----------------------------------------------------------------------------
LEMMA StepKeeps == ASSUME IInv, NEW p \in Passes, Step(p) PROVE IInv'
BY FetchKeeps, ListKeeps, LoadKeeps, ProveKeeps, BlockKeeps, SetStateKeeps, ConfiguredKeeps,
   VerifyKeeps, SkipKeeps, ScoreKeeps, CommentKeeps, TransitionKeeps, SaveKeeps DEF Step

(* People and the deployments leave the passes and the record alone.       *)
LEMMA EnvironmentKeeps == ASSUME IInv, Environment PROVE IInv'
<1>1. /\ UNCHANGED <<record, pass, comments, marked, overlapped>>
      /\ ready => ready'
      /\ projected \subseteq projected'
  BY DEF Environment, Promote, Rewind, Deploy, Configure, Move, linear, github, counts
<1>2. TypeOK'
  <2>1. Holding(Idle) /\ upsets' \in Nat
    BY IdleFits DEF IInv, TypeOK, Environment, Promote, Rewind, Deploy, Configure, Move, Upset,
       linear, github, counts
  <2>2. status' \in Statuses /\ projected' \subseteq Effects
    BY DEF IInv, TypeOK, Environment, Promote, Rewind, Deploy, Configure, Move, linear, Effects
  <2>3. /\ promotion' \in {"none", "squashed", "merged"}
        /\ ready' \in BOOLEAN /\ verifier' \in BOOLEAN
    BY DEF IInv, TypeOK, Environment, Promote, Rewind, Deploy, Configure, Move, github
  <2> QED BY <1>1, <2>1, <2>2, <2>3 DEF IInv, TypeOK
<1>3. Shown'
  <2>1. status' = "production" => "linear_status_transition" \in projected'
    BY DEF IInv, Shown, Environment, Promote, Rewind, Deploy, Configure, Move, linear
  <2> QED BY <1>1, <2>1 DEF IInv, Shown
<1>4. /\ RecordedIsProjected' /\ CompletedIsComplete' /\ Alone' /\ OneId'
      /\ (~overlapped => comments <= 1)'
  BY <1>1 DEF IInv, RecordedIsProjected, CompletedIsComplete, Alone, OneId
<1>5. ASSUME NEW p \in Passes PROVE Fits(pass[p])'
  <2>1. Fits(pass[p])
    BY DEF IInv
  <2> QED BY <1>1, <2>1 DEF Fits, Sound, Placed, Kept, Lists, MayPost, InProgram, Single
<1> QED BY <1>2, <1>3, <1>4, <1>5 DEF IInv

LEMMA InitHolds == Init => IInv
<1> SUFFICES ASSUME Init PROVE IInv
  OBVIOUS
<1>1. TypeOK
  BY IdleFits DEF Init, TypeOK, Holding, Statuses, Idle
<1>2. /\ RecordedIsProjected /\ CompletedIsComplete /\ (~overlapped => comments <= 1)
      /\ Alone /\ Shown /\ OneId
  BY DEF Init, RecordedIsProjected, CompletedIsComplete, Alone, Shown, OneId, Idle
<1>3. \A p \in Passes : Fits(pass[p])
  BY IdleFits DEF Init
<1> QED BY <1>1, <1>2, <1>3 DEF IInv

LEMMA NextKeeps == IInv /\ [Next]_vars => IInv'
<1> SUFFICES ASSUME IInv, [Next]_vars PROVE IInv'
  OBVIOUS
<1>1. CASE \E p \in Passes, dry, force \in BOOLEAN : Begin(p, dry, force)
  BY <1>1, BeginKeeps
<1>2. CASE \E p \in Passes : Step(p) \/ Fail(p)
  BY <1>2, StepKeeps, FailKeeps
<1>3. CASE Environment
  BY <1>3, EnvironmentKeeps
<1>4. CASE UNCHANGED vars
  BY <1>4 DEF vars, linear, github, counts, IInv, TypeOK, RecordedIsProjected,
     CompletedIsComplete, Alone, Shown, OneId, Fits, Sound, Placed, Kept, Lists, MayPost,
     InProgram, Single
<1> QED BY <1>1, <1>2, <1>3, <1>4 DEF Next

----------------------------------------------------------------------------
(* The record, the world and the passes always fit one another.            *)
THEOREM Invariance == Spec => []IInv
BY InitHolds, NextKeeps, PTL DEF Spec

(* The record, the passes and the issue stay in their domains.             *)
THEOREM TypeCorrect == Spec => []TypeOK
<1>1. IInv => TypeOK
  BY DEF IInv
<1> QED BY <1>1, Invariance, PTL

(* No effect is on record that has not taken place, however many passes    *)
(* overlap and are lost.                                                   *)
THEOREM RecordedTookPlace == Spec => []RecordedIsProjected
<1>1. IInv => RecordedIsProjected
  BY DEF IInv
<1> QED BY <1>1, Invariance, PTL

(* A completed record has all seven effects.                               *)
THEOREM CompletedHasAll == Spec => []CompletedIsComplete
<1>1. IInv => CompletedIsComplete
  BY DEF IInv
<1> QED BY <1>1, Invariance, PTL

(* One production comment, unless passes overlapped.                       *)
THEOREM OneComment == Spec => []SecondCommentNeedsOverlap
<1>1. IInv => SecondCommentNeedsOverlap
  BY DEF IInv, SecondCommentNeedsOverlap, TypeOK
<1> QED BY <1>1, Invariance, PTL

(* A recorded effect stays on record: a persist builds on the stored       *)
(* record whenever that is of the same completion.                         *)
THEOREM EffectsStay == Spec => EffectsKept
<1>1. ASSUME IInv, Next, record # NoRecord, record'.id = record.id
      PROVE  record.done \subseteq record'.done
  <2>1. CASE UNCHANGED record
    BY <2>1
  <2>2. ASSUME NEW p \in Passes, pass[p].held \in Records,
               \/ \E s \in States : record' = WithState(Base(p), s)
               \/ \E k \in Effects : record' = WithEffect(Base(p), k)
        PROVE  record.done \subseteq record'.done
    <3>1. Base(p) \in Records /\ Base(p).id = pass[p].held.id
      BY <2>2, BaseFacts, <1>1
    <3>2. record'.id = Base(p).id /\ Base(p).done \subseteq record'.done
      BY <2>2, <3>1 DEF WithState, WithEffect, Records
    <3>3. Base(p) = record
      BY <1>1, <3>1, <3>2 DEF Base
    <3> QED BY <3>2, <3>3
  <2>3. ASSUME NEW p \in Passes, Block(p) \/ SetState(p) \/ Save(p)
        PROVE  record.done \subseteq record'.done
    <3>1. pass[p].pc \in {"run", "save", "blocked"} /\ pass[p].held \in Records
      BY <1>1, <2>3, Given DEF Block, SetState, Running, Save, Holding
    <3>2. pass[p].pc = "save" => Op(p) \in Effects
      BY <1>1, Given DEF Fits, Sound, Op
    <3>3. \/ \E s \in States : record' = WithState(Base(p), s)
          \/ \E k \in Effects : record' = WithEffect(Base(p), k)
      BY <2>3, <3>2 DEF Block, SetState, Running, Save, States
    <3> QED BY <2>2, <3>1, <3>3
  <2> QED BY <1>1, <2>1, <2>3 DEF Next, Begin, Step, Fail, Fetch, List, Load, Prove, Configured,
          Verify, Skip, Score, Comment, Transition, Environment, Promote, Rewind, Deploy,
          Configure, Move
<1>2. IInv /\ [Next]_vars
        => [record # NoRecord /\ record'.id = record.id => record.done \subseteq record'.done]_vars
  BY <1>1
<1> QED BY <1>2, Invariance, PTL DEF Spec, EffectsKept

(* Production sync moves an issue to the production status only when a     *)
(* READY deployment contains its merge.                                    *)
THEOREM ShownAsDeployed == Spec => ShownIsDeployed
<1>1. ASSUME IInv, Next, status' # status, upsets' = upsets
      PROVE  status' = "production" /\ ready
  <2>1. \A s \in Statuses : ~Move(s)
    BY <1>1 DEF Move, Upset, IInv, TypeOK
  <2>2. PICK p \in Passes : Transition(p)
    BY <1>1, <2>1 DEF Next, Begin, Step, Fail, Fetch, List, Load, Prove, Block, SetState,
       Configured, Verify, Skip, Score, Comment, Save, Environment, Promote, Rewind, Deploy,
       Configure, linear
  <2>3. InProgram(pass[p]) /\ Op(p) = "linear_status_transition" /\ status' = "production"
    <3>1. pass[p].status \in Statuses
      BY <1>1, Given DEF PassRecords
    <3> QED BY <1>1, <2>2, <3>1 DEF Transition, Todo, Running, InProgram, Statuses
  <2>4. pass[p].at \in 1..14 /\ Fits(pass[p]) /\ Program[pass[p].at] = "linear_status_transition"
    BY <1>1, <2>3, Running0 DEF Op
  <2>5. pass[p].at = 10
    BY <2>4, ProgramFacts
  <2> QED BY <2>3, <2>4, <2>5 DEF Fits, Placed
<1>2. IInv /\ [Next]_vars
        => [status' # status /\ upsets' = upsets => status' = "production" /\ ready]_vars
  BY <1>1
<1> QED BY <1>2, Invariance, PTL DEF Spec, ShownIsDeployed

=============================================================================
