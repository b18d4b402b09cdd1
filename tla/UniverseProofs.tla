----------------------------- MODULE UniverseProofs -----------------------------
(***************************************************************************)
(* No bar is skipped, no report is false and no unfit pair is exported: the  *)
(* invariants of Universe, for any number of pairs, gates and faults.       *)
(***************************************************************************)
EXTENDS Universe, FiniteSetTheorems, WellFoundedInduction, TLAPS

-------------------------------------------------------------------------------
(* The inductive invariant                                                 *)

Busy == pc \in {"fetching", "got", "landed"}

\* The states of a pair: what each status and each report of it implies.
PairsInv ==
  /\ CursorNeverPassesRows
  /\ \A p \in Pairs :
       /\ progress[p].status = "unavailable" => NothingToFetch(p)
       /\ progress[p].status = "complete" => progress[p].next = Len + 1
       /\ record[p] = "completed" => progress[p].status = "complete"
       /\ record[p] = "unavailable" => progress[p].status = "unavailable"
  /\ \A x \in told :
       ~NothingToFetch(x[1]) => Due(x[1], x[2]) \subseteq rows[x[1]]
  /\ verdict = "done" =>
       \A p \in Pairs : NothingToFetch(p) \/ Due(p, Len + 1) \subseteq rows[p]

\* The runner: what it has in hand belongs to a pair that is not done yet, and no
\* bar is due between its cursor and its batch.
RunInv ==
  /\ Busy => /\ cur \in Pairs /\ ~NothingToFetch(cur)
             /\ progress[cur].status = "running"
             /\ record[cur] \notin DoneStatuses
             /\ Due(cur, since) \subseteq rows[cur]
  /\ pc \in {"got", "landed"} =>
       \A t \in served[cur], u \in batch :
         ListedAt[cur] <= t /\ t < EndsAt[cur] /\ since <= t /\ t <= u => t \in batch
  /\ pc = "landed" => batch \subseteq rows[cur]
  /\ pc \in {"reporting", "telling"} =>
       /\ cur \in Pairs
       /\ outcome = "completed" => progress[cur].status = "complete"
       /\ outcome = "unavailable" => progress[cur].status = "unavailable"
       /\ outcome \in Outcomes
  /\ cur \notin todo
  /\ pc \in {"between", "counting"} => cur = NoPair
  /\ \A p \in todo : record[p] \notin DoneStatuses
  /\ pc # "exited" => stall < StallLimit /\ verdict = "none"

\* What a ruling of ACTIVE found; a complete pair keeps it.
Sound(p) ==
  /\ progress[p].status = "complete"
  /\ ~TooManyMissing(p)
  /\ {ListedAt[p], Len} \subseteq rows[p]

Passing == {"appending", "committing", "announcing", "publishing", "recording"}

\* How far a gate has come with the pair in hand, beside ledger L and artifacts A.
Fits(x, L, A) ==
  /\ x.pc \in {"judging", "admitting"} => x.todo # {}
  /\ x.pc \in Passing => x.cur \in Pairs /\ x.ruled[x.cur] = "ACTIVE"
  /\ x.pc = "telling" => x.cur \in Pairs
  /\ x.pc \in {"appending", "committing"} => RowsOf(x.cur) \subseteq L \cup x.pend
  /\ x.pc = "announcing" => x.pend \subseteq L
  /\ x.pc \in {"announcing", "publishing", "recording"} => RowsOf(x.cur) \subseteq L
  /\ x.pc = "telling" /\ x.ruled[x.cur] = "ACTIVE" => RowsOf(x.cur) \subseteq L
  /\ x.pc = "recording" => \E a \in A : RowsOf(x.cur) \subseteq a

GateInv ==
  \A g \in Gates :
    /\ \A p \in Pairs : gate[g].ruled[p] = "ACTIVE" => Sound(p)
    /\ Fits(gate[g], ledger, artifacts)

NewsInv ==
  /\ \A row \in LakePairs : <<"tradability", row>> \in news => row \in ledger
  /\ \A p \in Pairs : <<"admission", <<p, "ACTIVE">>>> \in news =>
       RowsOf(p) \subseteq ledger /\ progress[p].status = "complete"

UniverseInv ==
  /\ UniverseTypeOK /\ PairsInv /\ RunInv /\ GateInv /\ NewsInv
  /\ ExportedPairsAreBacked

-------------------------------------------------------------------------------
(* Operators                                                               *)

LEMMA FirstIsMember == ASSUME NEW S, S # {} PROVE First(S) \in S
BY Zenon DEF First

LEMMA RepliesAreServed ==
  ASSUME NEW B \in Replies
  PROVE  B \subseteq served[cur]
<1> DEFINE ahead == {x \in served[cur] : since <= x}
           Rank(x) == Cardinality({y \in ahead : y <= x})
<1>1. CASE B = {x \in ahead : Rank(x) <= FetchLimit}
      BY <1>1
<1>2. CASE \E s \in {x \in served[cur] : x < since} : B = {s}
      BY <1>2
<1> QED BY <1>1, <1>2 DEF Replies

\* Of what is answered to a request nothing before its last bar is left out.
LEMMA RepliesHaveNoGaps ==
  ASSUME UniverseTypeOK, cur \in Pairs, NEW B \in Replies,
         NEW t \in served[cur], NEW u \in B, since <= t, t <= u
  PROVE  t \in B
<1> DEFINE ahead == {x \in served[cur] : since <= x}
           Rank(x) == Cardinality({y \in ahead : y <= x})
<1>1. served[cur] \subseteq Minutes /\ since \in Int
      BY DEF UniverseTypeOK, BackfillTypeOK, Cursors
<1>2. t \in Int /\ u \in Int
      BY <1>1, RepliesAreServed DEF Minutes
<1>3. CASE B = {x \in ahead : Rank(x) <= FetchLimit}
  <2> DEFINE below == {y \in ahead : y <= t}
             upto  == {y \in ahead : y <= u}
  <2>1. IsFiniteSet(Minutes)
        BY FS_Interval, BackfillAssumption DEF Minutes
  <2>2. IsFiniteSet(upto) /\ upto \subseteq Minutes
        BY <1>1, <2>1, FS_Subset
  <2>3. below \subseteq upto
    <3> SUFFICES ASSUME NEW y \in ahead, y <= t PROVE y <= u
        OBVIOUS
    <3> QED BY <1>1, <1>2 DEF Minutes
  <2>4. Cardinality(below) <= Cardinality(upto) /\ IsFiniteSet(below)
        BY <2>2, <2>3, FS_Subset
  <2>5. Cardinality(below) \in Nat /\ Cardinality(upto) \in Nat
        BY <2>2, <2>4, FS_CardinalityType
  <2>6. Rank(u) <= FetchLimit /\ Rank(u) = Cardinality(upto)
        BY <1>3
  <2>7. Rank(t) = Cardinality(below)
        OBVIOUS
  <2> HIDE DEF below, upto, Rank
  <2>8. Rank(t) <= FetchLimit
        BY <2>4, <2>5, <2>6, <2>7, BackfillAssumption
  <2> QED BY <1>3, <2>8
<1>4. CASE \E s \in {x \in served[cur] : x < since} : B = {s}
      BY <1>1, <1>2, <1>4 DEF Minutes
<1> QED BY <1>3, <1>4 DEF Replies

-------------------------------------------------------------------------------
(* Types                                                                   *)

LEMMA CursorsAreInts == /\ Cursors \subseteq Int /\ 1 \in Cursors /\ Len + 1 \in Cursors
                        /\ \A p \in Pairs : ListedAt[p] \in Cursors
                        /\ \A t \in Minutes : t + 1 \in Cursors
BY BackfillAssumption DEF Cursors, Minutes

LEMMA InitType == UniverseInit => UniverseTypeOK
<1> SUFFICES ASSUME UniverseInit PROVE UniverseTypeOK
    OBVIOUS
<1> USE UniverseAssumption
<1>1. BackfillTypeOK
  <2>1. /\ served \in [Pairs -> SUBSET Minutes]
        /\ rows \in [Pairs -> SUBSET Minutes]
        /\ agg \in [Pairs -> SUBSET Minutes]
        BY DEF UniverseInit, BackfillInit
  <2>2. progress \in [Pairs -> [status : Statuses, next : Cursors]]
        BY CursorsAreInts DEF UniverseInit, BackfillInit, Statuses
  <2>3. chunk \in 1..MaxChunks /\ stall \in 0..StallLimit
        BY BackfillAssumption DEF UniverseInit, BackfillInit
  <2> QED BY <2>1, <2>2, <2>3, CursorsAreInts
          DEF UniverseInit, BackfillInit, BackfillTypeOK, Outcomes, Steps
<1>2. NoGate \in GateStates
      BY DEF NoGate, GateStates, Places
<1> QED BY <1>1, <1>2 DEF UniverseInit, UniverseTypeOK

LEMMA RunnerType ==
  ASSUME BackfillTypeOK, UniverseTypeOK, RunInv, RunnerStep
  PROVE  BackfillTypeOK'
<1> USE CursorsAreInts DEF BackfillTypeOK, scriptVars, runVars, Leave, Saves
<1>1. CASE SkipComplete
      BY <1>1 DEF SkipComplete, AlreadyComplete, Outcomes, Steps
<1>2. CASE DeferUnstarted
      BY <1>2 DEF DeferUnstarted, Outcomes, Steps
<1>3. ASSUME NEW p \in Pairs, EnterUnavailable(p) PROVE BackfillTypeOK'
      BY <1>3 DEF EnterUnavailable, Takes, Outcomes, Steps, Statuses
<1>4. ASSUME NEW p \in Pairs, Enter(p) PROVE BackfillTypeOK'
  <2>1. Larger(ResumeAt(p), ListedAt[p]) \in Cursors
        BY DEF Larger, ResumeAt
  <2> QED BY <1>4, <2>1 DEF Enter, Takes, Steps, Statuses
<1>5. CASE StopHere
      BY <1>5 DEF StopHere, Outcomes, Steps, Statuses
<1>6. CASE FetchFails
      BY <1>6 DEF FetchFails, Outcomes, Steps, Statuses
<1>7. CASE FetchGets
  <2>1. cur \in Pairs
        BY <1>7 DEF FetchGets, RunInv, Busy
  <2>2. \A B \in Replies : Filtered(B) \subseteq Minutes
        BY <2>1, RepliesAreServed DEF Filtered
  <2> QED BY <1>7, <2>2 DEF FetchGets, Steps
<1>8. CASE FetchEmpty
      BY <1>8 DEF FetchEmpty, Outcomes, Steps, Statuses
<1>9. CASE Upsert
      BY <1>9 DEF Upsert, Steps
<1>10. CASE Advance
      BY <1>10 DEF Advance, Outcomes, Steps, Statuses
<1>11. CASE CompletePair
      BY <1>11 DEF CompletePair, Outcomes, Steps, Statuses
<1>12. CASE DbError
      BY <1>12 DEF DbError, Outcomes, Steps
<1>13. CASE Report
      BY <1>13 DEF Report, RunInv, Steps
<1>14. CASE Tell
  <2>1. cur \in Pairs
        BY <1>14 DEF Tell, RunInv
  <2>2. progress[cur].next \in Cursors
        BY <2>1
  <2> QED BY <1>14, <2>1, <2>2 DEF Tell, Steps
<1>15. CASE Close
      BY <1>15 DEF Close, Gone, Steps
<1>16. ASSUME NEW p \in Pairs, EnterFails(p) PROVE BackfillTypeOK'
      BY <1>16 DEF EnterFails, Takes, Outcomes, Steps
<1> QED BY <1>1, <1>2, <1>3, <1>4, <1>5, <1>6, <1>7, <1>8, <1>9, <1>10, <1>11,
           <1>12, <1>13, <1>14, <1>15, <1>16 DEF RunnerStep

LEMMA BackfillType ==
  ASSUME UniverseTypeOK, RunInv, BackfillNext, UNCHANGED gateVars
  PROVE  UniverseTypeOK'
<1> SUFFICES BackfillTypeOK'
    BY DEF UniverseTypeOK, gateVars
<1>0. BackfillTypeOK
      BY DEF UniverseTypeOK
<1>1. CASE RunnerStep
      BY <1>0, <1>1, RunnerType
<1> USE <1>0, CursorsAreInts DEF BackfillTypeOK, scriptVars, runVars
<1>2. CASE PreflightFails
      BY <1>2 DEF PreflightFails, Steps
<1>3. CASE StartChunk
  <2>1. record' \in [Pairs -> Outcomes]
        BY <1>3 DEF StartChunk, Outcomes
  <2> QED BY <1>3, <2>1 DEF StartChunk, Steps
<1>4. CASE Count
  <2>1. stall < StallLimit /\ StallLimit \in Nat /\ MaxChunks \in Nat
        BY <1>4, BackfillAssumption DEF Count, RunInv
  <2>2. stall' \in 0..StallLimit
        BY <1>4, <2>1 DEF Count
  <2>3. chunk' \in 1..MaxChunks
        BY <1>4, <2>1 DEF Count
  <2> QED BY <1>4, <2>2, <2>3 DEF Count, Steps
<1>5. CASE Deadline
      BY <1>5 DEF Deadline
<1>6. CASE Abort
      BY <1>6 DEF Abort, Gone, Steps
<1> QED BY <1>1, <1>2, <1>3, <1>4, <1>5, <1>6 DEF BackfillNext, ScriptStep

LEMMA GateType ==
  ASSUME UniverseTypeOK, GateInv, NEW g \in Gates, GateStep(g)
  PROVE  UniverseTypeOK'
<1>0. /\ gate \in [Gates -> GateStates] /\ gate[g] \in GateStates
      /\ NoGate \in GateStates
      BY DEF UniverseTypeOK, NoGate, GateStates, Places
<1>1. BackfillTypeOK'
  <2>1. CASE UNCHANGED backfillVars
        BY <2>1 DEF UniverseTypeOK, BackfillTypeOK, backfillVars, scriptVars, runVars
  <2>2. CASE GateStart(g)
        BY <2>2 DEF UniverseTypeOK, BackfillTypeOK, GateStart, scriptVars, runVars
  <2>3. CASE GateDies(g)
        BY <2>3 DEF UniverseTypeOK, BackfillTypeOK, GateDies, scriptVars, runVars
  <2> QED BY <2>1, <2>2, <2>3
          DEF GateStep, Judge, ReadLedger, Append, AppendRefused, Commit, Announce,
              Publish, Record, RecordOut, TellVerdict
<1> SUFFICES /\ seeded' \subseteq Pairs
             /\ ledger' \subseteq LakePairs
             /\ artifacts' \subseteq SUBSET LakePairs
             /\ current' \in [Pairs -> Verdicts \cup {"none"}]
             /\ gate' \in [Gates -> GateStates]
    BY <1>1 DEF UniverseTypeOK
<1> USE <1>0 DEF UniverseTypeOK, At, Goes
<1>2. CASE GateStart(g)
      BY <1>2 DEF GateStart, NoGate, GateStates, Places
<1>3. CASE Judge(g)
  <2>1. First(gate[g].todo) \in Pairs /\ Ruling(First(gate[g].todo)) \in Verdicts
    <3>1. First(gate[g].todo) \in gate[g].todo
          BY <1>3, FirstIsMember DEF Judge, GateInv, Fits
    <3> QED BY <3>1 DEF Ruling, Verdicts, GateStates
  <2> QED BY <1>3, <2>1 DEF Judge, GateStates, Places
<1>4. CASE ReadLedger(g)
  <2>1. First(gate[g].todo) \in Pairs
    <3>1. First(gate[g].todo) \in gate[g].todo
          BY <1>4, FirstIsMember DEF ReadLedger, GateInv, Fits
    <3> QED BY <3>1 DEF GateStates
  <2>2. RowsOf(First(gate[g].todo)) \ ledger \subseteq LakePairs
        BY <2>1 DEF RowsOf, LakePairs
  <2> QED BY <1>4, <2>1, <2>2 DEF ReadLedger, GateStates, Places
<1>5. CASE Append(g)
      BY <1>5 DEF Append, GateStates, Places
<1>6. CASE AppendRefused(g)
      BY <1>6 DEF AppendRefused
<1>7. CASE Commit(g)
      BY <1>7 DEF Commit, GateStates, Places
<1>8. CASE Announce(g)
      BY <1>8 DEF Announce, GateStates, Places
<1>9. CASE Publish(g)
  <2>1. SeedRows \subseteq LakePairs
        BY DEF SeedRows, LakePairs, Markets, UniverseTypeOK
  <2> QED BY <1>9, <2>1 DEF Publish, GateStates, Places
<1>10. CASE Record(g)
      BY <1>10 DEF Record, GateStates, Places, Verdicts
<1>11. CASE RecordOut(g)
  <2>1. First(gate[g].todo) \in Pairs
    <3>1. First(gate[g].todo) \in gate[g].todo
          BY <1>11, FirstIsMember DEF RecordOut, GateInv, Fits
    <3> QED BY <3>1 DEF GateStates
  <2>2. gate[g].ruled[First(gate[g].todo)] \in Verdicts \cup {"none"}
        BY <2>1 DEF GateStates
  <2> QED BY <1>11, <2>1, <2>2 DEF RecordOut, GateStates, Places
<1>12. CASE TellVerdict(g)
      BY <1>12 DEF TellVerdict, GateStates, Places
<1>13. CASE GateDies(g)
      BY <1>13 DEF GateDies
<1> QED BY <1>2, <1>3, <1>4, <1>5, <1>6, <1>7, <1>8, <1>9, <1>10, <1>11, <1>12, <1>13
        DEF GateStep

-------------------------------------------------------------------------------
(* The backfill                                                            *)

\* A complete pair stays as it is.
Frozen ==
  \A p \in Pairs : progress[p].status = "complete" =>
    progress'[p].status = "complete" /\ rows'[p] = rows[p]

LEMMA InitSafe == UniverseInit => PairsInv /\ RunInv
<1> SUFFICES ASSUME UniverseInit PROVE PairsInv /\ RunInv
    OBVIOUS
<1> USE BackfillAssumption DEF UniverseInit, BackfillInit
<1>1. PairsInv
      BY DEF PairsInv, CursorNeverPassesRows, Due, Minutes
<1>2. RunInv
      BY DEF RunInv, Busy, DoneStatuses
<1> QED BY <1>1, <1>2

\* A step that touches no bar, cursor, record or report.
LEMMA QuietPairs ==
  ASSUME PairsInv, UNCHANGED <<served, rows, progress, record, told, verdict>>
  PROVE  PairsInv' /\ Frozen
BY DEF PairsInv, CursorNeverPassesRows, Due, Frozen

\* The pair in hand gets another status and keeps its cursor.
LEMMA SaveStep ==
  ASSUME UniverseTypeOK, PairsInv, RunInv, Busy, NEW status \in Statuses,
         Saves(status), status \notin {"complete", "unavailable"},
         UNCHANGED <<served, rows, record, told, verdict>>
  PROVE  PairsInv' /\ Frozen
<1>1. /\ cur \in Pairs /\ progress[cur].status = "running"
      /\ record[cur] \notin DoneStatuses /\ Due(cur, since) \subseteq rows[cur]
      BY DEF RunInv
<1>2. progress' = [progress EXCEPT ![cur] = [status |-> status, next |-> since]]
      BY DEF Saves
<1>3. progress \in [Pairs -> [status : Statuses, next : Cursors]]
      BY DEF UniverseTypeOK, BackfillTypeOK
<1>4. CursorNeverPassesRows'
      BY <1>1, <1>2, <1>3 DEF CursorNeverPassesRows, PairsInv, Due
<1>5. Frozen
      BY <1>1, <1>2, <1>3 DEF Frozen
<1> QED BY <1>1, <1>2, <1>3, <1>4, <1>5 DEF PairsInv, Due, DoneStatuses

LEMMA FetchSafe ==
  ASSUME UniverseTypeOK, PairsInv, RunInv,
         StopHere \/ FetchFails \/ FetchGets \/ FetchEmpty \/ Upsert \/ Advance
           \/ CompletePair \/ DbError
  PROVE  PairsInv' /\ RunInv' /\ Frozen
<1>0. /\ Busy /\ cur \in Pairs /\ ~NothingToFetch(cur)
      /\ progress[cur].status = "running" /\ record[cur] \notin DoneStatuses
      /\ Due(cur, since) \subseteq rows[cur]
  <2>1. Busy
        BY DEF Busy, StopHere, FetchFails, FetchGets, FetchEmpty, Upsert, Advance,
               CompletePair, DbError
  <2> QED BY <2>1 DEF RunInv
<1> USE <1>0 DEF Leave, runVars, scriptVars
<1>1. CASE StopHere
  <2>1. PairsInv' /\ Frozen
        BY <1>1, SaveStep DEF StopHere, Statuses
  <2> QED BY <1>1, <2>1 DEF StopHere, RunInv, Busy, Outcomes
<1>2. CASE FetchFails
  <2>1. PairsInv' /\ Frozen
        BY <1>2, SaveStep DEF FetchFails, Statuses
  <2> QED BY <1>2, <2>1 DEF FetchFails, RunInv, Busy, Outcomes
<1>3. CASE FetchGets
  <2>1. PairsInv' /\ Frozen
        BY <1>3, QuietPairs DEF FetchGets
  <2>2. PICK B \in Replies : Filtered(B) # {} /\ batch' = Filtered(B)
        BY <1>3 DEF FetchGets
  <2>3. ASSUME NEW t \in served[cur], NEW u \in Filtered(B),
               ListedAt[cur] <= t, t < EndsAt[cur], since <= t, t <= u
        PROVE  t \in Filtered(B)
    <3>1. t \in B
          BY <2>3, RepliesHaveNoGaps DEF Filtered
    <3> QED BY <2>3, <3>1 DEF Filtered
  <2> QED BY <1>3, <2>1, <2>2, <2>3 DEF FetchGets, RunInv, Busy, Due
<1>4. CASE FetchEmpty
  <2>1. PairsInv' /\ Frozen
        BY <1>4, SaveStep DEF FetchEmpty, Statuses
  <2> QED BY <1>4, <2>1 DEF FetchEmpty, RunInv, Busy, Outcomes
<1>5. CASE Upsert
  <2>1. /\ rows \in [Pairs -> SUBSET Minutes]
        /\ rows' = [rows EXCEPT ![cur] = rows[cur] \cup batch]
        BY <1>5 DEF Upsert, UniverseTypeOK, BackfillTypeOK
  <2>2. /\ \A p \in Pairs : rows[p] \subseteq rows'[p]
        /\ batch \subseteq rows'[cur]
        BY <2>1
  <2>3. PairsInv'
        BY <1>5, <2>2 DEF Upsert, PairsInv, CursorNeverPassesRows, Due
  <2>4. Frozen
        BY <1>5, <2>1 DEF Upsert, Frozen
  <2>5. RunInv'
        BY <1>5, <2>2 DEF Upsert, RunInv, Busy, Due
  <2> QED BY <2>3, <2>4, <2>5
<1>6. CASE Advance
  <2>1. PICK last \in batch :
          /\ \A t \in batch : t <= last
          /\ IF last + 1 <= since
             THEN /\ Saves("stalled")
                  /\ Leave("failed")
                  /\ UNCHANGED since
             ELSE /\ since' = last + 1
                  /\ progress' = [progress EXCEPT ![cur] =
                                    [status |-> "running", next |-> last + 1]]
                  /\ batch' = {}
                  /\ pc' = "fetching"
                  /\ UNCHANGED outcome
        BY <1>6 DEF Advance
  <2>2. CASE last + 1 <= since
    <3>1. PairsInv' /\ Frozen
          BY <1>6, <2>1, <2>2, SaveStep DEF Advance, Statuses
    <3> QED BY <1>6, <2>1, <2>2, <3>1 DEF Advance, RunInv, Busy, Outcomes
  <2>3. CASE ~(last + 1 <= since)
    <3>1. /\ progress \in [Pairs -> [status : Statuses, next : Cursors]]
          /\ since \in Int /\ last \in Int /\ served[cur] \subseteq Int
          BY CursorsAreInts DEF UniverseTypeOK, BackfillTypeOK, Minutes
    <3>2. Due(cur, last + 1) \subseteq rows[cur]
      <4> SUFFICES ASSUME NEW t \in Due(cur, last + 1) PROVE t \in rows[cur]
          OBVIOUS
      <4>1. CASE t < since
            BY <4>1 DEF Due
      <4>2. CASE since <= t
        <5>1. t \in batch
              BY <1>6, <3>1, <4>2 DEF Due, RunInv, Advance
        <5> QED BY <1>6, <5>1 DEF RunInv, Advance
      <4> QED BY <3>1, <4>1, <4>2 DEF Due
    <3>3. CursorNeverPassesRows'
          BY <1>6, <2>1, <2>3, <3>1, <3>2
          DEF Advance, CursorNeverPassesRows, PairsInv, Due
    <3>4. Frozen
          BY <1>6, <2>1, <2>3, <3>1 DEF Advance, Frozen
    <3>5. PairsInv'
          BY <1>6, <2>1, <2>3, <3>1, <3>3 DEF Advance, PairsInv, Due, DoneStatuses
    <3>6. RunInv'
          BY <1>6, <2>1, <2>3, <3>1, <3>2 DEF Advance, RunInv, Busy, Due
    <3> QED BY <3>4, <3>5, <3>6
  <2> QED BY <2>2, <2>3
<1>7. CASE CompletePair
  <2>1. progress \in [Pairs -> [status : Statuses, next : Cursors]]
        BY DEF UniverseTypeOK, BackfillTypeOK
  <2>2. Due(cur, Len + 1) \subseteq rows[cur]
    <3>1. \A t \in Due(cur, Len + 1) : t \in Due(cur, since)
      <4>1. EndsAt[cur] \in 1..(Len + 1)
            BY BackfillAssumption
      <4>2. served[cur] \subseteq Int /\ since \in Int
            BY CursorsAreInts DEF UniverseTypeOK, BackfillTypeOK, Minutes
      <4>3. since >= EndsAt[cur]
            BY <1>7 DEF CompletePair
      <4> QED BY <4>1, <4>2, <4>3 DEF Due
    <3> QED BY <3>1
  <2>3. CursorNeverPassesRows'
        BY <1>7, <2>1, <2>2 DEF CompletePair, CursorNeverPassesRows, PairsInv, Due
  <2>4. Frozen
        BY <1>7, <2>1 DEF CompletePair, Frozen
  <2>5. PairsInv'
        BY <1>7, <2>1, <2>3 DEF CompletePair, PairsInv, Due, DoneStatuses
  <2>6. RunInv'
        BY <1>7, <2>1 DEF CompletePair, RunInv, Busy, Outcomes
  <2> QED BY <2>4, <2>5, <2>6
<1>8. CASE DbError
  <2>1. PairsInv' /\ Frozen
        BY <1>8, QuietPairs DEF DbError
  <2> QED BY <1>8, <2>1 DEF DbError, RunInv, Busy, Outcomes
<1> QED BY <1>1, <1>2, <1>3, <1>4, <1>5, <1>6, <1>7, <1>8

LEMMA ChooseSafe ==
  ASSUME UniverseTypeOK, PairsInv, RunInv,
         \/ SkipComplete \/ DeferUnstarted
         \/ \E p \in Pairs : EnterUnavailable(p) \/ Enter(p) \/ EnterFails(p)
  PROVE  PairsInv' /\ RunInv' /\ Frozen
<1>0. progress \in [Pairs -> [status : Statuses, next : Cursors]] /\ todo \subseteq Pairs
      BY DEF UniverseTypeOK, BackfillTypeOK
<1> USE <1>0 DEF Leave, runVars, scriptVars
<1>1. CASE SkipComplete
  <2>1. PairsInv' /\ Frozen
        BY <1>1, QuietPairs DEF SkipComplete
  <2> QED BY <1>1, <2>1 DEF SkipComplete, AlreadyComplete, RunInv, Busy, Outcomes
<1>2. CASE DeferUnstarted
  <2>1. PairsInv' /\ Frozen
        BY <1>2, QuietPairs DEF DeferUnstarted
  <2> QED BY <1>2, <2>1 DEF DeferUnstarted, RunInv, Busy, Outcomes
<1>3. ASSUME NEW p \in Pairs, EnterUnavailable(p)
      PROVE  PairsInv' /\ RunInv' /\ Frozen
  <2>1. p \in todo /\ progress[p].status # "complete" /\ record[p] \notin DoneStatuses
        BY <1>3 DEF EnterUnavailable, Takes, AlreadyComplete, RunInv
  <2>2. Frozen
        BY <1>3, <2>1 DEF EnterUnavailable, Takes, Frozen
  <2>3. PairsInv'
        BY <1>3, <2>1
        DEF EnterUnavailable, Takes, PairsInv, CursorNeverPassesRows, Due, DoneStatuses,
            NothingToFetch
  <2>4. RunInv'
        BY <1>3, <2>1 DEF EnterUnavailable, Takes, RunInv, Busy, Outcomes
  <2> QED BY <2>2, <2>3, <2>4
<1>4. ASSUME NEW p \in Pairs, Enter(p)
      PROVE  PairsInv' /\ RunInv' /\ Frozen
  <2>1. p \in todo /\ progress[p].status # "complete" /\ record[p] \notin DoneStatuses
        BY <1>4 DEF Enter, Takes, AlreadyComplete, RunInv
  <2>2. /\ since' = Larger(ResumeAt(p), ListedAt[p])
        /\ progress' = [progress EXCEPT ![p] = [status |-> "running", next |-> since']]
        BY <1>4 DEF Enter
  <2>3. Due(p, since') \subseteq rows[p]
    <3> SUFFICES ASSUME NEW t \in Due(p, since') PROVE t \in rows[p]
        OBVIOUS
    <3>1. t \in served[p] /\ ListedAt[p] <= t /\ t < EndsAt[p] /\ t < since'
          BY DEF Due
    <3>2. t \in Int /\ 1 <= t /\ ListedAt[p] \in Int /\ progress[p].next \in Int
      <4>1. served[p] \subseteq Minutes /\ progress[p].next \in Cursors
            BY DEF UniverseTypeOK, BackfillTypeOK
      <4>2. t \in Int /\ 1 <= t
            BY <3>1, <4>1 DEF Minutes
      <4> QED BY <4>1, <4>2, CursorsAreInts
    <3>3. /\ progress[p].status # "unavailable"
          /\ t < progress[p].next
          BY <2>2, <3>1, <3>2 DEF Larger, ResumeAt
    <3> QED BY <3>1, <3>3 DEF PairsInv, CursorNeverPassesRows, Due
  <2>4. Frozen
        BY <1>4, <2>1, <2>2 DEF Enter, Frozen
  <2>5. CursorNeverPassesRows'
        BY <1>4, <2>2, <2>3 DEF Enter, PairsInv, CursorNeverPassesRows, Due
  <2>6. PairsInv'
        BY <1>4, <2>1, <2>2, <2>5 DEF Enter, PairsInv, Due, DoneStatuses
  <2>7. RunInv'
        BY <1>4, <2>1, <2>2, <2>3 DEF Enter, Takes, RunInv, Busy, Due
  <2> QED BY <2>4, <2>6, <2>7
<1>5. ASSUME NEW p \in Pairs, EnterFails(p)
      PROVE  PairsInv' /\ RunInv' /\ Frozen
  <2>1. PairsInv' /\ Frozen
        BY <1>5, QuietPairs DEF EnterFails
  <2> QED BY <1>5, <2>1 DEF EnterFails, Takes, RunInv, Busy, Outcomes
<1> QED BY <1>1, <1>2, <1>3, <1>4, <1>5

\* A script that counts every pair as done is right.
LEMMA DoneIsAll ==
  ASSUME PairsInv, DoneCount = Cardinality(Pairs)
  PROVE  \A p \in Pairs : NothingToFetch(p) \/ Due(p, Len + 1) \subseteq rows[p]
<1>1. {p \in Pairs : record[p] \in DoneStatuses} = Pairs
      BY FS_Subset, BackfillAssumption DEF DoneCount
<1>2. SUFFICES ASSUME NEW p \in Pairs
               PROVE  NothingToFetch(p) \/ Due(p, Len + 1) \subseteq rows[p]
      OBVIOUS
<1>3. record[p] \in DoneStatuses
      BY <1>1
<1>4. CASE progress[p].status = "complete"
      BY <1>4 DEF PairsInv, CursorNeverPassesRows
<1>5. CASE progress[p].status = "unavailable"
      BY <1>5 DEF PairsInv
<1> QED BY <1>3, <1>4, <1>5 DEF PairsInv, DoneStatuses

LEMMA BackfillSafe ==
  ASSUME UniverseTypeOK, PairsInv, RunInv, BackfillNext
  PROVE  PairsInv' /\ RunInv' /\ Frozen
<1> USE DEF runVars, scriptVars, Gone
<1>1. CASE \/ SkipComplete \/ DeferUnstarted
           \/ \E p \in Pairs : EnterUnavailable(p) \/ Enter(p) \/ EnterFails(p)
      BY <1>1, ChooseSafe
<1>2. CASE StopHere \/ FetchFails \/ FetchGets \/ FetchEmpty \/ Upsert \/ Advance
             \/ CompletePair \/ DbError
      BY <1>2, FetchSafe
<1>3. CASE PreflightFails
  <2>1. verdict = "none" /\ verdict' # "done"
        BY <1>3 DEF PreflightFails, RunInv
  <2> QED BY <1>3, <2>1
          DEF PreflightFails, PairsInv, RunInv, CursorNeverPassesRows, Due, Frozen, Busy
<1>4. CASE StartChunk
  <2>1. \A p \in Pairs : record'[p] = record[p] \/ record'[p] = "pending"
        BY <1>4 DEF StartChunk
  <2>2. PairsInv' /\ Frozen
        BY <1>4, <2>1 DEF StartChunk, PairsInv, CursorNeverPassesRows, Due, Frozen
  <2>3. cur \notin todo'
        BY <1>4, BackfillAssumption DEF StartChunk, RunInv
  <2> QED BY <1>4, <2>1, <2>2, <2>3 DEF StartChunk, RunInv, Busy
<1>5. CASE Count
  <2>1. verdict' = "done" => DoneCount = Cardinality(Pairs)
        BY <1>5 DEF Count
  <2>2. verdict' = "done" =>
          \A p \in Pairs : NothingToFetch(p) \/ Due(p, Len + 1) \subseteq rows[p]
        BY <2>1, DoneIsAll
  <2>3. PairsInv' /\ Frozen
        BY <1>5, <2>2 DEF Count, PairsInv, CursorNeverPassesRows, Due, Frozen
  <2>4. RunInv'
    <3>1. stall \in Nat /\ StallLimit \in Nat /\ stall < StallLimit
          BY <1>5, BackfillAssumption DEF Count, RunInv, UniverseTypeOK, BackfillTypeOK
    <3>2. verdict' = "none" => stall' < StallLimit
          BY <1>5, <3>1 DEF Count
    <3>3. pc' \in {"between", "exited"} /\ (pc' # "exited" => verdict' = "none")
          BY <1>5 DEF Count
    <3> QED BY <1>5, <3>2, <3>3 DEF Count, RunInv, Busy
  <2> QED BY <2>3, <2>4
<1>6. CASE Deadline
  <2>1. PairsInv' /\ Frozen
        BY <1>6, QuietPairs DEF Deadline
  <2> QED BY <1>6, <2>1 DEF Deadline, RunInv, Busy, Due
<1>7. CASE Report
  <2>1. cur \in Pairs /\ record' = [record EXCEPT ![cur] = outcome]
        BY <1>7 DEF Report, RunInv
  <2>2. PairsInv'
        BY <1>7, <2>1
        DEF Report, RunInv, PairsInv, CursorNeverPassesRows, Due, UniverseTypeOK,
            BackfillTypeOK
  <2>3. Frozen
        BY <1>7 DEF Report, Frozen
  <2>4. RunInv'
        BY <1>7, <2>1 DEF Report, RunInv, Busy, UniverseTypeOK, BackfillTypeOK
  <2> QED BY <2>2, <2>3, <2>4
<1>8. CASE Tell
  <2>1. /\ cur \in Pairs
        /\ told' \subseteq told \cup {<<cur, progress[cur].next>>}
        BY <1>8 DEF Tell, RunInv
  <2>2. ~NothingToFetch(cur) => Due(cur, progress[cur].next) \subseteq rows[cur]
        BY <2>1 DEF PairsInv, CursorNeverPassesRows
  <2>3. PairsInv'
        BY <1>8, <2>1, <2>2 DEF Tell, PairsInv, CursorNeverPassesRows, Due
  <2>4. Frozen
        BY <1>8 DEF Tell, Frozen
  <2>5. NoPair \notin todo
        BY BackfillAssumption DEF UniverseTypeOK, BackfillTypeOK
  <2>6. RunInv'
        BY <1>8, <2>5 DEF Tell, RunInv, Busy
  <2> QED BY <2>3, <2>4, <2>6
<1>9. CASE Close
  <2>1. PairsInv' /\ Frozen
        BY <1>9, QuietPairs DEF Close
  <2> QED BY <1>9, <2>1 DEF Close, RunInv, Busy
<1>10. CASE Abort
  <2>1. PairsInv' /\ Frozen
        BY <1>10, QuietPairs DEF Abort
  <2>2. stall < StallLimit /\ verdict = "none"
        BY <1>10 DEF Abort, Running, RunInv
  <2> QED BY <1>10, <2>1, <2>2 DEF Abort, RunInv, Busy
<1> QED BY <1>1, <1>2, <1>3, <1>4, <1>5, <1>6, <1>7, <1>8, <1>9, <1>10
        DEF BackfillNext, ScriptStep, RunnerStep

-------------------------------------------------------------------------------
(* The gates                                                               *)

LEMMA InitGates == UniverseInit => GateInv /\ NewsInv /\ ExportedPairsAreBacked
<1> SUFFICES ASSUME UniverseInit PROVE GateInv /\ NewsInv /\ ExportedPairsAreBacked
    OBVIOUS
<1>1. GateInv
      BY DEF UniverseInit, GateInv, NoGate, Passing, Fits
<1> QED BY <1>1 DEF UniverseInit, NewsInv, ExportedPairsAreBacked

\* Complete pairs do not move: what the gates have found, they find again.
LEMMA GatesUndisturbed ==
  ASSUME GateInv, NewsInv, ExportedPairsAreBacked, Frozen,
         UNCHANGED <<ledger, artifacts, current, news, gate>>
  PROVE  GateInv' /\ NewsInv' /\ ExportedPairsAreBacked'
<1>1. \A p \in Pairs : Sound(p) => Sound(p)'
      BY DEF Sound, Frozen, TooManyMissing, Have, Expected
<1>2. GateInv'
      BY <1>1 DEF GateInv, Fits, RowsOf
<1>3. NewsInv'
      BY DEF NewsInv, RowsOf, Frozen
<1>4. ExportedPairsAreBacked'
  <2>1. \A p \in Pairs : current[p] = "ACTIVE" => Sound(p)
        BY DEF ExportedPairsAreBacked, Sound
  <2>2. \A p \in Pairs : current'[p] = "ACTIVE" => Sound(p)'
        BY <1>1, <2>1
  <2> QED BY <2>2 DEF ExportedPairsAreBacked, Sound, RowsOf
<1> QED BY <1>2, <1>3, <1>4

\* A gate that gives up, or has nothing in hand.
LEMMA GateLeaves ==
  ASSUME UniverseTypeOK, GateInv, NewsInv, ExportedPairsAreBacked, NEW g \in Gates,
         gate' = [gate EXCEPT ![g] = NoGate],
         UNCHANGED <<rows, progress, ledger, artifacts, current, news>>
  PROVE  GateInv' /\ NewsInv' /\ ExportedPairsAreBacked'
<1>1. \A p \in Pairs : Sound(p)' <=> Sound(p)
      BY DEF Sound, TooManyMissing, Have, Expected
<1>2. \A h \in Gates : gate'[h] = IF h = g THEN NoGate ELSE gate[h]
      BY DEF UniverseTypeOK
<1>3. GateInv'
      BY <1>1, <1>2 DEF GateInv, Fits, RowsOf, NoGate, Passing
<1>4. NewsInv'
      BY DEF NewsInv, RowsOf
<1>5. ExportedPairsAreBacked'
      BY DEF ExportedPairsAreBacked, RowsOf, TooManyMissing, Have, Expected
<1> QED BY <1>3, <1>4, <1>5

\* A gate goes on; ledger and artifacts only grow.
LEMMA GateGoesOn ==
  ASSUME UniverseTypeOK, GateInv, NEW g \in Gates, NEW x \in GateStates,
         gate' = [gate EXCEPT ![g] = x],
         ledger \subseteq ledger', artifacts \subseteq artifacts',
         UNCHANGED <<rows, progress>>,
         \A p \in Pairs : x.ruled[p] = "ACTIVE" => Sound(p),
         Fits(x, ledger', artifacts')
  PROVE  GateInv'
<1>1. \A p \in Pairs : Sound(p)' <=> Sound(p)
      BY DEF Sound, TooManyMissing, Have, Expected
<1>2. \A h \in Gates : gate'[h] = IF h = g THEN x ELSE gate[h]
      BY DEF UniverseTypeOK
<1>3. ASSUME NEW h \in Gates
      PROVE  /\ \A p \in Pairs : gate'[h].ruled[p] = "ACTIVE" => Sound(p)'
             /\ Fits(gate'[h], ledger', artifacts')
  <2>1. CASE h = g
        BY <1>1, <1>2, <2>1
  <2>2. CASE h # g
    <3>1. Fits(gate[h], ledger, artifacts) => Fits(gate[h], ledger', artifacts')
          BY DEF Fits
    <3> QED BY <1>1, <1>2, <2>2, <3>1 DEF GateInv
  <2> QED BY <2>1, <2>2
<1> QED BY <1>3 DEF GateInv, Fits, RowsOf

LEMMA RulingIsSound ==
  ASSUME NEW p \in Pairs, Ruling(p) = "ACTIVE"
  PROVE  Sound(p)
BY DEF Ruling, Sound

\* What is announced and exported stays backed while the ledger grows.
LEMMA NewsKept ==
  ASSUME NewsInv, ledger \subseteq ledger', UNCHANGED <<progress, news>>
  PROVE  NewsInv'
BY DEF NewsInv, RowsOf

LEMMA ExportsKept ==
  ASSUME ExportedPairsAreBacked, ledger \subseteq ledger', artifacts \subseteq artifacts',
         UNCHANGED <<rows, progress, current>>
  PROVE  ExportedPairsAreBacked'
BY DEF ExportedPairsAreBacked, RowsOf, TooManyMissing, Have, Expected

LEMMA GateSafe ==
  ASSUME UniverseTypeOK, GateInv, NewsInv, ExportedPairsAreBacked,
         NEW g \in Gates, GateStep(g)
  PROVE  GateInv' /\ NewsInv' /\ ExportedPairsAreBacked'
<1>0. /\ gate \in [Gates -> GateStates] /\ gate[g] \in GateStates
      /\ gate'[g] \in GateStates
  <2>1. gate' \in [Gates -> GateStates]
        BY GateType DEF UniverseTypeOK
  <2> QED BY <2>1 DEF UniverseTypeOK
<1> DEFINE x == gate[g]
<1>g. /\ \A p \in Pairs : x.ruled[p] = "ACTIVE" => Sound(p)
      /\ Fits(x, ledger, artifacts)
      BY DEF GateInv
<1> USE <1>0, <1>g DEF At, Goes, Passing, backfillVars, scriptVars, runVars
<1>1. CASE GateStart(g)
  <2> DEFINE y == [NoGate EXCEPT !.pc = "judging", !.todo = Pairs]
  <2>1. gate' = [gate EXCEPT ![g] = y] /\ gate'[g] = y
        BY <1>1 DEF GateStart
  <2>2. /\ y.pc = "judging" /\ y.todo = Pairs /\ y \in GateStates
        /\ \A p \in Pairs : y.ruled[p] = "none"
        BY <2>1 DEF NoGate
  <2> HIDE DEF y
  <2>f. Fits(y, ledger', artifacts')
        BY <1>1, <2>1, <2>2, BackfillAssumption DEF GateStart, Fits
  <2>3. GateInv'
        BY <1>1, <2>1, <2>2, <2>f, GateGoesOn DEF GateStart
  <2> QED BY <1>1, <2>3, NewsKept, ExportsKept DEF GateStart
<1>2. CASE Judge(g)
  <2> DEFINE p == First(x.todo)
             left == x.todo \ {p}
             y == [x EXCEPT !.ruled[p] = Ruling(p),
                            !.todo = IF left = {} THEN Pairs ELSE left,
                            !.pc = IF left = {} THEN "admitting" ELSE "judging"]
  <2>1. gate' = [gate EXCEPT ![g] = y] /\ gate'[g] = y
        BY <1>2 DEF Judge
  <2>2. p \in Pairs
    <3>1. p \in x.todo
          BY <1>2, FirstIsMember DEF Judge, Fits
    <3> QED BY <3>1 DEF GateStates
  <2>3. /\ y.pc \in {"judging", "admitting"} /\ y.todo # {}
        /\ \A r \in Pairs : y.ruled[r] = IF r = p THEN Ruling(p) ELSE x.ruled[r]
        BY <2>2, BackfillAssumption DEF GateStates
  <2>4. \A r \in Pairs : y.ruled[r] = "ACTIVE" => Sound(r)
        BY <2>2, <2>3, RulingIsSound
  <2>5. y \in GateStates
        BY <2>1
  <2> HIDE DEF y, p
  <2>f. Fits(y, ledger', artifacts')
        BY <1>2, <2>1, <2>3, <2>4, <2>5 DEF Judge, Fits
  <2>6. GateInv'
        BY <1>2, <2>1, <2>3, <2>4, <2>5, <2>f, GateGoesOn DEF Judge
  <2> QED BY <1>2, <2>6, NewsKept, ExportsKept DEF Judge
<1>3. CASE ReadLedger(g)
  <2> DEFINE p == First(x.todo)
             pend == RowsOf(p) \ ledger
             y == [x EXCEPT !.cur = p, !.todo = x.todo \ {p}, !.pend = pend,
                            !.pc = IF pend = {} THEN "publishing" ELSE "appending"]
  <2>1. gate' = [gate EXCEPT ![g] = y] /\ gate'[g] = y /\ x.ruled[p] = "ACTIVE"
        BY <1>3 DEF ReadLedger
  <2>2. p \in Pairs
    <3>1. p \in x.todo
          BY <1>3, FirstIsMember DEF ReadLedger, Fits
    <3> QED BY <3>1 DEF GateStates
  <2>3. /\ y.cur = p /\ y.ruled = x.ruled /\ y.pend = pend
        /\ y.pc = IF pend = {} THEN "publishing" ELSE "appending"
        BY DEF GateStates
  <2>4. y \in GateStates
        BY <2>1
  <2>5. RowsOf(p) \subseteq ledger \cup pend /\ (pend = {} => RowsOf(p) \subseteq ledger)
        OBVIOUS
  <2> HIDE DEF y, p, pend
  <2>s. \A r \in Pairs : y.ruled[r] = "ACTIVE" => Sound(r)
        BY <2>3
  <2>f. Fits(y, ledger', artifacts')
        BY <1>3, <2>1, <2>2, <2>3, <2>4, <2>5 DEF ReadLedger, Fits
  <2>6. GateInv'
        BY <1>3, <2>1, <2>2, <2>3, <2>4, <2>5, <2>s, <2>f, GateGoesOn DEF ReadLedger
  <2> QED BY <1>3, <2>6, NewsKept, ExportsKept DEF ReadLedger
<1>4. CASE Append(g)
  <2> DEFINE y == [x EXCEPT !.pc = "committing"]
  <2>1. gate' = [gate EXCEPT ![g] = y] /\ gate'[g] = y /\ x.pc = "appending"
        BY <1>4 DEF Append
  <2>2. /\ y.cur = x.cur /\ y.ruled = x.ruled /\ y.pend = x.pend
        /\ y.pc = "committing" /\ y \in GateStates
        BY <2>1 DEF GateStates
  <2> HIDE DEF y
  <2>s. \A p \in Pairs : y.ruled[p] = "ACTIVE" => Sound(p)
        BY <2>2
  <2>f. Fits(y, ledger', artifacts')
        BY <1>4, <2>1, <2>2 DEF Append, Fits
  <2>3. GateInv'
        BY <1>4, <2>1, <2>2, <2>s, <2>f, GateGoesOn DEF Append
  <2> QED BY <1>4, <2>3, NewsKept, ExportsKept DEF Append
<1>5. CASE AppendRefused(g)
      BY <1>5, GateLeaves DEF AppendRefused
<1>6. CASE Commit(g)
  <2> DEFINE y == [x EXCEPT !.pc = "announcing"]
  <2>1. /\ gate' = [gate EXCEPT ![g] = y] /\ gate'[g] = y /\ x.pc = "committing"
        /\ ledger' = ledger \cup x.pend
        BY <1>6 DEF Commit
  <2>2. /\ y.cur = x.cur /\ y.ruled = x.ruled /\ y.pend = x.pend
        /\ y.pc = "announcing" /\ y \in GateStates
        BY <2>1 DEF GateStates
  <2> HIDE DEF y
  <2>s. \A p \in Pairs : y.ruled[p] = "ACTIVE" => Sound(p)
        BY <2>2
  <2>f. Fits(y, ledger', artifacts')
        BY <1>6, <2>1, <2>2 DEF Commit, Fits
  <2>3. GateInv'
        BY <1>6, <2>1, <2>2, <2>s, <2>f, GateGoesOn DEF Commit
  <2> QED BY <1>6, <2>3, NewsKept, ExportsKept DEF Commit
<1>7. CASE Announce(g)
  <2> DEFINE y == [x EXCEPT !.pc = "publishing"]
  <2>1. /\ gate' = [gate EXCEPT ![g] = y] /\ gate'[g] = y /\ x.pc = "announcing"
        /\ news' = news \cup {<<"tradability", row>> : row \in x.pend}
        BY <1>7 DEF Announce
  <2>2. /\ y.cur = x.cur /\ y.ruled = x.ruled /\ y.pend = x.pend
        /\ y.pc = "publishing" /\ y \in GateStates
        BY <2>1 DEF GateStates
  <2> HIDE DEF y
  <2>s. \A p \in Pairs : y.ruled[p] = "ACTIVE" => Sound(p)
        BY <2>2
  <2>f. Fits(y, ledger', artifacts')
        BY <1>7, <2>1, <2>2 DEF Announce, Fits
  <2>3. GateInv'
        BY <1>7, <2>1, <2>2, <2>s, <2>f, GateGoesOn DEF Announce
  <2>4. NewsInv'
        BY <1>7, <2>1 DEF Announce, NewsInv, RowsOf, Fits
  <2> QED BY <1>7, <2>3, <2>4, ExportsKept DEF Announce
<1>8. CASE Publish(g)
  <2> DEFINE y == [x EXCEPT !.pc = "recording"]
  <2>1. /\ gate' = [gate EXCEPT ![g] = y] /\ gate'[g] = y /\ x.pc = "publishing"
        /\ artifacts' = artifacts \cup {ledger \cup SeedRows}
        BY <1>8 DEF Publish
  <2>2. /\ y.cur = x.cur /\ y.ruled = x.ruled /\ y.pend = x.pend
        /\ y.pc = "recording" /\ y \in GateStates
        BY <2>1 DEF GateStates
  <2> HIDE DEF y
  <2>3. \E a \in artifacts' : RowsOf(x.cur) \subseteq a
        BY <2>1 DEF Fits
  <2>s. \A p \in Pairs : y.ruled[p] = "ACTIVE" => Sound(p)
        BY <2>2
  <2>f. Fits(y, ledger', artifacts')
        BY <1>8, <2>1, <2>2, <2>3 DEF Publish, Fits
  <2>4. GateInv'
        BY <1>8, <2>1, <2>2, <2>3, <2>s, <2>f, GateGoesOn DEF Publish
  <2> QED BY <1>8, <2>1, <2>4, NewsKept, ExportsKept DEF Publish
<1>9. CASE Record(g)
  <2> DEFINE y == [x EXCEPT !.pc = "telling"]
  <2>1. /\ gate' = [gate EXCEPT ![g] = y] /\ gate'[g] = y /\ x.pc = "recording"
        /\ current' = [current EXCEPT ![x.cur] = "ACTIVE"]
        BY <1>9 DEF Record
  <2>2. /\ y.cur = x.cur /\ y.ruled = x.ruled /\ y.pend = x.pend
        /\ y.pc = "telling" /\ y \in GateStates
        BY <2>1 DEF GateStates
  <2> HIDE DEF y
  <2>s. \A p \in Pairs : y.ruled[p] = "ACTIVE" => Sound(p)
        BY <2>2
  <2>f. Fits(y, ledger', artifacts')
        BY <1>9, <2>1, <2>2 DEF Record, Fits
  <2>3. GateInv'
        BY <1>9, <2>1, <2>2, <2>s, <2>f, GateGoesOn DEF Record
  <2>4. Sound(x.cur) /\ RowsOf(x.cur) \subseteq ledger
        /\ \E a \in artifacts : RowsOf(x.cur) \subseteq a
        BY <2>1 DEF Fits
  <2>5. ExportedPairsAreBacked'
    <3>1. ASSUME NEW p \in Pairs, current'[p] = "ACTIVE"
          PROVE  /\ RowsOf(p) \subseteq ledger
                 /\ \E a \in artifacts : RowsOf(p) \subseteq a
                 /\ Sound(p)
      <4>1. CASE p = x.cur
            BY <2>4, <4>1
      <4>2. CASE p # x.cur
            BY <2>1, <3>1, <4>2
            DEF UniverseTypeOK, ExportedPairsAreBacked, Sound
      <4> QED BY <4>1, <4>2
    <3> QED BY <1>9, <3>1
            DEF Record, ExportedPairsAreBacked, Sound, RowsOf, TooManyMissing, Have,
                Expected
  <2> QED BY <1>9, <2>3, <2>5, NewsKept DEF Record
<1>10. CASE RecordOut(g)
  <2> DEFINE p == First(x.todo)
             y == [x EXCEPT !.cur = p, !.todo = x.todo \ {p}, !.pc = "telling"]
  <2>1. /\ gate' = [gate EXCEPT ![g] = y] /\ gate'[g] = y /\ x.ruled[p] # "ACTIVE"
        /\ current' = [current EXCEPT ![p] = x.ruled[p]]
        BY <1>10 DEF RecordOut
  <2>2. p \in Pairs
    <3>1. p \in x.todo
          BY <1>10, FirstIsMember DEF RecordOut, Fits
    <3> QED BY <3>1 DEF GateStates
  <2>3. /\ y.cur = p /\ y.ruled = x.ruled /\ y.pc = "telling"
        BY DEF GateStates
  <2>4. y \in GateStates
        BY <2>1
  <2> HIDE DEF y, p
  <2>s. \A r \in Pairs : y.ruled[r] = "ACTIVE" => Sound(r)
        BY <2>3
  <2>f. Fits(y, ledger', artifacts')
        BY <1>10, <2>1, <2>2, <2>3, <2>4 DEF RecordOut, Fits
  <2>5. GateInv'
        BY <1>10, <2>1, <2>2, <2>3, <2>4, <2>s, <2>f, GateGoesOn DEF RecordOut
  <2>6. \A r \in Pairs : current'[r] = "ACTIVE" => current[r] = "ACTIVE"
        BY <2>1, <2>2 DEF UniverseTypeOK
  <2>7. ExportedPairsAreBacked'
        BY <1>10, <2>6
        DEF RecordOut, ExportedPairsAreBacked, RowsOf, TooManyMissing, Have, Expected
  <2> QED BY <1>10, <2>5, <2>7, NewsKept DEF RecordOut
<1>11. CASE TellVerdict(g)
  <2>1. x.pc = "telling" /\ x.cur \in Pairs
        /\ news' = news \cup {<<"admission", <<x.cur, x.ruled[x.cur]>>>>}
        BY <1>11 DEF TellVerdict, Fits
  <2>2. x.ruled[x.cur] = "ACTIVE" =>
          RowsOf(x.cur) \subseteq ledger /\ progress[x.cur].status = "complete"
        BY <2>1 DEF Sound, Fits
  <2>3. NewsInv'
        BY <1>11, <2>1, <2>2 DEF TellVerdict, NewsInv, RowsOf
  <2>4. GateInv'
    <3>1. CASE x.todo = {}
      <4>1. \A h \in Gates : gate'[h] = IF h = g THEN NoGate ELSE gate[h]
            BY <1>11, <3>1 DEF TellVerdict
      <4>2. \A p \in Pairs : Sound(p)' <=> Sound(p)
            BY <1>11 DEF TellVerdict, Sound, TooManyMissing, Have, Expected
      <4> QED BY <1>11, <4>1, <4>2 DEF TellVerdict, GateInv, Fits, RowsOf, NoGate
    <3>2. CASE x.todo # {}
      <4> DEFINE y == [x EXCEPT !.pc = "admitting", !.cur = NoPair, !.pend = {}]
      <4>1. gate' = [gate EXCEPT ![g] = y] /\ gate'[g] = y
            BY <1>11, <3>2 DEF TellVerdict
      <4>2. /\ y.ruled = x.ruled /\ y.todo = x.todo
            /\ y.pc = "admitting" /\ y \in GateStates
            BY <4>1 DEF GateStates
      <4> HIDE DEF y
      <4>3. Fits(y, ledger', artifacts')
            BY <1>11, <3>2, <4>2 DEF TellVerdict, Fits
      <4> QED BY <1>11, <4>1, <4>2, <4>3, GateGoesOn DEF TellVerdict
    <3> QED BY <3>1, <3>2
  <2> QED BY <1>11, <2>3, <2>4, ExportsKept DEF TellVerdict
<1>12. CASE GateDies(g)
      BY <1>12, GateLeaves DEF GateDies
<1> QED BY <1>1, <1>2, <1>3, <1>4, <1>5, <1>6, <1>7, <1>8, <1>9, <1>10, <1>11, <1>12
        DEF GateStep

-------------------------------------------------------------------------------
(* Together                                                                *)

LEMMA InitInv == UniverseInit => UniverseInv
BY InitType, InitSafe, InitGates DEF UniverseInv

LEMMA StepInv == UniverseInv /\ [UniverseNext]_vars => UniverseInv'
<1> SUFFICES ASSUME UniverseInv, [UniverseNext]_vars PROVE UniverseInv'
    OBVIOUS
<1> USE DEF UniverseInv
<1>1. CASE BackfillNext /\ UNCHANGED gateVars
  <2>1. UniverseTypeOK'
        BY <1>1, BackfillType
  <2>2. PairsInv' /\ RunInv' /\ Frozen
        BY <1>1, BackfillSafe
  <2>3. GateInv' /\ NewsInv' /\ ExportedPairsAreBacked'
        BY <1>1, <2>2, GatesUndisturbed DEF gateVars
  <2> QED BY <2>1, <2>2, <2>3
<1>2. ASSUME NEW g \in Gates, GateStep(g) PROVE UniverseInv'
  <2>1. UniverseTypeOK'
        BY <1>2, GateType
  <2>2. GateInv' /\ NewsInv' /\ ExportedPairsAreBacked'
        BY <1>2, GateSafe
  <2>3. UNCHANGED <<served, rows, progress, record, told, pc, scriptVars, runVars>>
        BY <1>2
        DEF GateStep, GateStart, Judge, ReadLedger, Append, AppendRefused, Commit,
            Announce, Publish, Record, RecordOut, TellVerdict, GateDies, backfillVars,
            scriptVars, runVars
  <2>4. PairsInv'
        BY <2>3, QuietPairs DEF scriptVars
  <2>5. RunInv'
        BY <2>3 DEF RunInv, Busy, Due, scriptVars, runVars
  <2> QED BY <2>1, <2>2, <2>4, <2>5
<1>3. CASE UNCHANGED vars
  <2>1. UniverseTypeOK'
        BY <1>3
        DEF vars, gateVars, backfillVars, scriptVars, runVars, UniverseTypeOK,
            BackfillTypeOK
  <2>2. PairsInv' /\ Frozen
        BY <1>3, QuietPairs DEF vars, backfillVars, scriptVars
  <2>3. RunInv'
        BY <1>3 DEF vars, backfillVars, scriptVars, runVars, RunInv, Busy, Due
  <2>4. GateInv' /\ NewsInv' /\ ExportedPairsAreBacked'
        BY <1>3, <2>2, GatesUndisturbed DEF vars, gateVars
  <2> QED BY <2>1, <2>2, <2>3, <2>4
<1> QED BY <1>1, <1>2, <1>3 DEF UniverseNext

\* The inductive invariant: bars below every cursor, the batch in hand, and what
\* each gate has found and done, for any number of pairs and gates
\* (historical_backfill.py:202-223, admission.py:65-129).
THEOREM UniverseInductive == UniverseSpec => []UniverseInv
BY InitInv, StepInv, PTL DEF UniverseSpec

\* Script, runner, database and gates keep to their types
\* (f008-backfill-chunks.sh:80, backfill_progress.py:66).
THEOREM UniverseTypeCorrect == UniverseSpec => []UniverseTypeOK
BY UniverseInductive, PTL DEF UniverseInv

LEMMA InvHasCursors == UniverseInv => CursorNeverPassesRows
BY DEF UniverseInv, PairsInv

\* No bar below a saved cursor is missing from the table, whatever fails or is
\* killed between the two commits (historical_backfill.py:202-223).
THEOREM CursorNeverPassesRowsHolds == UniverseSpec => []CursorNeverPassesRows
BY UniverseInductive, InvHasCursors, PTL

LEMMA InvHasReports == UniverseInv => ReportsAreTrue
BY DEF UniverseInv, PairsInv, NewsInv, ReportsAreTrue

\* Run record, progress events, the script's verdict and member events say what is
\* so (backfill_runner.py:198-202, admission.py:106-117).
THEOREM ReportsAreTrueHolds == UniverseSpec => []ReportsAreTrue
BY UniverseInductive, InvHasReports, PTL

LEMMA InvHasExports == UniverseInv => ExportedPairsAreBacked
BY DEF UniverseInv

\* No pair is exported whose bars, ledger rows or artifact are missing, for any
\* number of gates and of pairs (admission.py:65-129, verdicts.py:205-215).
THEOREM ExportedPairsAreBackedHolds == UniverseSpec => []ExportedPairsAreBacked
BY UniverseInductive, InvHasExports, PTL
-------------------------------------------------------------------------------
(* What is committed is kept                                               *)

\* The cursor in hand is the saved one, and a pair without one begins at 1.
CursorInv ==
  /\ Busy => progress[cur].next = since
  /\ \A p \in Pairs : progress[p].status = "none" => progress[p].next = 1

Settled == {"complete", "unavailable"}

\* What a step of the backfill does not take back.
PairsKept ==
  /\ \A p \in Pairs :
       /\ rows[p] \subseteq rows'[p]
       /\ progress[p].next <= progress'[p].next
       /\ progress[p].status \in Settled => progress'[p].status = progress[p].status
  /\ told \subseteq told'

LEMMA SavedCursorsAreInts ==
  ASSUME UniverseTypeOK, NEW p \in Pairs
  PROVE  /\ progress[p].next \in Int /\ 1 <= progress[p].next
         /\ progress[p].next <= Len + 1
BY BackfillAssumption DEF UniverseTypeOK, BackfillTypeOK, Cursors

\* A step that saves nothing.
LEMMA QuietCursors ==
  ASSUME UniverseTypeOK, CursorInv, UNCHANGED <<rows, progress, told>>,
         pc' \in {"fetching", "got", "landed"} => Busy /\ UNCHANGED <<cur, since>>
  PROVE  CursorInv' /\ PairsKept
BY SavedCursorsAreInts DEF CursorInv, PairsKept, Busy

\* The pair in hand leaves with its cursor.
LEMMA SaveKeeps ==
  ASSUME UniverseInv, CursorInv, Busy, NEW status \in Statuses, status # "none",
         Saves(status), UNCHANGED <<rows, told>>, pc' = "reporting"
  PROVE  CursorInv' /\ PairsKept
<1>1. cur \in Pairs /\ progress[cur].status = "running"
      BY DEF UniverseInv, RunInv
<1>2. progress' = [progress EXCEPT ![cur] = [status |-> status, next |-> since]]
      BY DEF Saves
<1>3. /\ progress \in [Pairs -> [status : Statuses, next : Cursors]]
      /\ \A p \in Pairs : progress[p].next \in Int
      BY SavedCursorsAreInts DEF UniverseInv, UniverseTypeOK, BackfillTypeOK
<1> QED BY <1>1, <1>2, <1>3 DEF CursorInv, PairsKept, Settled, Busy

LEMMA FetchKeeps ==
  ASSUME UniverseInv, CursorInv,
         StopHere \/ FetchFails \/ FetchGets \/ FetchEmpty \/ Upsert \/ Advance
           \/ CompletePair \/ DbError
  PROVE  CursorInv' /\ PairsKept
<1>0. Busy /\ cur \in Pairs /\ progress[cur].status = "running" /\ UniverseTypeOK
  <2>1. Busy
        BY DEF Busy, StopHere, FetchFails, FetchGets, FetchEmpty, Upsert, Advance,
               CompletePair, DbError
  <2> QED BY <2>1 DEF UniverseInv, RunInv
<1>a. /\ progress \in [Pairs -> [status : Statuses, next : Cursors]]
      /\ \A p \in Pairs : progress[p].next \in Int /\ progress[p].next <= Len + 1
      BY <1>0, SavedCursorsAreInts DEF UniverseTypeOK, BackfillTypeOK
<1> USE <1>0 DEF Leave, runVars
<1>1. CASE StopHere
      BY <1>1, SaveKeeps DEF StopHere, Statuses
<1>2. CASE FetchFails
      BY <1>2, SaveKeeps DEF FetchFails, Statuses
<1>3. CASE FetchGets
      BY <1>3, QuietCursors DEF FetchGets
<1>4. CASE FetchEmpty
      BY <1>4, SaveKeeps DEF FetchEmpty, Statuses
<1>5. CASE Upsert
  <2>1. \A p \in Pairs : rows[p] \subseteq rows'[p]
        BY <1>5 DEF Upsert, UniverseTypeOK, BackfillTypeOK
  <2> QED BY <1>5, <1>a, <2>1 DEF Upsert, CursorInv, PairsKept, Busy
<1>6. CASE Advance
  <2>1. PICK last \in batch :
          IF last + 1 <= since
          THEN Saves("stalled") /\ Leave("failed")
          ELSE /\ since' = last + 1
               /\ progress' = [progress EXCEPT ![cur] =
                                 [status |-> "running", next |-> last + 1]]
               /\ pc' = "fetching"
        BY <1>6 DEF Advance
  <2>2. CASE last + 1 <= since
        BY <1>6, <2>1, <2>2, SaveKeeps DEF Advance, Statuses
  <2>3. CASE ~(last + 1 <= since)
    <3>1. last \in Int /\ since \in Int
          BY CursorsAreInts DEF UniverseTypeOK, BackfillTypeOK, Minutes
    <3>2. progress[cur].next <= last + 1
          BY <2>3, <3>1 DEF CursorInv
    <3> QED BY <1>6, <1>a, <2>1, <2>3, <3>2
            DEF Advance, CursorInv, PairsKept, Settled, Busy
  <2> QED BY <2>2, <2>3
<1>7. CASE CompletePair
      BY <1>7, <1>a DEF CompletePair, CursorInv, PairsKept, Settled, Busy
<1>8. CASE DbError
      BY <1>8, QuietCursors DEF DbError
<1> QED BY <1>1, <1>2, <1>3, <1>4, <1>5, <1>6, <1>7, <1>8

LEMMA EnterKeeps ==
  ASSUME UniverseInv, CursorInv, NEW p \in Pairs, EnterUnavailable(p) \/ Enter(p)
  PROVE  CursorInv' /\ PairsKept
<1>0. /\ progress \in [Pairs -> [status : Statuses, next : Cursors]]
      /\ \A x \in Pairs : progress[x].next \in Int /\ progress[x].next <= Len + 1
      BY SavedCursorsAreInts DEF UniverseInv, UniverseTypeOK, BackfillTypeOK
<1>1. progress[p].status # "complete"
      BY DEF EnterUnavailable, Enter, Takes, AlreadyComplete
<1> USE <1>0, <1>1
<1>2. CASE EnterUnavailable(p)
      BY <1>2 DEF EnterUnavailable, Leave, CursorInv, PairsKept, Settled, Busy
<1>3. CASE Enter(p)
  <2>1. progress[p].status # "unavailable"
        BY <1>3 DEF Enter, UniverseInv, PairsInv
  <2>2. /\ since' = Larger(ResumeAt(p), ListedAt[p]) /\ cur' = p
        /\ progress' = [progress EXCEPT ![p] = [status |-> "running", next |-> since']]
        BY <1>3 DEF Enter, Takes
  <2>3. ResumeAt(p) = progress[p].next /\ ListedAt[p] \in Int
        BY <2>1, CursorsAreInts DEF ResumeAt, CursorInv
  <2>4. progress[p].next <= since'
        BY <2>2, <2>3 DEF Larger
  <2> QED BY <1>3, <2>1, <2>2, <2>4 DEF Enter, CursorInv, PairsKept, Settled, Busy
<1> QED BY <1>2, <1>3

LEMMA BackfillKeeps ==
  ASSUME UniverseInv, CursorInv, BackfillNext
  PROVE  CursorInv' /\ PairsKept
<1>0. UniverseTypeOK
      BY DEF UniverseInv
<1>1. CASE StopHere \/ FetchFails \/ FetchGets \/ FetchEmpty \/ Upsert \/ Advance
             \/ CompletePair \/ DbError
      BY <1>1, FetchKeeps
<1>2. ASSUME NEW p \in Pairs, EnterUnavailable(p) \/ Enter(p)
      PROVE  CursorInv' /\ PairsKept
      BY <1>2, EnterKeeps
<1>3. CASE Tell
  <2>1. \A p \in Pairs : progress[p].next \in Int
        BY <1>0, SavedCursorsAreInts
  <2> QED BY <1>3, <2>1 DEF Tell, CursorInv, PairsKept, Busy
<1>4. CASE \/ PreflightFails \/ StartChunk \/ Count \/ SkipComplete \/ DeferUnstarted
           \/ (\E p \in Pairs : EnterFails(p)) \/ Report \/ Close \/ Abort
      BY <1>0, <1>4, QuietCursors
      DEF PreflightFails, StartChunk, Count, SkipComplete, DeferUnstarted, EnterFails,
          Report, Close, Abort, Leave, runVars
<1>5. CASE Deadline
      BY <1>0, <1>5, QuietCursors DEF Deadline, Busy
<1> QED BY <1>1, <1>2, <1>3, <1>4, <1>5 DEF BackfillNext, ScriptStep, RunnerStep

\* A gate writes to ledger, artifacts and events, and only adds to them.
LEMMA GateKeeps ==
  ASSUME UniverseInv, CursorInv, NEW g \in Gates, GateStep(g)
  PROVE  /\ CursorInv' /\ PairsKept
         /\ ledger \subseteq ledger' /\ artifacts \subseteq artifacts'
         /\ news \subseteq news'
<1>1. UNCHANGED <<rows, progress, told, pc, cur, since>>
      BY DEF GateStep, GateStart, Judge, ReadLedger, Append, AppendRefused, Commit,
             Announce, Publish, Record, RecordOut, TellVerdict, GateDies, backfillVars,
             runVars
<1>2. CursorInv' /\ PairsKept
      BY <1>1, QuietCursors DEF UniverseInv, Busy
<1>3. /\ ledger \subseteq ledger' /\ artifacts \subseteq artifacts'
      /\ news \subseteq news'
      BY DEF GateStep, GateStart, Judge, ReadLedger, Append, AppendRefused, Commit,
             Announce, Publish, Record, RecordOut, TellVerdict, GateDies
<1> QED BY <1>2, <1>3

LEMMA StepKeeps ==
  ASSUME UniverseInv, CursorInv, [UniverseNext]_vars
  PROVE  /\ CursorInv' /\ PairsKept
         /\ ledger \subseteq ledger' /\ artifacts \subseteq artifacts'
         /\ news \subseteq news'
<1>1. CASE BackfillNext /\ UNCHANGED gateVars
      BY <1>1, BackfillKeeps DEF gateVars
<1>2. ASSUME NEW g \in Gates, GateStep(g)
      PROVE  /\ CursorInv' /\ PairsKept
             /\ ledger \subseteq ledger' /\ artifacts \subseteq artifacts'
             /\ news \subseteq news'
      BY <1>2, GateKeeps
<1>3. CASE UNCHANGED vars
      BY <1>3, QuietCursors DEF UniverseInv, vars, gateVars, backfillVars, runVars, Busy
<1> QED BY <1>1, <1>2, <1>3 DEF UniverseNext

LEMMA InitCursors == UniverseInit => CursorInv
BY DEF UniverseInit, BackfillInit, CursorInv, Busy

\* Bars, ledger, artifacts and events only grow, cursors never go back, and a pair
\* that is done stays done, through kills, resumed chunks and fresh records, for
\* any number of pairs and gates (backfill_progress.py:66-101,
\* historical_backfill.py:150-223).
THEOREM WorkIsKeptHolds == UniverseSpec => WorkIsKept
<1> DEFINE Kept == /\ PairsKept
                   /\ ledger \subseteq ledger' /\ artifacts \subseteq artifacts'
                   /\ news \subseteq news'
<1>1. UniverseInit => CursorInv
      BY InitCursors
<1>2. UniverseInv /\ CursorInv /\ [UniverseNext]_vars => CursorInv' /\ Kept
      BY StepKeeps
<1>3. Kept =>
        /\ \A p \in Pairs :
             /\ rows[p] \subseteq rows'[p]
             /\ progress[p].next <= progress'[p].next
             /\ progress[p].status \in {"complete", "unavailable"} =>
                  progress'[p].status = progress[p].status
        /\ ledger \subseteq ledger'
        /\ artifacts \subseteq artifacts'
        /\ told \subseteq told'
        /\ news \subseteq news'
      BY DEF PairsKept, Settled
<1> HIDE DEF Kept
<1> QED BY <1>1, <1>2, <1>3, UniverseInductive, PTL DEF UniverseSpec, WorkIsKept
-------------------------------------------------------------------------------
(* The script comes to its end                                             *)

LEMMA Lexicographic ==
  ASSUME NEW x, NEW y,
         \/ x[1] < y[1]
         \/ x[1] = y[1] /\ x[2] < y[2]
         \/ x[1] = y[1] /\ x[2] = y[2] /\ x[3] < y[3]
         \/ x[1] = y[1] /\ x[2] = y[2] /\ x[3] = y[3] /\ x[4] < y[4]
         \/ /\ x[1] = y[1] /\ x[2] = y[2] /\ x[3] = y[3] /\ x[4] = y[4]
            /\ x[5] < y[5]
         \/ /\ x[1] = y[1] /\ x[2] = y[2] /\ x[3] = y[3] /\ x[4] = y[4]
            /\ x[5] = y[5] /\ x[6] < y[6]
  PROVE  Nearer(x, y)
<1>1. \E i \in 1..6 : x[i] < y[i] /\ \A j \in 1..(i - 1) : x[j] = y[j]
  <2>1. CASE x[1] < y[1]
    <3>1. x[1] < y[1] /\ \A j \in 1..(1 - 1) : x[j] = y[j]
          BY <2>1
    <3> QED BY <3>1
  <2>2. CASE x[1] = y[1] /\ x[2] < y[2]
    <3>1. x[2] < y[2] /\ \A j \in 1..(2 - 1) : x[j] = y[j]
          BY <2>2
    <3> QED BY <3>1
  <2>3. CASE x[1] = y[1] /\ x[2] = y[2] /\ x[3] < y[3]
    <3>1. x[3] < y[3] /\ \A j \in 1..(3 - 1) : x[j] = y[j]
          BY <2>3
    <3> QED BY <3>1
  <2>4. CASE x[1] = y[1] /\ x[2] = y[2] /\ x[3] = y[3] /\ x[4] < y[4]
    <3>1. x[4] < y[4] /\ \A j \in 1..(4 - 1) : x[j] = y[j]
          BY <2>4
    <3> QED BY <3>1
  <2>5. CASE /\ x[1] = y[1] /\ x[2] = y[2] /\ x[3] = y[3] /\ x[4] = y[4]
             /\ x[5] < y[5]
    <3>1. x[5] < y[5] /\ \A j \in 1..(5 - 1) : x[j] = y[j]
          BY <2>5
    <3> QED BY <3>1
  <2>6. CASE /\ x[1] = y[1] /\ x[2] = y[2] /\ x[3] = y[3] /\ x[4] = y[4]
             /\ x[5] = y[5] /\ x[6] < y[6]
    <3>1. x[6] < y[6] /\ \A j \in 1..(6 - 1) : x[j] = y[j]
          BY <2>6
    <3> QED BY <3>1
  <2> QED BY <2>1, <2>2, <2>3, <2>4, <2>5, <2>6
<1> QED BY <1>1 DEF Nearer

\* Every part of the distance is a natural number.
LEMMA DistanceParts ==
  ASSUME UniverseTypeOK
  PROVE  /\ MaxChunks - chunk \in Nat /\ Phase \in Nat /\ Cardinality(todo) \in Nat
         /\ Stage \in Nat /\ Len + 1 - since \in Nat /\ PageStep \in Nat
<1>1. IsFiniteSet(todo)
      BY FS_Subset, BackfillAssumption DEF UniverseTypeOK, BackfillTypeOK
<1>2. Cardinality(todo) \in Nat
      BY <1>1, FS_CardinalityType
<1> QED BY <1>2, BackfillAssumption
        DEF UniverseTypeOK, BackfillTypeOK, Cursors, Phase, Stage, PageStep

\* A pair that is taken is one less to take.
LEMMA OneLess ==
  ASSUME UniverseTypeOK, NEW p \in todo, todo' = todo \ {p}
  PROVE  Cardinality(todo') < Cardinality(todo)
<1>1. IsFiniteSet(todo)
      BY FS_Subset, BackfillAssumption DEF UniverseTypeOK, BackfillTypeOK
<1>2. /\ Cardinality(todo \ {p}) = Cardinality(todo) - 1
      /\ Cardinality(todo) \in Nat
      BY <1>1, FS_RemoveElement, FS_CardinalityType
<1> QED BY <1>2

\* The same, for the parts of a distance.
LEMMA DistanceFalls ==
  ASSUME UniverseTypeOK, UniverseTypeOK',
         \/ chunk' = chunk + 1
         \/ /\ chunk' = chunk
            /\ \/ Phase' < Phase
               \/ Phase' = Phase /\ Cardinality(todo') < Cardinality(todo)
               \/ Phase' = Phase /\ todo' = todo /\ Stage' < Stage
               \/ /\ Phase' = Phase /\ todo' = todo /\ Stage' = Stage
                  /\ since < since' \/ (since' = since /\ PageStep' < PageStep)
  PROVE  Nearer(Distance', Distance)
<1> DEFINE a1 == MaxChunks - chunk'
           a2 == Phase'
           a3 == Cardinality(todo')
           a4 == Stage'
           a5 == Len + 1 - since'
           a6 == PageStep'
           b1 == MaxChunks - chunk
           b2 == Phase
           b3 == Cardinality(todo)
           b4 == Stage
           b5 == Len + 1 - since
           b6 == PageStep
<1>4. /\ chunk \in Int /\ chunk' \in Int /\ since \in Int /\ since' \in Int
      /\ MaxChunks \in Int /\ Len \in Int
      BY BackfillAssumption DEF UniverseTypeOK, BackfillTypeOK, Cursors
<1>6. \/ a1 < b1
      \/ a1 = b1 /\ a2 < b2
      \/ a1 = b1 /\ a2 = b2 /\ a3 < b3
      \/ a1 = b1 /\ a2 = b2 /\ a3 = b3 /\ a4 < b4
      \/ a1 = b1 /\ a2 = b2 /\ a3 = b3 /\ a4 = b4 /\ a5 < b5
      \/ a1 = b1 /\ a2 = b2 /\ a3 = b3 /\ a4 = b4 /\ a5 = b5 /\ a6 < b6
  <2>1. chunk' = chunk + 1 => a1 < b1
        BY <1>4
  <2>2. chunk' = chunk => a1 = b1
        OBVIOUS
  <2>3. since' = since => a5 = b5
        OBVIOUS
  <2>4. since < since' => a5 < b5
    <3>1. \A n, x, y \in Int : x < y => n + 1 - y < n + 1 - x
          OBVIOUS
    <3> QED BY <1>4, <3>1
  <2>5. todo' = todo => a3 = b3
        OBVIOUS
  <2>6. \/ chunk' = chunk + 1
        \/ /\ chunk' = chunk
           /\ \/ a2 < b2
              \/ a2 = b2 /\ a3 < b3
              \/ a2 = b2 /\ todo' = todo /\ a4 < b4
              \/ /\ a2 = b2 /\ todo' = todo /\ a4 = b4
                 /\ since < since' \/ (since' = since /\ a6 < b6)
        BY Zenon
  <2> HIDE DEF a1, a2, a3, a4, a5, a6, b1, b2, b3, b4, b5, b6
  <2> QED BY <2>1, <2>2, <2>3, <2>4, <2>5, <2>6
<1>7. /\ Distance' = <<a1, a2, a3, a4, a5, a6>>
      /\ Distance = <<b1, b2, b3, b4, b5, b6>>
      BY DEF Distance, Phase, Stage, PageStep
<1> HIDE DEF a1, a2, a3, a4, a5, a6, b1, b2, b3, b4, b5, b6
<1>8. Nearer(<<a1, a2, a3, a4, a5, a6>>, <<b1, b2, b3, b4, b5, b6>>)
      BY <1>6, Lexicographic
<1> QED BY <1>7, <1>8

LEMMA ScriptFalls ==
  ASSUME UniverseInv, UniverseTypeOK', ScriptStep
  PROVE  Nearer(Distance', Distance)
<1>0. UniverseTypeOK /\ chunk \in Int
      BY DEF UniverseInv, UniverseTypeOK, BackfillTypeOK
<1>1. CASE PreflightFails
      BY <1>0, <1>1, DistanceFalls DEF PreflightFails, Phase
<1>2. CASE StartChunk
      BY <1>0, <1>2, DistanceFalls DEF StartChunk, scriptVars, Phase
<1>3. CASE Count
  <2>1. \/ chunk' = chunk + 1
        \/ chunk' = chunk /\ pc' = "exited"
        BY <1>3 DEF Count
  <2> QED BY <1>0, <1>3, <2>1, DistanceFalls DEF Count, Phase
<1> QED BY <1>1, <1>2, <1>3 DEF ScriptStep

LEMMA RunnerFalls ==
  ASSUME UniverseInv, UniverseTypeOK', RunnerStep
  PROVE  Nearer(Distance', Distance)
<1>0. UniverseTypeOK
      BY DEF UniverseInv
<1> USE <1>0 DEF scriptVars, runVars, Leave
<1>1. CASE SkipComplete
  <2>1. Cardinality(todo') < Cardinality(todo)
        BY <1>1, OneLess DEF SkipComplete, AlreadyComplete
  <2> QED BY <1>1, <2>1, DistanceFalls DEF SkipComplete, Phase
<1>2. CASE DeferUnstarted
  <2>1. Cardinality(todo') < Cardinality(todo)
        BY <1>2, OneLess DEF DeferUnstarted
  <2> QED BY <1>2, <2>1, DistanceFalls DEF DeferUnstarted, Phase
<1>3. ASSUME NEW p \in Pairs, EnterUnavailable(p) \/ Enter(p) \/ EnterFails(p)
      PROVE  Nearer(Distance', Distance)
  <2>1. p \in todo /\ todo' = todo \ {p}
        BY <1>3 DEF EnterUnavailable, Enter, EnterFails, Takes
  <2>2. Cardinality(todo') < Cardinality(todo)
        BY <2>1, OneLess
  <2>3. chunk' = chunk /\ pc = "choosing" /\ pc' \in {"reporting", "fetching"}
        BY <1>3 DEF EnterUnavailable, Enter, EnterFails, Takes
  <2> QED BY <2>2, <2>3, DistanceFalls DEF Phase
<1>4. CASE StopHere \/ FetchFails \/ FetchEmpty \/ CompletePair \/ DbError
  <2>1. /\ chunk' = chunk /\ todo' = todo /\ pc' = "reporting"
        /\ pc \in {"fetching", "got", "landed"}
        BY <1>4 DEF StopHere, FetchFails, FetchEmpty, CompletePair, DbError
  <2> QED BY <2>1, DistanceFalls DEF Phase, Stage
<1>5. CASE FetchGets
  <2>1. /\ chunk' = chunk /\ todo' = todo /\ since' = since
        /\ pc = "fetching" /\ pc' = "got"
        BY <1>5 DEF FetchGets
  <2> QED BY <2>1, DistanceFalls DEF Phase, Stage, PageStep
<1>6. CASE Upsert
  <2>1. /\ chunk' = chunk /\ todo' = todo /\ since' = since
        /\ pc = "got" /\ pc' = "landed"
        BY <1>6 DEF Upsert
  <2> QED BY <2>1, DistanceFalls DEF Phase, Stage, PageStep
<1>7. CASE Advance
  <2>1. chunk' = chunk /\ todo' = todo /\ pc = "landed"
        BY <1>7 DEF Advance
  <2>2. PICK last \in batch :
          IF last + 1 <= since THEN pc' = "reporting"
          ELSE since' = last + 1 /\ pc' = "fetching"
        BY <1>7 DEF Advance
  <2>3. last \in Int /\ since \in Int
        BY CursorsAreInts DEF UniverseTypeOK, BackfillTypeOK, Minutes
  <2>4. CASE pc' = "reporting"
        BY <2>1, <2>4, DistanceFalls DEF Phase, Stage
  <2>5. CASE since' = last + 1 /\ pc' = "fetching" /\ ~(last + 1 <= since)
        BY <2>1, <2>3, <2>5, DistanceFalls DEF Phase, Stage
  <2> QED BY <2>2, <2>4, <2>5
<1>8. CASE Report
  <2>1. chunk' = chunk /\ todo' = todo /\ pc = "reporting" /\ pc' = "telling"
        BY <1>8 DEF Report
  <2> QED BY <2>1, DistanceFalls DEF Phase, Stage
<1>9. CASE Tell
  <2>1. chunk' = chunk /\ todo' = todo /\ pc = "telling" /\ pc' = "choosing"
        BY <1>9 DEF Tell
  <2> QED BY <2>1, DistanceFalls DEF Phase, Stage
<1>10. CASE Close
      BY <1>10, DistanceFalls DEF Close, Phase
<1> QED BY <1>1, <1>2, <1>3, <1>4, <1>5, <1>6, <1>7, <1>8, <1>9, <1>10 DEF RunnerStep

\* What is no step of script or runner: the clock, a kill, a gate.
LEMMA OthersDoNotLead ==
  ASSUME UniverseInv, UniverseTypeOK', Deadline \/ Abort \/ \E g \in Gates : GateStep(g)
  PROVE  Distance' = Distance \/ Nearer(Distance', Distance)
<1>0. UniverseTypeOK
      BY DEF UniverseInv
<1>1. CASE Deadline
      BY <1>1 DEF Deadline, scriptVars, Distance, Phase, Stage, PageStep
<1>2. CASE Abort
  <2>1. chunk' = chunk /\ Phase' < Phase
        BY <1>2 DEF Abort, Running, scriptVars, Phase
  <2> QED BY <1>0, <2>1, DistanceFalls
<1>3. ASSUME NEW g \in Gates, GateStep(g) PROVE Distance' = Distance
  <2>1. UNCHANGED <<pc, chunk, todo, since>>
        BY <1>3
        DEF GateStep, GateStart, Judge, ReadLedger, Append, AppendRefused, Commit,
            Announce, Publish, Record, RecordOut, TellVerdict, GateDies, backfillVars,
            scriptVars, runVars
  <2> QED BY <2>1 DEF Distance, Phase, Stage, PageStep
<1> QED BY <1>1, <1>2, <1>3

LEMMA StepFalls ==
  ASSUME UniverseInv, UniverseInv', UniverseNext
  PROVE  IF (ScriptStep \/ RunnerStep) /\ UNCHANGED gateVars
         THEN Nearer(Distance', Distance)
         ELSE Distance' = Distance \/ Nearer(Distance', Distance)
<1>0. UniverseTypeOK'
      BY DEF UniverseInv
<1>1. CASE (ScriptStep \/ RunnerStep) /\ UNCHANGED gateVars
      BY <1>0, <1>1, ScriptFalls, RunnerFalls
<1>2. CASE ~((ScriptStep \/ RunnerStep) /\ UNCHANGED gateVars)
  <2>1. Deadline \/ Abort \/ \E g \in Gates : GateStep(g)
        BY <1>2 DEF UniverseNext, BackfillNext
  <2> QED BY <1>0, <1>2, <2>1, OthersDoNotLead
<1> QED BY <1>1, <1>2

LEMMA InvHasDistance == UniverseInv => DistanceIsNatural
<1> SUFFICES ASSUME UniverseInv, NEW i \in 1..6 PROVE Distance[i] \in Nat
    BY DEF DistanceIsNatural
<1>1. /\ MaxChunks - chunk \in Nat /\ Phase \in Nat /\ Cardinality(todo) \in Nat
      /\ Stage \in Nat /\ Len + 1 - since \in Nat /\ PageStep \in Nat
      BY DistanceParts DEF UniverseInv
<1>2. i = 1 \/ i = 2 \/ i = 3 \/ i = 4 \/ i = 5 \/ i = 6
      OBVIOUS
<1> QED BY <1>1, <1>2 DEF Distance

\* The distance of the script from its end is made of natural numbers, each of its
\* steps lets it fall in their lexicographic order, and nobody else's step makes it
\* grow: why the script ends, but for the fairness, which the prover does not reach
\* (historical_backfill.py:205, f008-backfill-chunks.sh:88-130).
THEOREM ScriptComesCloserHolds ==
  UniverseSpec => []DistanceIsNatural /\ ScriptComesCloser
<1>1. UniverseInv /\ UniverseInv' /\ [UniverseNext]_vars =>
        [IF (ScriptStep \/ RunnerStep) /\ UNCHANGED gateVars
         THEN Nearer(Distance', Distance)
         ELSE Distance' = Distance \/ Nearer(Distance', Distance)]_vars
      BY StepFalls
<1> QED BY <1>1, InvHasDistance, UniverseInductive, PTL DEF UniverseSpec, ScriptComesCloser

\* A set of integers that is finite has a greatest member.
LEMMA HasMaximum ==
  ASSUME NEW S, IsFiniteSet(S), S # {}, \A s \in S : s \in Int
  PROVE  \E m \in S : \A t \in S : t <= m
<1> DEFINE From(t) == {u \in S : t <= u}
           F == {From(t) : t \in S}
<1>1. F # {} /\ F \subseteq FiniteSubsetsOf(S)
  <2>1. F # {} /\ F \subseteq SUBSET S
        OBVIOUS
  <2> HIDE DEF F
  <2> QED BY <2>1, FS_FiniteSubsetsOfFinite
<1>2. IsWellFoundedOn(StrictSubsetOrdering(S), FiniteSubsetsOf(S))
      BY FS_StrictSubsetOrderingWellFounded
<1>3. PICK X \in F : \A Y \in F : ~(<<Y, X>> \in StrictSubsetOrdering(S))
  <2> HIDE DEF F
  <2> QED BY <1>1, <1>2, WFMin
<1>4. PICK m \in S : X = From(m)
      OBVIOUS
<1>5. SUFFICES ASSUME NEW t \in S, ~(t <= m) PROVE FALSE
      OBVIOUS
<1>6. From(t) \subseteq From(m) /\ m \in From(m) /\ m \notin From(t)
      BY <1>5
<1>7. <<From(t), From(m)>> \in StrictSubsetOrdering(S)
      BY <1>6 DEF StrictSubsetOrdering
<1> QED BY <1>3, <1>4, <1>7

PageInv == pc \in {"got", "landed"} => batch # {}

LEMMA StepPage == ASSUME PageInv, [UniverseNext]_vars PROVE PageInv'
<1> USE DEF PageInv, runVars, scriptVars
<1>1. CASE RunnerStep
      BY <1>1
      DEF RunnerStep, SkipComplete, DeferUnstarted, EnterUnavailable, Enter, EnterFails,
          StopHere, FetchFails, FetchGets, FetchEmpty, Upsert, Advance, CompletePair,
          DbError, Report, Tell, Close, Leave
<1>2. CASE ScriptStep \/ Deadline \/ Abort
      BY <1>2 DEF ScriptStep, PreflightFails, StartChunk, Count, Deadline, Abort
<1>3. ASSUME NEW g \in Gates, GateStep(g) PROVE PageInv'
  <2>1. UNCHANGED <<pc, batch>>
        BY <1>3
        DEF GateStep, GateStart, Judge, ReadLedger, Append, AppendRefused, Commit,
            Announce, Publish, Record, RecordOut, TellVerdict, GateDies, backfillVars
  <2> QED BY <2>1
<1>4. CASE UNCHANGED vars
      BY <1>4 DEF vars, backfillVars
<1> QED BY <1>1, <1>2, <1>3, <1>4 DEF UniverseNext, BackfillNext

\* rows[-1] never meets an empty page, and so the step that advances is there to be
\* taken: with the distance above, no page keeps a chunk for ever
\* (historical_backfill.py:180-205).
THEOREM PageHasALastBarHolds == UniverseSpec => []PageHasALastBar
<1>1. UniverseInit => PageInv
      BY DEF UniverseInit, BackfillInit, PageInv
<1>2. PageInv /\ [UniverseNext]_vars => PageInv'
      BY StepPage
<1>3. UniverseInv /\ PageInv => PageHasALastBar
  <2> SUFFICES ASSUME UniverseInv, batch # {}
               PROVE  \E last \in batch : \A t \in batch : t <= last
      BY DEF PageInv, PageHasALastBar
  <2>1. batch \subseteq Minutes
        BY DEF UniverseInv, UniverseTypeOK, BackfillTypeOK
  <2>2. IsFiniteSet(Minutes)
        BY FS_Interval, BackfillAssumption DEF Minutes
  <2>3. IsFiniteSet(batch)
        BY <2>1, <2>2, FS_Subset
  <2>4. \A s \in batch : s \in Int
        BY <2>1 DEF Minutes
  <2> QED BY <2>3, <2>4, HasMaximum
<1> QED BY <1>1, <1>2, <1>3, UniverseInductive, PTL DEF UniverseSpec
===============================================================================
