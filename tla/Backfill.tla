-------------------------------- MODULE Backfill --------------------------------
(***************************************************************************)
(* The backfill of one-minute bars: the script that runs it chunk by chunk   *)
(* (f008-backfill-chunks.sh), the runner of one chunk and its run record     *)
(* (backfill_runner.py, batching.py, backfill_orchestrator.py), the resume    *)
(* cursor in the database (backfill_progress.py) and the fetch loop of one   *)
(* pair (historical_backfill.py).                                            *)
(*                                                                         *)
(* The window is the minutes 1 .. Len; a cursor is the next minute to ask    *)
(* for.  A bar is its minute.  The order in which a chunk takes its pairs is *)
(* left open: the record starts in the order of the plan and is sorted later. *)
(***************************************************************************)
EXTENDS Integers, FiniteSets

CONSTANTS Pairs,
          NoPair,
          Len,         \* the window is 1 .. Len
          FetchLimit,  \* bars to a request
          ListedAt,    \* of each pair: the first minute it is listed
          EndsAt,      \* of each pair: the minute of its delisting boundary
          Unavailable, \* pairs configured as unavailable
          Offers,      \* bound: of each pair, what bars the exchange may have
          MaxChunks,   \* MAX_CHUNKS
          MaxFaults,   \* bound: time slices over, failed requests and statements,
                       \* killed chunks and gates
          StallLimit   \* chunks without progress before the script gives up

ASSUME BackfillAssumption ==
  /\ NoPair \notin Pairs /\ IsFiniteSet(Pairs) /\ Pairs # {}
  /\ Len \in Nat /\ FetchLimit \in Nat \ {0}
  /\ ListedAt \in [Pairs -> 1..(Len + 1)]
  /\ EndsAt \in [Pairs -> 1..(Len + 1)]
  /\ Unavailable \subseteq Pairs
  /\ Offers \in [Pairs -> SUBSET SUBSET (1..Len)]
  /\ MaxChunks \in Nat \ {0} /\ StallLimit \in Nat \ {0} /\ MaxFaults \in Nat

Minutes == 1..Len
Cursors == 1..(Len + 1)

VARIABLES served,   \* the bars the exchange has of each pair
          rows,     \* the bars in ohlcv_1m
          agg,      \* the bars the continuous aggregates were last refreshed from
          progress, \* backfill_progress: status and cursor of each pair
          record,   \* run.json: status of each pair in the current run
          known,    \* the script has the run's id
          told,     \* backfill.progress events: pair and cursor
          pc, chunk, prevDone, stall, verdict,  \* the script
          todo, ran, cur, since, late, batch, outcome, \* the runner
          faults    \* counter for the bound

runVars == <<todo, ran, cur, since, late, batch, outcome>>
scriptVars == <<chunk, prevDone, stall, verdict>>
backfillVars == <<served, rows, agg, progress, record, known, told, pc, scriptVars,
                  runVars, faults>>

DoneStatuses == {"completed", "unavailable"}

BackfillInit ==
  /\ served \in {f \in [Pairs -> SUBSET Minutes] :
                   \A p \in Pairs : f[p] \in Offers[p]}
  /\ rows = [p \in Pairs |-> {}]
  /\ agg = [p \in Pairs |-> {}]
  /\ progress = [p \in Pairs |-> [status |-> "none", next |-> 1]]
  /\ record = [p \in Pairs |-> "pending"]
  /\ known = FALSE
  /\ told = {}
  /\ pc = "between" /\ chunk = 1 /\ prevDone = -1 /\ stall = 0 /\ verdict = "none"
  /\ todo = {} /\ ran = FALSE /\ cur = NoPair /\ since = 1 /\ late = FALSE
  /\ batch = {} /\ outcome = "none"
  /\ faults = 0

\* Counts against the bound.
Happens == faults < MaxFaults /\ faults' = faults + 1

-------------------------------------------------------------------------------
(* The script, before a chunk                                              *)

\* The proxy does not answer: no chunk is started.
PreflightFails ==
  /\ pc = "between"
  /\ verdict' = "offline"
  /\ pc' = "exited"
  /\ UNCHANGED <<served, rows, agg, progress, record, known, told, chunk, prevDone,
                 stall, runVars, faults>>

\* run_backfill_batch: a run whose id the script has is resumed, else a new record
\* with every pair pending takes its place.
StartChunk ==
  /\ pc = "between"
  /\ record' = IF known THEN record ELSE [p \in Pairs |-> "pending"]
  /\ todo' = {p \in Pairs : record'[p] \notin DoneStatuses}
  /\ ran' = \E p \in todo' : progress[p].status # "complete"
  /\ late' = FALSE
  /\ pc' = "choosing"
  /\ UNCHANGED <<served, rows, agg, progress, known, told, scriptVars, cur, since,
                 batch, outcome, faults>>

-------------------------------------------------------------------------------
(* One pair of a chunk                                                     *)

Larger(x, y) == IF x >= y THEN x ELSE y

\* The pair leaves with an outcome; its record and its event come next.
Leave(o) ==
  /\ outcome' = o
  /\ batch' = {}
  /\ pc' = "reporting"

AlreadyComplete == {p \in todo : progress[p].status = "complete"}

\* split_already_complete: pairs the database has as complete are not run again.
SkipComplete ==
  /\ pc = "choosing"
  /\ cur' \in AlreadyComplete
  /\ todo' = todo \ {cur'}
  /\ Leave("completed")
  /\ UNCHANGED <<served, rows, agg, progress, record, known, told, scriptVars, ran,
                 since, late, faults>>

\* The time slice of the chunk is over: should_stop is true from here on.
Deadline ==
  /\ pc \in {"choosing", "fetching"}
  /\ ~late
  /\ late' = TRUE
  /\ Happens
  /\ UNCHANGED <<served, rows, agg, progress, record, known, told, pc, scriptVars,
                 ran, todo, cur, since, batch, outcome>>

DeferUnstarted ==
  /\ pc = "choosing"
  /\ AlreadyComplete = {}
  /\ late
  /\ cur' \in todo
  /\ todo' = todo \ {cur'}
  /\ Leave("deferred")
  /\ UNCHANGED <<served, rows, agg, progress, record, known, told, scriptVars, ran,
                 since, late, faults>>

Takes(p) ==
  /\ pc = "choosing"
  /\ AlreadyComplete = {}
  /\ ~late
  /\ p \in todo
  /\ cur' = p
  /\ todo' = todo \ {p}

NothingToFetch(p) == p \in Unavailable \/ ListedAt[p] >= EndsAt[p]

EnterUnavailable(p) ==
  /\ Takes(p)
  /\ NothingToFetch(p)
  /\ progress' = [progress EXCEPT ![p] =
                    [status |-> "unavailable", next |-> Len + 1]]
  /\ Leave("unavailable")
  /\ UNCHANGED <<served, rows, agg, record, known, told, scriptVars, ran, since,
                 late, faults>>

\* load_progress: a terminal state is no place to resume from.
ResumeAt(p) ==
  IF progress[p].status \in {"none", "complete", "unavailable"}
  THEN 1 ELSE progress[p].next

Enter(p) ==
  /\ Takes(p)
  /\ ~NothingToFetch(p)
  /\ since' = Larger(ResumeAt(p), ListedAt[p])
  /\ progress' = [progress EXCEPT ![p] = [status |-> "running", next |-> since']]
  /\ pc' = "fetching"
  /\ UNCHANGED <<served, rows, agg, record, known, told, scriptVars, ran, late,
                 batch, outcome, faults>>

\* Reading where to resume or writing the first status fails: it is rolled back.
EnterFails(p) ==
  /\ Takes(p)
  /\ Leave("failed")
  /\ Happens
  /\ UNCHANGED <<served, rows, agg, progress, record, known, told, scriptVars, ran,
                 since, late>>

Saves(status) ==
  progress' = [progress EXCEPT ![cur] = [status |-> status, next |-> since]]

StopHere ==
  /\ pc = "fetching"
  /\ since < EndsAt[cur]
  /\ late
  /\ Saves("running")
  /\ Leave("deferred")
  /\ UNCHANGED <<served, rows, agg, record, known, told, scriptVars, ran, todo, cur,
                 since, late, faults>>

\* The retries are used up, or the error is not one to retry.
FetchFails ==
  /\ pc = "fetching"
  /\ since < EndsAt[cur]
  /\ ~late
  /\ Saves("failed")
  /\ Leave("failed")
  /\ Happens
  /\ UNCHANGED <<served, rows, agg, record, known, told, scriptVars, ran, todo, cur,
                 since, late>>

\* What the exchange answers: the next bars, or a bar before the cursor, which it
\* was not asked for.
Replies ==
  LET ahead == {t \in served[cur] : since <= t}
      Rank(t) == Cardinality({u \in ahead : u <= t})
  IN {{t \in ahead : Rank(t) <= FetchLimit}}
       \cup {{t} : t \in {u \in served[cur] : u < since}}

Filtered(B) == {t \in B : ListedAt[cur] <= t /\ t < EndsAt[cur]}

FetchGets ==
  /\ pc = "fetching"
  /\ since < EndsAt[cur]
  /\ ~late
  /\ \E B \in Replies : Filtered(B) # {} /\ batch' = Filtered(B)
  /\ pc' = "got"
  /\ UNCHANGED <<served, rows, agg, progress, record, known, told, scriptVars, ran,
                 todo, cur, since, late, outcome, faults>>

\* No bar left before the boundary: the pair stalls here.
FetchEmpty ==
  /\ pc = "fetching"
  /\ since < EndsAt[cur]
  /\ ~late
  /\ \E B \in Replies : Filtered(B) = {}
  /\ Saves("stalled")
  /\ Leave("failed")
  /\ UNCHANGED <<served, rows, agg, record, known, told, scriptVars, ran, todo, cur,
                 since, late, faults>>

\* Mutant: the cursor is saved with the batch still in hand.
UpsertLater ==
  /\ pc = "got"
  /\ \E last \in batch :
       progress' = [progress EXCEPT ![cur] =
         [status |-> "running", next |-> Larger(since, last + 1)]]
  /\ pc' = "landed"
  /\ UNCHANGED <<served, rows, agg, record, known, told, scriptVars, runVars, faults>>

\* upsert_ohlcv, which commits.
Upsert ==
  /\ pc = "got"
  /\ rows' = [rows EXCEPT ![cur] = @ \cup batch]
  /\ pc' = "landed"
  /\ UNCHANGED <<served, agg, progress, record, known, told, scriptVars, runVars,
                 faults>>

\* Mutant: whatever came is the new place.
AdvanceAnywhere ==
  /\ pc = "landed"
  /\ \E last \in batch :
       /\ \A t \in batch : t <= last
       /\ since' = last + 1
       /\ progress' = [progress EXCEPT ![cur] =
                         [status |-> "running", next |-> last + 1]]
  /\ batch' = {}
  /\ pc' = "fetching"
  /\ UNCHANGED <<served, rows, agg, record, known, told, scriptVars, ran, todo, cur,
                 late, outcome, faults>>

\* save_progress, behind the last bar; a cursor that would not move is an error.
Advance ==
  /\ pc = "landed"
  /\ \E last \in batch :
       /\ \A t \in batch : t <= last
       /\ IF last + 1 <= since
          THEN /\ Saves("stalled")
               /\ Leave("failed")
               /\ UNCHANGED since
          ELSE /\ since' = last + 1
               /\ progress' = [progress EXCEPT ![cur] =
                                 [status |-> "running", next |-> last + 1]]
               /\ batch' = {}
               /\ pc' = "fetching"
               /\ UNCHANGED outcome
  /\ UNCHANGED <<served, rows, agg, record, known, told, scriptVars, ran, todo, cur,
                 late, faults>>

CompletePair ==
  /\ pc = "fetching"
  /\ since >= EndsAt[cur]
  /\ progress' = [progress EXCEPT ![cur] =
                    [status |-> "complete", next |-> Len + 1]]
  /\ Leave("completed")
  /\ UNCHANGED <<served, rows, agg, record, known, told, scriptVars, ran, todo, cur,
                 since, late, faults>>

\* A statement fails and is rolled back: the pair has failed, the next one follows.
DbError ==
  /\ pc \in {"fetching", "got", "landed"}
  /\ Leave("failed")
  /\ Happens
  /\ UNCHANGED <<served, rows, agg, progress, record, known, told, scriptVars, ran,
                 todo, cur, since, late>>

\* on_outcome: the run record is replaced, then the event is appended.
Report ==
  /\ pc = "reporting"
  /\ record' = [record EXCEPT ![cur] = outcome]
  /\ pc' = "telling"
  /\ UNCHANGED <<served, rows, agg, progress, known, told, scriptVars, runVars,
                 faults>>

Tell ==
  /\ pc = "telling"
  /\ told' = IF outcome # "failed" /\ progress[cur].status # "none"
             THEN told \cup {<<cur, progress[cur].next>>} ELSE told
  /\ cur' = NoPair
  /\ outcome' = "none"
  /\ pc' = "choosing"
  /\ UNCHANGED <<served, rows, agg, progress, record, known, scriptVars, ran, todo,
                 since, late, batch, faults>>

-------------------------------------------------------------------------------
(* The end of a chunk                                                      *)

\* The runner is gone.
Gone ==
  /\ todo' = {} /\ ran' = FALSE /\ cur' = NoPair /\ since' = 1 /\ late' = FALSE
  /\ batch' = {} /\ outcome' = "none"

\* The aggregates are refreshed unless nothing was left to run; that this fails
\* ends no chunk.  The document on stdout tells the script the run's id.
Close ==
  /\ pc = "choosing"
  /\ todo = {}
  /\ agg' \in {rows, agg}
  /\ ~ran => agg' = agg
  /\ IF ran /\ agg' # rows THEN Happens ELSE UNCHANGED faults
  /\ known' = TRUE
  /\ Gone
  /\ pc' = "counting"
  /\ UNCHANGED <<served, rows, progress, record, told, scriptVars>>

Running == pc \in {"choosing", "fetching", "got", "landed", "reporting", "telling"}

\* The chunk is killed, or ends on a lost connection or a refused event.
Abort ==
  /\ Running
  /\ agg' \in {agg, rows}
  /\ Gone
  /\ pc' = "counting"
  /\ Happens
  /\ UNCHANGED <<served, rows, progress, record, known, told, scriptVars>>

\* Mutant: one chunk too many.
CountOn ==
  /\ pc = "counting"
  /\ pc' = IF chunk > MaxChunks THEN "exited" ELSE "between"
  /\ verdict' = IF chunk > MaxChunks THEN "limit" ELSE "none"
  /\ chunk' = chunk + 1
  /\ UNCHANGED <<served, rows, agg, progress, record, known, told, prevDone, stall,
                 runVars, faults>>

DoneCount == Cardinality({p \in Pairs : record[p] \in DoneStatuses})

Count ==
  /\ pc = "counting"
  /\ LET done == IF known THEN DoneCount ELSE -1
         finished == known /\ done = Cardinality(Pairs)
         stalled == IF ~known \/ done = prevDone THEN stall + 1 ELSE 0
     IN /\ stall' = IF finished THEN stall ELSE stalled
        /\ prevDone' = IF finished THEN prevDone ELSE done
        /\ verdict' = IF finished THEN "done"
                      ELSE IF stalled >= StallLimit THEN "stalled"
                      ELSE IF chunk = MaxChunks THEN "limit"
                      ELSE "none"
        /\ pc' = IF verdict' = "none" THEN "between" ELSE "exited"
        /\ chunk' = IF verdict' = "none" THEN chunk + 1 ELSE chunk
  /\ UNCHANGED <<served, rows, agg, progress, record, known, told, runVars, faults>>

ScriptStep == PreflightFails \/ StartChunk \/ Count

RunnerStep ==
  \/ SkipComplete \/ DeferUnstarted
  \/ \E p \in Pairs : EnterUnavailable(p) \/ Enter(p) \/ EnterFails(p)
  \/ StopHere \/ FetchFails \/ FetchGets \/ FetchEmpty \/ Upsert \/ Advance
  \/ CompletePair \/ DbError \/ Report \/ Tell \/ Close

BackfillNext == ScriptStep \/ RunnerStep \/ Deadline \/ Abort

Statuses == {"none", "running", "stalled", "failed", "complete", "unavailable"}
Outcomes == {"pending", "deferred", "completed", "failed", "unavailable"}
Steps    == {"between", "choosing", "fetching", "got", "landed", "reporting",
             "telling", "counting", "exited"}

BackfillTypeOK ==
  /\ served \in [Pairs -> SUBSET Minutes]
  /\ rows \in [Pairs -> SUBSET Minutes]
  /\ agg \in [Pairs -> SUBSET Minutes]
  /\ progress \in [Pairs -> [status : Statuses, next : Cursors]]
  /\ record \in [Pairs -> Outcomes]
  /\ known \in BOOLEAN /\ late \in BOOLEAN
  /\ told \subseteq Pairs \X Cursors
  /\ pc \in Steps
  /\ chunk \in 1..MaxChunks
  /\ stall \in 0..StallLimit
  /\ verdict \in {"none", "offline", "done", "stalled", "limit"}
  /\ todo \subseteq Pairs
  /\ cur \in Pairs \cup {NoPair}
  /\ since \in Cursors
  /\ batch \subseteq Minutes
  /\ outcome \in Outcomes \cup {"none"}
===============================================================================
