-------------------------------- MODULE Universe --------------------------------
(***************************************************************************)
(* From backfilled bars to an admitted pair: gates (quality_gate.py,         *)
(* admission.py) that judge every pair, append its two lake pairs to the     *)
(* membership ledger (membership.py, migration 005), publish the ledger as   *)
(* an artifact (artifact.py) and record the verdict the export reads         *)
(* (verdicts.py), beside the backfill script and beside each other.          *)
(*                                                                         *)
(* A ledger row is a lake pair: a pair and its market, valid from the pair's *)
(* listing.  A row that two gates append at once is there twice;             *)
(* materialize_intervals merges the two.                                     *)
(***************************************************************************)
EXTENDS Backfill

CONSTANTS Gates,          \* gate commands
          MissingPercent, \* missing_ratio, in percent
          BucketWidth,    \* minutes to a bucket of a continuous aggregate
          MaxGates,       \* bound: gates started
          Seedable        \* bound: pairs that may have been seeded

ASSUME UniverseAssumption ==
  /\ MissingPercent \in 0..100 /\ BucketWidth \in Nat \ {0}
  /\ MaxGates \in Nat /\ Seedable \subseteq Pairs

Markets   == {"spot", "perp"}
LakePairs == Pairs \X Markets

VARIABLES seeded,    \* pairs with an initial_seed row, valid from later than listed
          ledger,    \* committed rows the gates have appended
          artifacts, \* published snapshots of the ledger
          current,   \* the last verdict of each pair
          news,      \* universe.member_changed events
          gate,      \* each gate: where it is and what it has in hand
          gated      \* counter for the bound

gateVars == <<seeded, ledger, artifacts, current, news, gate, gated>>
vars == <<backfillVars, gateVars>>

NoGate == [pc |-> "idle", todo |-> {}, ruled |-> [p \in Pairs |-> "none"],
           cur |-> NoPair, pend |-> {}]

UniverseInit ==
  /\ BackfillInit
  /\ seeded \in SUBSET Seedable
  /\ ledger = {}
  /\ artifacts = {}
  /\ current = [p \in Pairs |-> "none"]
  /\ news = {}
  /\ gate = [g \in Gates |-> NoGate]
  /\ gated = 0

-------------------------------------------------------------------------------
(* check_pair                                                              *)

\* effective_window of a gate, which is given no delisting boundary.
Expected(p) == ListedAt[p]..Len

Have(p) == rows[p] \cap Expected(p)

TooManyMissing(p) ==
  LET missing == Cardinality(Expected(p)) - Cardinality(Have(p))
  IN missing * 100 > MissingPercent * Cardinality(Expected(p))

\* aggregate_mismatch counts buckets, and looks into none of them.
Buckets(S) == {(t - 1) \div BucketWidth : t \in S}

Mismatch(p) == Cardinality(Buckets(agg[p])) # Cardinality(Buckets(rows[p]))

\* Mutant: the run's own report is enough, whatever the ledger of cursors says.
RuledByRows(p) ==
  IF Have(p) = {} THEN "INCOMPLETE"
  ELSE IF TooManyMissing(p) \/ Mismatch(p) THEN "QUARANTINED"
  ELSE "ACTIVE"

Ruling(p) ==
  IF progress[p].status # "complete" \/ Have(p) = {} THEN "INCOMPLETE"
  ELSE IF \/ TooManyMissing(p)
          \/ ListedAt[p] \notin rows[p] \/ Len \notin rows[p]
          \/ Mismatch(p)
       THEN "QUARANTINED"
  ELSE "ACTIVE"

-------------------------------------------------------------------------------
(* gate_and_admit                                                          *)

\* Gates take the pairs in the order of the universe's definition.
First(S) == CHOOSE p \in S : TRUE

At(g, place) == gate[g].pc = place

Goes(g, place) == gate' = [gate EXCEPT ![g].pc = place]

\* The aggregates are refreshed first; a gate for which this fails does nothing.
GateStart(g) ==
  /\ At(g, "idle")
  /\ gated < MaxGates
  /\ gated' = gated + 1
  /\ agg' = rows
  /\ gate' = [gate EXCEPT ![g] = [NoGate EXCEPT !.pc = "judging", !.todo = Pairs]]
  /\ UNCHANGED <<served, rows, progress, record, known, told, pc, scriptVars,
                 runVars, faults, seeded, ledger, artifacts, current, news>>

\* gate_pairs judges every pair before the first is admitted.
Judge(g) ==
  /\ At(g, "judging")
  /\ LET p == First(gate[g].todo)
         left == gate[g].todo \ {p}
     IN gate' = [gate EXCEPT ![g] =
          [@ EXCEPT !.ruled[p] = Ruling(p),
                    !.todo = IF left = {} THEN Pairs ELSE left,
                    !.pc = IF left = {} THEN "admitting" ELSE "judging"]]
  /\ UNCHANGED <<backfillVars, seeded, ledger, artifacts, current, news, gated>>

RowsOf(p) == {<<p, m>> : m \in Markets}

\* _pending_membership_rows of a pair that passed.
ReadLedger(g) ==
  /\ At(g, "admitting")
  /\ LET p == First(gate[g].todo)
         pend == RowsOf(p) \ ledger
     IN /\ gate[g].ruled[p] = "ACTIVE"
        /\ gate' = [gate EXCEPT ![g] =
             [@ EXCEPT !.cur = p, !.todo = gate[g].todo \ {p}, !.pend = pend,
                       !.pc = IF pend = {} THEN "publishing" ELSE "appending"]]
  /\ UNCHANGED <<backfillVars, seeded, ledger, artifacts, current, news, gated>>

\* What the increasing trigger refuses: a lake pair with a row that is valid from
\* as late or later.
Refused(row) == row \in ledger \/ (row[1] \in seeded /\ row[2] = "spot")

\* append_membership: the rows are inserted, and committed by the next step.
Append(g) ==
  /\ At(g, "appending")
  /\ \A row \in gate[g].pend : ~Refused(row)
  /\ Goes(g, "committing")
  /\ UNCHANGED <<backfillVars, seeded, ledger, artifacts, current, news, gated>>

\* The trigger raises: the gate ends here, with the pairs it has not come to.
AppendRefused(g) ==
  /\ At(g, "appending")
  /\ \E row \in gate[g].pend : Refused(row)
  /\ gate' = [gate EXCEPT ![g] = NoGate]
  /\ UNCHANGED <<backfillVars, seeded, ledger, artifacts, current, news, gated>>

\* Mutant: the rows are announced and never committed.
CommitNothing(g) ==
  /\ At(g, "committing")
  /\ Goes(g, "announcing")
  /\ UNCHANGED <<backfillVars, seeded, ledger, artifacts, current, news, gated>>

Commit(g) ==
  /\ At(g, "committing")
  /\ ledger' = ledger \cup gate[g].pend
  /\ Goes(g, "announcing")
  /\ UNCHANGED <<backfillVars, seeded, artifacts, current, news, gated>>

Announce(g) ==
  /\ At(g, "announcing")
  /\ news' = news \cup {<<"tradability", row>> : row \in gate[g].pend}
  /\ Goes(g, "publishing")
  /\ UNCHANGED <<backfillVars, seeded, ledger, artifacts, current, gated>>

SeedRows == {<<p, "spot">> : p \in seeded}

\* publish_artifact of the intervals of the whole ledger, named by its content.
Publish(g) ==
  /\ At(g, "publishing")
  /\ artifacts' = artifacts \cup {ledger \cup SeedRows}
  /\ Goes(g, "recording")
  /\ UNCHANGED <<backfillVars, seeded, ledger, current, news, gated>>

\* record_verdicts of a pair that passed.
Record(g) ==
  /\ At(g, "recording")
  /\ current' = [current EXCEPT ![gate[g].cur] = "ACTIVE"]
  /\ Goes(g, "telling")
  /\ UNCHANGED <<backfillVars, seeded, ledger, artifacts, news, gated>>

\* Of a pair that did not, nothing but the verdict is kept.
RecordOut(g) ==
  /\ At(g, "admitting")
  /\ LET p == First(gate[g].todo)
     IN /\ gate[g].ruled[p] # "ACTIVE"
        /\ current' = [current EXCEPT ![p] = gate[g].ruled[p]]
        /\ gate' = [gate EXCEPT ![g] =
             [@ EXCEPT !.cur = p, !.todo = gate[g].todo \ {p}, !.pc = "telling"]]
  /\ UNCHANGED <<backfillVars, seeded, ledger, artifacts, news, gated>>

\* The event of the verdict; then the next pair, or the end.
TellVerdict(g) ==
  /\ At(g, "telling")
  /\ news' = news \cup
               {<<"admission", <<gate[g].cur, gate[g].ruled[gate[g].cur]>>>>}
  /\ gate' = [gate EXCEPT ![g] =
       IF gate[g].todo = {} THEN NoGate
       ELSE [@ EXCEPT !.pc = "admitting", !.cur = NoPair, !.pend = {}]]
  /\ UNCHANGED <<backfillVars, seeded, ledger, artifacts, current, gated>>

\* The gate is killed, or something it calls raises: what is not committed is lost.
GateDies(g) ==
  /\ ~At(g, "idle")
  /\ Happens
  /\ gate' = [gate EXCEPT ![g] = NoGate]
  /\ UNCHANGED <<served, rows, agg, progress, record, known, told, pc, scriptVars,
                 runVars, seeded, ledger, artifacts, current, news, gated>>

GateStep(g) ==
  \/ GateStart(g) \/ Judge(g) \/ ReadLedger(g) \/ Append(g)
  \/ AppendRefused(g) \/ Commit(g) \/ Announce(g) \/ Publish(g) \/ Record(g)
  \/ RecordOut(g) \/ TellVerdict(g) \/ GateDies(g)

UniverseNext ==
  \/ BackfillNext /\ UNCHANGED gateVars
  \/ \E g \in Gates : GateStep(g)

\* The script and the runner it waits for go on as long as they live; nothing is
\* assumed of the clock, of a kill, or of a gate.
UniverseSpec ==
  /\ UniverseInit /\ [][UniverseNext]_vars
  /\ WF_vars((ScriptStep \/ RunnerStep) /\ UNCHANGED gateVars)
-------------------------------------------------------------------------------
(* Properties                                                              *)

Places == {"idle", "judging", "admitting", "appending", "committing",
           "announcing", "publishing", "recording", "telling"}
Verdicts == {"ACTIVE", "QUARANTINED", "INCOMPLETE"}
GateStates == [pc : Places, todo : SUBSET Pairs,
               ruled : [Pairs -> Verdicts \cup {"none"}],
               cur : Pairs \cup {NoPair}, pend : SUBSET LakePairs]

\* The script, the runner, the database and the gates keep to their types
\* (f008-backfill-chunks.sh:80, backfill_progress.py:66, migration 005).
UniverseTypeOK ==
  /\ BackfillTypeOK
  /\ seeded \subseteq Pairs
  /\ ledger \subseteq LakePairs
  /\ artifacts \subseteq SUBSET LakePairs
  /\ current \in [Pairs -> Verdicts \cup {"none"}]
  /\ gate \in [Gates -> GateStates]

\* The bars the exchange has of a pair below a cursor, within its boundaries.
Due(p, c) == {t \in served[p] : ListedAt[p] <= t /\ t < EndsAt[p] /\ t < c}

\* No bar is ever skipped: what the exchange has below the saved cursor is in the
\* table, through failed statements, killed chunks and resumed runs
\* (historical_backfill.py:202-223).
CursorNeverPassesRows ==
  \A p \in Pairs : progress[p].status # "unavailable" =>
    Due(p, progress[p].next) \subseteq rows[p]

\* What is reported is so.  A pair the run record has as done is complete or
\* unavailable in the database; a progress event's cursor has its bars in the
\* table; a script that says all is done has nothing left to fetch; a member event
\* is backed by the ledger (backfill_runner.py:198-202, f008-backfill-chunks.sh:112,
\* admission.py:106-117).
ReportsAreTrue ==
  /\ \A p \in Pairs :
       /\ record[p] = "completed" => progress[p].status = "complete"
       /\ record[p] = "unavailable" => progress[p].status = "unavailable"
  /\ \A x \in told :
       ~NothingToFetch(x[1]) => Due(x[1], x[2]) \subseteq rows[x[1]]
  /\ verdict = "done" =>
       \A p \in Pairs : NothingToFetch(p) \/ Due(p, Len + 1) \subseteq rows[p]
  /\ \A row \in LakePairs : <<"tradability", row>> \in news => row \in ledger
  /\ \A p \in Pairs : <<"admission", <<p, "ACTIVE">>>> \in news =>
       RowsOf(p) \subseteq ledger /\ progress[p].status = "complete"

\* A pair the export admits has both its lake pairs in the ledger and in a
\* published artifact, its backfill complete, and no more bars missing than the
\* threshold, whatever gates overlap or die and whatever the backfill does in the
\* meantime (admission.py:65-129, quality_gate.py:152-189, verdicts.py:205-215).
ExportedPairsAreBacked ==
  \A p \in Pairs : current[p] = "ACTIVE" =>
    /\ RowsOf(p) \subseteq ledger
    /\ \E a \in artifacts : RowsOf(p) \subseteq a
    /\ progress[p].status = "complete"
    /\ ~TooManyMissing(p)
    /\ {ListedAt[p], Len} \subseteq rows[p]

\* The script comes to an end: no answer of the exchange, old bars included, and no
\* failing pair keeps a chunk busy for ever, and the chunks are bounded
\* (historical_backfill.py:205, f008-backfill-chunks.sh:122-130).
ScriptEnds == <>(pc = "exited")

\* What is committed is kept: bars, ledger rows, artifacts and events stay, the
\* saved cursor of a pair never goes back, and a pair that is complete or
\* unavailable stays so, through failures, kills, resumed chunks and runs that
\* start with a new record (backfill_runner.py:136-152, backfill_progress.py:66-101,
\* historical_backfill.py:150-223).
WorkIsKept ==
  [][/\ \A p \in Pairs :
          /\ rows[p] \subseteq rows'[p]
          /\ progress[p].next <= progress'[p].next
          /\ progress[p].status \in {"complete", "unavailable"} =>
               progress'[p].status = progress[p].status
     /\ ledger \subseteq ledger'
     /\ artifacts \subseteq artifacts'
     /\ told \subseteq told'
     /\ news \subseteq news']_vars

\* How far the script is from its end, the first difference counting: chunks to
\* start, the phase of this one, its pairs to take, the stage of the pair in hand,
\* the minutes left to it, the step of its page.
Phase == IF pc = "between" THEN 3 ELSE IF pc = "counting" THEN 1
         ELSE IF pc = "exited" THEN 0 ELSE 2
Stage == IF pc \in {"fetching", "got", "landed"} THEN 3 ELSE IF pc = "reporting" THEN 2
         ELSE IF pc = "telling" THEN 1 ELSE 0
PageStep == IF pc = "fetching" THEN 2 ELSE IF pc = "got" THEN 1 ELSE 0

Distance == <<MaxChunks - chunk, Phase, Cardinality(todo), Stage, Len + 1 - since,
              PageStep>>

\* Each part counts down in the naturals, so that the whole cannot fall for ever.
DistanceIsNatural == \A i \in 1..6 : Distance[i] \in Nat

Nearer(x, y) == \E i \in 1..6 : x[i] < y[i] /\ \A j \in 1..(i - 1) : x[j] = y[j]

\* Every step of the script and of its runner leads nearer to the end, whatever the
\* exchange answers, and no kill, no time slice and no gate leads away from it
\* (historical_backfill.py:205, f008-backfill-chunks.sh:88-130).
ScriptComesCloser ==
  [][IF (ScriptStep \/ RunnerStep) /\ UNCHANGED gateVars
     THEN Nearer(Distance', Distance)
     ELSE Distance' = Distance \/ Nearer(Distance', Distance)]_vars

\* A page that has landed has a last bar, from which the next one starts: rows[-1]
\* never meets an empty page (historical_backfill.py:180-205).
PageHasALastBar ==
  pc = "landed" => \E last \in batch : \A t \in batch : t <= last
===============================================================================
