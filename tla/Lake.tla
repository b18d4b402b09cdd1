---------------------------------- MODULE Lake ----------------------------------
(***************************************************************************)
(* The data lake (data_bridge): exporters that publish immutable versions of *)
(* a dataset (exporter.py, partitions.py, export_policy.py, reconcile.py,    *)
(* manifest.py), and what a reader of the newest version meets (reader.py).  *)
(*                                                                         *)
(* A cell is a pair and a day; its rows are one value, Empty when there are *)
(* none, and row_digest and sha256 are told apart by what they are taken of: *)
(* the rows in the snapshot, the bytes of the file.  What the admission     *)
(* filters let through is what the source table holds.  Nothing in the code *)
(* keeps two exporters apart; alone is a history variable that says of a    *)
(* running export whether it had the lake to itself so far.                  *)
(***************************************************************************)
EXTENDS Integers, FiniteSets

CONSTANTS Datasets, Exporters, Pairs,
          Values,      \* what the rows of a cell may be
          Empty,       \* no rows in the source; no file
          Garbled,     \* a file that does not hold the rows it was written for
          NoVersion,   \* no dataset, no path
          FirstRows,   \* bound: what the source tables may hold at first
          LastDay,     \* bound: days 1 .. LastDay have data
          MaxRev,      \* bound: revisions of one cell's file
          MaxExports,  \* bound: exports begun
          MaxEvents    \* bound: what happens beside them: changes of the source or
                       \* of version metadata, new days, files written wrongly or
                       \* damaged later, exports cut short, exports that overlap

ASSUME LakeAssumption ==
  /\ Empty \notin Values /\ Garbled \notin Values /\ Empty # Garbled
  /\ FirstRows \subseteq [Datasets \X (Pairs \X (1..LastDay)) -> Values \cup {Empty}]
  /\ LastDay \in Nat \ {0} /\ MaxRev \in Nat /\ MaxExports \in Nat /\ MaxEvents \in Nat

Days     == 1..LastDay
Revs     == 1..MaxRev
Cells    == Pairs \X Days
Paths    == Datasets \X Cells \X Revs        \* <pair>/date=<day>.r<rev>.parquet
Spools   == Datasets \X Days \X Revs         \* _staging/<dataset>/current/...
Contents == Values \cup {Empty, Garbled}

VARIABLES source,    \* the rows of each cell in the source tables
          today,     \* the day whose rows are not complete yet
          files,     \* the partition files
          spool,     \* the staging files
          manifests, \* the manifests on file
          links,     \* the file system has hard links
          pc, alone, base, job, done, spot, draft, refs,  \* of each exporter
          begun, events, \* counters for the bounds
          lost       \* history: the files something else than an export damaged

exporterVars == <<pc, alone, base, job, done, spot, draft, refs>>
lakeVars == <<source, today, files, spool, manifests, links, exporterVars, begun,
              events, lost>>

NoRows  == [c \in {} |-> Empty]
NoJob   == [ds |-> NoVersion, mode |-> "none", end |-> 0, start |-> 0,
            rows |-> NoRows, meta |-> FALSE, ver |-> <<0, 0>>]
NoSpot  == [path |-> NoVersion, spool |-> NoVersion, sha |-> Empty]
NoDraft == [ds |-> NoVersion, ver |-> <<0, 0>>, status |-> "none", parts |-> NoRows,
            skipped |-> {}, alone |-> FALSE, clean |-> FALSE]

LakeInit ==
  /\ source \in FirstRows
  /\ today = LastDay
  /\ files = [p \in Paths |-> Empty]
  /\ spool = [s \in Spools |-> Empty]
  /\ manifests = {}
  /\ links \in BOOLEAN
  /\ pc = [e \in Exporters |-> "idle"]
  /\ alone = [e \in Exporters |-> FALSE]
  /\ base = [e \in Exporters |-> NoDraft]
  /\ job = [e \in Exporters |-> NoJob]
  /\ done = [e \in Exporters |-> NoRows]
  /\ spot = [e \in Exporters |-> NoSpot]
  /\ draft = [e \in Exporters |-> NoDraft]
  /\ refs = [e \in Exporters |-> {}]
  /\ begun = 0 /\ events = 0
  /\ lost = {}

-------------------------------------------------------------------------------
(* Manifests and versions                                                  *)

Older(v, w) == v[1] < w[1] \/ (v[1] = w[1] /\ v[2] < w[2])

Of(ds) == {m \in manifests : m.ds = ds}

\* Every file a manifest names is there with the bytes it was published with.
Intact(m) ==
  \A c \in DOMAIN m.parts : files[m.parts[c].path] = m.parts[c].sha

\* Mutant: a valid version is a baseline without a look at its files.
Valid(m) == m.status = "valid"

Usable(m) == m.status = "valid" /\ Intact(m)

\* A version that only a full export may step over.
Damaged(m) == m.status = "unreadable" \/ (m.status = "valid" /\ ~Intact(m))

\* Mutant: an incremental export falls back as a full one does.
StepsOverAny(mode, m) == ~Usable(m)

\* usable_baseline, newest first: the first usable version, unless an
\* incremental export meets a damaged one before it.
MayStepOver(mode, m) == ~Usable(m) /\ (mode = "incremental" => ~Damaged(m))

IsBaseline(ds, mode, m) ==
  IF m = NoDraft
  THEN \A n \in Of(ds) : MayStepOver(mode, n)
  ELSE /\ m \in Of(ds) /\ Usable(m)
       /\ \A n \in Of(ds) : Older(m.ver, n.ver) => MayStepOver(mode, n)

\* latest_valid_version and load_manifest, and read for a window of every day.
ServesReaders(m) ==
  /\ m.status = "valid"
  /\ Intact(m)
  /\ \A n \in Of(m.ds) : Older(m.ver, n.ver) => n.status = "invalid"

\* next_data_version: above every version of the day, the invalid ones too.
IsNextVersion(ds, v) ==
  LET sameDay == {m \in Of(ds) : m.ver[1] = today}
  IN /\ v[1] = today
     /\ v[2] \in 1..(MaxExports + 1)
     /\ \A m \in sameDay : m.ver[2] < v[2]
     /\ v[2] = 1 \/ \E m \in sameDay : m.ver[2] = v[2] - 1

-------------------------------------------------------------------------------
(* Leaving                                                                 *)

Forget(e) ==
  /\ pc' = [pc EXCEPT ![e] = "idle"]
  /\ alone' = [alone EXCEPT ![e] = FALSE]
  /\ base' = [base EXCEPT ![e] = NoDraft]
  /\ job' = [job EXCEPT ![e] = NoJob]
  /\ done' = [done EXCEPT ![e] = NoRows]
  /\ spot' = [spot EXCEPT ![e] = NoSpot]
  /\ draft' = [draft EXCEPT ![e] = NoDraft]
  /\ refs' = [refs EXCEPT ![e] = {}]

\* Counts n events against the bound.
Happens(n) == events + n <= MaxEvents /\ events' = events + n

Outside == <<source, today, links, begun, lost>>

\* The process is killed, or something it calls raises: its session ends, and
\* whatever it has left in the lake stays.
Fail(e) ==
  /\ pc[e] # "idle"
  /\ Happens(1)
  /\ Forget(e)
  /\ UNCHANGED <<Outside, files, spool, manifests>>

-------------------------------------------------------------------------------
(* _export_one                                                             *)

Unaccompanied(e) == \A y \in Exporters \ {e} : pc[y] = "idle"

\* An incremental export that meets a damaged version first is refused here and
\* changes nothing.
Begin(e) ==
  /\ pc[e] = "idle"
  /\ begun < MaxExports
  /\ begun' = begun + 1
  /\ \E ds \in Datasets, mode \in {"full", "incremental"} :
     \E m \in manifests \cup {NoDraft} :
       /\ IsBaseline(ds, mode, m)
       /\ base' = [base EXCEPT ![e] = m]
       /\ job' = [job EXCEPT ![e] = [NoJob EXCEPT !.ds = ds, !.mode = mode]]
  /\ pc' = [pc EXCEPT ![e] = "based"]
  /\ Happens(IF Unaccompanied(e) THEN 0 ELSE 1)
  /\ alone' = [x \in Exporters |-> x = e /\ Unaccompanied(e)]
  /\ UNCHANGED <<source, today, links, lost, files, spool, manifests, done, spot,
                 draft, refs>>

\* Whether symbol map, quality flags or null count differ from the baseline's.
MetaChoices(e) ==
  IF base[e] = NoDraft THEN {FALSE} ELSE BOOLEAN

Span(ds) == {c[2] : c \in {x \in Cells : source[<<ds, x>>] # Empty}}

DaysOf(m) == {c[2] : c \in DOMAIN m.parts}

\* _resolve_window: an incremental export starts behind the last day of its
\* baseline, any other with the first day the source has rows of.
IsWindowStart(e, end, start) ==
  LET known == DaysOf(base[e])
      held == Span(job[e].ds)
  IN IF job[e].mode = "incremental" /\ known # {}
     THEN start - 1 \in known /\ \A d \in known : d < start
     ELSE IF held = {} THEN start = end
     ELSE start \in held /\ \A d \in held : start <= d

\* --window-end, by default today.
Ends == 1..today

\* discover_cells
RowsIn(ds, start, end) ==
  LET found == {c \in Cells : source[<<ds, c>>] # Empty
                              /\ start <= c[2] /\ c[2] < end}
  IN [c \in found |-> source[<<ds, c>>]]

\* produce_partitions: a cell with the digest the baseline has keeps its file.
Inherited(e, rows) ==
  LET same == {c \in DOMAIN rows \cap DOMAIN base[e].parts :
                 base[e].parts[c].dig = rows[c]}
  IN [c \in same |-> base[e].parts[c]]

\* The REPEATABLE READ snapshot, the window, and the version to come.
TakeSnapshot(e) ==
  /\ pc[e] = "based"
  /\ \E end \in Ends, start \in 1..(LastDay + 1), meta \in MetaChoices(e) :
     /\ IsWindowStart(e, end, start)
     /\ Happens(IF meta THEN 1 ELSE 0)
     /\ IF /\ start >= end /\ base[e] # NoDraft /\ ~meta
           /\ ~(job[e].mode = "full" /\ DOMAIN base[e].parts # {})
        THEN Forget(e)   \* window-empty
        ELSE /\ \E v \in {today} \X (1..(MaxExports + 1)) :
                  /\ IsNextVersion(job[e].ds, v)
                  /\ job' = [job EXCEPT ![e] =
                       [ds |-> job[e].ds, mode |-> job[e].mode, end |-> end,
                        start |-> start, rows |-> RowsIn(job[e].ds, start, end),
                        meta |-> meta, ver |-> v]]
             /\ done' = [done EXCEPT ![e] =
                           Inherited(e, RowsIn(job[e].ds, start, end))]
             /\ pc' = [pc EXCEPT ![e] = "producing"]
             /\ UNCHANGED <<alone, base, spot, draft, refs>>
  /\ UNCHANGED <<Outside, files, spool, manifests>>

(* write_partition, for the next cell *)

Todo(e) == DOMAIN job[e].rows \ DOMAIN done[e]

\* One above the highest revision in the directory.
FreeRevs(ds, c) ==
  {r \in Revs : /\ \A q \in Revs : files[<<ds, c, q>>] # Empty => q < r
                /\ r = 1 \/ files[<<ds, c, r - 1>>] # Empty}

Stage(e) ==
  /\ pc[e] = "producing"
  /\ \E c \in Todo(e) :
     LET ds == job[e].ds IN
       /\ \A x \in Todo(e) : c[2] <= x[2]
       /\ \E r \in FreeRevs(ds, c), bytes \in {job[e].rows[c], Garbled} :
            /\ Happens(IF bytes = Garbled THEN 1 ELSE 0)
            /\ spot' = [spot EXCEPT ![e] = [path |-> <<ds, c, r>>,
                                            spool |-> <<ds, c[2], r>>,
                                            sha |-> Empty]]
            /\ spool' = [spool EXCEPT ![<<ds, c[2], r>>] = bytes]
  /\ pc' = [pc EXCEPT ![e] = "staged"]
  /\ UNCHANGED <<Outside, files, manifests, alone, base, job, done, draft, refs>>

\* Mutant: a staging file somebody removed is hashed as an empty one.
HashAnything(e) ==
  /\ pc[e] = "staged"
  /\ spot' = [spot EXCEPT ![e].sha = spool[spot[e].spool]]
  /\ pc' = [pc EXCEPT ![e] = "hashed"]
  /\ UNCHANGED <<Outside, events, files, spool, manifests, alone, base, job, done,
                 draft, refs>>

\* file_sha256 of the staging file.
Hash(e) ==
  /\ pc[e] = "staged"
  /\ spool[spot[e].spool] # Empty
  /\ spot' = [spot EXCEPT ![e].sha = spool[spot[e].spool]]
  /\ pc' = [pc EXCEPT ![e] = "hashed"]
  /\ UNCHANGED <<Outside, events, files, spool, manifests, alone, base, job, done, draft,
                 refs>>

\* staging.replace(final)
Land(e) ==
  /\ pc[e] = "hashed"
  /\ spool[spot[e].spool] # Empty
  /\ LET c == spot[e].path[2]
         part == [path |-> spot[e].path, dig |-> job[e].rows[c],
                  sha |-> spot[e].sha]
     IN done' = [done EXCEPT ![e] =
                   [x \in DOMAIN @ \cup {c} |-> IF x = c THEN part ELSE @[x]]]
  /\ files' = [files EXCEPT ![spot[e].path] = spool[spot[e].spool]]
  /\ spool' = [spool EXCEPT ![spot[e].spool] = Empty]
  /\ spot' = [spot EXCEPT ![e] = NoSpot]
  /\ pc' = [pc EXCEPT ![e] = "producing"]
  /\ UNCHANGED <<Outside, events, manifests, alone, base, job, draft, refs>>

(* From the last cell to the manifest *)

Written(e) == {c \in DOMAIN done[e] :
                 c \in DOMAIN base[e].parts => done[e][c] # base[e].parts[c]}

\* empty_cell_keys: the cells that ought to have rows.  A full export looks
\* between the first and the last day of a pair, an incremental one at every day
\* of its window for every pair it knows.
EmptyCells(e) ==
  LET present(p) == {d \in Days : <<p, d>> \in DOMAIN done[e]}
      known(p) == \/ present(p) # {}
                  \/ \E d \in Days : \/ <<p, d>> \in DOMAIN base[e].parts
                                     \/ <<p, d>> \in base[e].skipped
      span(p) == IF job[e].mode = "full"
                 THEN {d \in Days : \E a, b \in present(p) : a < d /\ d < b}
                 ELSE {d \in Days : known(p) /\ job[e].start <= d /\ d < job[e].end}
  IN {c \in Cells : c[2] \in span(c[1]) \ present(c[1])}

\* synthesize_skipped
Skipped(e) ==
  EmptyCells(e) \cup IF job[e].mode = "incremental"
                     THEN base[e].skipped \ DOMAIN done[e] ELSE {}

\* merge_partitions: an incremental export keeps all its baseline has, a full
\* one is what it found in the source.
Merged(e) ==
  LET kept == IF job[e].mode = "incremental" THEN DOMAIN base[e].parts ELSE {}
  IN [c \in kept \cup DOMAIN done[e] |->
        IF c \in DOMAIN done[e] THEN done[e][c] ELSE base[e].parts[c]]

\* Mutant: the verdict is reported and never becomes the status.
AlwaysValid(e) == "valid"

\* _reconcile_partitions: each file just written is read back and compared with
\* the rows in the same snapshot; a file that is gone raises.
Reconciled(e) ==
  IF \A c \in Written(e) : files[done[e][c].path] = done[e][c].dig
  THEN "valid" ELSE "invalid"

\* guard_full_shrink; --allow-shrink is no help against a cut window.
Shrinks(e, allow) ==
  LET old == base[e].parts
      new == Merged(e)
  IN /\ job[e].mode = "full" /\ DOMAIN old # {}
     /\ \/ \E d \in DaysOf(base[e]) : d >= job[e].end
        \/ /\ ~allow
           /\ Cardinality(DOMAIN new) * 2 < Cardinality(DOMAIN old)

\* What compute_value_digest is taken of.
Digests(parts) == {<<c, parts[c].dig>> : c \in DOMAIN parts}

Unchanged(e) ==
  /\ Reconciled(e) = "valid"
  /\ base[e] # NoDraft /\ ~job[e].meta
  /\ Digests(Merged(e)) = Digests(base[e].parts)
  /\ Skipped(e) = base[e].skipped

Finish(e) ==
  /\ pc[e] = "producing"
  /\ Todo(e) = {}
  /\ \A c \in Written(e) : files[done[e][c].path] # Empty
  /\ \E allow \in BOOLEAN :
       \/ /\ Shrinks(e, allow)
          /\ Forget(e)
          /\ UNCHANGED spool
       \/ /\ ~Shrinks(e, allow) /\ Unchanged(e)   \* content-unchanged
          /\ Forget(e)
          /\ spool' = [s \in Spools |-> IF s[1] = job[e].ds THEN Empty
                                        ELSE spool[s]]
       \/ /\ ~Shrinks(e, allow) /\ ~Unchanged(e)
          /\ draft' = [draft EXCEPT ![e] =
               [ds |-> job[e].ds, ver |-> job[e].ver, status |-> Reconciled(e),
                parts |-> Merged(e), skipped |-> Skipped(e),
                alone |-> FALSE, clean |-> FALSE]]
          /\ pc' = [pc EXCEPT ![e] = "ready"]
          /\ UNCHANGED <<alone, base, job, done, spot, refs, spool>>
  /\ UNCHANGED <<Outside, events, files, manifests>>

(* publish_manifest *)

\* The manifest with what the history variables know of its export.  It is clean
\* when it was alone and so was every export whose files it inherits.
Signed(e) ==
  [draft[e] EXCEPT !.alone = alone[e],
                   !.clean = alone[e] /\ (base[e] = NoDraft \/ base[e].clean)]

Taken(e) == \E m \in Of(job[e].ds) : m.ver = job[e].ver

PublishRefused(e) ==
  /\ pc[e] = "ready"
  /\ Taken(e)
  /\ Forget(e)
  /\ UNCHANGED <<Outside, events, files, spool, manifests>>

\* Mutant: an existing manifest is replaced.
PublishOver(e) ==
  /\ pc[e] = "ready"
  /\ links
  /\ manifests' = {m \in manifests : ~(m.ds = job[e].ds /\ m.ver = job[e].ver)}
                    \cup {Signed(e)}
  /\ pc' = [pc EXCEPT ![e] = "tidy"]
  /\ draft' = [draft EXCEPT ![e] = NoDraft]
  /\ UNCHANGED <<Outside, events, files, spool, alone, base, job, done, spot, refs>>

PublishLink(e) ==
  /\ pc[e] = "ready"
  /\ ~Taken(e)
  /\ links
  /\ manifests' = manifests \cup {Signed(e)}
  /\ pc' = [pc EXCEPT ![e] = "tidy"]
  /\ draft' = [draft EXCEPT ![e] = NoDraft]
  /\ UNCHANGED <<Outside, events, files, spool, alone, base, job, done, spot, refs>>

\* The manifest between its O_EXCL creation and the end of the write.
HalfWritten(e) ==
  [NoDraft EXCEPT !.ds = job[e].ds, !.ver = job[e].ver, !.status = "unreadable"]

PublishCreate(e) ==
  /\ pc[e] = "ready"
  /\ ~Taken(e)
  /\ ~links
  /\ manifests' = manifests \cup {HalfWritten(e)}
  /\ pc' = [pc EXCEPT ![e] = "filling"]
  /\ UNCHANGED <<Outside, events, files, spool, alone, base, job, done, spot, draft, refs>>

PublishFill(e) ==
  /\ pc[e] = "filling"
  /\ manifests' = (manifests \ {HalfWritten(e)}) \cup {Signed(e)}
  /\ pc' = [pc EXCEPT ![e] = "tidy"]
  /\ draft' = [draft EXCEPT ![e] = NoDraft]
  /\ UNCHANGED <<Outside, events, files, spool, alone, base, job, done, spot, refs>>

(* After the publication *)

\* remove_staging
Tidy(e) ==
  /\ pc[e] = "tidy"
  /\ job[e].mode = "incremental"
  /\ spool' = [s \in Spools |-> IF s[1] = job[e].ds THEN Empty ELSE spool[s]]
  /\ Forget(e)
  /\ UNCHANGED <<Outside, events, files, manifests>>

\* Mutant: what an invalid version names is no reason to keep a file.
NamedByValid == UNION {{m.parts[c].path : c \in DOMAIN m.parts} :
                         m \in {n \in manifests : n.status = "valid"}}

\* cleanup_orphans: what any manifest of any dataset names.
Named == UNION {{m.parts[c].path : c \in DOMAIN m.parts} : m \in manifests}

Collect(e) ==
  /\ pc[e] = "tidy"
  /\ job[e].mode = "full"
  /\ \A m \in manifests : m.status # "unreadable"
  /\ refs' = [refs EXCEPT ![e] = Named]
  /\ pc' = [pc EXCEPT ![e] = "sweeping"]
  /\ UNCHANGED <<Outside, events, files, spool, manifests, alone, base, job, done, spot,
                 draft>>

\* load_manifest raises: nothing is removed.
CollectRefused(e) ==
  /\ pc[e] = "tidy"
  /\ job[e].mode = "full"
  /\ \E m \in manifests : m.status = "unreadable"
  /\ Forget(e)
  /\ UNCHANGED <<Outside, events, files, spool, manifests>>

Sweep(e) ==
  /\ pc[e] = "sweeping"
  /\ files' = [p \in Paths |-> IF p \in refs[e] THEN files[p] ELSE Empty]
  /\ spool' = [s \in Spools |-> Empty]
  /\ Forget(e)
  /\ UNCHANGED <<Outside, events, manifests>>

-------------------------------------------------------------------------------
(* The environment                                                         *)

\* Rows and date are read in one step, TakeSnapshot: what happens to them between
\* two snapshots happens when the second is about to be taken.
SnapshotIsNext == \E e \in Exporters : pc[e] = "based"

\* Collectors write, revise or remove rows, of a past day as well.
SourceChanges ==
  /\ SnapshotIsNext
  /\ Happens(1)
  /\ \E ds \in Datasets, c \in Cells, v \in Values \cup {Empty} :
       /\ c[2] <= today
       /\ source' = [source EXCEPT ![<<ds, c>>] = v]
  /\ UNCHANGED <<today, files, spool, manifests, links, exporterVars, begun, lost>>

NextDay ==
  /\ SnapshotIsNext
  /\ today <= LastDay
  /\ Happens(1)
  /\ today' = today + 1
  /\ UNCHANGED <<source, files, spool, manifests, links, exporterVars, begun, lost>>

\* A partition file goes missing or is corrupted behind the exporters' backs.
\* The history it leaves, alone, is that of an export it disturbs.
LoseFile ==
  /\ Happens(1)
  /\ \E p \in Paths, bytes \in {Empty, Garbled} :
       /\ files[p] \notin {Empty, bytes}
       /\ files' = [files EXCEPT ![p] = bytes]
       /\ lost' = lost \cup {p}
  /\ alone' = [e \in Exporters |-> FALSE]
  /\ UNCHANGED <<source, today, spool, manifests, links, pc, base, job, done, spot,
                 draft, refs, begun>>

ExporterStep(e) ==
  \/ Begin(e) \/ TakeSnapshot(e) \/ Stage(e) \/ Hash(e) \/ Land(e) \/ Finish(e)
  \/ PublishRefused(e) \/ PublishLink(e) \/ PublishCreate(e) \/ PublishFill(e)
  \/ Tidy(e) \/ Collect(e) \/ CollectRefused(e) \/ Sweep(e) \/ Fail(e)

LakeNext ==
  \/ \E e \in Exporters : ExporterStep(e)
  \/ SourceChanges \/ NextDay \/ LoseFile

LakeSpec == LakeInit /\ [][LakeNext]_lakeVars

-------------------------------------------------------------------------------
(* Properties                                                              *)

Places   == {"idle", "based", "producing", "staged", "hashed", "ready", "filling",
             "tidy", "sweeping"}
Versions == Nat \X Nat
Entries  == [path : Paths, dig : Values, sha : Values \cup {Garbled}]
PartMaps == UNION {[D -> Entries] : D \in SUBSET Cells}
RowMaps  == UNION {[D -> Values] : D \in SUBSET Cells}
Manifests == [ds : Datasets \cup {NoVersion}, ver : Versions,
              status : {"none", "valid", "invalid", "unreadable"}, parts : PartMaps,
              skipped : SUBSET Cells, alone : BOOLEAN, clean : BOOLEAN]
Jobs  == [ds : Datasets \cup {NoVersion}, mode : {"none", "full", "incremental"},
          end : Int, start : Int, rows : RowMaps, meta : BOOLEAN, ver : Versions]
Spots == [path : Paths \cup {NoVersion}, spool : Spools \cup {NoVersion},
          sha : Contents]

\* Source, lake and exporters keep to their types: an entry of a manifest names a
\* file and the digest of bytes that were there (partitions.py:184-199).
LakeTypeOK ==
  /\ source \in [Datasets \X Cells -> Values \cup {Empty}]
  /\ today \in 1..(LastDay + 1)
  /\ files \in [Paths -> Contents]
  /\ spool \in [Spools -> Contents]
  /\ manifests \subseteq Manifests
  /\ links \in BOOLEAN
  /\ pc \in [Exporters -> Places]
  /\ alone \in [Exporters -> BOOLEAN]
  /\ base \in [Exporters -> Manifests]
  /\ job \in [Exporters -> Jobs]
  /\ done \in [Exporters -> PartMaps]
  /\ spot \in [Exporters -> Spots]
  /\ draft \in [Exporters -> Manifests]
  /\ refs \in [Exporters -> SUBSET Paths]
  /\ lost \subseteq Paths

\* A version that was exported alone keeps every file it names, byte for byte,
\* through every later export, cleanup and crash, those of exports that overlap
\* included; only a file damaged from outside is excepted (partitions.py:322-323,
\* manifest.py:283).
SoloVersionsStayIntact ==
  \A m \in manifests : m.alone =>
    \A c \in DOMAIN m.parts :
      m.parts[c].path \notin lost =>
        files[m.parts[c].path] = m.parts[c].sha

\* A valid version hands a reader the rows the source held: what its files hold
\* is what their digests were taken of, the inherited files included
\* (exporter.py:81, 228-236; reconcile.py:99-107).
ServedRowsAreSourceRows ==
  \A m \in manifests : m.clean /\ m.status = "valid" =>
    \A c \in DOMAIN m.parts :
      m.parts[c].path \notin lost =>
        files[m.parts[c].path] = m.parts[c].dig

\* One manifest to a version: a published one is never rewritten or removed, and
\* of two exports that computed the same version one is refused (manifest.py:283).
PublishedNeverChanges ==
  [][/\ \A m \in manifests : m.status # "unreadable" => m \in manifests'
     /\ \A m, n \in manifests' : m.ds = n.ds /\ m.ver = n.ver => m = n]_lakeVars

\* An incremental export that ran alone takes over every cell of the newest valid
\* version, unchanged below its window (manifest.py:327-329).
IncrementalLosesNothing ==
  [][\A e \in Exporters :
       pc'[e] = "tidy" /\ pc[e] # "tidy" /\ alone[e]
       /\ job[e].mode = "incremental" =>
         \A m \in manifests' \ manifests :
         \A old \in {n \in Of(m.ds) : n.status = "valid"} :
           (\A n \in Of(m.ds) : Older(old.ver, n.ver) => n.status # "valid") =>
             \A c \in DOMAIN old.parts :
               /\ c \in DOMAIN m.parts
               /\ c[2] < job[e].start => m.parts[c] = old.parts[c]]_lakeVars

\* After a valid export that ran alone readers of the newest version get it, and
\* get it whole: what was damaged before it began is repaired or stepped over
\* (manifest.py:318-329, 124-129).
SoloExportIsReadNext ==
  [][\A e \in Exporters :
       pc'[e] = "tidy" /\ pc[e] # "tidy" /\ alone[e] =>
         \A m \in manifests' \ manifests :
           m.status = "valid" => ServesReaders(m)']_lakeVars
===============================================================================
