------------------------------- MODULE LakeProofs -------------------------------
(***************************************************************************)
(* Proofs about Lake, for any number of datasets, exporters, pairs and days: *)
(* what an undisturbed export published stays on disk and is what the source *)
(* held, manifests never change, and the newest version lacks nothing.       *)
(***************************************************************************)
EXTENDS Lake, TLAPS

-------------------------------------------------------------------------------
(* Types, and what an exporter has in hand by where it is                  *)

Writing == {"staged", "hashed"}
Produces == {"producing", "staged", "hashed"}
Publishes == {"ready", "filling"}

JobAt(e) ==
  /\ pc[e] \in {"idle", "based"} => done[e] = NoRows /\ draft[e] = NoDraft
  /\ pc[e] # "idle" => job[e].ds \in Datasets
  /\ pc[e] \in Writing =>
       /\ spot[e].path \in Paths /\ spot[e].spool \in Spools
       /\ spot[e].path[2] \in DOMAIN job[e].rows
  /\ pc[e] = "hashed" => spot[e].sha # Empty
  /\ pc[e] \in Produces =>
       /\ DOMAIN done[e] \subseteq DOMAIN job[e].rows
       /\ \A c \in DOMAIN job[e].rows : job[e].start <= c[2]
  /\ pc[e] \in Publishes =>
       /\ draft[e].ds = job[e].ds /\ draft[e].ver = job[e].ver
       /\ draft[e].status \in {"valid", "invalid"}

JobInv == \A e \in Exporters : JobAt(e)

LEMMA NoRowsType == /\ NoRows \in PartMaps /\ NoRows \in RowMaps
                    /\ DOMAIN NoRows = {}
<1>1. NoRows \in [{} -> Entries] /\ NoRows \in [{} -> Values]
      BY DEF NoRows
<1> QED BY <1>1 DEF NoRows, PartMaps, RowMaps

LEMMA PartMapFacts ==
  ASSUME NEW M \in PartMaps
  PROVE  /\ DOMAIN M \subseteq Cells
         /\ \A c \in DOMAIN M : M[c] \in Entries
BY DEF PartMaps

LEMMA PartMapIntro ==
  ASSUME NEW D \in SUBSET Cells, NEW M \in [D -> Entries]
  PROVE  M \in PartMaps
BY DEF PartMaps

LEMMA EmptyHands ==
  /\ NoDraft \in Manifests /\ NoJob \in Jobs /\ NoSpot \in Spots
BY NoRowsType
   DEF NoDraft, NoJob, NoSpot, Manifests, Jobs, Spots, Versions, Contents

LEMMA ForgetType ==
  ASSUME LakeTypeOK, NEW e \in Exporters, Forget(e)
  PROVE  /\ pc' \in [Exporters -> Places] /\ alone' \in [Exporters -> BOOLEAN]
         /\ base' \in [Exporters -> Manifests] /\ job' \in [Exporters -> Jobs]
         /\ done' \in [Exporters -> PartMaps] /\ spot' \in [Exporters -> Spots]
         /\ draft' \in [Exporters -> Manifests]
         /\ refs' \in [Exporters -> SUBSET Paths]
BY EmptyHands, NoRowsType DEF LakeTypeOK, Forget, Places

LEMMA InitType == LakeInit => LakeTypeOK /\ JobInv
<1> SUFFICES ASSUME LakeInit PROVE LakeTypeOK /\ JobInv
    OBVIOUS
<1> USE DEF LakeInit
<1>1. source \in [Datasets \X Cells -> Values \cup {Empty}]
      BY LakeAssumption DEF Cells, Days
<1>2. LakeTypeOK
      BY <1>1, EmptyHands, NoRowsType, LakeAssumption
      DEF LakeTypeOK, Places, Contents
<1>3. JobInv
      BY DEF JobInv, JobAt, Writing, Produces, Publishes
<1> QED BY <1>2, <1>3

LEMMA RowsInType ==
  ASSUME LakeTypeOK, NEW ds \in Datasets, NEW start, NEW end
  PROVE  /\ RowsIn(ds, start, end) \in RowMaps
         /\ \A c \in DOMAIN RowsIn(ds, start, end) : start <= c[2]
<1> DEFINE found == {c \in Cells : source[<<ds, c>>] # Empty
                                     /\ start <= c[2] /\ c[2] < end}
<1>1. \A c \in found : source[<<ds, c>>] \in Values
      BY DEF LakeTypeOK
<1>2. RowsIn(ds, start, end) \in [found -> Values] /\ found \in SUBSET Cells
      BY <1>1 DEF RowsIn
<1> QED BY <1>2 DEF RowMaps

LEMMA InheritedType ==
  ASSUME LakeTypeOK, NEW e \in Exporters, NEW rows
  PROVE  /\ Inherited(e, rows) \in PartMaps
         /\ DOMAIN Inherited(e, rows) \subseteq DOMAIN rows
         /\ \A c \in DOMAIN Inherited(e, rows) :
              c \in DOMAIN base[e].parts /\ Inherited(e, rows)[c] = base[e].parts[c]
<1> DEFINE same == {c \in DOMAIN rows \cap DOMAIN base[e].parts :
                      base[e].parts[c].dig = rows[c]}
<1>1. base[e].parts \in PartMaps
      BY DEF LakeTypeOK, Manifests
<1>2. same \in SUBSET Cells /\ \A c \in same : base[e].parts[c] \in Entries
      BY <1>1, PartMapFacts
<1>3. Inherited(e, rows) = [c \in same |-> base[e].parts[c]]
      BY DEF Inherited
<1> HIDE DEF same
<1>4. Inherited(e, rows) \in PartMaps
      BY <1>2, <1>3, PartMapIntro
<1> QED BY <1>3, <1>4 DEF same

LEMMA MergedType ==
  ASSUME LakeTypeOK, NEW e \in Exporters
  PROVE  /\ Merged(e) \in PartMaps
         /\ \A c \in DOMAIN Merged(e) :
              Merged(e)[c] = IF c \in DOMAIN done[e] THEN done[e][c] ELSE base[e].parts[c]
         /\ \A c \in DOMAIN Merged(e) : c \notin DOMAIN done[e] => c \in DOMAIN base[e].parts
         /\ job[e].mode = "incremental" => DOMAIN base[e].parts \subseteq DOMAIN Merged(e)
<1> DEFINE kept == IF job[e].mode = "incremental" THEN DOMAIN base[e].parts ELSE {}
           D == kept \cup DOMAIN done[e]
<1>1. base[e].parts \in PartMaps /\ done[e] \in PartMaps
      BY DEF LakeTypeOK, Manifests
<1>2. /\ D \in SUBSET Cells
      /\ \A c \in D : (IF c \in DOMAIN done[e] THEN done[e][c] ELSE base[e].parts[c])
                        \in Entries
      BY <1>1, PartMapFacts
<1>3. Merged(e) = [c \in D |-> IF c \in DOMAIN done[e] THEN done[e][c]
                               ELSE base[e].parts[c]]
      BY DEF Merged
<1>4. \A c \in D : c \notin DOMAIN done[e] => c \in DOMAIN base[e].parts
      OBVIOUS
<1>5. job[e].mode = "incremental" => DOMAIN base[e].parts \subseteq D
      OBVIOUS
<1> HIDE DEF D
<1>6. Merged(e) \in PartMaps
      BY <1>2, <1>3, PartMapIntro
<1> QED BY <1>3, <1>4, <1>5, <1>6

LEMMA StageType ==
  ASSUME LakeTypeOK, JobInv, NEW e \in Exporters, Stage(e)
  PROVE  /\ spool' \in [Spools -> Contents] /\ spot' \in [Exporters -> Spots]
         /\ spot'[e].path \in Paths /\ spot'[e].spool \in Spools
         /\ spot'[e].path[2] \in DOMAIN job[e].rows
         /\ files[spot'[e].path] = Empty
         /\ \A y \in Exporters : y # e => spot'[y] = spot[y]
<1>a. PICK c \in Todo(e) :
        \E r \in FreeRevs(job[e].ds, c), bytes \in {job[e].rows[c], Garbled} :
          /\ spot' = [spot EXCEPT ![e] = [path |-> <<job[e].ds, c, r>>,
                                         spool |-> <<job[e].ds, c[2], r>>,
                                         sha |-> Empty]]
          /\ spool' = [spool EXCEPT ![<<job[e].ds, c[2], r>>] = bytes]
      BY DEF Stage
<1>1. PICK r \in FreeRevs(job[e].ds, c), bytes \in {job[e].rows[c], Garbled} :
        /\ spot' = [spot EXCEPT ![e] = [path |-> <<job[e].ds, c, r>>,
                                       spool |-> <<job[e].ds, c[2], r>>,
                                       sha |-> Empty]]
        /\ spool' = [spool EXCEPT ![<<job[e].ds, c[2], r>>] = bytes]
      BY <1>a
<1>2. job[e].ds \in Datasets /\ job[e].rows \in RowMaps
      BY DEF Stage, JobInv, JobAt, LakeTypeOK, Jobs
<1>3. c \in Cells /\ c \in DOMAIN job[e].rows /\ job[e].rows[c] \in Values
      BY <1>a, <1>2 DEF Todo, RowMaps
<1>4. r \in Revs /\ c[2] \in Days
      BY <1>3 DEF FreeRevs, Cells
<1>5. <<job[e].ds, c, r>> \in Paths /\ <<job[e].ds, c[2], r>> \in Spools
      BY <1>2, <1>3, <1>4 DEF Paths, Spools
<1>6. files[<<job[e].ds, c, r>>] = Empty
  <2>1. \A q \in Revs : files[<<job[e].ds, c, q>>] # Empty => q < r
        BY DEF FreeRevs
  <2> QED BY <1>4, <2>1 DEF Revs
<1>7. bytes \in Contents /\ Empty \in Contents
      BY <1>3 DEF Contents
<1>8. spot'[e] = [path |-> <<job[e].ds, c, r>>, spool |-> <<job[e].ds, c[2], r>>,
                  sha |-> Empty]
      BY <1>1 DEF LakeTypeOK
<1>9. [path |-> <<job[e].ds, c, r>>, spool |-> <<job[e].ds, c[2], r>>, sha |-> Empty]
        \in Spots
      BY <1>5, <1>7 DEF Spots
<1>10. spool' \in [Spools -> Contents] /\ spot' \in [Exporters -> Spots]
      BY <1>1, <1>5, <1>7, <1>9 DEF LakeTypeOK
<1>11. <<job[e].ds, c, r>>[2] = c
      OBVIOUS
<1> QED BY <1>1, <1>3, <1>5, <1>6, <1>8, <1>10, <1>11 DEF LakeTypeOK

\* The entry of the cell that lands.
Landed(e) == [path |-> spot[e].path, dig |-> job[e].rows[spot[e].path[2]],
              sha |-> spot[e].sha]

LEMMA LandType ==
  ASSUME LakeTypeOK, JobInv, NEW e \in Exporters, Land(e)
  PROVE  /\ done' \in [Exporters -> PartMaps] /\ Landed(e) \in Entries
         /\ spot[e].path[2] \in DOMAIN job[e].rows
         /\ DOMAIN done'[e] = DOMAIN done[e] \cup {spot[e].path[2]}
         /\ \A x \in DOMAIN done'[e] :
              done'[e][x] = IF x = spot[e].path[2] THEN Landed(e) ELSE done[e][x]
         /\ \A y \in Exporters : y # e => done'[y] = done[y]
<1> DEFINE c == spot[e].path[2]
           M == [x \in DOMAIN done[e] \cup {c} |-> IF x = c THEN Landed(e) ELSE done[e][x]]
<1>1. done' = [done EXCEPT ![e] = M]
      BY DEF Land, Landed
<1>2. /\ spot[e].path \in Paths /\ c \in DOMAIN job[e].rows /\ spot[e].sha # Empty
      /\ job[e].rows \in RowMaps /\ spot[e] \in Spots
      BY DEF Land, JobInv, JobAt, Writing, LakeTypeOK, Jobs
<1>3. c \in Cells /\ job[e].rows[c] \in Values
      BY <1>2 DEF RowMaps
<1>4. spot[e].sha \in Values \cup {Garbled}
      BY <1>2 DEF Spots, Contents
<1>5. Landed(e) \in Entries
      BY <1>2, <1>3, <1>4 DEF Landed, Entries
<1>6. done[e] \in PartMaps
      BY DEF LakeTypeOK
<1>7. DOMAIN done[e] \subseteq Cells /\ \A x \in DOMAIN done[e] : done[e][x] \in Entries
      BY <1>6, PartMapFacts
<1> HIDE DEF c
<1>8. M \in [DOMAIN done[e] \cup {c} -> Entries] /\ DOMAIN done[e] \cup {c} \in SUBSET Cells
      BY <1>3, <1>5, <1>7
<1>9. M \in PartMaps
      BY <1>8, PartMapIntro
<1>10. done' \in [Exporters -> PartMaps] /\ done'[e] = M
      BY <1>1, <1>9 DEF LakeTypeOK
<1>11. \A y \in Exporters : y # e => done'[y] = done[y]
      BY <1>1 DEF LakeTypeOK
<1> QED BY <1>2, <1>5, <1>8, <1>10, <1>11 DEF c

LEMMA SignedType ==
  ASSUME LakeTypeOK, NEW e \in Exporters
  PROVE  /\ Signed(e) \in Manifests
         /\ Signed(e).ds = draft[e].ds /\ Signed(e).ver = draft[e].ver
         /\ Signed(e).status = draft[e].status /\ Signed(e).parts = draft[e].parts
         /\ Signed(e).alone = alone[e]
         /\ Signed(e).clean = (alone[e] /\ (base[e] = NoDraft \/ base[e].clean))
<1>1. draft[e] \in Manifests /\ alone[e] \in BOOLEAN
      BY DEF LakeTypeOK
<1> QED BY <1>1 DEF Signed, Manifests

LEMMA StepType ==
  ASSUME LakeTypeOK, JobInv, LakeNext
  PROVE  LakeTypeOK'
<1>1. ASSUME NEW e \in Exporters, Fail(e) \/ PublishRefused(e) \/ CollectRefused(e)
      PROVE  LakeTypeOK'
      BY <1>1, ForgetType DEF LakeTypeOK, Fail, PublishRefused, CollectRefused, Outside
<1>2. ASSUME NEW e \in Exporters, Begin(e) PROVE LakeTypeOK'
  <2>1. PICK ds \in Datasets, mode \in {"full", "incremental"},
             m \in manifests \cup {NoDraft} :
          /\ base' = [base EXCEPT ![e] = m]
          /\ job' = [job EXCEPT ![e] = [NoJob EXCEPT !.ds = ds, !.mode = mode]]
        BY <1>2 DEF Begin
  <2>2. m \in Manifests
        BY EmptyHands DEF LakeTypeOK
  <2>3. [NoJob EXCEPT !.ds = ds, !.mode = mode] \in Jobs
        BY EmptyHands DEF NoJob, Jobs
  <2> QED BY <1>2, <2>1, <2>2, <2>3 DEF LakeTypeOK, Begin, Places
<1>3. ASSUME NEW e \in Exporters, TakeSnapshot(e) PROVE LakeTypeOK'
  <2>1. CASE Forget(e)
        BY <1>3, <2>1, ForgetType DEF TakeSnapshot, LakeTypeOK, Outside
  <2>2. CASE ~Forget(e)
    <3>1. PICK end \in Ends, start \in 1..(LastDay + 1), meta \in MetaChoices(e),
               v \in {today} \X (1..(MaxExports + 1)) :
            /\ job' = [job EXCEPT ![e] =
                 [ds |-> job[e].ds, mode |-> job[e].mode, end |-> end,
                  start |-> start, rows |-> RowsIn(job[e].ds, start, end),
                  meta |-> meta, ver |-> v]]
            /\ done' = [done EXCEPT ![e] =
                          Inherited(e, RowsIn(job[e].ds, start, end))]
            /\ pc' = [pc EXCEPT ![e] = "producing"]
            /\ UNCHANGED <<alone, base, spot, draft, refs>>
          BY <1>3, <2>2 DEF TakeSnapshot
    <3>2. job[e].ds \in Datasets /\ job[e].mode \in {"none", "full", "incremental"}
          BY <1>3 DEF TakeSnapshot, JobInv, JobAt, LakeTypeOK, Jobs
    <3>3. RowsIn(job[e].ds, start, end) \in RowMaps
          BY <3>2, RowsInType
    <3>4. Inherited(e, RowsIn(job[e].ds, start, end)) \in PartMaps
          BY InheritedType
    <3>d. today \in Nat /\ LastDay \in Nat /\ MaxExports \in Nat
          BY LakeAssumption DEF LakeTypeOK
    <3>v. v \in Versions
          BY <3>d DEF Versions
    <3>n. end \in Int /\ start \in Int
          BY <3>d DEF Ends
    <3>5. v \in Versions /\ end \in Int /\ start \in Int /\ meta \in BOOLEAN
          BY <3>v, <3>n DEF MetaChoices
    <3>6. [ds |-> job[e].ds, mode |-> job[e].mode, end |-> end,
           start |-> start, rows |-> RowsIn(job[e].ds, start, end),
           meta |-> meta, ver |-> v] \in Jobs
          BY <3>2, <3>3, <3>5 DEF Jobs
    <3> HIDE DEF Inherited
    <3>7. job' \in [Exporters -> Jobs] /\ done' \in [Exporters -> PartMaps]
          BY <3>1, <3>4, <3>6 DEF LakeTypeOK
    <3> QED BY <1>3, <3>1, <3>7 DEF TakeSnapshot, LakeTypeOK, Places, Outside
  <2> QED BY <2>1, <2>2
<1>4. ASSUME NEW e \in Exporters, Stage(e) PROVE LakeTypeOK'
      BY <1>4, StageType DEF Stage, LakeTypeOK, Places, Outside
<1>5. ASSUME NEW e \in Exporters, Hash(e) PROVE LakeTypeOK'
  <2>1. spot[e].spool \in Spools /\ spot[e] \in Spots
        BY <1>5 DEF Hash, JobInv, JobAt, Writing, LakeTypeOK
  <2>2. [spot[e] EXCEPT !.sha = spool[spot[e].spool]] \in Spots
        BY <2>1 DEF Spots, LakeTypeOK
  <2> QED BY <1>5, <2>2 DEF Hash, LakeTypeOK, Places, Outside
<1>6. ASSUME NEW e \in Exporters, Land(e) PROVE LakeTypeOK'
  <2>1. spot[e].spool \in Spools /\ spot[e].path \in Paths /\ Empty \in Contents
        BY <1>6 DEF Land, JobInv, JobAt, Writing, Contents
  <2>2. files' \in [Paths -> Contents] /\ spool' \in [Spools -> Contents]
        BY <1>6, <2>1 DEF Land, LakeTypeOK
  <2> QED BY <1>6, <2>2, LandType, EmptyHands DEF Land, LakeTypeOK, Places, Outside
<1>7. ASSUME NEW e \in Exporters, Finish(e) PROVE LakeTypeOK'
  <2>1. spool' \in [Spools -> Contents]
        BY <1>7 DEF Finish, LakeTypeOK, Contents
  <2>2. CASE Forget(e)
        BY <1>7, <2>1, <2>2, ForgetType DEF Finish, LakeTypeOK, Outside
  <2>3. CASE ~Forget(e)
    <3> DEFINE d == [ds |-> job[e].ds, ver |-> job[e].ver, status |-> Reconciled(e),
                     parts |-> Merged(e), skipped |-> Skipped(e),
                     alone |-> FALSE, clean |-> FALSE]
    <3>1. /\ draft' = [draft EXCEPT ![e] = d]
          /\ pc' = [pc EXCEPT ![e] = "ready"]
          /\ UNCHANGED <<alone, base, job, done, spot, refs>>
          BY <1>7, <2>3 DEF Finish
    <3>2. Skipped(e) \in SUBSET Cells
          BY DEF Skipped, EmptyCells, LakeTypeOK, Manifests
    <3>3. Merged(e) \in PartMaps
          BY MergedType
    <3>4. d \in Manifests
          BY <3>2, <3>3 DEF Manifests, Reconciled, LakeTypeOK, Jobs
    <3> HIDE DEF d
    <3> QED BY <1>7, <2>1, <3>1, <3>4 DEF Finish, LakeTypeOK, Places, Outside
  <2> QED BY <2>2, <2>3
<1>8. ASSUME NEW e \in Exporters, PublishLink(e) \/ PublishFill(e) PROVE LakeTypeOK'
      BY <1>8, SignedType, EmptyHands
      DEF PublishLink, PublishFill, LakeTypeOK, Places, Outside
<1>9. ASSUME NEW e \in Exporters, PublishCreate(e) PROVE LakeTypeOK'
  <2>1. HalfWritten(e) \in Manifests
        BY EmptyHands DEF HalfWritten, NoDraft, Manifests, LakeTypeOK, Jobs
  <2> QED BY <1>9, <2>1 DEF PublishCreate, LakeTypeOK, Places, Outside
<1>10. ASSUME NEW e \in Exporters, Tidy(e) PROVE LakeTypeOK'
      BY <1>10, ForgetType DEF Tidy, LakeTypeOK, Outside, Contents
<1>11. ASSUME NEW e \in Exporters, Collect(e) PROVE LakeTypeOK'
  <2>1. Named \subseteq Paths
    <3>1. ASSUME NEW m \in manifests, NEW c \in DOMAIN m.parts
          PROVE  m.parts[c].path \in Paths
      <4>1. m.parts \in PartMaps
            BY DEF LakeTypeOK, Manifests
      <4> QED BY <4>1, PartMapFacts DEF Entries
    <3> QED BY <3>1 DEF Named
  <2> QED BY <1>11, <2>1 DEF Collect, LakeTypeOK, Places, Outside
<1>12. ASSUME NEW e \in Exporters, Sweep(e) PROVE LakeTypeOK'
      BY <1>12, ForgetType DEF Sweep, LakeTypeOK, Outside, Contents
<1>13. CASE SourceChanges
      BY <1>13 DEF SourceChanges, LakeTypeOK, exporterVars
<1>14. CASE NextDay
      BY <1>14, LakeAssumption DEF NextDay, LakeTypeOK, exporterVars
<1>15. CASE LoseFile
      BY <1>15 DEF LoseFile, LakeTypeOK, Contents
<1> QED BY <1>1, <1>2, <1>3, <1>4, <1>5, <1>6, <1>7, <1>8, <1>9, <1>10, <1>11,
           <1>12, <1>13, <1>14, <1>15 DEF LakeNext, ExporterStep

\* An exporter's step leaves the others what they have in hand.
LEMMA OthersKeep ==
  ASSUME LakeTypeOK, NEW e \in Exporters, ExporterStep(e),
         NEW y \in Exporters, y # e
  PROVE  /\ pc'[y] = pc[y] /\ base'[y] = base[y] /\ job'[y] = job[y]
         /\ done'[y] = done[y] /\ spot'[y] = spot[y] /\ draft'[y] = draft[y]
         /\ refs'[y] = refs[y] /\ (alone'[y] => alone[y])
<1>1. ASSUME Forget(e)
      PROVE  /\ pc'[y] = pc[y] /\ base'[y] = base[y] /\ job'[y] = job[y]
             /\ done'[y] = done[y] /\ spot'[y] = spot[y] /\ draft'[y] = draft[y]
             /\ refs'[y] = refs[y] /\ (alone'[y] => alone[y])
      BY <1>1 DEF Forget, LakeTypeOK
<1>2. CASE Fail(e) \/ PublishRefused(e) \/ CollectRefused(e) \/ Tidy(e) \/ Sweep(e)
      BY <1>1, <1>2 DEF Fail, PublishRefused, CollectRefused, Tidy, Sweep
<1>3. CASE Begin(e)
      BY <1>3 DEF Begin, LakeTypeOK
<1>4. CASE TakeSnapshot(e) /\ ~Forget(e)
  <2>1. /\ UNCHANGED <<alone, base, spot, draft, refs>>
        /\ pc' = [pc EXCEPT ![e] = "producing"]
        /\ \E x : job' = [job EXCEPT ![e] = x]
        /\ \E x : done' = [done EXCEPT ![e] = x]
        BY <1>4 DEF TakeSnapshot
  <2> QED BY <2>1 DEF LakeTypeOK
<1>5. CASE Stage(e)
      BY <1>5 DEF Stage, LakeTypeOK
<1>6. CASE Hash(e)
      BY <1>6 DEF Hash, LakeTypeOK
<1>7. CASE Land(e)
      BY <1>7 DEF Land, LakeTypeOK
<1>8. CASE Finish(e) /\ ~Forget(e)
  <2>1. /\ UNCHANGED <<alone, base, job, done, spot, refs>>
        /\ pc' = [pc EXCEPT ![e] = "ready"]
        /\ \E x : draft' = [draft EXCEPT ![e] = x]
        BY <1>8 DEF Finish
  <2> QED BY <2>1 DEF LakeTypeOK
<1>9. CASE PublishLink(e) \/ PublishCreate(e) \/ PublishFill(e)
      BY <1>9 DEF PublishLink, PublishCreate, PublishFill, LakeTypeOK
<1>10. CASE Collect(e)
      BY <1>10 DEF Collect, LakeTypeOK
<1> QED BY <1>1, <1>2, <1>3, <1>4, <1>5, <1>6, <1>7, <1>8, <1>9, <1>10 DEF ExporterStep

\* A snapshot that is not the last thing its export does.
LEMMA SnapshotStep ==
  ASSUME LakeTypeOK, JobInv, NEW e \in Exporters, TakeSnapshot(e), ~Forget(e)
  PROVE  /\ pc'[e] = "producing"
         /\ UNCHANGED <<alone, base, spot, draft, refs, files, spool, manifests, lost,
                        today>>
         /\ job'[e].ds = job[e].ds /\ job'[e].mode = job[e].mode
         /\ IsNextVersion(job[e].ds, job'[e].ver)
         /\ job'[e].ver \in {today} \X (1..(MaxExports + 1))
         /\ done'[e] \in PartMaps /\ DOMAIN done'[e] \subseteq DOMAIN job'[e].rows
         /\ \A c \in DOMAIN done'[e] :
              c \in DOMAIN base[e].parts /\ done'[e][c] = base[e].parts[c]
         /\ \A c \in DOMAIN job'[e].rows : job'[e].start <= c[2]
<1>1. PICK end \in Ends, start \in 1..(LastDay + 1), meta \in MetaChoices(e),
           v \in {today} \X (1..(MaxExports + 1)) :
        /\ IsNextVersion(job[e].ds, v)
        /\ job' = [job EXCEPT ![e] =
             [ds |-> job[e].ds, mode |-> job[e].mode, end |-> end,
              start |-> start, rows |-> RowsIn(job[e].ds, start, end),
              meta |-> meta, ver |-> v]]
        /\ done' = [done EXCEPT ![e] = Inherited(e, RowsIn(job[e].ds, start, end))]
        /\ pc' = [pc EXCEPT ![e] = "producing"]
        /\ UNCHANGED <<alone, base, spot, draft, refs>>
      BY DEF TakeSnapshot
<1> DEFINE rows == RowsIn(job[e].ds, start, end)
<1>2. job[e].ds \in Datasets
      BY DEF TakeSnapshot, JobInv, JobAt
<1>3. \A c \in DOMAIN rows : start <= c[2]
      BY <1>2, RowsInType
<1>4. /\ Inherited(e, rows) \in PartMaps
      /\ DOMAIN Inherited(e, rows) \subseteq DOMAIN rows
      /\ \A c \in DOMAIN Inherited(e, rows) :
           c \in DOMAIN base[e].parts /\ Inherited(e, rows)[c] = base[e].parts[c]
      BY InheritedType
<1> HIDE DEF rows
<1>5. job'[e] = [ds |-> job[e].ds, mode |-> job[e].mode, end |-> end,
                 start |-> start, rows |-> rows, meta |-> meta, ver |-> v]
      BY <1>1 DEF rows, LakeTypeOK
<1>6. done'[e] = Inherited(e, rows) /\ pc'[e] = "producing"
      BY <1>1 DEF rows, LakeTypeOK
<1>7. UNCHANGED <<files, spool, manifests, lost, today>>
      BY DEF TakeSnapshot, Outside
<1> QED BY <1>1, <1>3, <1>4, <1>5, <1>6, <1>7

\* A finish that leads to a publication.
LEMMA FinishStep ==
  ASSUME LakeTypeOK, NEW e \in Exporters, Finish(e), ~Forget(e)
  PROVE  /\ pc'[e] = "ready"
         /\ UNCHANGED <<alone, base, job, done, spot, refs, files, spool, manifests,
                        lost, today>>
         /\ draft'[e].ds = job[e].ds /\ draft'[e].ver = job[e].ver
         /\ draft'[e].status = Reconciled(e) /\ draft'[e].parts = Merged(e)
<1>1. /\ draft' = [draft EXCEPT ![e] =
           [ds |-> job[e].ds, ver |-> job[e].ver, status |-> Reconciled(e),
            parts |-> Merged(e), skipped |-> Skipped(e),
            alone |-> FALSE, clean |-> FALSE]]
      /\ pc' = [pc EXCEPT ![e] = "ready"]
      /\ UNCHANGED <<alone, base, job, done, spot, refs, spool>>
      BY DEF Finish
<1>2. UNCHANGED <<files, manifests, lost, today>>
      BY DEF Finish, Outside
<1>3. draft'[e] = [ds |-> job[e].ds, ver |-> job[e].ver, status |-> Reconciled(e),
                   parts |-> Merged(e), skipped |-> Skipped(e),
                   alone |-> FALSE, clean |-> FALSE]
      BY <1>1 DEF LakeTypeOK
<1>4. pc'[e] = "ready"
      BY <1>1 DEF LakeTypeOK
<1> QED BY <1>1, <1>2, <1>3, <1>4

LEMMA BeginStep ==
  ASSUME LakeTypeOK, NEW e \in Exporters, Begin(e)
  PROVE  /\ pc[e] = "idle" /\ pc'[e] = "based"
         /\ UNCHANGED <<done, spot, draft, refs, files, spool, manifests, lost, today>>
         /\ job'[e].ds \in Datasets /\ job'[e].ver = <<0, 0>>
         /\ job'[e].mode \in {"full", "incremental"}
         /\ base'[e] \in manifests \cup {NoDraft}
         /\ IsBaseline(job'[e].ds, job'[e].mode, base'[e])
         /\ \A x \in Exporters : alone'[x] <=> (x = e /\ Unaccompanied(e))
<1>1. PICK ds \in Datasets, mode \in {"full", "incremental"},
           m \in manifests \cup {NoDraft} :
        /\ IsBaseline(ds, mode, m)
        /\ base' = [base EXCEPT ![e] = m]
        /\ job' = [job EXCEPT ![e] = [NoJob EXCEPT !.ds = ds, !.mode = mode]]
      BY DEF Begin
<1>2. job'[e] = [NoJob EXCEPT !.ds = ds, !.mode = mode] /\ base'[e] = m
      BY <1>1 DEF LakeTypeOK
<1>3. job'[e].ds = ds /\ job'[e].mode = mode /\ job'[e].ver = <<0, 0>>
      BY <1>2 DEF NoJob
<1>4. pc[e] = "idle" /\ pc'[e] = "based"
      BY DEF Begin, LakeTypeOK
<1>5. \A x \in Exporters : alone'[x] <=> (x = e /\ Unaccompanied(e))
      BY DEF Begin, Unaccompanied
<1> QED BY <1>1, <1>2, <1>3, <1>4, <1>5 DEF Begin

LEMMA ForgetStep ==
  ASSUME LakeTypeOK, NEW e \in Exporters, Forget(e)
  PROVE  /\ pc'[e] = "idle" /\ ~alone'[e] /\ done'[e] = NoRows /\ draft'[e] = NoDraft
         /\ base'[e] = NoDraft /\ job'[e] = NoJob
BY DEF Forget, LakeTypeOK

LEMMA JobStep ==
  ASSUME LakeTypeOK, JobInv, LakeNext
  PROVE  JobInv'
<1>1. ASSUME NEW e \in Exporters, ExporterStep(e), JobAt(e)' PROVE JobInv'
  <2>1. ASSUME NEW y \in Exporters, y # e PROVE JobAt(y)'
    <3>1. JobAt(y)
          BY DEF JobInv
    <3> QED BY <1>1, <2>1, <3>1, OthersKeep DEF JobAt
  <2> QED BY <1>1, <2>1 DEF JobInv
<1>2. ASSUME NEW e \in Exporters, ExporterStep(e) PROVE JobAt(e)'
  <2>0. JobAt(e)
        BY DEF JobInv
  <2>1. CASE Forget(e)
        BY <2>1, ForgetStep DEF JobAt, Writing, Produces, Publishes
  <2>2. CASE Begin(e)
        BY <2>0, <2>2, BeginStep DEF JobAt, Writing, Produces, Publishes
  <2>3. CASE TakeSnapshot(e) /\ ~Forget(e)
    <3>1. job[e].ds \in Datasets
          BY <2>0, <2>3 DEF TakeSnapshot, JobAt
    <3> QED BY <2>3, <3>1, SnapshotStep DEF JobAt, Writing, Produces, Publishes
  <2>4. CASE Stage(e)
    <3>1. pc[e] = "producing" /\ pc'[e] = "staged" /\ UNCHANGED <<job, done, draft>>
          BY <2>4 DEF Stage, LakeTypeOK
    <3> QED BY <2>0, <2>4, <3>1, StageType DEF JobAt, Writing, Produces, Publishes
  <2>5. CASE Hash(e)
    <3>1. /\ pc[e] = "staged" /\ pc'[e] = "hashed" /\ UNCHANGED <<job, done, draft>>
          /\ spot'[e].path = spot[e].path /\ spot'[e].spool = spot[e].spool
          /\ spot'[e].sha # Empty
          BY <2>5 DEF Hash, LakeTypeOK, Spots
    <3> QED BY <2>0, <3>1 DEF JobAt, Writing, Produces, Publishes
  <2>6. CASE Land(e)
    <3>1. pc[e] = "hashed" /\ pc'[e] = "producing" /\ UNCHANGED <<job, draft>>
          BY <2>6 DEF Land, LakeTypeOK
    <3> QED BY <2>0, <2>6, <3>1, LandType DEF JobAt, Writing, Produces, Publishes
  <2>7. CASE Finish(e) /\ ~Forget(e)
    <3>1. job[e].ds \in Datasets
          BY <2>0, <2>7 DEF Finish, JobAt
    <3>2. /\ pc'[e] = "ready" /\ job' = job
          /\ draft'[e].ds = job[e].ds /\ draft'[e].ver = job[e].ver
          /\ draft'[e].status = Reconciled(e)
          BY <2>7, FinishStep
    <3>3. Reconciled(e) \in {"valid", "invalid"}
          BY DEF Reconciled
    <3> QED BY <3>1, <3>2, <3>3 DEF JobAt, Writing, Produces, Publishes
  <2>8. CASE PublishCreate(e)
    <3>1. pc[e] = "ready" /\ pc'[e] = "filling" /\ UNCHANGED <<job, done, draft, spot>>
          BY <2>8 DEF PublishCreate, LakeTypeOK
    <3> QED BY <2>0, <3>1 DEF JobAt, Writing, Produces, Publishes
  <2>9. CASE PublishLink(e) \/ PublishFill(e) \/ Collect(e)
    <3>1. /\ pc[e] # "idle" /\ pc'[e] \in {"tidy", "sweeping"} /\ UNCHANGED job
          BY <2>9 DEF PublishLink, PublishFill, Collect, LakeTypeOK
    <3> QED BY <2>0, <3>1 DEF JobAt, Writing, Produces, Publishes
  <2> QED BY <1>2, <2>1, <2>2, <2>3, <2>4, <2>5, <2>6, <2>7, <2>8, <2>9
          DEF ExporterStep, Fail, PublishRefused, CollectRefused, Tidy, Sweep
<1>3. CASE SourceChanges \/ NextDay \/ LoseFile
      BY <1>3 DEF SourceChanges, NextDay, LoseFile, exporterVars, JobInv, JobAt
<1> QED BY <1>1, <1>2, <1>3 DEF LakeNext

-------------------------------------------------------------------------------
(* An export that runs alone, and what it published                        *)

Holds(F, parts) == \A c \in DOMAIN parts : F[parts[c].path] = parts[c].sha
Avoids(p, parts) == \A c \in DOMAIN parts : parts[c].path # p

Solitude == \A e \in Exporters : alone[e] => pc[e] # "idle" /\ Unaccompanied(e)

\* The place a cell is written to is named by no version of an undisturbed export.
SpotIsFree ==
  \A e \in Exporters : pc[e] \in Writing =>
    \A m \in manifests : m.alone =>
      \A c \in DOMAIN m.parts :
        m.parts[c].path \notin lost => m.parts[c].path # spot[e].path

SweepSpares ==
  \A e \in Exporters : pc[e] = "sweeping" =>
    \A m \in manifests : m.alone =>
      \A c \in DOMAIN m.parts : m.parts[c].path \in refs[e]

\* What an undisturbed export has in hand is on disk.
HandsAt(e) ==
  alone[e] =>
    /\ pc[e] \in {"based"} \cup Produces => Holds(files, base[e].parts)
    /\ pc[e] \in Produces => Holds(files, done[e])
    /\ pc[e] \in Writing => /\ Avoids(spot[e].path, base[e].parts)
                           /\ Avoids(spot[e].path, done[e])
    /\ pc[e] = "hashed" => spool[spot[e].spool] = spot[e].sha
    /\ pc[e] \in Publishes => Holds(files, draft[e].parts)

HandsInv == \A e \in Exporters : HandsAt(e)

SoloInv == Solitude /\ HandsInv /\ SoloVersionsStayIntact /\ SpotIsFree /\ SweepSpares

LEMMA SolitudeStep ==
  ASSUME LakeTypeOK, Solitude, LakeNext
  PROVE  Solitude'
<1>1. ASSUME NEW e \in Exporters, ExporterStep(e) PROVE Solitude'
  <2>1. CASE Begin(e)
    <3>1. \A x \in Exporters : alone'[x] => x = e /\ Unaccompanied(e)
          BY <2>1, BeginStep
    <3>2. pc'[e] = "based" /\ \A y \in Exporters : y # e => pc'[y] = pc[y]
          BY <1>1, <2>1, BeginStep, OthersKeep
    <3> QED BY <3>1, <3>2 DEF Solitude, Unaccompanied
  <2>2. CASE ~Begin(e)
    <3>1. pc[e] # "idle"
          BY <1>1, <2>2 DEF ExporterStep, Fail, TakeSnapshot, Stage, Hash, Land, Finish,
             PublishRefused, PublishLink, PublishCreate, PublishFill, Tidy, Collect,
             CollectRefused, Sweep
    <3>2. \A y \in Exporters : y # e => ~alone[y]
          BY <3>1 DEF Solitude, Unaccompanied
    <3>3. \A y \in Exporters : y # e => pc'[y] = pc[y] /\ (alone'[y] => alone[y])
          BY <1>1, OthersKeep
    <3>4. Forget(e) \/ (alone' = alone /\ pc'[e] # "idle")
          BY <1>1, <2>2
          DEF ExporterStep, Fail, TakeSnapshot, Stage, Hash, Land, Finish,
             PublishRefused, PublishLink, PublishCreate, PublishFill, Tidy, Collect,
             CollectRefused, Sweep, LakeTypeOK
    <3>5. alone'[e] => alone[e] /\ pc'[e] # "idle"
          BY <3>4, ForgetStep
    <3> QED BY <3>2, <3>3, <3>5 DEF Solitude, Unaccompanied
  <2> QED BY <2>1, <2>2
<1>2. CASE SourceChanges \/ NextDay \/ LoseFile
      BY <1>2 DEF SourceChanges, NextDay, LoseFile, exporterVars, Solitude, Unaccompanied
<1> QED BY <1>1, <1>2 DEF LakeNext

\* While one export is undisturbed no other takes a step, except to begin.
LEMMA OnlyOneActs ==
  ASSUME LakeTypeOK, Solitude, NEW e \in Exporters, alone[e],
         NEW x \in Exporters, ExporterStep(x), x # e
  PROVE  Begin(x) /\ ~alone'[e]
<1>1. pc[x] = "idle" /\ pc[e] # "idle"
      BY DEF Solitude, Unaccompanied
<1>2. Begin(x)
      BY <1>1 DEF ExporterStep, Fail, TakeSnapshot, Stage, Hash, Land, Finish,
         PublishRefused, PublishLink, PublishCreate, PublishFill, Tidy, Collect,
         CollectRefused, Sweep
<1> QED BY <1>2, BeginStep

LEMMA HoldsAfterWrite ==
  ASSUME NEW F \in [Paths -> Contents], NEW parts \in PartMaps, NEW p \in Paths, NEW x,
         Holds(F, parts), Avoids(p, parts)
  PROVE  Holds([F EXCEPT ![p] = x], parts)
<1>1. \A c \in DOMAIN parts : parts[c].path \in Paths
      BY PartMapFacts DEF Entries
<1> QED BY <1>1 DEF Holds, Avoids

LEMMA EmptyIsAvoided ==
  ASSUME NEW F \in [Paths -> Contents], NEW parts \in PartMaps, NEW p \in Paths,
         Holds(F, parts), F[p] = Empty
  PROVE  Avoids(p, parts)
<1>1. \A c \in DOMAIN parts : parts[c].sha # Empty
  <2>1. \A c \in DOMAIN parts : parts[c].sha \in Values \cup {Garbled}
        BY PartMapFacts DEF Entries
  <2> QED BY <2>1, LakeAssumption
<1> QED BY <1>1 DEF Holds, Avoids

LEMMA HandsStep ==
  ASSUME LakeTypeOK, JobInv, Solitude, HandsInv, LakeNext
  PROVE  HandsInv'
<1> SUFFICES ASSUME NEW e \in Exporters, alone'[e] PROVE HandsAt(e)'
    BY DEF HandsInv, HandsAt
<1>0. HandsAt(e) /\ JobAt(e) /\ base[e].parts \in PartMaps /\ done[e] \in PartMaps
      BY DEF HandsInv, JobInv, LakeTypeOK, Manifests
<1>1. CASE SourceChanges \/ NextDay
      BY <1>0, <1>1 DEF SourceChanges, NextDay, exporterVars, HandsAt
<1>2. CASE LoseFile
      BY <1>2 DEF LoseFile
<1>3. ASSUME NEW x \in Exporters, ExporterStep(x), x # e PROVE FALSE
  <2>1. alone[e]
        BY <1>3, OthersKeep
  <2> QED BY <1>3, <2>1, OnlyOneActs
<1>4. CASE Begin(e)
  <2>1. base'[e] \in manifests \cup {NoDraft} /\ files' = files /\ pc'[e] = "based"
        BY <1>4, BeginStep
  <2>2. base'[e] # NoDraft => Intact(base'[e])
        BY <1>4, BeginStep DEF IsBaseline, Usable
  <2>3. DOMAIN NoDraft.parts = {}
        BY NoRowsType DEF NoDraft
  <2>4. Holds(files', base'[e].parts)
        BY <2>1, <2>2, <2>3 DEF Holds, Intact
  <2> QED BY <2>1, <2>4 DEF HandsAt, Produces, Writing, Publishes
<1>5. CASE Forget(e)
      BY <1>5, ForgetStep
<1>6. CASE TakeSnapshot(e) /\ ~Forget(e)
  <2>1. /\ pc[e] = "based" /\ pc'[e] = "producing" /\ UNCHANGED <<alone, base, files>>
        /\ \A c \in DOMAIN done'[e] :
             c \in DOMAIN base[e].parts /\ done'[e][c] = base[e].parts[c]
        BY <1>6, SnapshotStep DEF TakeSnapshot
  <2>2. Holds(files, base[e].parts)
        BY <1>0, <2>1 DEF HandsAt
  <2>3. Holds(files, done'[e])
        BY <2>1, <2>2 DEF Holds
  <2> QED BY <2>1, <2>2, <2>3 DEF HandsAt, Produces, Writing, Publishes
<1>7. CASE Stage(e)
  <2>1. /\ pc[e] = "producing" /\ pc'[e] = "staged"
        /\ UNCHANGED <<alone, base, done, files>>
        BY <1>7 DEF Stage, Outside, LakeTypeOK
  <2>2. Holds(files, base[e].parts) /\ Holds(files, done[e])
        BY <1>0, <2>1 DEF HandsAt, Produces
  <2>3. spot'[e].path \in Paths /\ files[spot'[e].path] = Empty
        BY <1>7, StageType
  <2>4. Avoids(spot'[e].path, base[e].parts) /\ Avoids(spot'[e].path, done[e])
        BY <1>0, <2>2, <2>3, EmptyIsAvoided DEF LakeTypeOK
  <2> QED BY <2>1, <2>2, <2>4 DEF HandsAt, Produces, Writing, Publishes
<1>8. CASE Hash(e)
  <2>1. /\ pc[e] = "staged" /\ pc'[e] = "hashed"
        /\ UNCHANGED <<alone, base, done, files, spool>>
        /\ spot'[e].path = spot[e].path /\ spot'[e].spool = spot[e].spool
        /\ spot'[e].sha = spool[spot[e].spool]
        BY <1>8 DEF Hash, Outside, LakeTypeOK, Spots
  <2> QED BY <1>0, <2>1 DEF HandsAt, Produces, Writing, Publishes
<1>9. CASE Land(e)
  <2>1. /\ pc[e] = "hashed" /\ pc'[e] = "producing" /\ UNCHANGED <<alone, base>>
        /\ files' = [files EXCEPT ![spot[e].path] = spool[spot[e].spool]]
        BY <1>9 DEF Land, Outside, LakeTypeOK
  <2>2. spot[e].path \in Paths
        BY <1>0, <2>1 DEF JobAt, Writing
  <2>3. /\ Holds(files, base[e].parts) /\ Holds(files, done[e])
        /\ Avoids(spot[e].path, base[e].parts) /\ Avoids(spot[e].path, done[e])
        /\ spool[spot[e].spool] = spot[e].sha
        BY <1>0, <2>1 DEF HandsAt, Produces, Writing
  <2>4. Holds(files', base[e].parts) /\ Holds(files', done[e])
        BY <1>0, <2>1, <2>2, <2>3, HoldsAfterWrite DEF LakeTypeOK
  <2>5. files'[Landed(e).path] = Landed(e).sha
        BY <2>1, <2>2, <2>3 DEF Landed, LakeTypeOK
  <2>6. Holds(files', done'[e])
        BY <1>9, <2>4, <2>5, LandType DEF Holds
  <2> QED BY <2>1, <2>4, <2>6 DEF HandsAt, Produces, Writing, Publishes
<1>10. CASE Finish(e) /\ ~Forget(e)
  <2>1. /\ pc[e] = "producing" /\ pc'[e] = "ready" /\ UNCHANGED <<alone, files>>
        /\ draft'[e].parts = Merged(e)
        BY <1>10, FinishStep DEF Finish
  <2>2. Holds(files, base[e].parts) /\ Holds(files, done[e])
        BY <1>0, <2>1 DEF HandsAt, Produces
  <2>3. Holds(files, Merged(e))
        BY <2>2, MergedType DEF Holds
  <2> QED BY <2>1, <2>3 DEF HandsAt, Produces, Writing, Publishes
<1>11. CASE PublishCreate(e)
  <2>1. /\ pc[e] = "ready" /\ pc'[e] = "filling" /\ UNCHANGED <<alone, files, draft>>
        BY <1>11 DEF PublishCreate, Outside, LakeTypeOK
  <2> QED BY <1>0, <2>1 DEF HandsAt, Produces, Writing, Publishes
<1>12. CASE PublishLink(e) \/ PublishFill(e) \/ Collect(e)
  <2>1. pc'[e] \in {"tidy", "sweeping"}
        BY <1>12 DEF PublishLink, PublishFill, Collect, LakeTypeOK
  <2> QED BY <2>1 DEF HandsAt, Produces, Writing, Publishes
<1> QED BY <1>1, <1>2, <1>3, <1>4, <1>5, <1>6, <1>7, <1>8, <1>9, <1>10, <1>11, <1>12
        DEF LakeNext, ExporterStep, Fail, PublishRefused, CollectRefused, Tidy, Sweep

Publication(e) == PublishLink(e) \/ PublishFill(e)

\* Manifests come from publications only.
LEMMA ManifestsStep ==
  ASSUME LakeTypeOK, JobInv, LakeNext
  PROVE  \/ manifests' = manifests
         \/ \E e \in Exporters :
              /\ pc[e] \in Publishes /\ UNCHANGED <<files, lost, alone, spot, refs, today>>
              /\ \/ /\ PublishCreate(e) /\ pc'[e] = "filling"
                    /\ manifests' = manifests \cup {HalfWritten(e)}
                 \/ /\ Publication(e) /\ pc'[e] = "tidy"
                    /\ manifests' \subseteq manifests \cup {Signed(e)}
<1>1. ASSUME NEW e \in Exporters, PublishLink(e) \/ PublishFill(e) \/ PublishCreate(e)
      PROVE  /\ pc[e] \in Publishes /\ UNCHANGED <<files, lost, alone, spot, refs, today>>
             /\ \/ /\ PublishCreate(e) /\ pc'[e] = "filling"
                   /\ manifests' = manifests \cup {HalfWritten(e)}
                \/ /\ Publication(e) /\ pc'[e] = "tidy"
                   /\ manifests' \subseteq manifests \cup {Signed(e)}
      BY <1>1 DEF PublishLink, PublishFill, PublishCreate, Publishes, Publication, Outside,
         LakeTypeOK
<1>2. ASSUME NEW e \in Exporters, ExporterStep(e),
             ~(PublishLink(e) \/ PublishFill(e) \/ PublishCreate(e))
      PROVE  manifests' = manifests
      BY <1>2 DEF ExporterStep, Fail, TakeSnapshot, Stage, Hash, Land, Finish,
         PublishRefused, Tidy, Collect, CollectRefused, Sweep, Begin
<1>3. SourceChanges \/ NextDay \/ LoseFile => manifests' = manifests
      BY DEF SourceChanges, NextDay, LoseFile
<1> QED BY <1>1, <1>2, <1>3 DEF LakeNext

LEMMA HalfWrittenFacts ==
  ASSUME NEW e \in Exporters
  PROVE  /\ HalfWritten(e).ds = job[e].ds /\ HalfWritten(e).ver = job[e].ver
         /\ HalfWritten(e).status = "unreadable" /\ ~HalfWritten(e).alone
         /\ ~HalfWritten(e).clean /\ DOMAIN HalfWritten(e).parts = {}
BY NoRowsType DEF HalfWritten, NoDraft

\* Versions of undisturbed exports keep their files, whatever else is written.
LEMMA NewAloneManifest ==
  ASSUME LakeTypeOK, JobInv, SoloInv, LakeNext,
         NEW m \in manifests', m \notin manifests, m.alone
  PROVE  \E e \in Exporters :
           /\ alone[e] /\ pc[e] \in Publishes /\ pc'[e] = "tidy" /\ m = Signed(e)
           /\ UNCHANGED <<files, lost, spot, refs>> /\ Holds(files, m.parts)
           /\ \A y \in Exporters : y # e => pc'[y] = "idle"
<1>1. PICK e \in Exporters :
        /\ pc[e] \in Publishes /\ UNCHANGED <<files, lost, alone, spot, refs, today>>
        /\ \/ /\ PublishCreate(e) /\ pc'[e] = "filling"
              /\ manifests' = manifests \cup {HalfWritten(e)}
           \/ /\ Publication(e) /\ pc'[e] = "tidy"
              /\ manifests' \subseteq manifests \cup {Signed(e)}
      BY ManifestsStep
<1>2. m = Signed(e) /\ pc'[e] = "tidy" /\ Publication(e)
      BY <1>1, HalfWrittenFacts
<1>3. alone[e] /\ m.parts = draft[e].parts
      BY <1>2, SignedType
<1>4. Holds(files, m.parts)
      BY <1>1, <1>3 DEF SoloInv, HandsInv, HandsAt
<1>5. \A y \in Exporters : y # e => pc[y] = "idle"
      BY <1>3 DEF SoloInv, Solitude, Unaccompanied
<1>6. \A y \in Exporters : y # e => pc'[y] = "idle"
      BY <1>2, <1>5, OthersKeep DEF ExporterStep, Publication
<1> QED BY <1>1, <1>2, <1>3, <1>4, <1>6

LEMMA AlonePartFacts ==
  ASSUME LakeTypeOK, NEW m \in manifests, NEW c \in DOMAIN m.parts
  PROVE  m.parts[c].path \in Paths /\ m.parts[c].sha # Empty
<1>1. m.parts \in PartMaps
      BY DEF LakeTypeOK, Manifests
<1>2. m.parts[c] \in Entries
      BY <1>1, PartMapFacts
<1> QED BY <1>2, LakeAssumption DEF Entries

LEMMA SoloFilesStep ==
  ASSUME LakeTypeOK, JobInv, SoloInv, LakeNext
  PROVE  SoloVersionsStayIntact'
<1> SUFFICES ASSUME NEW m \in manifests', m.alone, NEW c \in DOMAIN m.parts,
                    m.parts[c].path \notin lost'
             PROVE  files'[m.parts[c].path] = m.parts[c].sha
    BY DEF SoloVersionsStayIntact
<1>1. CASE m \notin manifests
      BY <1>1, NewAloneManifest DEF Holds
<1>2. CASE m \in manifests
  <2> DEFINE p == m.parts[c].path
  <2>0. p \in Paths
        BY <1>2, AlonePartFacts
  <2>1. CASE LoseFile
    <3>1. p \notin lost /\ files'[p] = files[p]
          BY <2>0, <2>1 DEF LoseFile, LakeTypeOK
    <3> QED BY <1>2, <3>1 DEF SoloInv, SoloVersionsStayIntact
  <2>2. CASE SourceChanges \/ NextDay
        BY <1>2, <2>2 DEF SourceChanges, NextDay, SoloInv, SoloVersionsStayIntact
  <2>3. ASSUME NEW e \in Exporters, Land(e) PROVE files'[p] = files[p] /\ lost' = lost
    <3>1. lost' = lost /\ pc[e] = "hashed" /\ spot[e].path \in Paths
          BY <2>3 DEF Land, Outside, JobInv, JobAt, Writing
    <3>2. p # spot[e].path
          BY <1>2, <3>1 DEF SoloInv, SpotIsFree, Writing
    <3>3. files' = [files EXCEPT ![spot[e].path] = spool[spot[e].spool]]
          BY <2>3 DEF Land
    <3> QED BY <2>0, <3>1, <3>2, <3>3 DEF LakeTypeOK
  <2>4. ASSUME NEW e \in Exporters, Sweep(e) PROVE files'[p] = files[p] /\ lost' = lost
    <3>1. p \in refs[e]
          BY <1>2, <2>4 DEF Sweep, SoloInv, SweepSpares
    <3> QED BY <2>0, <2>4, <3>1 DEF Sweep, Outside
  <2>5. ASSUME NEW e \in Exporters, ExporterStep(e), ~Land(e), ~Sweep(e)
        PROVE  files' = files /\ lost' = lost
        BY <2>5 DEF ExporterStep, Fail, TakeSnapshot, Stage, Hash, Finish, Begin, Outside,
           PublishRefused, PublishLink, PublishCreate, PublishFill, Tidy, Collect,
           CollectRefused
  <2>6. ASSUME files'[p] = files[p] /\ lost' = lost
        PROVE  files'[p] = m.parts[c].sha
        BY <1>2, <2>6 DEF SoloInv, SoloVersionsStayIntact
  <2> QED BY <2>1, <2>2, <2>3, <2>4, <2>5, <2>6 DEF LakeNext, ExporterStep
<1> QED BY <1>1, <1>2

LEMMA SpotStep ==
  ASSUME LakeTypeOK, JobInv, SoloInv, LakeNext
  PROVE  SpotIsFree'
<1> SUFFICES ASSUME NEW e \in Exporters, pc'[e] \in Writing,
                    NEW m \in manifests', m.alone, NEW c \in DOMAIN m.parts,
                    m.parts[c].path \notin lost'
             PROVE  m.parts[c].path # spot'[e].path
    BY DEF SpotIsFree
<1>1. m \in manifests
      BY NewAloneManifest DEF Writing
<1>2. lost \subseteq lost'
      BY DEF LakeNext, LoseFile, SourceChanges, NextDay, ExporterStep, Fail, TakeSnapshot,
         Stage, Hash, Finish, Begin, Outside, PublishRefused, PublishLink, PublishCreate,
         PublishFill, Tidy, Collect, CollectRefused, Land, Sweep
<1>3. ASSUME pc[e] \in Writing, spot'[e].path = spot[e].path
      PROVE  m.parts[c].path # spot'[e].path
      BY <1>1, <1>2, <1>3 DEF SoloInv, SpotIsFree
<1>4. CASE Stage(e)
  <2>1. spot'[e].path \in Paths /\ files[spot'[e].path] = Empty
        BY <1>4, StageType
  <2>2. files[m.parts[c].path] = m.parts[c].sha /\ m.parts[c].sha # Empty
        BY <1>1, <1>2, AlonePartFacts DEF SoloInv, SoloVersionsStayIntact
  <2> QED BY <2>1, <2>2
<1>5. CASE Hash(e)
  <2>1. pc[e] \in Writing /\ spot'[e].path = spot[e].path
        BY <1>5 DEF Hash, Writing, LakeTypeOK, Spots
  <2> QED BY <1>3, <2>1
<1>6. ASSUME NEW x \in Exporters, ExporterStep(x), x # e
      PROVE  m.parts[c].path # spot'[e].path
  <2>1. pc'[e] = pc[e] /\ spot'[e] = spot[e]
        BY <1>6, OthersKeep
  <2> QED BY <1>3, <2>1
<1>7. CASE SourceChanges \/ NextDay \/ LoseFile
  <2>1. pc' = pc /\ spot' = spot
        BY <1>7 DEF SourceChanges, NextDay, LoseFile, exporterVars
  <2> QED BY <1>3, <2>1
<1>8. ASSUME ExporterStep(e), ~Stage(e), ~Hash(e) PROVE FALSE
  <2>1. CASE Forget(e)
        BY <2>1, ForgetStep DEF Writing
  <2>2. CASE ~Forget(e)
        BY <1>8, <2>2, SnapshotStep, BeginStep, FinishStep
        DEF ExporterStep, Fail, PublishRefused, PublishLink, PublishCreate,
            PublishFill, Tidy, Collect, CollectRefused, Land, Sweep, Writing, LakeTypeOK
  <2> QED BY <2>1, <2>2
<1> QED BY <1>4, <1>5, <1>6, <1>7, <1>8 DEF LakeNext

LEMMA SweepStep ==
  ASSUME LakeTypeOK, JobInv, SoloInv, LakeNext
  PROVE  SweepSpares'
<1> SUFFICES ASSUME NEW e \in Exporters, pc'[e] = "sweeping",
                    NEW m \in manifests', m.alone, NEW c \in DOMAIN m.parts
             PROVE  m.parts[c].path \in refs'[e]
    BY DEF SweepSpares
<1>1. m \in manifests
      BY NewAloneManifest
<1>2. ASSUME pc[e] = "sweeping", refs'[e] = refs[e]
      PROVE  m.parts[c].path \in refs'[e]
      BY <1>1, <1>2 DEF SoloInv, SweepSpares
<1>3. CASE Collect(e)
  <2>1. refs'[e] = Named
        BY <1>3 DEF Collect, LakeTypeOK
  <2> QED BY <1>1, <2>1 DEF Named
<1>4. ASSUME NEW x \in Exporters, ExporterStep(x), x # e
      PROVE  m.parts[c].path \in refs'[e]
      BY <1>2, <1>4, OthersKeep
<1>5. CASE SourceChanges \/ NextDay \/ LoseFile
      BY <1>2, <1>5 DEF SourceChanges, NextDay, LoseFile, exporterVars
<1>6. ASSUME ExporterStep(e), ~Collect(e) PROVE FALSE
  <2>1. CASE Forget(e)
        BY <2>1, ForgetStep
  <2>2. CASE ~Forget(e)
        BY <1>6, <2>2, SnapshotStep, BeginStep, FinishStep
        DEF ExporterStep, Fail, PublishRefused, PublishLink, PublishCreate, Stage, Hash,
            PublishFill, Tidy, CollectRefused, Land, Sweep, LakeTypeOK
  <2> QED BY <2>1, <2>2
<1> QED BY <1>3, <1>4, <1>5, <1>6 DEF LakeNext

LEMMA SoloStep ==
  ASSUME LakeTypeOK, JobInv, SoloInv, LakeNext
  PROVE  SoloInv'
<1>1. Solitude' /\ HandsInv'
      BY SolitudeStep, HandsStep DEF SoloInv
<1> QED BY <1>1, SoloFilesStep, SpotStep, SweepStep DEF SoloInv

-------------------------------------------------------------------------------
(* One manifest to a version                                               *)

OneToAVersion == \A m, n \in manifests : m.ds = n.ds /\ m.ver = n.ver => m = n

FillersHold ==
  \A e \in Exporters : pc[e] = "filling" => HalfWritten(e) \in manifests

FillersDiffer ==
  \A e, y \in Exporters :
    pc[e] = "filling" /\ pc[y] = "filling" /\ e # y =>
      ~(job[e].ds = job[y].ds /\ job[e].ver = job[y].ver)

VersionInv == OneToAVersion /\ FillersHold /\ FillersDiffer

LEMMA SignedKey ==
  ASSUME LakeTypeOK, JobInv, NEW e \in Exporters, pc[e] \in Publishes
  PROVE  /\ Signed(e).ds = job[e].ds /\ Signed(e).ver = job[e].ver
         /\ Signed(e).status \in {"valid", "invalid"}
         /\ Signed(e).parts = draft[e].parts /\ Signed(e).alone = alone[e]
BY SignedType DEF JobInv, JobAt

LEMMA VersionStep ==
  ASSUME LakeTypeOK, JobInv, VersionInv, LakeNext
  PROVE  /\ VersionInv'
         /\ \A m \in manifests : m.status # "unreadable" => m \in manifests'
<1>1. ASSUME manifests' = manifests, \A y \in Exporters : pc'[y] = "filling" =>
               pc[y] = "filling" /\ job'[y] = job[y]
      PROVE  /\ VersionInv'
             /\ \A m \in manifests : m.status # "unreadable" => m \in manifests'
  <2>1. OneToAVersion'
        BY <1>1 DEF VersionInv, OneToAVersion
  <2>2. ASSUME NEW y \in Exporters, pc'[y] = "filling" PROVE HalfWritten(y)' \in manifests
    <3>1. HalfWritten(y)' = HalfWritten(y)
          BY <1>1, <2>2 DEF HalfWritten
    <3> QED BY <1>1, <2>2, <3>1 DEF VersionInv, FillersHold
  <2>3. FillersHold'
        BY <1>1, <2>2 DEF FillersHold
  <2>4. FillersDiffer'
        BY <1>1 DEF VersionInv, FillersDiffer
  <2> QED BY <1>1, <2>1, <2>3, <2>4 DEF VersionInv
<1>2. CASE SourceChanges \/ NextDay \/ LoseFile
      BY <1>1, <1>2 DEF SourceChanges, NextDay, LoseFile, exporterVars
<1>3. ASSUME NEW e \in Exporters, ExporterStep(e), ~PublishLink(e), ~PublishCreate(e),
             ~PublishFill(e)
      PROVE  /\ VersionInv'
             /\ \A m \in manifests : m.status # "unreadable" => m \in manifests'
  <2>1. manifests' = manifests
        BY <1>3 DEF ExporterStep, Fail, TakeSnapshot, Stage, Hash, Land, Finish,
           PublishRefused, Tidy, Collect, CollectRefused, Sweep, Begin
  <2>2. pc'[e] # "filling"
    <3>1. CASE Forget(e)
          BY <3>1, ForgetStep
    <3>2. CASE ~Forget(e)
          BY <1>3, <3>2, SnapshotStep, BeginStep, FinishStep
          DEF ExporterStep, Fail, PublishRefused, Stage, Hash, Tidy, Collect,
              CollectRefused, Land, Sweep, LakeTypeOK
    <3> QED BY <3>1, <3>2
  <2> QED BY <1>1, <1>3, <2>1, <2>2, OthersKeep
<1>4. ASSUME NEW e \in Exporters, PublishLink(e)
      PROVE  /\ VersionInv'
             /\ \A m \in manifests : m.status # "unreadable" => m \in manifests'
  <2>1. /\ manifests' = manifests \cup {Signed(e)} /\ ~Taken(e) /\ pc[e] \in Publishes
        /\ job' = job /\ \A y \in Exporters : pc'[y] = "filling" => pc[y] = "filling"
        BY <1>4 DEF PublishLink, Publishes, LakeTypeOK
  <2>2. Signed(e).ds = job[e].ds /\ Signed(e).ver = job[e].ver
        BY <2>1, SignedKey
  <2>3. \A m \in manifests : ~(m.ds = job[e].ds /\ m.ver = job[e].ver)
        BY <2>1 DEF Taken, Of
  <2>4. OneToAVersion'
        BY <2>1, <2>2, <2>3 DEF VersionInv, OneToAVersion
  <2> QED BY <2>1, <2>4 DEF VersionInv, FillersHold, FillersDiffer, HalfWritten
<1>5. ASSUME NEW e \in Exporters, PublishCreate(e)
      PROVE  /\ VersionInv'
             /\ \A m \in manifests : m.status # "unreadable" => m \in manifests'
  <2>1. /\ manifests' = manifests \cup {HalfWritten(e)} /\ ~Taken(e)
        /\ job' = job
        /\ \A y \in Exporters : pc'[y] = "filling" => y = e \/ pc[y] = "filling"
        BY <1>5 DEF PublishCreate, LakeTypeOK
  <2>2. HalfWritten(e).ds = job[e].ds /\ HalfWritten(e).ver = job[e].ver
        BY HalfWrittenFacts
  <2>3. \A m \in manifests : ~(m.ds = job[e].ds /\ m.ver = job[e].ver)
        BY <2>1 DEF Taken, Of
  <2>4. OneToAVersion'
        BY <2>1, <2>2, <2>3 DEF VersionInv, OneToAVersion
  <2>5. FillersHold'
        BY <2>1 DEF VersionInv, FillersHold, HalfWritten
  <2>6. \A y \in Exporters : pc[y] = "filling" =>
          ~(job[e].ds = job[y].ds /\ job[e].ver = job[y].ver)
        BY <2>3, HalfWrittenFacts DEF VersionInv, FillersHold
  <2>7. FillersDiffer'
        BY <2>1, <2>6 DEF VersionInv, FillersDiffer
  <2> QED BY <2>1, <2>4, <2>5, <2>7 DEF VersionInv
<1>6. ASSUME NEW e \in Exporters, PublishFill(e)
      PROVE  /\ VersionInv'
             /\ \A m \in manifests : m.status # "unreadable" => m \in manifests'
  <2>1. /\ manifests' = (manifests \ {HalfWritten(e)}) \cup {Signed(e)}
        /\ pc[e] = "filling" /\ job' = job
        /\ \A y \in Exporters : pc'[y] = "filling" => pc[y] = "filling" /\ y # e
        BY <1>6 DEF PublishFill, LakeTypeOK
  <2>2. Signed(e).ds = job[e].ds /\ Signed(e).ver = job[e].ver
        BY <2>1, SignedKey DEF Publishes
  <2>3. /\ HalfWritten(e) \in manifests /\ HalfWritten(e).status = "unreadable"
        /\ HalfWritten(e).ds = job[e].ds /\ HalfWritten(e).ver = job[e].ver
        BY <2>1, HalfWrittenFacts DEF VersionInv, FillersHold
  <2>4. \A m \in manifests \ {HalfWritten(e)} :
          ~(m.ds = job[e].ds /\ m.ver = job[e].ver)
        BY <2>3 DEF VersionInv, OneToAVersion
  <2>5. OneToAVersion'
        BY <2>1, <2>2, <2>4 DEF VersionInv, OneToAVersion
  <2>6. \A y \in Exporters : pc'[y] = "filling" => HalfWritten(y) # HalfWritten(e)
        BY <2>1, HalfWrittenFacts DEF VersionInv, FillersDiffer
  <2>7. FillersHold'
        BY <2>1, <2>6 DEF VersionInv, FillersHold, HalfWritten
  <2> QED BY <2>1, <2>3, <2>5, <2>7 DEF VersionInv, FillersDiffer
<1> QED BY <1>2, <1>3, <1>4, <1>5, <1>6 DEF LakeNext, ExporterStep

-------------------------------------------------------------------------------
(* What readers are served                                                 *)

Trusted(parts) == \A c \in DOMAIN parts : parts[c].sha = parts[c].dig

CleanVersions ==
  \A m \in manifests : m.clean => m.alone /\ (m.status = "valid" => Trusted(m.parts))

BasesAreValid ==
  \A e \in Exporters :
    base[e] # NoDraft => base[e].status = "valid"
                         /\ (base[e].clean => Trusted(base[e].parts))

CleanHands(e) == alone[e] /\ (base[e] = NoDraft \/ base[e].clean)

CleanDrafts ==
  \A e \in Exporters :
    CleanHands(e) /\ pc[e] \in Publishes /\ draft[e].status = "valid" =>
      Trusted(draft[e].parts)

ServedInv == CleanVersions /\ BasesAreValid /\ CleanDrafts

\* Files read back and found good hold what their digests were taken of.
LEMMA ReconciledIsTrusted ==
  ASSUME LakeTypeOK, JobInv, SoloInv, ServedInv, NEW e \in Exporters,
         pc[e] = "producing", CleanHands(e), Reconciled(e) = "valid"
  PROVE  Trusted(Merged(e))
<1>1. Holds(files, done[e])
      BY DEF SoloInv, HandsInv, HandsAt, CleanHands, Produces
<1>2. \A c \in Written(e) : files[done[e][c].path] = done[e][c].dig
      BY DEF Reconciled
<1>3. Trusted(base[e].parts)
  <2>1. DOMAIN NoDraft.parts = {}
        BY NoRowsType DEF NoDraft
  <2> QED BY <2>1 DEF ServedInv, BasesAreValid, CleanHands, Trusted
<1>4. ASSUME NEW c \in DOMAIN done[e] PROVE done[e][c].sha = done[e][c].dig
  <2>1. CASE c \in Written(e)
        BY <1>1, <1>2, <2>1 DEF Holds
  <2>2. CASE c \notin Written(e)
        BY <1>3, <1>4, <2>2 DEF Written, Trusted
  <2> QED BY <2>1, <2>2
<1> QED BY <1>3, <1>4, MergedType DEF Trusted

LEMMA ServedStep ==
  ASSUME LakeTypeOK, JobInv, SoloInv, ServedInv, LakeNext
  PROVE  ServedInv'
<1>1. CleanVersions'
  <2> SUFFICES ASSUME NEW m \in manifests', m.clean
               PROVE  m.alone /\ (m.status = "valid" => Trusted(m.parts))
      BY DEF CleanVersions
  <2>1. CASE m \in manifests
        BY <2>1 DEF ServedInv, CleanVersions
  <2>2. CASE m \notin manifests
    <3>1. PICK e \in Exporters :
            /\ pc[e] \in Publishes
            /\ \/ manifests' = manifests \cup {HalfWritten(e)}
               \/ manifests' \subseteq manifests \cup {Signed(e)}
          BY <2>2, ManifestsStep
    <3>2. m = Signed(e)
          BY <2>2, <3>1, HalfWrittenFacts
    <3>3. /\ m.alone = alone[e] /\ m.parts = draft[e].parts /\ m.status = draft[e].status
          /\ m.clean = CleanHands(e)
          BY <3>2, SignedType DEF CleanHands
    <3>4. CleanHands(e) /\ alone[e]
          BY <3>3 DEF CleanHands
    <3> QED BY <3>1, <3>3, <3>4 DEF ServedInv, CleanDrafts
  <2> QED BY <2>1, <2>2
<1>2. BasesAreValid'
  <2> SUFFICES ASSUME NEW e \in Exporters, base'[e] # NoDraft
               PROVE  base'[e].status = "valid"
                      /\ (base'[e].clean => Trusted(base'[e].parts))
      BY DEF BasesAreValid
  <2>1. CASE Begin(e)
    <3>1. base'[e] \in manifests /\ Usable(base'[e])
          BY <2>1, BeginStep DEF IsBaseline
    <3> QED BY <3>1 DEF Usable, ServedInv, CleanVersions
  <2>2. ASSUME base'[e] = base[e]
        PROVE base'[e].status = "valid" /\ (base'[e].clean => Trusted(base'[e].parts))
        BY <2>2 DEF ServedInv, BasesAreValid
  <2>3. ASSUME ExporterStep(e), ~Begin(e) PROVE base'[e] = base[e]
    <3>1. ~Forget(e)
          BY ForgetStep
    <3> QED BY <2>3, <3>1, SnapshotStep, FinishStep
        DEF ExporterStep, Fail, PublishRefused, PublishLink, PublishCreate, Stage, Hash,
            PublishFill, Tidy, Collect, CollectRefused, Land, Sweep
  <2>4. ASSUME NEW x \in Exporters, ExporterStep(x), x # e PROVE base'[e] = base[e]
        BY <2>4, OthersKeep
  <2>5. SourceChanges \/ NextDay \/ LoseFile => base' = base
        BY DEF SourceChanges, NextDay, LoseFile, exporterVars
  <2> QED BY <2>1, <2>2, <2>3, <2>4, <2>5 DEF LakeNext
<1>3. CleanDrafts'
  <2> SUFFICES ASSUME NEW e \in Exporters, CleanHands(e)', pc'[e] \in Publishes,
                      draft'[e].status = "valid"
               PROVE  Trusted(draft'[e].parts)
      BY DEF CleanDrafts
  <2>1. CASE Finish(e)
    <3>1. ~Forget(e)
          BY ForgetStep DEF Publishes
    <3>2. /\ pc[e] = "producing" /\ UNCHANGED <<alone, base>>
          /\ draft'[e].status = Reconciled(e) /\ draft'[e].parts = Merged(e)
          BY <2>1, <3>1, FinishStep DEF Finish
    <3>3. CleanHands(e)
          BY <3>2 DEF CleanHands
    <3> QED BY <3>2, <3>3, ReconciledIsTrusted
  <2>2. ASSUME alone'[e] => alone[e], base'[e] = base[e], pc[e] \in Publishes,
               draft'[e] = draft[e]
        PROVE  Trusted(draft'[e].parts)
    <3>1. CleanHands(e)
          BY <2>2 DEF CleanHands
    <3> QED BY <2>2, <3>1 DEF ServedInv, CleanDrafts
  <2>3. CASE PublishCreate(e)
    <3>1. pc[e] \in Publishes /\ UNCHANGED <<alone, base, draft>>
          BY <2>3 DEF PublishCreate, Publishes
    <3> QED BY <2>2, <3>1
  <2>4. ASSUME ExporterStep(e), ~Finish(e), ~PublishCreate(e) PROVE FALSE
    <3>1. ~Forget(e)
          BY ForgetStep DEF Publishes
    <3> QED BY <2>4, <3>1, SnapshotStep, BeginStep
        DEF ExporterStep, Fail, PublishRefused, PublishLink, Stage, Hash, Publishes,
            PublishFill, Tidy, Collect, CollectRefused, Land, Sweep, LakeTypeOK
  <2>5. ASSUME NEW x \in Exporters, ExporterStep(x), x # e
        PROVE  Trusted(draft'[e].parts)
        BY <2>2, <2>5, OthersKeep
  <2>6. CASE SourceChanges \/ NextDay \/ LoseFile
    <3>1. UNCHANGED <<base, pc, draft>> /\ (alone'[e] => alone[e])
          BY <2>6 DEF SourceChanges, NextDay, LoseFile, exporterVars
    <3> QED BY <2>2, <3>1
  <2> QED BY <2>1, <2>3, <2>4, <2>5, <2>6 DEF LakeNext
<1> QED BY <1>1, <1>2, <1>3 DEF ServedInv

-------------------------------------------------------------------------------
(* The newest version                                                      *)

NoFutureVersion ==
  /\ \A m \in manifests : m.ver[1] <= today
  /\ \A e \in Exporters : job[e].ver[1] <= today

\* The version an undisturbed export is about to publish is above all others.
TopAt(e) ==
  alone[e] /\ pc[e] \in Produces \cup Publishes =>
    \A n \in manifests :
      n.ds = job[e].ds /\ (pc[e] = "filling" => n # HalfWritten(e)) =>
        Older(n.ver, job[e].ver)

BaseAt(e) == base[e] # NoDraft => base[e] \in manifests /\ base[e].ds = job[e].ds

\* No valid version is newer than the baseline of an undisturbed incremental export.
NewestAt(e) ==
  alone[e] /\ job[e].mode = "incremental"
           /\ pc[e] \in {"based"} \cup Produces \cup Publishes =>
    \A n \in manifests : n.ds = job[e].ds /\ n.status = "valid" =>
      base[e] # NoDraft /\ ~Older(base[e].ver, n.ver)

KeepsAt(e) ==
  pc[e] \in Publishes /\ job[e].mode = "incremental" =>
    \A c \in DOMAIN base[e].parts :
      /\ c \in DOMAIN draft[e].parts
      /\ c[2] < job[e].start => draft[e].parts[c] = base[e].parts[c]

NewestInv ==
  /\ NoFutureVersion
  /\ \A e \in Exporters : TopAt(e) /\ BaseAt(e) /\ NewestAt(e) /\ KeepsAt(e)

LakeInv == LakeTypeOK /\ JobInv /\ SoloInv /\ VersionInv /\ ServedInv /\ NewestInv

LEMMA FutureStep ==
  ASSUME LakeTypeOK, JobInv, NoFutureVersion, LakeNext
  PROVE  NoFutureVersion'
<1>0. today' >= today /\ today \in Nat /\ today' \in Nat
  <2>1. \/ today' = today
        \/ today' = today + 1
        BY DEF LakeNext, LoseFile, SourceChanges, NextDay, ExporterStep, Fail,
           TakeSnapshot, Stage, Hash, Finish, Begin, Outside, PublishRefused, PublishLink,
           PublishCreate, PublishFill, Tidy, Collect, CollectRefused, Land, Sweep
  <2>2. today \in Nat
        BY LakeAssumption DEF LakeTypeOK
  <2> QED BY <2>1, <2>2
<1>1. \A m \in manifests : m.ver[1] \in Nat
      BY DEF LakeTypeOK, Manifests, Versions
<1>2. \A e \in Exporters : job[e].ver[1] \in Nat
      BY DEF LakeTypeOK, Jobs, Versions
<1>3. ASSUME NEW m \in manifests' PROVE m.ver[1] <= today'
  <2>1. CASE m \in manifests
        BY <1>0, <1>1, <2>1 DEF NoFutureVersion
  <2>2. CASE m \notin manifests
    <3>1. PICK e \in Exporters : m.ver = job[e].ver
          BY <2>2, ManifestsStep, HalfWrittenFacts, SignedKey
    <3> QED BY <1>0, <1>2, <3>1 DEF NoFutureVersion
  <2> QED BY <2>1, <2>2
<1>4. ASSUME NEW e \in Exporters PROVE job'[e].ver[1] <= today'
  <2>1. ASSUME job'[e] = job[e] PROVE job'[e].ver[1] <= today'
        BY <1>0, <1>2, <2>1 DEF NoFutureVersion
  <2>2. ASSUME NEW x \in Exporters, ExporterStep(x), x # e PROVE job'[e] = job[e]
        BY <2>2, OthersKeep
  <2>3. CASE Forget(e)
    <3>1. job'[e].ver = <<0, 0>>
          BY <2>3, ForgetStep DEF NoJob
    <3> QED BY <1>0, <3>1
  <2>4. CASE Begin(e)
    <3>1. job'[e].ver = <<0, 0>>
          BY <2>4, BeginStep
    <3> QED BY <1>0, <3>1
  <2>5. CASE TakeSnapshot(e) /\ ~Forget(e)
    <3>1. job'[e].ver[1] = today /\ today' = today
          BY <2>5, SnapshotStep
    <3> QED BY <1>0, <3>1
  <2>6. ASSUME ExporterStep(e), ~Forget(e), ~Begin(e), ~TakeSnapshot(e)
        PROVE  job'[e] = job[e]
        BY <2>6, FinishStep
        DEF ExporterStep, Fail, PublishRefused, PublishLink, PublishCreate, Stage, Hash,
            PublishFill, Tidy, Collect, CollectRefused, Land, Sweep
  <2>7. SourceChanges \/ NextDay \/ LoseFile => job' = job
        BY DEF SourceChanges, NextDay, LoseFile, exporterVars
  <2> QED BY <2>1, <2>2, <2>3, <2>4, <2>5, <2>6, <2>7 DEF LakeNext
<1> QED BY <1>3, <1>4 DEF NoFutureVersion

LEMMA NextVersionIsTop ==
  ASSUME LakeTypeOK, NoFutureVersion, NEW ds, NEW v \in {today} \X (1..(MaxExports + 1)),
         IsNextVersion(ds, v), NEW n \in manifests, n.ds = ds
  PROVE  Older(n.ver, v)
<1>1. n.ver[1] \in Nat /\ n.ver[1] <= today /\ today \in Nat
      BY LakeAssumption DEF LakeTypeOK, Manifests, Versions, NoFutureVersion
<1>2. v[1] = today
      OBVIOUS
<1>3. n.ver[1] = today => n.ver[2] < v[2]
      BY DEF IsNextVersion, Of
<1> QED BY <1>1, <1>2, <1>3 DEF Older

\* The cases an invariant of one exporter and the manifests has to be shown for.
LEMMA ManifestsStay ==
  ASSUME LakeTypeOK, JobInv, SoloInv, LakeNext, NEW e \in Exporters, alone'[e],
         pc'[e] # "filling", pc'[e] # "tidy"
  PROVE  manifests' = manifests
<1>1. ASSUME NEW x \in Exporters, ExporterStep(x), x # e PROVE manifests' = manifests
  <2>1. alone[e]
        BY <1>1, OthersKeep
  <2>2. Begin(x)
        BY <1>1, <2>1, OnlyOneActs DEF SoloInv
  <2> QED BY <2>2, BeginStep
<1>2. ASSUME ExporterStep(e) PROVE manifests' = manifests
      BY <1>2 DEF ExporterStep, Fail, TakeSnapshot, Stage, Hash, Land, Finish,
         PublishRefused, PublishLink, PublishCreate, PublishFill, Tidy, Collect,
         CollectRefused, Sweep, Begin, LakeTypeOK
<1>3. SourceChanges \/ NextDay \/ LoseFile => manifests' = manifests
      BY DEF SourceChanges, NextDay, LoseFile
<1> QED BY <1>1, <1>2, <1>3 DEF LakeNext

LEMMA TopStep ==
  ASSUME LakeTypeOK, JobInv, SoloInv, NewestInv, LakeNext, NEW e \in Exporters
  PROVE  TopAt(e)'
<1> SUFFICES ASSUME alone'[e], pc'[e] \in Produces \cup Publishes,
                    NEW n \in manifests', n.ds = job'[e].ds,
                    pc'[e] = "filling" => n # HalfWritten(e)'
             PROVE  Older(n.ver, job'[e].ver)
    BY DEF TopAt
<1>1. CASE TakeSnapshot(e)
  <2>1. ~Forget(e)
        BY ForgetStep
  <2>2. /\ manifests' = manifests /\ job'[e].ds = job[e].ds
        /\ IsNextVersion(job[e].ds, job'[e].ver)
        /\ job'[e].ver \in {today} \X (1..(MaxExports + 1))
        BY <1>1, <2>1, SnapshotStep
  <2>3. n \in manifests /\ n.ds = job[e].ds /\ NoFutureVersion
        BY <2>2 DEF NewestInv
  <2> QED BY <2>2, <2>3, NextVersionIsTop
<1>2. ASSUME alone[e], pc[e] \in Produces \cup Publishes, job'[e] = job[e],
             n \in manifests, pc[e] # "filling"
      PROVE  Older(n.ver, job'[e].ver)
      BY <1>2 DEF NewestInv, TopAt
<1>3. CASE PublishCreate(e)
  <2>1. /\ pc[e] = "ready" /\ pc'[e] = "filling" /\ UNCHANGED <<alone, job>>
        /\ manifests' = manifests \cup {HalfWritten(e)}
        BY <1>3 DEF PublishCreate, LakeTypeOK
  <2>2. HalfWritten(e)' = HalfWritten(e)
        BY <2>1 DEF HalfWritten
  <2> QED BY <1>2, <2>1, <2>2 DEF Publishes
<1>4. ASSUME NEW x \in Exporters, ExporterStep(x), x # e PROVE FALSE
  <2>1. alone[e]
        BY <1>4, OthersKeep
  <2> QED BY <1>4, <2>1, OnlyOneActs DEF SoloInv
<1>5. CASE SourceChanges \/ NextDay \/ LoseFile
  <2>1. /\ pc' = pc /\ job' = job /\ manifests' = manifests /\ alone[e]
        BY <1>5 DEF SourceChanges, NextDay, LoseFile, exporterVars
  <2>2. HalfWritten(e)' = HalfWritten(e)
        BY <2>1 DEF HalfWritten
  <2> QED BY <2>1, <2>2 DEF NewestInv, TopAt
<1>6. CASE Stage(e) \/ Hash(e) \/ Land(e) \/ Finish(e)
  <2>1. ~Forget(e)
        BY ForgetStep
  <2>2. /\ alone' = alone /\ job' = job /\ pc[e] \in Produces
        BY <1>6, <2>1, FinishStep DEF Stage, Hash, Land, Finish, Produces
  <2>3. manifests' = manifests
        BY <1>6 DEF Stage, Hash, Land, Finish
  <2> QED BY <1>2, <2>2, <2>3 DEF Produces
<1>7. ASSUME Begin(e) \/ PublishLink(e) \/ PublishFill(e) \/ Collect(e) \/ Forget(e)
      PROVE  FALSE
      BY <1>7, BeginStep, ForgetStep
      DEF PublishLink, PublishFill, Collect, LakeTypeOK, Produces, Publishes
<1> QED BY <1>1, <1>3, <1>4, <1>5, <1>6, <1>7
        DEF LakeNext, ExporterStep, Fail, PublishRefused, Tidy, CollectRefused, Sweep

LEMMA BaseStep ==
  ASSUME LakeTypeOK, JobInv, ServedInv, VersionInv, NewestInv, LakeNext,
         NEW e \in Exporters
  PROVE  BaseAt(e)'
<1> SUFFICES ASSUME base'[e] # NoDraft
             PROVE  base'[e] \in manifests' /\ base'[e].ds = job'[e].ds
    BY DEF BaseAt
<1>1. CASE Begin(e)
  <2>1. base'[e] \in manifests /\ manifests' = manifests /\ base'[e].ds = job'[e].ds
        BY <1>1, BeginStep DEF IsBaseline, Of
  <2> QED BY <2>1
<1>2. ASSUME base'[e] = base[e], job'[e].ds = job[e].ds
      PROVE  base'[e] \in manifests' /\ base'[e].ds = job'[e].ds
  <2>1. base[e] \in manifests /\ base[e].status = "valid"
        BY <1>2 DEF NewestInv, BaseAt, ServedInv, BasesAreValid
  <2>2. base[e] \in manifests'
        BY <2>1, VersionStep
  <2> QED BY <1>2, <2>2 DEF NewestInv, BaseAt
<1>3. ASSUME ExporterStep(e), ~Begin(e) PROVE base'[e] = base[e] /\ job'[e].ds = job[e].ds
  <2>1. ~Forget(e)
        BY ForgetStep
  <2> QED BY <1>3, <2>1, SnapshotStep, FinishStep
      DEF ExporterStep, Fail, PublishRefused, PublishLink, PublishCreate, Stage, Hash,
          PublishFill, Tidy, Collect, CollectRefused, Land, Sweep
<1>4. ASSUME NEW x \in Exporters, ExporterStep(x), x # e
      PROVE  base'[e] = base[e] /\ job'[e].ds = job[e].ds
      BY <1>4, OthersKeep
<1>5. SourceChanges \/ NextDay \/ LoseFile => base' = base /\ job' = job
      BY DEF SourceChanges, NextDay, LoseFile, exporterVars
<1> QED BY <1>1, <1>2, <1>3, <1>4, <1>5 DEF LakeNext

LEMMA NewestStep ==
  ASSUME LakeTypeOK, JobInv, SoloInv, NewestInv, LakeNext, NEW e \in Exporters
  PROVE  NewestAt(e)'
<1> SUFFICES ASSUME alone'[e], job'[e].mode = "incremental",
                    pc'[e] \in {"based"} \cup Produces \cup Publishes,
                    NEW n \in manifests', n.ds = job'[e].ds, n.status = "valid"
             PROVE  base'[e] # NoDraft /\ ~Older(base'[e].ver, n.ver)
    BY DEF NewestAt
<1>0. n \in manifests
  <2>1. CASE pc'[e] = "filling"
    <3>1. ~Publication(e)
          BY <2>1 DEF Publication, PublishLink, PublishFill, LakeTypeOK
    <3>2. ASSUME NEW x \in Exporters, Publication(x), x # e PROVE FALSE
      <4>1. ExporterStep(x) /\ pc[x] # "idle" /\ alone[e]
            BY <3>2, OthersKeep DEF ExporterStep, Publication, PublishLink, PublishFill
      <4> QED BY <3>2, <4>1 DEF SoloInv, Solitude, Unaccompanied
    <3>3. n \in manifests \/ \E x \in Exporters : n = HalfWritten(x)
          BY <3>1, <3>2, ManifestsStep
    <3> QED BY <3>3, HalfWrittenFacts
  <2>2. CASE pc'[e] # "filling"
        BY <2>2, ManifestsStay DEF Produces, Publishes
  <2> QED BY <2>1, <2>2
<1>1. CASE Begin(e)
  <2>1. IsBaseline(job'[e].ds, "incremental", base'[e])
        BY <1>1, BeginStep
  <2>2. ASSUME MayStepOver("incremental", n) PROVE FALSE
        BY <2>2 DEF MayStepOver, Usable, Damaged
  <2>3. n \in Of(job'[e].ds)
        BY <1>0 DEF Of
  <2> QED BY <2>1, <2>2, <2>3 DEF IsBaseline
<1>2. ASSUME alone[e], pc[e] \in {"based"} \cup Produces \cup Publishes, base'[e] = base[e],
             job'[e].ds = job[e].ds, job'[e].mode = job[e].mode
      PROVE  base'[e] # NoDraft /\ ~Older(base'[e].ver, n.ver)
      BY <1>0, <1>2 DEF NewestInv, NewestAt
<1>3. ASSUME NEW x \in Exporters, ExporterStep(x), x # e PROVE FALSE
  <2>1. alone[e]
        BY <1>3, OthersKeep
  <2> QED BY <1>3, <2>1, OnlyOneActs DEF SoloInv
<1>4. CASE SourceChanges \/ NextDay \/ LoseFile
  <2>1. pc' = pc /\ job' = job /\ base' = base /\ alone[e]
        BY <1>4 DEF SourceChanges, NextDay, LoseFile, exporterVars
  <2> QED BY <1>2, <2>1
<1>5. CASE TakeSnapshot(e)
  <2>1. ~Forget(e) /\ pc[e] = "based"
        BY <1>5, ForgetStep DEF TakeSnapshot
  <2>2. /\ alone' = alone /\ base' = base
        /\ job'[e].ds = job[e].ds /\ job'[e].mode = job[e].mode
        BY <1>5, <2>1, SnapshotStep
  <2> QED BY <1>2, <2>1, <2>2
<1>6. CASE Stage(e) \/ Hash(e) \/ Land(e) \/ Finish(e) \/ PublishCreate(e)
  <2>1. ~Forget(e)
        BY ForgetStep DEF Produces, Publishes
  <2>2. /\ alone' = alone /\ job' = job /\ base' = base
        /\ pc[e] \in Produces \cup Publishes
        BY <1>6, <2>1, FinishStep
        DEF Stage, Hash, Land, Finish, PublishCreate, Produces, Publishes
  <2> QED BY <1>2, <2>2
<1>7. ASSUME PublishLink(e) \/ PublishFill(e) \/ Collect(e) \/ Forget(e)
      PROVE  FALSE
      BY <1>7, ForgetStep
      DEF PublishLink, PublishFill, Collect, LakeTypeOK, Produces, Publishes
<1> QED BY <1>1, <1>3, <1>4, <1>5, <1>6, <1>7
        DEF LakeNext, ExporterStep, Fail, PublishRefused, Tidy, CollectRefused, Sweep

LEMMA KeepsStep ==
  ASSUME LakeTypeOK, JobInv, NewestInv, LakeNext, NEW e \in Exporters
  PROVE  KeepsAt(e)'
<1> SUFFICES ASSUME pc'[e] \in Publishes, job'[e].mode = "incremental",
                    NEW c \in DOMAIN base'[e].parts
             PROVE  /\ c \in DOMAIN draft'[e].parts
                    /\ c[2] < job'[e].start => draft'[e].parts[c] = base'[e].parts[c]
    BY DEF KeepsAt
<1>1. CASE Finish(e)
  <2>1. ~Forget(e)
        BY ForgetStep DEF Publishes
  <2>2. /\ pc[e] = "producing" /\ UNCHANGED <<base, job>> /\ draft'[e].parts = Merged(e)
        BY <1>1, <2>1, FinishStep DEF Finish
  <2>3. c \in DOMAIN Merged(e)
        BY <2>2, MergedType
  <2>4. c \in DOMAIN done[e] => job[e].start <= c[2]
        BY <2>2 DEF JobInv, JobAt, Produces
  <2>5. c[2] \in Int /\ job[e].start \in Int
    <3>1. base[e].parts \in PartMaps
          BY DEF LakeTypeOK, Manifests
    <3>2. c \in Cells
          BY <2>2, <3>1, PartMapFacts
    <3> QED BY <3>2 DEF Cells, Days, LakeTypeOK, Jobs
  <2>6. c[2] < job[e].start => c \notin DOMAIN done[e]
        BY <2>4, <2>5
  <2> QED BY <2>2, <2>3, <2>6, MergedType
<1>2. ASSUME pc[e] \in Publishes, base'[e] = base[e], job'[e] = job[e],
             draft'[e] = draft[e]
      PROVE  /\ c \in DOMAIN draft'[e].parts
             /\ c[2] < job'[e].start => draft'[e].parts[c] = base'[e].parts[c]
      BY <1>2 DEF NewestInv, KeepsAt
<1>3. CASE PublishCreate(e)
  <2>1. pc[e] \in Publishes /\ UNCHANGED <<base, job, draft>>
        BY <1>3 DEF PublishCreate, Publishes
  <2> QED BY <1>2, <2>1
<1>4. ASSUME NEW x \in Exporters, ExporterStep(x), x # e
      PROVE  /\ pc'[e] = pc[e] /\ base'[e] = base[e] /\ job'[e] = job[e]
             /\ draft'[e] = draft[e]
      BY <1>4, OthersKeep
<1>5. SourceChanges \/ NextDay \/ LoseFile => UNCHANGED <<pc, base, job, draft>>
      BY DEF SourceChanges, NextDay, LoseFile, exporterVars
<1>6. ASSUME ExporterStep(e), ~Finish(e), ~PublishCreate(e) PROVE FALSE
  <2>1. ~Forget(e)
        BY ForgetStep DEF Publishes
  <2> QED BY <1>6, <2>1, SnapshotStep, BeginStep
      DEF ExporterStep, Fail, PublishRefused, PublishLink, Stage, Hash, Publishes,
          PublishFill, Tidy, Collect, CollectRefused, Land, Sweep, LakeTypeOK
<1> QED BY <1>1, <1>2, <1>3, <1>4, <1>5, <1>6 DEF LakeNext

-------------------------------------------------------------------------------
(* Theorems                                                                *)

LEMMA InitInv == LakeInit => LakeInv
<1> SUFFICES ASSUME LakeInit PROVE LakeInv
    OBVIOUS
<1>0. /\ LakeTypeOK /\ JobInv /\ manifests = {}
      /\ \A e \in Exporters : /\ pc[e] = "idle" /\ ~alone[e] /\ base[e] = NoDraft
                              /\ job[e].ver = <<0, 0>>
      BY InitType DEF LakeInit, NoJob
<1>1. SoloInv
      BY <1>0 DEF SoloInv, Solitude, HandsInv, HandsAt, SoloVersionsStayIntact,
         SpotIsFree, SweepSpares, Writing
<1>2. VersionInv /\ ServedInv
      BY <1>0 DEF VersionInv, OneToAVersion, FillersHold, FillersDiffer, ServedInv,
         CleanVersions, BasesAreValid, CleanDrafts, CleanHands
<1>3. NewestInv
  <2>1. today \in Nat
        BY <1>0, LakeAssumption DEF LakeTypeOK
  <2>2. NoFutureVersion
        BY <1>0, <2>1 DEF NoFutureVersion
  <2> QED BY <1>0, <2>2 DEF NewestInv, TopAt, BaseAt, NewestAt, KeepsAt, Publishes
<1> QED BY <1>0, <1>1, <1>2, <1>3 DEF LakeInv

LEMMA StutterInv == LakeInv /\ UNCHANGED lakeVars => LakeInv'
<1> SUFFICES ASSUME LakeInv, UNCHANGED lakeVars PROVE LakeInv'
    OBVIOUS
<1> USE DEF lakeVars, exporterVars
<1>1. LakeTypeOK' /\ JobInv'
      BY DEF LakeInv, LakeTypeOK, JobInv, JobAt
<1>2. SoloInv'
      BY DEF LakeInv, SoloInv, Solitude, Unaccompanied, HandsInv, HandsAt, Holds, Avoids,
         SoloVersionsStayIntact, SpotIsFree, SweepSpares
<1>3. \A e \in Exporters : HalfWritten(e)' = HalfWritten(e)
      BY DEF HalfWritten
<1>4. VersionInv'
      BY <1>3 DEF LakeInv, VersionInv, OneToAVersion, FillersHold, FillersDiffer
<1>5. ServedInv'
      BY DEF LakeInv, ServedInv, CleanVersions, BasesAreValid, CleanDrafts, CleanHands,
         Trusted
<1>6. NewestInv'
      BY <1>3 DEF LakeInv, NewestInv, NoFutureVersion, TopAt, BaseAt, NewestAt, KeepsAt,
         Older
<1> QED BY <1>1, <1>2, <1>4, <1>5, <1>6 DEF LakeInv

LEMMA StepInv == LakeInv /\ LakeNext => LakeInv'
<1> SUFFICES ASSUME LakeInv, LakeNext PROVE LakeInv'
    OBVIOUS
<1> USE DEF LakeInv
<1>1. LakeTypeOK' /\ JobInv'
      BY StepType, JobStep
<1>2. SoloInv' /\ VersionInv' /\ ServedInv'
      BY SoloStep, VersionStep, ServedStep
<1>3. NewestInv'
      BY FutureStep, TopStep, BaseStep, NewestStep, KeepsStep DEF NewestInv
<1> QED BY <1>1, <1>2, <1>3

\* The inductive invariant of exporters that overlap as they like.
THEOREM LakeInductive == LakeSpec => []LakeInv
<1>1. LakeInv /\ [LakeNext]_lakeVars => LakeInv'
      BY StepInv, StutterInv
<1> QED BY InitInv, <1>1, PTL DEF LakeSpec

\* The lake and its exporters keep to their types (partitions.py, manifest.py).
THEOREM LakeTypeCorrect == LakeSpec => []LakeTypeOK
<1>1. LakeInv => LakeTypeOK
      BY DEF LakeInv
<1> QED BY LakeInductive, <1>1, PTL

\* What an export that ran alone published stays on disk byte for byte through the
\* writes and cleanups of every later export (partitions.py:178-199, 322-356).
THEOREM SoloVersionsStayIntactHolds == LakeSpec => []SoloVersionsStayIntact
<1>1. LakeInv => SoloVersionsStayIntact
      BY DEF LakeInv, SoloInv
<1> QED BY LakeInductive, <1>1, PTL

\* A valid version of undisturbed exports serves the rows its digests were taken of
\* (reconcile.py:99-107, exporter.py:228-236).
THEOREM ServedRowsAreSourceRowsHolds == LakeSpec => []ServedRowsAreSourceRows
<1>1. LakeInv => ServedRowsAreSourceRows
      BY DEF LakeInv, SoloInv, SoloVersionsStayIntact, ServedInv, CleanVersions, Trusted,
         ServedRowsAreSourceRows
<1> QED BY LakeInductive, <1>1, PTL

\* No manifest is rewritten and no version is given twice, whichever exports race
\* for it (manifest.py:283-310).
THEOREM PublishedNeverChangesHolds == LakeSpec => PublishedNeverChanges
<1> DEFINE A == /\ \A m \in manifests : m.status # "unreadable" => m \in manifests'
                /\ \A m, n \in manifests' : m.ds = n.ds /\ m.ver = n.ver => m = n
<1>1. LakeInv /\ LakeNext => A
      BY VersionStep DEF LakeInv, VersionInv, OneToAVersion
<1>2. LakeInv /\ [LakeNext]_lakeVars => [A]_lakeVars
      BY <1>1
<1>3. PublishedNeverChanges <=> [][A]_lakeVars
      BY DEF PublishedNeverChanges
<1> HIDE DEF A
<1> QED BY LakeInductive, <1>2, <1>3, PTL DEF LakeSpec

\* The publication of an undisturbed export.
LEMMA AlonePublication ==
  ASSUME LakeInv, LakeNext, NEW e \in Exporters, pc'[e] = "tidy", pc[e] # "tidy",
         alone[e], NEW m \in manifests', m \notin manifests
  PROVE  /\ pc[e] \in Publishes /\ m = Signed(e) /\ UNCHANGED files
         /\ m.ds = job[e].ds /\ m.ver = job[e].ver /\ m.parts = draft[e].parts
         /\ Holds(files, m.parts)
         /\ pc[e] = "filling" => manifests' = (manifests \ {HalfWritten(e)}) \cup {m}
         /\ pc[e] = "ready" => manifests' = manifests \cup {m}
<1> USE DEF LakeInv
<1>1. Publication(e)
  <2>1. ASSUME NEW x \in Exporters, ExporterStep(x), x # e PROVE FALSE
        BY <2>1, OthersKeep
  <2>2. CASE Forget(e)
        BY <2>2, ForgetStep
  <2>3. SourceChanges \/ NextDay \/ LoseFile => pc' = pc
        BY DEF SourceChanges, NextDay, LoseFile, exporterVars
  <2>4. ASSUME ExporterStep(e), ~Forget(e) PROVE Publication(e)
        BY <2>4, SnapshotStep, BeginStep, FinishStep
        DEF ExporterStep, Fail, PublishRefused, PublishCreate, Stage, Hash, Publication,
            Tidy, Collect, CollectRefused, Land, Sweep, LakeTypeOK
  <2> QED BY <2>1, <2>2, <2>3, <2>4 DEF LakeNext
<1>2. /\ pc[e] \in Publishes /\ UNCHANGED files
      /\ \/ pc[e] = "filling" /\ manifests' = (manifests \ {HalfWritten(e)}) \cup {Signed(e)}
         \/ pc[e] = "ready" /\ manifests' = manifests \cup {Signed(e)}
      BY <1>1 DEF Publication, PublishLink, PublishFill, Publishes, Outside
<1>3. m = Signed(e)
      BY <1>2
<1>4. m.ds = job[e].ds /\ m.ver = job[e].ver /\ m.parts = draft[e].parts
      BY <1>2, <1>3, SignedKey
<1>5. Holds(files, draft[e].parts)
      BY <1>2 DEF SoloInv, HandsInv, HandsAt
<1> QED BY <1>2, <1>3, <1>4, <1>5

\* After a valid undisturbed export readers get its version, whole, whatever became
\* of earlier ones (manifest.py:124-129, 318-329).
THEOREM SoloExportIsReadNextHolds == LakeSpec => SoloExportIsReadNext
<1> DEFINE A == \A e \in Exporters :
                  pc'[e] = "tidy" /\ pc[e] # "tidy" /\ alone[e] =>
                    \A m \in manifests' \ manifests :
                      m.status = "valid" => ServesReaders(m)'
<1>1. LakeInv /\ LakeNext => A
  <2> SUFFICES ASSUME LakeInv, LakeNext, NEW e \in Exporters,
                      pc'[e] = "tidy", pc[e] # "tidy", alone[e],
                      NEW m \in manifests' \ manifests, m.status = "valid"
               PROVE  ServesReaders(m)'
      OBVIOUS
  <2>1. /\ pc[e] \in Publishes /\ UNCHANGED files
        /\ m.ds = job[e].ds /\ m.ver = job[e].ver /\ Holds(files, m.parts)
        /\ pc[e] = "filling" => manifests' = (manifests \ {HalfWritten(e)}) \cup {m}
        /\ pc[e] = "ready" => manifests' = manifests \cup {m}
        BY AlonePublication
  <2>2. Intact(m)'
        BY <2>1 DEF Intact, Holds
  <2>3. ASSUME NEW n \in manifests', n.ds = m.ds, Older(m.ver, n.ver) PROVE FALSE
    <3>1. m.ver \in Versions
          BY StepInv DEF LakeInv, LakeTypeOK, Manifests
    <3>2. n # m
          BY <2>3, <3>1 DEF Older, Versions
    <3>3. n \in manifests /\ (pc[e] = "filling" => n # HalfWritten(e))
          BY <2>1, <3>2 DEF Publishes
    <3>4. Older(n.ver, m.ver)
          BY <2>1, <2>3, <3>3 DEF LakeInv, NewestInv, TopAt
    <3>5. n.ver \in Versions
          BY <3>3 DEF LakeInv, LakeTypeOK, Manifests
    <3> QED BY <2>3, <3>1, <3>4, <3>5 DEF Older, Versions
  <2> QED BY <2>2, <2>3 DEF ServesReaders, Of
<1>2. LakeInv /\ [LakeNext]_lakeVars => [A]_lakeVars
      BY <1>1
<1>3. SoloExportIsReadNext <=> [][A]_lakeVars
      BY DEF SoloExportIsReadNext
<1> HIDE DEF A
<1> QED BY LakeInductive, <1>2, <1>3, PTL DEF LakeSpec

\* An undisturbed incremental export takes over all of the newest valid version
\* (manifest.py:318-329, partitions.py:246-253).
THEOREM IncrementalLosesNothingHolds == LakeSpec => IncrementalLosesNothing
<1> DEFINE A == \A e \in Exporters :
       pc'[e] = "tidy" /\ pc[e] # "tidy" /\ alone[e]
       /\ job[e].mode = "incremental" =>
         \A m \in manifests' \ manifests :
         \A old \in {n \in Of(m.ds) : n.status = "valid"} :
           (\A n \in Of(m.ds) : Older(old.ver, n.ver) => n.status # "valid") =>
             \A c \in DOMAIN old.parts :
               /\ c \in DOMAIN m.parts
               /\ c[2] < job[e].start => m.parts[c] = old.parts[c]
<1>1. LakeInv /\ LakeNext => A
  <2> SUFFICES ASSUME LakeInv, LakeNext, NEW e \in Exporters,
                      pc'[e] = "tidy", pc[e] # "tidy", alone[e],
                      job[e].mode = "incremental",
                      NEW m \in manifests' \ manifests,
                      NEW old \in Of(m.ds), old.status = "valid",
                      \A n \in Of(m.ds) : Older(old.ver, n.ver) => n.status # "valid",
                      NEW c \in DOMAIN old.parts
               PROVE  /\ c \in DOMAIN m.parts
                      /\ c[2] < job[e].start => m.parts[c] = old.parts[c]
      OBVIOUS
  <2>1. /\ pc[e] \in Publishes /\ m.ds = job[e].ds /\ m.parts = draft[e].parts
        BY AlonePublication
  <2>2. base[e] # NoDraft /\ ~Older(base[e].ver, old.ver)
        BY <2>1 DEF LakeInv, NewestInv, NewestAt, Of
  <2>3. base[e] \in manifests /\ base[e].ds = m.ds /\ base[e].status = "valid"
        BY <2>1, <2>2 DEF LakeInv, NewestInv, BaseAt, ServedInv, BasesAreValid
  <2>4. ~Older(old.ver, base[e].ver)
        BY <2>3 DEF Of
  <2>5. base[e].ver = old.ver
    <3>1. base[e].ver \in Nat \X Nat /\ old.ver \in Nat \X Nat
          BY <2>3 DEF LakeInv, LakeTypeOK, Manifests, Versions, Of
    <3> QED BY <2>2, <2>4, <3>1 DEF Older
  <2>6. base[e] = old
        BY <2>3, <2>5 DEF LakeInv, VersionInv, OneToAVersion, Of
  <2> QED BY <2>1, <2>6 DEF LakeInv, NewestInv, KeepsAt
<1>2. LakeInv /\ [LakeNext]_lakeVars => [A]_lakeVars
      BY <1>1
<1>3. IncrementalLosesNothing <=> [][A]_lakeVars
      BY DEF IncrementalLosesNothing
<1> HIDE DEF A
<1> QED BY LakeInductive, <1>2, <1>3, PTL DEF LakeSpec
===============================================================================
