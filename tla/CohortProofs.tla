------------------------------ MODULE CohortProofs ------------------------------
(***************************************************************************)
(* Proofs about Cohort, for any number of candidates and jobs.  Three       *)
(* invariants, one on top of the other: the types; what a run has left on   *)
(* file by the time it has come so far; what a verdict, judged or on file,   *)
(* says of the registrations.                                              *)
(***************************************************************************)
EXTENDS Cohort, TLAPS

-------------------------------------------------------------------------------
LEMMA InitType == CohortInit => CohortTypeOK
BY CohortAssumption DEF CohortInit, CohortTypeOK, Blank, Fates, Verdicts

LEMMA PutType ==
  ASSUME CohortTypeOK, NEW c \in Candidates, NEW kind \in Kinds,
         NEW at \in Jobs \cup {NoJob}, Put(c, kind, at)
  PROVE  registered' \subseteq Members
<1>1. [cand |-> c, kind |-> kind, at |-> at] \in Members
      BY DEF Members
<1> QED BY <1>1 DEF Put, CohortTypeOK

LEMMA StepType == CohortTypeOK /\ [CohortNext]_cohortVars => CohortTypeOK'
<1> SUFFICES ASSUME CohortTypeOK, [CohortNext]_cohortVars PROVE CohortTypeOK'
    OBVIOUS
<1> USE DEF CohortTypeOK, fileVars, dedupVars, finalVars, Goto, Live, Over
<1>1. ASSUME NEW j \in Jobs, RunStep(j) PROVE CohortTypeOK'
  <2>1. CASE Look(j)
        BY <2>1 DEF Look
  <2>2. CASE TakeClaim(j)
        BY <2>2 DEF TakeClaim
  <2>3. CASE ClaimRefused(j)
        BY <2>3 DEF ClaimRefused
  <2>4. CASE EvaluateFails(j)
        BY <2>4 DEF EvaluateFails, LetGo
  <2>11. CASE WriteDraft(j)
        BY <2>11 DEF WriteDraft
  <2>5. CASE Publish(j)
        BY <2>5 DEF Publish
  <2>6. CASE PublishConflict(j)
        BY <2>6 DEF PublishConflict, LetGo
  <2>7. CASE Register(j)
        BY <2>7, PutType DEF Register, Kinds
  <2>8. CASE Release(j)
        BY <2>8 DEF Release, LetGo
  <2>9. CASE Reuse(j)
        BY <2>9 DEF Reuse
  <2>10. CASE Reregister(j)
        BY <2>10, PutType DEF Reregister, Kinds
  <2> QED BY <1>1, <2>1, <2>2, <2>3, <2>4, <2>5, <2>6, <2>7, <2>8, <2>9, <2>10, <2>11
          DEF RunStep
<1>2. ASSUME NEW j \in Jobs, AbandonStep(j) PROVE CohortTypeOK'
  <2>1. CASE StartAbandon(j)
        BY <2>1 DEF StartAbandon
  <2>2. CASE Abandon(j)
    <3>1. registered' \subseteq Members
          BY <2>2, PutType DEF Abandon, Kinds
    <3> QED BY <2>2, <3>1 DEF Abandon
  <2> QED BY <1>2, <2>1, <2>2 DEF AbandonStep
<1>3. ASSUME NEW j \in Jobs, FinalizeStep(j) PROVE CohortTypeOK'
  <2>1. CASE StartFinalize(j)
        BY <2>1 DEF StartFinalize
  <2>2. CASE JudgeFails(j)
        BY <2>2 DEF JudgeFails
  <2>3. CASE NoVerdict(j)
        BY <2>3 DEF NoVerdict
  <2>4. CASE SameVerdict(j)
        BY <2>4 DEF SameVerdict
  <2>5. CASE OtherVerdict(j)
        BY <2>5 DEF OtherVerdict
  <2>6. CASE ReplaceVerdict(j)
        BY <2>6 DEF ReplaceVerdict
  <2>7. CASE ReadFace(j)
    <3>1. {[cand |-> c, fate |-> verdict[c]] :
             c \in {d \in Candidates : \A r \in face : r.cand # d}} \subseteq Rows
          BY DEF Rows, Verdicts
    <3> QED BY <2>7, <3>1 DEF ReadFace
  <2>8. CASE AppendRow(j)
        BY <2>8 DEF AppendRow
  <2>9. CASE RowsWritten(j)
        BY <2>9 DEF RowsWritten
  <2> QED BY <1>3, <2>1, <2>2, <2>3, <2>4, <2>5, <2>6, <2>7, <2>8, <2>9
          DEF FinalizeStep
<1>4. ASSUME NEW j \in Jobs, Crash(j) PROVE CohortTypeOK'
      BY <1>4 DEF Crash
<1>5. ASSUME NEW c \in Candidates, DedupChanges(c) PROVE CohortTypeOK'
  <2>1. changes' \in 0..MaxChanges
        BY <1>5, CohortAssumption DEF DedupChanges
  <2> QED BY <1>5, <2>1 DEF DedupChanges
<1>6. CASE UNCHANGED cohortVars
      BY <1>6 DEF cohortVars
<1> QED BY <1>1, <1>2, <1>3, <1>4, <1>5, <1>6 DEF CohortNext

\* Every variable keeps to its type, for any number of candidates and jobs: a
\* claim names a job, a registration a candidate of the cohort
\* (population.py:166-167).
THEOREM CohortTypeCorrect == CohortSpec => []CohortTypeOK
BY InitType, StepType, PTL DEF CohortSpec

-------------------------------------------------------------------------------
(* Runs and registrations                                                  *)

HasEntry(c) == \E x \in registered : x.cand = c

\* A job past its publication, or that found one, has the batch in front of it.
BatchSeen ==
  \A j \in Jobs :
    (\/ pc[j] \in {"registering", "releasing", "reusing", "reregistering"}
     \/ pc[j] = "abandoning" /\ found[j] = NoJob)
      => cand[j] \in published

\* The path that wrote a registration fits what the evaluation came to.
KindFits ==
  /\ \A x \in registered :
       \/ outcome[x.cand] = "EVIDENCE_READY" /\ x.kind = "executed"
       \/ outcome[x.cand] = "INCOMPLETE" /\ x.kind \in {"executed", "abandoned"}
       \/ outcome[x.cand] = "REJECTED" /\ x.kind \in {"rejection", "reused"}
  /\ \A x \in registered : x.kind # "abandoned" => x.at = NoJob
  /\ \A j \in Jobs : pc[j] = "abandoning" => outcome[cand[j]] = "INCOMPLETE"

\* A job that has registered, or found a registration, leaves one.
EntryLeft ==
  \A j \in Jobs : pc[j] \in {"releasing", "done", "abandoned"} => HasEntry(cand[j])

RunInv == EvidenceFirst /\ BatchSeen /\ KindFits /\ EntryLeft

LEMMA InitRunInv == CohortInit => RunInv
BY DEF CohortInit, RunInv, EvidenceFirst, BatchSeen, KindFits, EntryLeft

\* A step that goes on from a place with a batch to another, and registers
\* nothing, keeps the invariant.
LEMMA QuietRunStep ==
  ASSUME CohortTypeOK, RunInv, NEW j \in Jobs, NEW to, Goto(j, to),
         UNCHANGED <<published, registered, outcome, cand>>,
         \A i \in Jobs \ {j} : found'[i] = found[i],
         to \notin {"registering", "releasing", "reusing", "reregistering",
                    "abandoning", "done", "abandoned"}
  PROVE RunInv'
BY DEF CohortTypeOK, RunInv, EvidenceFirst, BatchSeen, KindFits, EntryLeft,
       HasEntry, Goto

\* A step that registers the job's candidate, from a place with a batch and in the
\* way its outcome asks for, keeps the invariant.
LEMMA PutRunStep ==
  ASSUME CohortTypeOK, RunInv, NEW j \in Jobs, NEW kind, NEW at, NEW to,
         Put(cand[j], kind, at), Goto(j, to),
         to \in {"releasing", "done", "abandoned"},
         UNCHANGED <<published, outcome, cand>>,
         \A i \in Jobs \ {j} : found'[i] = found[i],
         at = NoJob => cand[j] \in published,
         kind # "abandoned" => at = NoJob,
         to = "releasing" => cand[j] \in published,
         \/ outcome[cand[j]] = "EVIDENCE_READY" /\ kind = "executed"
         \/ outcome[cand[j]] = "INCOMPLETE" /\ kind \in {"executed", "abandoned"}
         \/ outcome[cand[j]] = "REJECTED" /\ kind \in {"rejection", "reused"}
  PROVE RunInv'
<1> DEFINE new == [cand |-> cand[j], kind |-> kind, at |-> at]
<1>1. /\ registered' = registered \cup {new}
      /\ new.cand = cand[j] /\ new.kind = kind /\ new.at = at
      BY DEF Put
<1> HIDE DEF new
<1>2. pc' = [pc EXCEPT ![j] = to] /\ pc \in [Jobs -> Live \cup Over \cup {"new"}]
      BY DEF Goto, CohortTypeOK
<1>3. EvidenceFirst'
      BY <1>1 DEF RunInv, EvidenceFirst
<1>4. BatchSeen'
      BY <1>2 DEF RunInv, BatchSeen
<1>5. KindFits'
  <2>1. ASSUME NEW x \in registered'
        PROVE \/ outcome[x.cand] = "EVIDENCE_READY" /\ x.kind = "executed"
              \/ outcome[x.cand] = "INCOMPLETE" /\ x.kind \in {"executed", "abandoned"}
              \/ outcome[x.cand] = "REJECTED" /\ x.kind \in {"rejection", "reused"}
    <3>1. CASE x \in registered
          BY <3>1 DEF RunInv, KindFits
    <3>2. CASE x = new
          BY <3>2, <1>1
    <3> QED BY <1>1, <3>1, <3>2
  <2>2. \A x \in registered' : x.kind # "abandoned" => x.at = NoJob
        BY <1>1 DEF RunInv, KindFits
  <2> QED BY <2>1, <2>2, <1>2 DEF RunInv, KindFits
<1>6. EntryLeft'
  <2>1. HasEntry(cand[j])'
        BY <1>1 DEF HasEntry
  <2>2. \A c : HasEntry(c) => HasEntry(c)'
        BY <1>1 DEF HasEntry
  <2> QED BY <2>1, <2>2, <1>2 DEF RunInv, EntryLeft
<1> QED BY <1>3, <1>4, <1>5, <1>6 DEF RunInv

LEMMA StepRunInv ==
  CohortTypeOK /\ RunInv /\ [CohortNext]_cohortVars => RunInv'
<1> SUFFICES ASSUME CohortTypeOK, RunInv, [CohortNext]_cohortVars PROVE RunInv'
    OBVIOUS
<1> USE DEF CohortTypeOK, fileVars, finalVars, Goto
<1>1. ASSUME NEW j \in Jobs, RunStep(j) PROVE RunInv'
  <2>1. CASE Look(j)
        BY <2>1 DEF Look, RunInv, EvidenceFirst, BatchSeen, KindFits, EntryLeft,
                    HasEntry
  <2>2. CASE TakeClaim(j)
        BY <2>2, QuietRunStep DEF TakeClaim
  <2>3. CASE ClaimRefused(j)
        BY <2>3, QuietRunStep DEF ClaimRefused
  <2>4. CASE EvaluateFails(j)
        BY <2>4, QuietRunStep DEF EvaluateFails
  <2>11. CASE WriteDraft(j)
        BY <2>11, QuietRunStep DEF WriteDraft
  <2>5. CASE Publish(j)
        BY <2>5 DEF Publish, RunInv, EvidenceFirst, BatchSeen, KindFits, EntryLeft,
                    HasEntry
  <2>6. CASE PublishConflict(j)
        BY <2>6, QuietRunStep DEF PublishConflict
  <2>7. CASE Register(j)
    <3>1. cand[j] \in published /\ outcome[cand[j]] \in Outcomes
          BY <2>7 DEF Register, RunInv, BatchSeen
    <3>2. CASE outcome[cand[j]] = "REJECTED"
      <4>1. Put(cand[j], "rejection", NoJob) /\ Goto(j, "releasing")
            BY <2>7, <3>2 DEF Register
      <4> QED BY <2>7, <3>1, <3>2, <4>1, PutRunStep DEF Register
    <3>3. CASE outcome[cand[j]] # "REJECTED"
      <4>1. Put(cand[j], "executed", NoJob) /\ Goto(j, "releasing")
            BY <2>7, <3>3 DEF Register
      <4>2. outcome[cand[j]] \in {"EVIDENCE_READY", "INCOMPLETE"}
            BY <3>1, <3>3 DEF Outcomes
      <4>3. UNCHANGED <<published, outcome, cand, found>>
            BY <2>7 DEF Register
      <4>4. \A i \in Jobs \ {j} : found'[i] = found[i]
            BY <4>3
      <4> HIDE DEF Goto, CohortTypeOK
      <4> QED BY <3>1, <4>1, <4>2, <4>3, <4>4, PutRunStep
    <3> QED BY <3>2, <3>3
  <2>8. CASE Release(j)
        BY <2>8 DEF Release, RunInv, EvidenceFirst, BatchSeen, KindFits, EntryLeft,
                    HasEntry
  <2>9. CASE Reuse(j)
        BY <2>9 DEF Reuse, Entries, RunInv, EvidenceFirst, BatchSeen, KindFits, EntryLeft,
                    HasEntry
  <2>10. CASE Reregister(j)
    <3>1. cand[j] \in published /\ outcome[cand[j]] \in Outcomes
          BY <2>10 DEF Reregister, RunInv, BatchSeen
    <3>2. CASE outcome[cand[j]] = "REJECTED"
      <4>1. Put(cand[j], "reused", NoJob) /\ Goto(j, "done")
            BY <2>10, <3>2 DEF Reregister
      <4> QED BY <2>10, <3>1, <3>2, <4>1, PutRunStep DEF Reregister
    <3>3. CASE outcome[cand[j]] # "REJECTED"
      <4>1. Put(cand[j], "executed", NoJob) /\ Goto(j, "done")
            BY <2>10, <3>3 DEF Reregister
      <4>2. outcome[cand[j]] \in {"EVIDENCE_READY", "INCOMPLETE"}
            BY <3>1, <3>3 DEF Outcomes
      <4>3. UNCHANGED <<published, outcome, cand, found>>
            BY <2>10 DEF Reregister
      <4>4. \A i \in Jobs \ {j} : found'[i] = found[i]
            BY <4>3
      <4> HIDE DEF Goto, CohortTypeOK
      <4> QED BY <3>1, <4>1, <4>2, <4>3, <4>4, PutRunStep
    <3> QED BY <3>2, <3>3
  <2> QED BY <1>1, <2>1, <2>2, <2>3, <2>4, <2>5, <2>6, <2>7, <2>8, <2>9, <2>10, <2>11
          DEF RunStep
<1>2. ASSUME NEW j \in Jobs, AbandonStep(j) PROVE RunInv'
  <2>1. CASE StartAbandon(j)
    <3>1. /\ \A i \in Jobs \ {j} : found'[i] = found[i]
          /\ found'[j] = NoJob => cand[j] \in published
          BY <2>1, CohortAssumption DEF StartAbandon
    <3> QED BY <2>1, <3>1 DEF StartAbandon, RunInv, EvidenceFirst, BatchSeen,
                              KindFits, EntryLeft, HasEntry
  <2>2. CASE Abandon(j)
    <3>1. /\ Put(cand[j], "abandoned", found[j]) /\ Goto(j, "abandoned")
          /\ UNCHANGED <<published, outcome, cand>>
          /\ \A i \in Jobs \ {j} : found'[i] = found[i]
          BY <2>2 DEF Abandon
    <3>2. /\ found[j] = NoJob => cand[j] \in published
          /\ outcome[cand[j]] = "INCOMPLETE"
          BY <2>2 DEF Abandon, RunInv, BatchSeen, KindFits
    <3> HIDE DEF Goto, CohortTypeOK
    <3> QED BY <3>1, <3>2, PutRunStep
  <2> QED BY <1>2, <2>1, <2>2 DEF AbandonStep
<1>3. ASSUME NEW j \in Jobs, FinalizeStep(j) PROVE RunInv'
  <2>1. CASE AppendRow(j)
        BY <2>1 DEF AppendRow, RunInv, EvidenceFirst, BatchSeen, KindFits,
                    EntryLeft, HasEntry
  <2> QED BY <1>3, <2>1, QuietRunStep
          DEF FinalizeStep, StartFinalize, JudgeFails, NoVerdict, SameVerdict,
              OtherVerdict, ReplaceVerdict, ReadFace, RowsWritten
<1>4. ASSUME NEW j \in Jobs, Crash(j) PROVE RunInv'
      BY <1>4, QuietRunStep DEF Crash
<1>5. CASE (\E c \in Candidates : DedupChanges(c)) \/ UNCHANGED cohortVars
      BY <1>5 DEF DedupChanges, cohortVars, RunInv, EvidenceFirst, BatchSeen,
                  KindFits, EntryLeft, HasEntry
<1> QED BY <1>1, <1>2, <1>3, <1>4, <1>5 DEF CohortNext

LEMMA RunInductive == CohortSpec => [](CohortTypeOK /\ RunInv)
BY InitType, StepType, InitRunInv, StepRunInv, PTL DEF CohortSpec

\* No registration without a visible batch, whoever wrote it and whoever died
\* (canonical_execute.py:215-229, canonical_registration.py:106-155).
THEOREM EvidenceFirstHolds == CohortSpec => []EvidenceFirst
<1>1. RunInv => EvidenceFirst
      BY DEF RunInv
<1> QED BY <1>1, RunInductive, PTL

\* A run or an abandon that ended well has left a registration
\* (canonical_registration.py:115-119).
THEOREM DoneMeansRegisteredHolds == CohortSpec => []DoneMeansRegistered
<1>1. RunInv => DoneMeansRegistered
      BY DEF RunInv, EntryLeft, HasEntry, DoneMeansRegistered, Entries
<1> QED BY <1>1, RunInductive, PTL

\* However many jobs register a candidate with complete evidence, they write one
\* registration: what keeps the cohort readable (population.py:201-206).
THEOREM ReadyMembersAgreeHolds == CohortSpec => []ReadyMembersAgree
<1>1. CohortTypeOK /\ RunInv => ReadyMembersAgree
      BY DEF CohortTypeOK, Members, RunInv, KindFits, ReadyMembersAgree
<1> QED BY <1>1, RunInductive, PTL

-------------------------------------------------------------------------------
(* Verdicts and rows                                                       *)

\* A verdict that says of every candidate what its registration says.
SoundVerdict(v) ==
  \A c \in Candidates :
    /\ HasEntry(c)
    /\ v[c] \in Fates \ {"none"}
    /\ v[c] = "rejected" <=> outcome[c] = "REJECTED"
    /\ Settled => v[c] \in {"rejected", nearest[c]}

JudgedSound == \A j \in Jobs : judged[j] = Blank \/ SoundVerdict(judged[j])

\* A finalizing job has its verdict from its first step on.
JudgedInTime ==
  \A j \in Jobs :
    /\ pc[j] = "new" => judged[j] = Blank
    /\ pc[j] \in {"judging", "replacing", "reading", "appending", "finalized"}
         => judged[j] # Blank

\* The verdict on file is some job's, and is there before any row is.
VerdictJudged == verdict = Blank \/ \E j \in Jobs : verdict = judged[j]

VerdictInTime ==
  \A j \in Jobs : pc[j] \in {"reading", "appending"} => verdict # Blank

\* While nothing has moved all verdicts are one.
NoMismatch == Settled => \A j \in Jobs : pc[j] # "mismatch"

\* A row, appended or still to be, says what some job has judged.
RowJudged ==
  \A r \in Rows :
    r \in face \/ (\E j \in Jobs : r \in todo[j]) =>
      /\ verdict # Blank
      /\ \E i \in Jobs : judged[i] # Blank /\ r.fate = judged[i][r.cand]

\* No candidate is forgotten on the way to the last row.
RowsComplete ==
  \A j \in Jobs : \A c \in Candidates :
    /\ pc[j] = "appending" => \E r \in face \cup todo[j] : r.cand = c
    /\ pc[j] = "finalized" => \E r \in face : r.cand = c

FinalInv == /\ JudgedSound /\ JudgedInTime /\ VerdictJudged /\ VerdictInTime
            /\ NoMismatch /\ RowJudged /\ RowsComplete

CohortInv == CohortTypeOK /\ RunInv /\ FinalInv

LEMMA InitFinalInv == CohortInit => FinalInv
BY DEF CohortInit, FinalInv, JudgedSound, JudgedInTime, VerdictJudged,
       VerdictInTime, NoMismatch, RowJudged, RowsComplete

\* What has moved stays so, and what has not moved is as it was.
Onward ==
  /\ registered \subseteq registered'
  /\ changes' = 0 => changes = 0 /\ nearest' = nearest

\* A judged verdict stays sound: registrations and changes only ever come.
LEMMA SoundStays ==
  ASSUME JudgedSound, Onward, outcome' = outcome, NEW j \in Jobs,
         judged'[j] = judged[j]
  PROVE (judged[j] = Blank \/ SoundVerdict(judged[j]))'
BY DEF JudgedSound, SoundVerdict, HasEntry, Blank, Onward, Settled

\* While nothing has moved, one population has one sound verdict.
LEMMA SoundVerdictsAgree ==
  ASSUME NEW v \in Verdicts, NEW w \in Verdicts,
         SoundVerdict(v), SoundVerdict(w), Settled
  PROVE v = w
<1> USE DEF Verdicts
<1>1. \A c \in Candidates : v[c] = w[c]
      BY DEF SoundVerdict
<1> QED BY <1>1

\* What a finalizing job judges is sound, and not blank when there is anybody to
\* judge.
LEMMA JudgementIsSound ==
  ASSUME CohortTypeOK, RunInv, Complete, NEW v \in Verdicts, Judgement(v)
  PROVE SoundVerdict(v)
<1> SUFFICES ASSUME NEW c \in Candidates
             PROVE /\ HasEntry(c)
                   /\ v[c] \in Fates \ {"none"}
                   /\ v[c] = "rejected" <=> outcome[c] = "REJECTED"
                   /\ Settled => v[c] \in {"rejected", nearest[c]}
    BY DEF SoundVerdict
<1>1. Says(c, v[c]) /\ Entries(c) # {}
      BY DEF Judgement, Complete
<1>2. PICK x \in registered :
        /\ x.cand = c
        /\ \/ x.kind \in {"rejection", "reused"} /\ v[c] = "rejected"
           \/ x.kind \in {"executed", "abandoned"} /\ v[c] = nearest[c]
           \/ x.kind = "abandoned" /\ x.at # NoJob /\ v[c] = "unread"
      BY <1>1 DEF Says, Entries
<1>3. nearest[c] \in Fates \ {"none", "rejected", "unread"}
      BY CohortAssumption DEF CohortTypeOK, Fates
<1>4. v[c] = "rejected" <=> outcome[c] = "REJECTED"
      BY <1>2, <1>3 DEF RunInv, KindFits
<1>5. v[c] \in Fates \ {"none"}
      BY <1>2, <1>3 DEF Fates
<1>6. Settled => v[c] \in {"rejected", nearest[c]}
      BY <1>2 DEF Settled
<1> QED BY <1>2, <1>4, <1>5, <1>6 DEF HasEntry

\* A job that does not finalize, or gives up, leaves verdicts and rows alone.
LEMMA QuietFinalStep ==
  ASSUME CohortTypeOK, FinalInv, NEW j \in Jobs, NEW to, Goto(j, to),
         registered \subseteq registered',
         UNCHANGED <<outcome, dedupVars, verdict, face, judged, todo>>,
         to \notin {"new", "judging", "replacing", "reading", "appending",
                    "finalized", "mismatch"}
  PROVE FinalInv'
<1>1. pc' = [pc EXCEPT ![j] = to] /\ pc \in [Jobs -> Live \cup Over \cup {"new"}]
      BY DEF Goto, CohortTypeOK
<1>2. JudgedSound'
      BY SoundStays DEF FinalInv, JudgedSound, Blank, Onward, dedupVars
<1>3. JudgedInTime'
      BY <1>1 DEF FinalInv, JudgedInTime, Blank
<1>4. VerdictJudged' /\ NoMismatch'
      BY <1>1 DEF FinalInv, VerdictJudged, NoMismatch, Blank, Settled, dedupVars
<1>5. VerdictInTime'
      BY <1>1 DEF FinalInv, VerdictInTime, Blank
<1>6. RowJudged'
      BY DEF FinalInv, RowJudged, Blank
<1>7. RowsComplete'
      BY <1>1 DEF FinalInv, RowsComplete
<1> QED BY <1>2, <1>3, <1>4, <1>5, <1>6, <1>7 DEF FinalInv

LEMMA StepFinalInv == CohortInv /\ [CohortNext]_cohortVars => FinalInv'
<1> SUFFICES ASSUME CohortInv, [CohortNext]_cohortVars PROVE FinalInv'
    OBVIOUS
<1> USE DEF CohortInv, fileVars, dedupVars, finalVars
<1>1. ASSUME NEW j \in Jobs, RunStep(j) \/ AbandonStep(j) \/ Crash(j)
      PROVE FinalInv'
      BY <1>1, QuietFinalStep
         DEF RunStep, AbandonStep, Crash, Look, TakeClaim, ClaimRefused,
             WriteDraft, EvaluateFails, Publish, PublishConflict, Register, Release, Reuse,
             Reregister, StartAbandon, Abandon, Put
<1>2. ASSUME NEW j \in Jobs, FinalizeStep(j) PROVE FinalInv'
  <2> USE DEF CohortTypeOK, Goto, Blank
  <2>1. CASE StartFinalize(j)
    <3>1. PICK v \in Verdicts :
            Judgement(v) /\ judged' = [judged EXCEPT ![j] = v]
          BY <2>1 DEF StartFinalize
    <3>2. SoundVerdict(v) /\ v # Blank
          BY <2>1, <3>1, JudgementIsSound DEF StartFinalize, SoundVerdict
    <3>3. judged[j] = Blank
          BY <2>1 DEF StartFinalize, FinalInv, JudgedInTime
    <3>4. judged' = [judged EXCEPT ![j] = v]
          /\ pc' = [pc EXCEPT ![j] = "judging"] /\ pc[j] = "new"
          /\ UNCHANGED <<registered, outcome, dedupVars, verdict, face, todo>>
          BY <2>1, <3>1 DEF StartFinalize
    <3> HIDE DEF Blank
    <3>5. JudgedSound'
      <4>1. ASSUME NEW i \in Jobs, i # j
            PROVE (judged[i] = Blank \/ SoundVerdict(judged[i]))'
            BY <4>1, <3>4, SoundStays DEF FinalInv, Onward
      <4>2. judged'[j] = v
            BY <3>4
      <4>3. SoundVerdict(judged[j])'
            BY <3>2, <3>4, <4>2 DEF SoundVerdict, HasEntry, Settled
      <4> QED BY <4>1, <4>3 DEF JudgedSound
    <3>6. JudgedInTime'
          BY <3>2, <3>4 DEF FinalInv, JudgedInTime, Blank
    <3>7. VerdictJudged'
          BY <3>3, <3>4 DEF FinalInv, VerdictJudged, Blank
    <3>8. VerdictInTime' /\ NoMismatch' /\ RowsComplete'
          BY <3>4 DEF FinalInv, VerdictInTime, NoMismatch, RowsComplete, Blank, Settled
    <3>9. RowJudged'
          BY <3>3, <3>4 DEF FinalInv, RowJudged, Blank
    <3> QED BY <3>5, <3>6, <3>7, <3>8, <3>9 DEF FinalInv
  <2>2. CASE JudgeFails(j)
        BY <2>2, QuietFinalStep DEF JudgeFails
  <2>3. CASE NoVerdict(j)
        BY <2>3, SoundStays
           DEF NoVerdict, Onward, Settled, FinalInv, JudgedSound, JudgedInTime,
               VerdictJudged, VerdictInTime, NoMismatch, RowJudged, RowsComplete
  <2>4. CASE SameVerdict(j)
    <3>1. JudgedSound'
          BY <2>4, SoundStays DEF SameVerdict, Onward, FinalInv, JudgedSound
    <3>2. JudgedInTime' /\ VerdictJudged' /\ VerdictInTime' /\ NoMismatch'
          BY <2>4 DEF SameVerdict, FinalInv, JudgedInTime, VerdictJudged,
                      VerdictInTime, NoMismatch, Settled
    <3>3. RowJudged' /\ RowsComplete'
          BY <2>4 DEF SameVerdict, FinalInv, RowJudged, RowsComplete
    <3> QED BY <3>1, <3>2, <3>3 DEF FinalInv
  <2>5. CASE OtherVerdict(j)
    <3>1. ~Settled
      <4>1. PICK i \in Jobs : verdict = judged[i]
            BY <2>5 DEF OtherVerdict, FinalInv, VerdictJudged
      <4>2. SoundVerdict(judged[i]) /\ SoundVerdict(judged[j])
            BY <2>5, <4>1 DEF OtherVerdict, FinalInv, JudgedSound, JudgedInTime
      <4> QED BY <2>5, <4>1, <4>2, SoundVerdictsAgree DEF OtherVerdict
    <3>2. JudgedSound'
          BY <2>5, SoundStays DEF OtherVerdict, Onward, FinalInv, JudgedSound
    <3>3. JudgedInTime' /\ VerdictJudged' /\ VerdictInTime' /\ NoMismatch'
          BY <2>5, <3>1 DEF OtherVerdict, FinalInv, JudgedInTime, VerdictJudged,
                            VerdictInTime, NoMismatch, Settled
    <3>4. RowJudged' /\ RowsComplete'
          BY <2>5 DEF OtherVerdict, FinalInv, RowJudged, RowsComplete
    <3> QED BY <3>2, <3>3, <3>4 DEF FinalInv
  <2>6. CASE ReplaceVerdict(j)
    <3>1. JudgedSound' /\ JudgedInTime'
          BY <2>6, SoundStays
             DEF ReplaceVerdict, Onward, FinalInv, JudgedSound, JudgedInTime
    <3>2. VerdictJudged'
          BY <2>6 DEF ReplaceVerdict, FinalInv, VerdictJudged
    <3>3. VerdictInTime'
          BY <2>6 DEF ReplaceVerdict, FinalInv, JudgedInTime, VerdictInTime
    <3>4. NoMismatch'
          BY <2>6 DEF ReplaceVerdict, FinalInv, NoMismatch, Settled
    <3>5. RowJudged'
          BY <2>6 DEF ReplaceVerdict, FinalInv, JudgedInTime, VerdictJudged, VerdictInTime,
                      RowJudged, Rows
    <3>6. RowsComplete'
          BY <2>6 DEF ReplaceVerdict, FinalInv, RowsComplete
    <3> QED BY <3>1, <3>2, <3>3, <3>4, <3>5, <3>6 DEF FinalInv
  <2>7. CASE ReadFace(j)
    <3>1. JudgedSound' /\ JudgedInTime'
          BY <2>7, SoundStays DEF ReadFace, Onward, FinalInv, JudgedSound, JudgedInTime
    <3>2. VerdictJudged'
          BY <2>7 DEF ReadFace, FinalInv, VerdictJudged
    <3>3. VerdictInTime'
          BY <2>7 DEF ReadFace, FinalInv, JudgedInTime, VerdictInTime
    <3>4. NoMismatch'
          BY <2>7 DEF ReadFace, FinalInv, NoMismatch, Settled
    <3>5. RowJudged'
          BY <2>7 DEF ReadFace, FinalInv, JudgedInTime, VerdictJudged, VerdictInTime,
                      RowJudged, Rows
    <3>6. RowsComplete'
      <4>1. ASSUME NEW c \in Candidates, \A r \in face : r.cand # c
            PROVE \E r \in todo'[j] : r.cand = c
        <5>1. [cand |-> c, fate |-> verdict[c]] \in todo'[j]
              BY <2>7, <4>1 DEF ReadFace
        <5> QED BY <5>1
      <4> QED BY <2>7, <4>1 DEF ReadFace, FinalInv, RowsComplete
    <3> QED BY <3>1, <3>2, <3>3, <3>4, <3>5, <3>6 DEF FinalInv
  <2>8. CASE AppendRow(j)
    <3>1. JudgedSound' /\ JudgedInTime'
          BY <2>8, SoundStays DEF AppendRow, Onward, FinalInv, JudgedSound, JudgedInTime
    <3>2. VerdictJudged'
          BY <2>8 DEF AppendRow, FinalInv, VerdictJudged
    <3>3. VerdictInTime'
          BY <2>8 DEF AppendRow, FinalInv, JudgedInTime, VerdictInTime
    <3>4. NoMismatch'
          BY <2>8 DEF AppendRow, FinalInv, NoMismatch, Settled
    <3>5. RowJudged'
          BY <2>8 DEF AppendRow, FinalInv, JudgedInTime, VerdictJudged, VerdictInTime,
                      RowJudged, Rows
    <3>6. RowsComplete'
          BY <2>8 DEF AppendRow, FinalInv, RowsComplete
    <3> QED BY <3>1, <3>2, <3>3, <3>4, <3>5, <3>6 DEF FinalInv
  <2>9. CASE RowsWritten(j)
    <3>1. JudgedSound' /\ JudgedInTime'
          BY <2>9, SoundStays DEF RowsWritten, Onward, FinalInv, JudgedSound, JudgedInTime
    <3>2. VerdictJudged'
          BY <2>9 DEF RowsWritten, FinalInv, VerdictJudged
    <3>3. VerdictInTime'
          BY <2>9 DEF RowsWritten, FinalInv, JudgedInTime, VerdictInTime
    <3>4. NoMismatch'
          BY <2>9 DEF RowsWritten, FinalInv, NoMismatch, Settled
    <3>5. RowJudged'
          BY <2>9 DEF RowsWritten, FinalInv, JudgedInTime, VerdictJudged, VerdictInTime,
                      RowJudged, Rows
    <3>6. RowsComplete'
          BY <2>9 DEF RowsWritten, FinalInv, RowsComplete
    <3> QED BY <3>1, <3>2, <3>3, <3>4, <3>5, <3>6 DEF FinalInv
  <2> QED BY <1>2, <2>1, <2>2, <2>3, <2>4, <2>5, <2>6, <2>7, <2>8, <2>9
          DEF FinalizeStep
<1>3. CASE (\E c \in Candidates : DedupChanges(c)) \/ UNCHANGED cohortVars
      BY <1>3, SoundStays
         DEF DedupChanges, CohortTypeOK, Onward, Settled, cohortVars, FinalInv,
             JudgedSound, JudgedInTime, VerdictJudged, VerdictInTime, NoMismatch,
             RowJudged, RowsComplete
<1> QED BY <1>1, <1>2, <1>3 DEF CohortNext

\* What is on file and where each job is hang together in every state.
THEOREM CohortInductive == CohortSpec => []CohortInv
<1>1. CohortInit => CohortInv
      BY InitType, InitRunInv, InitFinalInv DEF CohortInv
<1>2. CohortInv /\ [CohortNext]_cohortVars => CohortInv'
      BY StepType, StepRunInv, StepFinalInv DEF CohortInv
<1> QED BY <1>1, <1>2, PTL DEF CohortSpec

\* No verdict on a part of the population, for any number of candidates and of
\* finalizes at a time (population.py:242-265).
THEOREM VerdictIsPopulationHolds == CohortSpec => []VerdictIsPopulation
<1>1. CohortInv => VerdictIsPopulation
  <2> SUFFICES ASSUME CohortInv, verdict # Blank, NEW c \in Candidates
               PROVE /\ Entries(c) # {}
                     /\ verdict[c] = "rejected" <=> outcome[c] = "REJECTED"
      BY DEF VerdictIsPopulation
  <2>1. PICK j \in Jobs : verdict = judged[j]
        BY DEF CohortInv, FinalInv, VerdictJudged
  <2>2. SoundVerdict(judged[j])
        BY <2>1 DEF CohortInv, FinalInv, JudgedSound
  <2> QED BY <2>1, <2>2 DEF SoundVerdict, HasEntry, Entries
<1> QED BY <1>1, CohortInductive, PTL

\* Finalizing again never meets another verdict while no dedup has changed and all
\* evidence is published, however many jobs finalize and die (population.py:272-276).
THEOREM FinalizeIsRepeatableHolds == CohortSpec => []FinalizeIsRepeatable
<1>1. CohortInv => FinalizeIsRepeatable
      BY DEF CohortInv, FinalInv, NoMismatch, FinalizeIsRepeatable
<1> QED BY <1>1, CohortInductive, PTL

\* However many finalizes overlap, the rejected stay rejected and the others do not
\* become so; while nothing has moved the verdict stays as it is
\* (population.py:266-282).
THEOREM VerdictIsFinalHolds == CohortSpec => VerdictIsFinal
<1> DEFINE Kept == verdict # Blank =>
                     /\ verdict' # Blank
                     /\ \A c \in Candidates :
                          verdict'[c] = "rejected" <=> verdict[c] = "rejected"
                     /\ Settled => verdict' = verdict
<1>1. CohortInv /\ [CohortNext]_cohortVars => [Kept]_cohortVars
  <2> SUFFICES ASSUME CohortInv, CohortNext, verdict # Blank, verdict' # verdict
               PROVE  Kept
      OBVIOUS
  <2>1. PICK j \in Jobs : ReplaceVerdict(j)
        BY DEF CohortNext, RunStep, AbandonStep, FinalizeStep, fileVars, finalVars,
               Look, TakeClaim, ClaimRefused, WriteDraft, EvaluateFails, Publish,
               PublishConflict, Register, Release, Reuse, Reregister,
               StartAbandon, Abandon, StartFinalize, JudgeFails, NoVerdict,
               SameVerdict, OtherVerdict, ReadFace, AppendRow, RowsWritten, Crash,
               DedupChanges
  <2>2. PICK i \in Jobs : verdict = judged[i]
        BY DEF CohortInv, FinalInv, VerdictJudged
  <2>3. verdict' = judged[j] /\ judged[j] # Blank
        BY <2>1 DEF ReplaceVerdict, CohortInv, FinalInv, JudgedInTime
  <2>4. SoundVerdict(judged[i]) /\ SoundVerdict(judged[j])
        BY <2>2, <2>3 DEF CohortInv, FinalInv, JudgedSound
  <2>5. judged[i] \in Verdicts /\ judged[j] \in Verdicts
        BY DEF CohortInv, CohortTypeOK
  <2>6. Settled => verdict' = verdict
        BY <2>2, <2>3, <2>4, <2>5, SoundVerdictsAgree
  <2>7. \A c \in Candidates : verdict'[c] = "rejected" <=> verdict[c] = "rejected"
        BY <2>2, <2>3, <2>4 DEF SoundVerdict
  <2> QED BY <2>3, <2>6, <2>7
<1> QED BY <1>1, CohortInductive, PTL DEF CohortSpec, VerdictIsFinal

\* The face is complete when a finalize has ended well, and says what the verdict
\* says (registry_writeback.py:103-167).
THEOREM FaceIsVerdictHolds == CohortSpec => []FaceIsVerdict
<1>1. CohortInv => FaceIsVerdict
  <2> SUFFICES ASSUME CohortInv PROVE FaceIsVerdict
      OBVIOUS
  <2>1. ASSUME NEW j \in Jobs, pc[j] = "finalized", NEW c \in Candidates
        PROVE \E r \in face : r.cand = c
        BY <2>1 DEF CohortInv, FinalInv, RowsComplete
  <2>2. ASSUME \A i, j \in Jobs :
                 Blank \notin {judged[i], judged[j]} => judged[i] = judged[j],
               NEW r \in face
        PROVE r.fate = verdict[r.cand]
    <3>1. r \in Rows /\ verdict # Blank
          BY DEF CohortInv, CohortTypeOK, FinalInv, RowJudged
    <3>2. PICK i \in Jobs : judged[i] # Blank /\ r.fate = judged[i][r.cand]
          BY <3>1 DEF CohortInv, FinalInv, RowJudged
    <3>3. PICK j \in Jobs : verdict = judged[j]
          BY <3>1 DEF CohortInv, FinalInv, VerdictJudged
    <3>4. judged[i] = judged[j]
          BY <2>2, <3>1, <3>2, <3>3
    <3> QED BY <3>2, <3>3, <3>4
  <2> QED BY <2>1, <2>2 DEF FaceIsVerdict
<1> QED BY <1>1, CohortInductive, PTL

-------------------------------------------------------------------------------
(* Claims: the jobs do with them what Claim allows, and nothing else.       *)

\* What a step of job j is to the claims: nothing, ...
Unseen(j) ==
  /\ writer' = writer
  /\ \/ pc' = pc
     \/ \E to : /\ Goto(j, to)
                /\ to \in AtWork <=> pc[j] \in AtWork
                /\ pc[j] \notin Over /\ to \notin Over

\* ... its end with the claim left as it is, ...
Ends(j) ==
  /\ writer' = writer
  /\ pc[j] \notin Over
  /\ \E to \in Over : Goto(j, to)

\* ... or the end of its work.
Finishes(j) ==
  /\ LetGo(cand[j])
  /\ pc[j] \in AtWork
  /\ \E to \in Over : Goto(j, to)

LEMMA ClaimShape ==
  ASSUME NEW j \in Jobs,
         RunStep(j) \/ AbandonStep(j) \/ FinalizeStep(j) \/ Crash(j)
  PROVE  cand' = cand /\ (Unseen(j) \/ Ends(j) \/ Finishes(j) \/ TakeClaim(j))
<1> USE DEF AtWork, Over, fileVars, finalVars
<1>1. CASE RunStep(j)
  <2>1. CASE Look(j) \/ WriteDraft(j) \/ Publish(j) \/ Register(j)
    BY <2>1 DEF Look, WriteDraft, Publish, Register, Unseen
  <2>2. CASE EvaluateFails(j) \/ PublishConflict(j) \/ Release(j)
    BY <2>2 DEF EvaluateFails, PublishConflict, Release, Finishes
  <2>3. CASE ClaimRefused(j) \/ Reregister(j)
    BY <2>3 DEF ClaimRefused, Reregister, Ends
  <2>4. CASE Reuse(j)
    BY <2>4 DEF Reuse, Ends, Unseen
  <2> QED
    BY <1>1, <2>1, <2>2, <2>3, <2>4 DEF RunStep, TakeClaim
<1>2. CASE AbandonStep(j)
  BY <1>2 DEF AbandonStep, StartAbandon, Abandon, Unseen, Ends
<1>3. CASE FinalizeStep(j)
  <2>1. CASE \/ StartFinalize(j) \/ NoVerdict(j) \/ SameVerdict(j)
             \/ ReplaceVerdict(j) \/ ReadFace(j) \/ AppendRow(j)
    BY <2>1 DEF StartFinalize, NoVerdict, SameVerdict, ReplaceVerdict, ReadFace,
       AppendRow, Unseen
  <2>2. CASE JudgeFails(j) \/ OtherVerdict(j) \/ RowsWritten(j)
    BY <2>2 DEF JudgeFails, OtherVerdict, RowsWritten, Ends
  <2> QED
    BY <1>3, <2>1, <2>2 DEF FinalizeStep
<1>4. CASE Crash(j)
  BY <1>4 DEF Crash, Live, Ends
<1> QED
  BY <1>1, <1>2, <1>3, <1>4

\* A job at work is the one its candidate's claim names.
ClaimKept == \A j \in Jobs : pc[j] \in AtWork => writer[cand[j]] = j

LEMMA InitClaimKept == CohortInit => ClaimKept
BY DEF CohortInit, ClaimKept, AtWork

\* The claim of one that works is taken by nobody, since it has not ended, and
\* dropped by nobody else, since who drops one works under it.
LEMMA StepClaimKept ==
  CohortTypeOK /\ ClaimKept /\ [CohortNext]_cohortVars => ClaimKept'
<1> SUFFICES ASSUME CohortTypeOK, ClaimKept, [CohortNext]_cohortVars
             PROVE  ClaimKept'
  OBVIOUS
<1> USE CohortAssumption DEF CohortTypeOK, ClaimKept, Goto
<1>1. ASSUME NEW j \in Jobs, cand' = cand, Unseen(j) \/ Ends(j) PROVE ClaimKept'
  BY <1>1 DEF Unseen, Ends, AtWork, Over
<1>2. ASSUME NEW j \in Jobs, cand' = cand, Finishes(j) PROVE ClaimKept'
  BY <1>2 DEF Finishes, LetGo, AtWork, Over
<1>3. ASSUME NEW j \in Jobs, TakeClaim(j) PROVE ClaimKept'
  BY <1>3 DEF TakeClaim, AtWork, Over
<1>4. CASE (\E c \in Candidates : DedupChanges(c)) \/ UNCHANGED cohortVars
  BY <1>4 DEF DedupChanges, cohortVars, fileVars
<1> QED
  BY <1>1, <1>2, <1>3, <1>4, ClaimShape DEF CohortNext

LEMMA ClaimInductive == CohortSpec => [](CohortTypeOK /\ ClaimKept)
BY InitType, StepType, InitClaimKept, StepClaimKept, PTL DEF CohortSpec

\* Of the jobs that evaluate a candidate one is alive: the one its claim names
\* (canonical.py:137-163).
THEOREM OneEvaluationHolds == CohortSpec => []OneEvaluation
<1>1. ClaimKept => OneEvaluation
  BY DEF ClaimKept, OneEvaluation
<1> QED
  BY <1>1, ClaimInductive, PTL

LEMMA InitClaims == CohortInit => Claims!ContractInit
BY DEF CohortInit, Claims!ContractInit, AtWork, Over

LEMMA StepClaims ==
  CohortTypeOK /\ ClaimKept /\ [CohortNext]_cohortVars
    => [Claims!ContractNext]_(Claims!claimContractVars)
<1> SUFFICES ASSUME CohortTypeOK, ClaimKept, [CohortNext]_cohortVars
             PROVE  Claims!ContractNext \/ UNCHANGED Claims!claimContractVars
  OBVIOUS
<1> DEFINE working == {j \in Jobs : pc[j] \in AtWork}
           over    == {j \in Jobs : pc[j] \in Over}
<1>1. ASSUME NEW j \in Jobs, NEW to, Goto(j, to)
      PROVE  \A i \in Jobs : pc'[i] = IF i = j THEN to ELSE pc[i]
  BY <1>1 DEF Goto, CohortTypeOK
<1>2. ASSUME NEW j \in Jobs, Unseen(j)
      PROVE  UNCHANGED Claims!claimContractVars
  <2>1. working' = working /\ over' = over
    BY <1>1, <1>2 DEF Unseen
  <2> QED
    BY <1>2, <2>1 DEF Unseen, Claims!claimContractVars
<1>3. ASSUME NEW j \in Jobs, NEW to \in Over, Goto(j, to)
      PROVE  working' = working \ {j} /\ over' = over \cup {j}
  BY <1>1, <1>3 DEF AtWork, Over
<1>4. ASSUME NEW j \in Jobs, Ends(j) PROVE Claims!End(j)
  <2>1. working' = working \ {j} /\ over' = over \cup {j} /\ j \notin over
    BY <1>3, <1>4 DEF Ends
  <2> QED
    BY <1>4, <2>1 DEF Ends, Claims!End
<1>5. ASSUME NEW j \in Jobs, Finishes(j)
      PROVE  Claims!GiveBack(cand[j], j) \/ Claims!End(j)
  <2>1. working' = working \ {j} /\ over' = over \cup {j}
    BY <1>3, <1>5 DEF Finishes
  <2>2. j \in working /\ j \notin over /\ writer[cand[j]] = j
    BY <1>5 DEF Finishes, AtWork, Over, ClaimKept
  <2> QED
    BY <1>5, <2>1, <2>2 DEF Finishes, LetGo, Claims!GiveBack, Claims!End
<1>6. ASSUME NEW j \in Jobs, TakeClaim(j) PROVE Claims!Take(cand[j], j)
  <2>1. pc[j] = "looked" /\ Goto(j, "evaluating")
    BY <1>6 DEF TakeClaim
  <2>2. working' = working \cup {j} /\ over' = over
    BY <1>1, <2>1 DEF AtWork, Over
  <2>3. j \notin working \cup over
    BY <2>1 DEF AtWork, Over
  <2>4. writer[cand[j]] # NoJob => writer[cand[j]] \in over
    BY <1>6 DEF TakeClaim, CohortTypeOK
  <2> QED
    BY <1>6, <2>2, <2>3, <2>4 DEF TakeClaim, Claims!Take
<1>7. CASE (\E c \in Candidates : DedupChanges(c)) \/ UNCHANGED cohortVars
  BY <1>7 DEF DedupChanges, cohortVars, fileVars, Claims!claimContractVars
<1>8. \A j \in Jobs : cand[j] \in Candidates
  BY DEF CohortTypeOK
<1> QED
  BY <1>2, <1>4, <1>5, <1>6, <1>7, <1>8, ClaimShape
     DEF CohortNext, Claims!ContractNext

\* For any number of candidates and jobs, the canonical runs of a cohort take and
\* leave claims within the contract that Claim implements: what this module
\* assumes of a claim is what the claim file provides (canonical.py:137-163).
THEOREM CohortKeepsClaims == CohortSpec => ImplementsClaims
<1>1. CohortInit => Claims!ContractInit
  BY InitClaims
<1>2. CohortTypeOK /\ ClaimKept /\ [CohortNext]_cohortVars
        => [Claims!ContractNext]_(Claims!claimContractVars)
  BY StepClaims
<1> QED
  BY <1>1, <1>2, ClaimInductive, PTL
     DEF CohortSpec, ImplementsClaims, Claims!ContractSpec
===============================================================================
