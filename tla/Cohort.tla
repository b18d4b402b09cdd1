--------------------------------- MODULE Cohort ---------------------------------
(***************************************************************************)
(* One cohort from the first evaluation of its candidates to the rows it    *)
(* leaves in the factor registry.                                          *)
(*                                                                         *)
(*   evaluation/canonical.py, canonical_execute.py, rejection.py,           *)
(*   canonical_registration.py       run_canonical, its reuse, register     *)
(*   evaluation/canonical_ops.py     abandon_experiment, finalize_cohort    *)
(*   evaluation/registry_writeback.py, experiment_store/population.py       *)
(*                                                                         *)
(* A job is one call of the command line in a process of its own: a         *)
(* canonical run, an abandon or a finalize.  Jobs share files only: the     *)
(* published batch of an experiment, its claim, one file per registration,  *)
(* the verdict and the registry's evaluation face.  A candidate has one     *)
(* experiment, and both go by its name.  Of the claim only what Claim shows  *)
(* is used: one writer at a time, and no take-over from a living one.       *)
(***************************************************************************)
EXTENDS Naturals, FiniteSets

CONSTANTS Candidates,  \* the commitments of the frozen cohort
          Jobs,
          NoJob,       \* nobody: no claim, no directory of a job
          Payloads,    \* what a dedup can come to: a correlation, the factor it
                       \* is with, and whether that is too much
          MaxChanges   \* how often the dedup of a candidate changes

ASSUME CohortAssumption ==
  /\ NoJob \notin Jobs
  /\ {"none", "rejected", "unread"} \cap Payloads = {}
  /\ MaxChanges \in Nat

VARIABLES outcome,     \* the terminal state evaluating a candidate comes to
          drafts,      \* the jobs whose temporary directory holds a manifest
          published,   \* the candidates whose evidence batch is visible
          writer,      \* the job that the claim of a candidate names
          registered,  \* the registration files of the cohort
          verdict,     \* cohort_verdict.json: what it says of each candidate
          nearest,     \* what the dedup of each candidate comes to now
          changes,     \* how often that has changed
          face,        \* this cohort's rows in the evaluation face
          pc, cand,    \* where each job is, and its candidate
          found,       \* the job whose temporary directory an abandon has found
          judged,      \* the verdict a finalizing job has come to
          todo         \* the rows it has left to append

fileVars   == <<drafts, published, writer, registered>>
dedupVars  == <<nearest, changes>>
finalVars  == <<verdict, face, judged, todo>>
cohortVars == <<outcome, drafts, published, writer, registered, verdict, dedupVars,
                face, pc, cand, found, judged, todo>>

\* Which code path wrote a registration: execute_canonical, or a reuse that found
\* its event in the batch; register_rejection; a reuse that made its own event;
\* abandon_experiment.  Both the event id and the payload differ between them.
Kinds    == {"executed", "rejection", "reused", "abandoned"}

\* A registration names its evidence: that of the published batch, or what stands
\* in the temporary directory of a job.
Members  == [cand : Candidates, kind : Kinds, at : Jobs \cup {NoJob}]

Outcomes == {"EVIDENCE_READY", "INCOMPLETE", "REJECTED"}

\* What a verdict says of a member: rejected by its own evaluation, compared with
\* this payload, or left out of the comparison with its evidence unread.
Fates    == Payloads \cup {"none", "rejected", "unread"}
Verdicts == [Candidates -> Fates]
Rows     == [cand : Candidates, fate : Fates]

\* A job that ended badly, was refused or was killed is "failed".
Over == {"done", "abandoned", "finalized", "failed", "mismatch"}
Live == {"looked", "evaluating", "publishing", "registering", "releasing",
         "reusing", "reregistering", "abandoning", "judging", "replacing",
         "reading", "appending"}

CohortTypeOK ==
  /\ outcome \in [Candidates -> Outcomes]
  /\ drafts \subseteq Jobs
  /\ published \subseteq Candidates
  /\ writer \in [Candidates -> Jobs \cup {NoJob}]
  /\ registered \subseteq Members
  /\ verdict \in Verdicts
  /\ nearest \in [Candidates -> Payloads]
  /\ changes \in 0..MaxChanges
  /\ face \subseteq Rows
  /\ pc \in [Jobs -> Live \cup Over \cup {"new"}]
  /\ cand \in [Jobs -> Candidates]
  /\ found \in [Jobs -> Jobs \cup {NoJob}]
  /\ judged \in [Jobs -> Verdicts]
  /\ todo \in [Jobs -> SUBSET Rows]

Blank == [c \in Candidates |-> "none"]

\* An evaluation is deterministic: what it comes to is settled before it runs.
CohortInit ==
  /\ outcome \in [Candidates -> Outcomes]
  /\ drafts = {}
  /\ published = {}
  /\ writer = [c \in Candidates |-> NoJob]
  /\ registered = {}
  /\ verdict = Blank
  /\ nearest \in [Candidates -> Payloads]
  /\ changes = 0
  /\ face = {}
  /\ pc = [j \in Jobs |-> "new"]
  /\ cand \in [Jobs -> Candidates]
  /\ found = [j \in Jobs |-> NoJob]
  /\ judged = [j \in Jobs |-> Blank]
  /\ todo = [j \in Jobs |-> {}]

-------------------------------------------------------------------------------
Goto(j, to) == pc' = [pc EXCEPT ![j] = to]
Entries(c)  == {x \in registered : x.cand = c}

\* registrations() raises on two different registrations of one candidate.
Readable == \A x, y \in registered : x.cand = y.cand => x = y

Put(c, kind, at) ==
  registered' = registered \cup {[cand |-> c, kind |-> kind, at |-> at]}

\* _release_quietly: the claim is dropped, or stays when its lock is taken.
LetGo(c) == writer' \in {[writer EXCEPT ![c] = NoJob], writer}

(* run_canonical *)

\* is_published is read before the claim is taken, and not again.
Look(j) ==
  /\ pc[j] = "new"
  /\ Goto(j, IF cand[j] \in published THEN "reusing" ELSE "looked")
  /\ UNCHANGED <<fileVars, outcome, dedupVars, cand, found, finalVars>>

\* Nobody's claim, or the claim of a process that is gone.
TakeClaim(j) ==
  /\ pc[j] = "looked"
  /\ writer[cand[j]] # NoJob => pc[writer[cand[j]]] \in Over
  /\ writer' = [writer EXCEPT ![cand[j]] = j]
  /\ Goto(j, "evaluating")
  /\ UNCHANGED <<drafts, published, registered, outcome, dedupVars, cand, found,
                 finalVars>>

\* A claim whose lease runs is refused even when its owner is gone.
ClaimRefused(j) ==
  /\ pc[j] = "looked"
  /\ writer[cand[j]] # NoJob
  /\ Goto(j, "failed")
  /\ UNCHANGED <<fileVars, outcome, dedupVars, cand, found, finalVars>>

\* The batch is written to a temporary directory, its manifest first.  What a dead
\* process with the same number has left there is removed.
WriteDraft(j) ==
  /\ pc[j] = "evaluating"
  /\ \E old \in {NoJob} \cup {i \in drafts : cand[i] = cand[j] /\ pc[i] \in Over} :
       drafts' = (drafts \ {old}) \cup {j}
  /\ Goto(j, "publishing")
  /\ UNCHANGED <<published, writer, registered, outcome, dedupVars, cand, found,
                 finalVars>>

\* Unreadable signals, a failing estimator, a full disk, a batch that does not read
\* back as it was written: the temporary directory is removed.
EvaluateFails(j) ==
  /\ pc[j] \in {"evaluating", "publishing"}
  /\ drafts' = drafts \ {j}
  /\ LetGo(cand[j])
  /\ Goto(j, "failed")
  /\ UNCHANGED <<published, registered, outcome, dedupVars, cand, found, finalVars>>

\* Mutant: the temporary directory is never renamed.
PublishNothing(j) ==
  /\ pc[j] = "publishing"
  /\ cand[j] \notin published
  /\ Goto(j, "registering")
  /\ UNCHANGED <<fileVars, outcome, dedupVars, cand, found, finalVars>>

\* The rename makes the batch visible at once.
Publish(j) ==
  /\ pc[j] = "publishing"
  /\ cand[j] \notin published
  /\ published' = published \cup {cand[j]}
  /\ drafts' = drafts \ {j}
  /\ Goto(j, "registering")
  /\ UNCHANGED <<writer, registered, outcome, dedupVars, cand, found, finalVars>>

\* A batch is there already: publish refuses to replace it, since it carries another
\* registered_at.  That is the time of the run: the two signatures are equal only
\* for callers that hand the same observed_at to both, and the commands do not.
PublishConflict(j) ==
  /\ pc[j] = "publishing"
  /\ cand[j] \in published
  /\ drafts' = drafts \ {j}
  /\ LetGo(cand[j])
  /\ Goto(j, "failed")
  /\ UNCHANGED <<published, registered, outcome, dedupVars, cand, found, finalVars>>

\* INCOMPLETE members are registered like the others.
Register(j) ==
  /\ pc[j] = "registering"
  /\ Put(cand[j], IF outcome[cand[j]] = "REJECTED" THEN "rejection" ELSE "executed",
         NoJob)
  /\ Goto(j, "releasing")
  /\ UNCHANGED <<drafts, published, writer, outcome, dedupVars, cand, found,
                 finalVars>>

\* Mutant: the claim names no job afterwards, but is not gone.
ReleaseBlank(j) ==
  /\ pc[j] = "releasing"
  /\ writer' = [writer EXCEPT ![cand[j]] = "released"]
  /\ Goto(j, "done")
  /\ UNCHANGED <<drafts, published, registered, outcome, dedupVars, cand, found,
                 finalVars>>

Release(j) ==
  /\ pc[j] = "releasing"
  /\ LetGo(cand[j])
  /\ Goto(j, "done")
  /\ UNCHANGED <<drafts, published, registered, outcome, dedupVars, cand, found,
                 finalVars>>

\* Mutant: a published experiment counts as registered.
ReuseAtOnce(j) ==
  /\ pc[j] = "reusing"
  /\ Goto(j, "done")
  /\ UNCHANGED <<fileVars, outcome, dedupVars, cand, found, finalVars>>

\* ensure_member_registered: an entry of the candidate, whoever wrote it,
\* is enough; a cohort that cannot be read is an error.
Reuse(j) ==
  /\ pc[j] = "reusing"
  /\ Goto(j, CASE ~Readable -> "failed"
               [] Readable /\ Entries(cand[j]) # {} -> "done"
               [] OTHER -> "reregistering")
  /\ UNCHANGED <<fileVars, outcome, dedupVars, cand, found, finalVars>>

\* Mutant: the event in the batch is not looked for.
ReregisterAfresh(j) ==
  /\ pc[j] = "reregistering"
  /\ Put(cand[j], "reused", NoJob)
  /\ Goto(j, "done")
  /\ UNCHANGED <<drafts, published, writer, outcome, dedupVars, cand, found,
                 finalVars>>

\* The batch of a rejected experiment holds no registered event, so that its
\* registration differs from the one register_rejection writes.
Reregister(j) ==
  /\ pc[j] = "reregistering"
  /\ Put(cand[j], IF outcome[cand[j]] = "REJECTED" THEN "reused" ELSE "executed",
         NoJob)
  /\ Goto(j, "done")
  /\ UNCHANGED <<drafts, published, writer, outcome, dedupVars, cand, found,
                 finalVars>>

(* abandon_experiment *)

\* find_canonical_manifest: an INCOMPLETE experiment by its manifest, the published
\* one first, else one in a temporary directory.  Its event log gets the
\* transition.
StartAbandon(j) ==
  /\ pc[j] = "new"
  /\ outcome[cand[j]] = "INCOMPLETE"
  /\ \/ cand[j] \in published /\ found' = found
     \/ /\ cand[j] \notin published
        /\ \E i \in drafts : cand[i] = cand[j] /\ found' = [found EXCEPT ![j] = i]
  /\ Goto(j, "abandoning")
  /\ UNCHANGED <<fileVars, outcome, dedupVars, cand, finalVars>>

\* The registration carries neither sample tier nor cost model.
Abandon(j) ==
  /\ pc[j] = "abandoning"
  /\ Put(cand[j], "abandoned", found[j])
  /\ found' = [found EXCEPT ![j] = NoJob]
  /\ Goto(j, "abandoned")
  /\ UNCHANGED <<drafts, published, writer, outcome, dedupVars, cand, finalVars>>

(* finalize_cohort *)

\* Mutant: some registration is enough.
AnyRegistered == Readable /\ registered # {}

Complete == Readable /\ \A c \in Candidates : Entries(c) # {}

\* What a finalize says of c: nothing without an entry.  One rejected by its
\* evaluation is not compared with anybody; the evidence that an abandon has named
\* in a temporary directory may be incomplete, and is gone when the directory is
\* renamed or removed.
Says(c, fate) ==
  \/ Entries(c) = {} /\ fate = "none"
  \/ \E x \in Entries(c) :
       \/ x.kind \in {"rejection", "reused"} /\ fate = "rejected"
       \/ x.kind \in {"executed", "abandoned"} /\ x.at \in drafts \cup {NoJob}
          /\ fate = nearest[c]
       \/ x.kind = "abandoned" /\ x.at # NoJob /\ fate = "unread"

Judgement(v) == \A c \in Candidates : Says(c, v[c])

\* Mutant: the rows of this cohort are compared with as well.
StartFinalizeWithOwnRows(j) ==
  /\ pc[j] = "new"
  /\ Complete
  /\ \E v \in Verdicts :
       /\ Judgement(v)
       /\ judged' = [judged EXCEPT ![j] =
            [c \in Candidates |->
               IF v[c] \in Payloads /\ \E row \in face : row.cand # c
               THEN CHOOSE p \in Payloads : p # v[c] ELSE v[c]]]
  /\ Goto(j, "judging")
  /\ UNCHANGED <<fileVars, outcome, dedupVars, cand, found, verdict, face, todo>>

\* assert_cohort_complete, the registrations, the evidence they name, and
\* load_registry without this cohort's rows.
StartFinalize(j) ==
  /\ pc[j] = "new"
  /\ Complete
  /\ \E v \in Verdicts : Judgement(v) /\ judged' = [judged EXCEPT ![j] = v]
  /\ Goto(j, "judging")
  /\ UNCHANGED <<fileVars, outcome, dedupVars, cand, found, verdict, face, todo>>

\* population.finalize_cohort asserts once more that the cohort is complete.
JudgeFails(j) ==
  /\ pc[j] = "judging"
  /\ ~Complete
  /\ Goto(j, "failed")
  /\ UNCHANGED <<fileVars, outcome, dedupVars, cand, found, finalVars>>

NoVerdict(j) ==
  /\ pc[j] = "judging"
  /\ Complete
  /\ verdict = Blank
  /\ Goto(j, "replacing")
  /\ UNCHANGED <<fileVars, outcome, dedupVars, cand, found, finalVars>>

\* Mutant: a cohort that has its verdict is taken to be written back.
SameVerdictSuffices(j) ==
  /\ pc[j] = "judging"
  /\ Complete
  /\ verdict # Blank /\ verdict = judged[j]
  /\ Goto(j, "finalized")
  /\ UNCHANGED <<fileVars, outcome, dedupVars, cand, found, finalVars>>

\* The whole document on file is the same but for finalized_at: go on.
SameVerdict(j) ==
  /\ pc[j] = "judging"
  /\ Complete
  /\ verdict # Blank /\ verdict = judged[j]
  /\ Goto(j, "reading")
  /\ UNCHANGED <<fileVars, outcome, dedupVars, cand, found, finalVars>>

\* Any difference is an error, also one of a correlation that rejects nobody.
OtherVerdict(j) ==
  /\ pc[j] = "judging"
  /\ Complete
  /\ verdict # Blank /\ verdict # judged[j]
  /\ Goto(j, "mismatch")
  /\ UNCHANGED <<fileVars, outcome, dedupVars, cand, found, finalVars>>

\* os.replace: whether a verdict has come meanwhile is not asked.
ReplaceVerdict(j) ==
  /\ pc[j] = "replacing"
  /\ verdict' = judged[j]
  /\ Goto(j, "reading")
  /\ UNCHANGED <<fileVars, outcome, dedupVars, cand, found, face, judged, todo>>

\* build_summaries takes the rows from the verdict on file; those whose
\* candidate has a row already are left out.
ReadFace(j) ==
  /\ pc[j] = "reading"
  /\ todo' = [todo EXCEPT ![j] =
                {[cand |-> c, fate |-> verdict[c]] :
                   c \in {d \in Candidates : \A r \in face : r.cand # d}}]
  /\ Goto(j, "appending")
  /\ UNCHANGED <<fileVars, outcome, dedupVars, cand, found, verdict, face, judged>>

AppendRow(j) ==
  /\ pc[j] = "appending"
  /\ \E r \in todo[j] : /\ face' = face \cup {r}
                        /\ todo' = [todo EXCEPT ![j] = @ \ {r}]
  /\ UNCHANGED <<fileVars, outcome, dedupVars, cand, found, verdict, pc, judged>>

RowsWritten(j) ==
  /\ pc[j] = "appending"
  /\ todo[j] = {}
  /\ Goto(j, "finalized")
  /\ UNCHANGED <<fileVars, outcome, dedupVars, cand, found, finalVars>>

(* The environment *)

\* The process dies, or raises with nothing to clean up, as register_member does
\* on another content under the same event id; what it wrote stays.
Crash(j) ==
  /\ pc[j] \in Live
  /\ Goto(j, "failed")
  /\ found' = [found EXCEPT ![j] = NoJob]
  /\ UNCHANGED <<fileVars, outcome, dedupVars, cand, finalVars>>

\* Another cohort writes back a row that c resembles more than those so far, or the
\* evidence of such a row is lost.
DedupChanges(c) ==
  /\ changes < MaxChanges
  /\ \E p \in Payloads \ {nearest[c]} : nearest' = [nearest EXCEPT ![c] = p]
  /\ changes' = changes + 1
  /\ UNCHANGED <<fileVars, outcome, pc, cand, found, finalVars>>

-------------------------------------------------------------------------------
RunStep(j) ==
  \/ Look(j) \/ TakeClaim(j) \/ ClaimRefused(j) \/ WriteDraft(j) \/ EvaluateFails(j)
  \/ Publish(j) \/ PublishConflict(j) \/ Register(j) \/ Release(j)
  \/ Reuse(j) \/ Reregister(j)

AbandonStep(j) == StartAbandon(j) \/ Abandon(j)

FinalizeStep(j) ==
  \/ StartFinalize(j) \/ JudgeFails(j) \/ NoVerdict(j) \/ SameVerdict(j)
  \/ OtherVerdict(j) \/ ReplaceVerdict(j) \/ ReadFace(j) \/ AppendRow(j)
  \/ RowsWritten(j)

CohortNext ==
  \/ \E j \in Jobs : RunStep(j) \/ AbandonStep(j) \/ FinalizeStep(j) \/ Crash(j)
  \/ \E c \in Candidates : DedupChanges(c)

CohortSpec == CohortInit /\ [][CohortNext]_cohortVars

\* The jobs that evaluate under a claim.
AtWork == {"evaluating", "publishing", "registering", "releasing"}

Claims == INSTANCE ClaimContract WITH
  Keys    <- Candidates,
  Clients <- Jobs,
  Nobody  <- NoJob,
  holder  <- writer,
  working <- {j \in Jobs : pc[j] \in AtWork},
  over    <- {j \in Jobs : pc[j] \in Over}

-------------------------------------------------------------------------------
(* Properties                                                              *)

\* Evidence first: whatever crashes and whoever reuses, a registration never
\* names a candidate whose batch is not visible (F007 design.md:289-297), unless
\* somebody abandoned an experiment that did not come to be published.
EvidenceFirst ==
  \A x \in registered : x.at = NoJob \/ x.kind # "abandoned" => x.cand \in published

\* A run that ends well leaves its candidate registered, also one that found the
\* batch of a writer that died before it registered
\* (canonical_registration.py:5-6).
DoneMeansRegistered ==
  \A j \in Jobs : pc[j] \in {"done", "abandoned"} => Entries(cand[j]) # {}

\* A candidate with complete evidence is registered once and the same, by
\* however many runs, reuses and retries after crashes (F007 spec.md TR-003).
ReadyMembersAgree ==
  \A x, y \in registered :
    x.cand = y.cand /\ outcome[x.cand] = "EVIDENCE_READY" => x = y

\* A verdict is one on the whole population: every candidate is registered, and those
\* an evaluation rejected and no others are kept out of the comparison as rejected,
\* whichever job's registration the verdict was read from (population.py:242-265).
VerdictIsPopulation ==
  verdict # Blank =>
    \A c \in Candidates :
      /\ Entries(c) # {}
      /\ verdict[c] = "rejected" <=> outcome[c] = "REJECTED"

\* What a verdict depends on besides the registrations has not moved: no change of a
\* dedup, and every member's evidence in its published batch.
Settled == changes = 0 /\ \A x \in registered : x.at = NoJob

\* Finalizing again repairs (F007 design.md:297-298), as long as nothing the document
\* holds has moved: then no finalize meets a verdict other than its own, so that a
\* crash before the write-back loses nothing, and of two that overlap neither
\* spoils the other.
FinalizeIsRepeatable ==
  Settled => \A j \in Jobs : pc[j] # "mismatch"

\* The registry gets the verdict, and all of it once a finalize has ended well:
\* a row for every candidate, and, unless finalizes that overlap have come to
\* different verdicts, what the row says (registry_writeback.py:3-11).
FaceIsVerdict ==
  /\ (\E j \in Jobs : pc[j] = "finalized") =>
       \A c \in Candidates : \E r \in face : r.cand = c
  /\ (\A i, j \in Jobs : Blank \notin {judged[i], judged[j]} => judged[i] = judged[j]) =>
       \A r \in face : r.fate = verdict[r.cand]

\* canonical_ops.py:3-7: abandoning closes a member that retries cannot, and the
\* cohort is not left open for ever.
AbandonUnblocks ==
  \A j \in Jobs : pc[j] = "abandoned" =>
    \A x, y \in Entries(cand[j]) : x = y

\* A verdict on file is never withdrawn.  os.replace may put another job's in its
\* place, but that one rejects the same candidates for their evaluation, and it is
\* the same as long as nothing it depends on has moved (population.py:266-282).
VerdictIsFinal ==
  [][verdict # Blank =>
       /\ verdict' # Blank
       /\ \A c \in Candidates : verdict'[c] = "rejected" <=> verdict[c] = "rejected"
       /\ Settled => verdict' = verdict]_cohortVars

\* Of the jobs that evaluate, publish and register a candidate one is alive, however
\* many were started on the same experiment and whichever were killed: it alone
\* writes the batch and the registration (canonical.py:137-163).
OneEvaluation ==
  \A i, j \in Jobs : {pc[i], pc[j]} \subseteq AtWork /\ cand[i] = cand[j] => i = j

\* The jobs take and leave claims by the rules Claim keeps, and by no others: two
\* evaluations of a candidate never overlap, whoever was killed or refused, and
\* no claim is taken from a job that still works (canonical.py:137-163).
ImplementsClaims == Claims!ContractSpec
===============================================================================
