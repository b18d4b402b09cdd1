--------------------------------- MODULE Claim ---------------------------------
(***************************************************************************)
(* The single-writer claim of one experiment (evaluation/claim.py) as        *)
(* run_canonical uses it: recover on the way in, the canonical transaction, *)
(* _release_quietly in the finally.  A runner is one call of run_canonical  *)
(* in a process of its own; its name is its owner token.  A retry is        *)
(* another runner.                                                         *)
(*                                                                         *)
(* Every change of the claim file is made under flock on a lock file of its *)
(* own, which the kernel drops when the process dies.  The claim file itself *)
(* survives; between its O_EXCL creation and the write it cannot be read.   *)
(***************************************************************************)
EXTENDS FiniteSets

CONSTANTS Runners,
          NoRunner,   \* nobody is inside _critical
          NoFile,     \* there is no claim file
          Unreadable  \* the claim file is empty or corrupt: read_claim is None

ASSUME ClaimAssumption ==
  /\ NoRunner \notin Runners
  /\ NoFile \notin Runners
  /\ Unreadable \notin Runners
  /\ NoFile # Unreadable

VARIABLES mutex,    \* the runner inside _critical
          claim,    \* the claim file: the token it names, NoFile or Unreadable
          expired,  \* the lease of the claim on file has run out
          runner    \* where each runner is

claimVars == <<mutex, claim, expired, runner>>

Inside  == {"judging", "creating", "writing", "written", "freeing"}
Holding == {"written", "working", "freeing"}
Ended   == {"refused", "done", "dead"}

ClaimTypeOK ==
  /\ mutex \in Runners \cup {NoRunner}
  /\ claim \in Runners \cup {NoFile, Unreadable}
  /\ expired \in BOOLEAN
  /\ runner \in [Runners -> Inside \cup Ended \cup {"new", "working"}]

ClaimInit ==
  /\ mutex = NoRunner
  /\ claim = NoFile
  /\ expired = FALSE
  /\ runner = [r \in Runners |-> "new"]

-------------------------------------------------------------------------------
Go(r, pc) == runner' = [runner EXCEPT ![r] = pc]

\* Mutant: the lock is taken shared.
EnterShared(r) ==
  /\ runner[r] = "new"
  /\ mutex' = r
  /\ Go(r, "judging")
  /\ UNCHANGED <<claim, expired>>

\* Nobody waits for the lock file: one gets it, the others are ClaimBusyError.
Enter(r) ==
  /\ runner[r] = "new"
  /\ mutex = NoRunner
  /\ mutex' = r
  /\ Go(r, "judging")
  /\ UNCHANGED <<claim, expired>>

EnterBusy(r) ==
  /\ runner[r] = "new"
  /\ mutex # NoRunner
  /\ Go(r, "refused")
  /\ UNCHANGED <<mutex, claim, expired>>

(* recover *)

JudgeFree(r) ==
  /\ runner[r] = "judging"
  /\ claim = NoFile
  /\ Go(r, "creating")
  /\ UNCHANGED <<mutex, claim, expired>>

\* Mutant: the lease alone decides.
LeaseOver == expired

\* Mutant: a dead process is enough.
OwnerGone == runner[claim] = "dead"

\* assert_takeover_allowed: the lease has run out and the process is gone.  The
\* third condition, temp_published, is never passed by a caller.
MayTakeOver == expired /\ runner[claim] = "dead"

\* Mutant: only a claim that can be read is ever replaced.
JudgeNamed(r) ==
  /\ runner[r] = "judging"
  /\ claim \in Runners /\ MayTakeOver
  /\ claim' = NoFile
  /\ Go(r, "creating")
  /\ UNCHANGED <<mutex, expired>>

\* A claim that may be taken over, or that says nothing, is unlinked.
JudgeStale(r) ==
  /\ runner[r] = "judging"
  /\ claim = Unreadable \/ (claim \in Runners /\ MayTakeOver)
  /\ claim' = NoFile
  /\ Go(r, "creating")
  /\ UNCHANGED <<mutex, expired>>

\* Otherwise the claim stays as it is and the call fails.  is_process_alive also
\* finds a dead owner alive when its pid has a new process by now, so that a
\* claim that names anybody may be refused.
JudgeBusy(r) ==
  /\ runner[r] = "judging"
  /\ claim \in Runners
  /\ mutex' = NoRunner
  /\ Go(r, "refused")
  /\ UNCHANGED <<claim, expired>>

\* open(O_CREAT | O_EXCL); under the lock the file cannot have come back.
CreateFile(r) ==
  /\ runner[r] = "creating"
  /\ claim' = Unreadable
  /\ Go(r, "writing")
  /\ UNCHANGED <<mutex, expired>>

WriteFile(r) ==
  /\ runner[r] = "writing"
  /\ claim' = r
  /\ expired' = FALSE
  /\ Go(r, "written")
  /\ UNCHANGED mutex

\* The write fails (a full disk): recover raises and leaves the file behind.
WriteFails(r) ==
  /\ runner[r] = "writing"
  /\ mutex' = NoRunner
  /\ Go(r, "refused")
  /\ UNCHANGED <<claim, expired>>

Leave(r) ==
  /\ runner[r] = "written"
  /\ mutex' = NoRunner
  /\ Go(r, "working")
  /\ UNCHANGED <<claim, expired>>

(* _release_quietly, after execute_canonical returned or raised *)

EnterRelease(r) ==
  /\ runner[r] = "working"
  /\ mutex = NoRunner
  /\ mutex' = r
  /\ Go(r, "freeing")
  /\ UNCHANGED <<claim, expired>>

\* The ClaimBusyError is suppressed: the run is over and its claim stays.
ReleaseBusy(r) ==
  /\ runner[r] = "working"
  /\ mutex # NoRunner
  /\ Go(r, "done")
  /\ UNCHANGED <<mutex, claim, expired>>

\* Mutant: the claim file is emptied of its owner instead of unlinked.
RemoveOwner(r) ==
  /\ runner[r] = "freeing"
  /\ claim' = NoRunner
  /\ mutex' = NoRunner
  /\ Go(r, "done")
  /\ UNCHANGED expired

\* release unlinks only what carries its own token.
Remove(r) ==
  /\ runner[r] = "freeing"
  /\ claim' = IF claim = r THEN NoFile ELSE claim
  /\ mutex' = NoRunner
  /\ Go(r, "done")
  /\ UNCHANGED expired

(* The environment *)

\* The process is killed, or exits after its run: the kernel drops its flock.
Die(r) ==
  /\ runner[r] \notin {"new", "dead"}
  /\ Go(r, "dead")
  /\ mutex' = IF mutex = r THEN NoRunner ELSE mutex
  /\ UNCHANGED <<claim, expired>>

\* The lease runs out, whether or not its owner still works.
Expire ==
  /\ claim \in Runners
  /\ ~expired
  /\ expired' = TRUE
  /\ UNCHANGED <<mutex, claim, runner>>

RunnerStep(r) ==
  \/ JudgeFree(r) \/ JudgeStale(r) \/ JudgeBusy(r) \/ CreateFile(r)
  \/ WriteFile(r) \/ Leave(r) \/ Remove(r)

ClaimNext ==
  \/ \E r \in Runners : \/ Enter(r) \/ EnterBusy(r) \/ RunnerStep(r)
                        \/ WriteFails(r) \/ EnterRelease(r)
                        \/ ReleaseBusy(r) \/ Die(r)
  \/ Expire

ClaimSpec == ClaimInit /\ [][ClaimNext]_claimVars

\* A live process inside the critical section goes on; nobody has to come, to
\* finish its work or to die.
ClaimFairSpec == ClaimSpec /\ \A r \in Runners : WF_claimVars(RunnerStep(r))

(* What the claims promise: one experiment, whose claim is the file once it   *)
(* names somebody.                                                         *)
Key == "experiment"

Contract == INSTANCE ClaimContract WITH
  Keys    <- {Key},
  Clients <- Runners,
  Nobody  <- NoRunner,
  holder  <- [k \in {Key} |-> IF claim \in Runners THEN claim ELSE NoRunner],
  working <- {r \in Runners : runner[r] \in Holding},
  over    <- {r \in Runners : runner[r] \in Ended}

\* The file, its lock, the leases and the deaths of processes amount to what the
\* clients are promised: a claim goes from one that has given it back or ended to
\* one that is told so, and only then (claim.py:3-8, 132-173, 240-259).
ImplementsContract == Contract!ContractSpec

-------------------------------------------------------------------------------
(* Properties                                                              *)

\* One writer: two live runners are never both between the return of recover
\* and the end of their release, whatever crashed before and whenever leases
\* run out (claim.py:3-8, 240-242).
OneWriter ==
  \A r, q \in Runners :
    runner[r] \in Holding /\ runner[q] \in Holding => r = q

\* No theft: a claim leaves the file only by its owner's release, or when its
\* lease is over and its process gone (claim.py:6-8).
NoTheft ==
  [][\A r \in Runners :
       claim = r /\ claim' # r =>
         runner[r] = "freeing" \/ (expired /\ runner[r] = "dead")]_claimVars

\* A crash or a full disk between the creation and the write of a claim does not
\* block the experiment for ever: the next runner that looks at it comes to write
\* a claim of its own, unless it is killed as well (claim.py:135-136).
HalfWrittenIsReclaimed ==
  \A r \in Runners :
    runner[r] = "judging" /\ claim = Unreadable
      ~> runner[r] \in {"writing", "dead"}
===============================================================================
