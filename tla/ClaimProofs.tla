------------------------------ MODULE ClaimProofs ------------------------------
(***************************************************************************)
(* Proofs about Claim, for every set of runners.  The argument of claim.py  *)
(* is an invariant: whoever is inside the critical section is the one that *)
(* holds the lock file, and a live runner that holds the claim is the one  *)
(* the claim file names.  A takeover needs a dead owner, so it never hits a *)
(* live one.                                                               *)
(***************************************************************************)
EXTENDS Claim, TLAPS

\* Exactly the runner that the kernel gave the lock file to is inside.
InsideOwnsMutex == \A r \in Runners : runner[r] \in Inside <=> mutex = r

\* A live holder is the one that the claim file names.
HolderIsNamed == \A r \in Runners : runner[r] \in Holding => claim = r

\* What the creator of a claim finds and leaves on the way.
CreatorSees ==
  \A r \in Runners : /\ runner[r] = "creating" => claim = NoFile
                     /\ runner[r] = "writing" => claim = Unreadable

ClaimInv == ClaimTypeOK /\ InsideOwnsMutex /\ HolderIsNamed /\ CreatorSees

-------------------------------------------------------------------------------
LEMMA InitClaimInv == ClaimInit => ClaimInv
BY ClaimAssumption
   DEF ClaimInit, ClaimInv, ClaimTypeOK, InsideOwnsMutex, HolderIsNamed,
       CreatorSees, Inside, Holding, Ended

\* Every step keeps the invariant: under the lock one runner at a time changes
\* the file, and outside it nobody does.
LEMMA StepClaimInv == ClaimInv /\ [ClaimNext]_claimVars => ClaimInv'
<1> SUFFICES ASSUME ClaimInv, [ClaimNext]_claimVars PROVE ClaimInv'
    OBVIOUS
<1> USE ClaimAssumption DEF ClaimInv, ClaimTypeOK, InsideOwnsMutex,
       HolderIsNamed, CreatorSees, Inside, Holding, Ended, Go
<1>1. ASSUME NEW r \in Runners, Enter(r) PROVE ClaimInv'
      BY <1>1 DEF Enter
<1>2. ASSUME NEW r \in Runners, EnterBusy(r) PROVE ClaimInv'
      BY <1>2 DEF EnterBusy
<1>3. ASSUME NEW r \in Runners, JudgeFree(r) PROVE ClaimInv'
      BY <1>3 DEF JudgeFree
<1>4. ASSUME NEW r \in Runners, JudgeStale(r) PROVE ClaimInv'
  <2>1. \A q \in Runners : runner[q] \in Holding => FALSE
        BY <1>4 DEF JudgeStale, MayTakeOver
  <2> QED BY <1>4, <2>1 DEF JudgeStale
<1>5. ASSUME NEW r \in Runners, JudgeBusy(r) PROVE ClaimInv'
      BY <1>5 DEF JudgeBusy
<1>6. ASSUME NEW r \in Runners, CreateFile(r) PROVE ClaimInv'
      BY <1>6 DEF CreateFile
<1>7. ASSUME NEW r \in Runners, WriteFile(r) PROVE ClaimInv'
      BY <1>7 DEF WriteFile
<1>8. ASSUME NEW r \in Runners, WriteFails(r) PROVE ClaimInv'
      BY <1>8 DEF WriteFails
<1>9. ASSUME NEW r \in Runners, Leave(r) PROVE ClaimInv'
      BY <1>9 DEF Leave
<1>10. ASSUME NEW r \in Runners, EnterRelease(r) PROVE ClaimInv'
      BY <1>10 DEF EnterRelease
<1>11. ASSUME NEW r \in Runners, ReleaseBusy(r) PROVE ClaimInv'
      BY <1>11 DEF ReleaseBusy
<1>12. ASSUME NEW r \in Runners, Remove(r) PROVE ClaimInv'
      BY <1>12 DEF Remove
<1>13. ASSUME NEW r \in Runners, Die(r) PROVE ClaimInv'
      BY <1>13 DEF Die
<1>14. CASE Expire
      BY <1>14 DEF Expire
<1>15. CASE UNCHANGED claimVars
      BY <1>15 DEF claimVars
<1> QED BY <1>1, <1>2, <1>3, <1>4, <1>5, <1>6, <1>7, <1>8, <1>9, <1>10, <1>11,
           <1>12, <1>13, <1>14, <1>15 DEF ClaimNext, RunnerStep

\* The invariant holds in every state of every behaviour.
THEOREM ClaimInductive == ClaimSpec => []ClaimInv
BY InitClaimInv, StepClaimInv, PTL DEF ClaimSpec

\* The claim file, the lock file and the runners keep to their values
\* (claim.py:58-75, 176-259).
THEOREM ClaimTypeCorrect == ClaimSpec => []ClaimTypeOK
<1>1. ClaimInv => ClaimTypeOK
      BY DEF ClaimInv
<1> QED BY <1>1, ClaimInductive, PTL

\* At most one live runner writes an experiment, for any number of them, any
\* crashes and any leases (claim.py:240-242).
THEOREM OneWriterHolds == ClaimSpec => []OneWriter
<1>1. ClaimInv => OneWriter
      BY DEF ClaimInv, HolderIsNamed, OneWriter
<1> QED BY <1>1, ClaimInductive, PTL

\* A claim is given up by its owner or taken from the dead, never stolen
\* (claim.py:6-8).
THEOREM NoTheftHolds == ClaimSpec => NoTheft
<1> DEFINE Kept == \A r \in Runners :
                     claim = r /\ claim' # r =>
                       runner[r] = "freeing" \/ (expired /\ runner[r] = "dead")
<1>1. ClaimInv /\ [ClaimNext]_claimVars => [Kept]_claimVars
  <2> SUFFICES ASSUME ClaimInv, ClaimNext, NEW r \in Runners,
                      claim = r, claim' # r
               PROVE runner[r] = "freeing" \/ (expired /\ runner[r] = "dead")
      OBVIOUS
  <2> USE ClaimAssumption
  <2>1. ASSUME NEW q \in Runners, JudgeStale(q)
        PROVE expired /\ runner[r] = "dead"
        BY <2>1 DEF JudgeStale, MayTakeOver
  <2>2. ASSUME NEW q \in Runners, CreateFile(q) PROVE FALSE
        BY <2>2 DEF CreateFile, ClaimInv, CreatorSees
  <2>3. ASSUME NEW q \in Runners, WriteFile(q) PROVE FALSE
        BY <2>3 DEF WriteFile, ClaimInv, CreatorSees
  <2>4. ASSUME NEW q \in Runners, Remove(q) PROVE runner[r] = "freeing"
        BY <2>4 DEF Remove
  <2>5. CASE UNCHANGED claim
        BY <2>5
  <2> QED BY <2>1, <2>2, <2>3, <2>4, <2>5
          DEF ClaimNext, RunnerStep, Enter, EnterBusy, JudgeFree, JudgeBusy,
              WriteFails, Leave, EnterRelease, ReleaseBusy, Die, Expire
<1>2. ClaimSpec => [][Kept]_claimVars
      BY <1>1, ClaimInductive, PTL DEF ClaimSpec
<1> QED BY <1>2 DEF NoTheft

-------------------------------------------------------------------------------
(* The refinement: what one step of a runner is to the clients.             *)

\* A step that moves r alone and leaves what the file says of a holder alone is
\* unseen while r stays among those at work, those over or neither.
LEMMA UnseenStep ==
  ASSUME ClaimTypeOK, NEW r \in Runners, NEW pc, Go(r, pc),
         claim' = claim \/ {claim, claim'} \cap Runners = {},
         runner[r] \in Holding <=> pc \in Holding,
         runner[r] \in Ended <=> pc \in Ended
  PROVE  UNCHANGED Contract!claimContractVars
<1>1. \A q \in Runners : runner'[q] = IF q = r THEN pc ELSE runner[q]
  BY DEF Go, ClaimTypeOK
<1>2. (claim' \in Runners <=> claim \in Runners)
      /\ (claim \in Runners => claim' = claim)
  OBVIOUS
<1>3. [k \in {Key} |-> IF claim \in Runners THEN claim ELSE NoRunner]'
        = [k \in {Key} |-> IF claim \in Runners THEN claim ELSE NoRunner]
  BY <1>2
<1>4. {q \in Runners : runner[q] \in Holding}'
        = {q \in Runners : runner[q] \in Holding}
  BY <1>1
<1>5. {q \in Runners : runner[q] \in Ended}'
        = {q \in Runners : runner[q] \in Ended}
  BY <1>1
<1> QED
  BY <1>3, <1>4, <1>5 DEF Contract!claimContractVars

\* A step by which r alone ends, and that leaves the file alone, is End.
LEMMA EndingStep ==
  ASSUME ClaimTypeOK, NEW r \in Runners, NEW pc \in Ended,
         Go(r, pc), claim' = claim,
         runner[r] \notin Ended
  PROVE  Contract!End(r)
<1>1. \A q \in Runners : runner'[q] = IF q = r THEN pc ELSE runner[q]
  BY DEF Go, ClaimTypeOK
<1>2. {q \in Runners : runner[q] \in Holding}'
        = {q \in Runners : runner[q] \in Holding} \ {r}
  BY <1>1 DEF Holding, Ended
<1>3. {q \in Runners : runner[q] \in Ended}'
        = {q \in Runners : runner[q] \in Ended} \cup {r}
  BY <1>1
<1> QED
  BY <1>2, <1>3 DEF Contract!End

LEMMA InitImplements == ClaimInit => Contract!ContractInit
BY ClaimAssumption DEF ClaimInit, Contract!ContractInit, Holding, Ended

\* Every step of the runners, the leases and the kernel is one the clients were
\* promised, or unseen by them.
LEMMA StepImplements ==
  ClaimInv /\ [ClaimNext]_claimVars
    => [Contract!ContractNext]_(Contract!claimContractVars)
<1> SUFFICES ASSUME ClaimInv, [ClaimNext]_claimVars
             PROVE  Contract!ContractNext \/ UNCHANGED Contract!claimContractVars
  OBVIOUS
<1> USE ClaimAssumption DEF ClaimInv, Ended, Holding
<1>1. ASSUME NEW r \in Runners,
             \/ Enter(r) \/ JudgeFree(r) \/ CreateFile(r) \/ Leave(r)
             \/ EnterRelease(r)
      PROVE  UNCHANGED Contract!claimContractVars
  <2>1. PICK pc \in {"judging", "creating", "writing", "working", "freeing"} :
          /\ Go(r, pc)
          /\ claim' = claim \/ {claim, claim'} \cap Runners = {}
          /\ runner[r] \in Holding <=> pc \in Holding
          /\ runner[r] \notin Ended
    BY <1>1 DEF Enter, JudgeFree, CreateFile, Leave, EnterRelease, CreatorSees
  <2> QED
    BY <2>1, UnseenStep
<1>2. ASSUME NEW r \in Runners,
             \/ EnterBusy(r) \/ JudgeBusy(r) \/ WriteFails(r) \/ ReleaseBusy(r)
             \/ Die(r) /\ runner[r] \notin {"refused", "done"}
      PROVE  Contract!End(r)
  <2>1. PICK pc \in Ended : Go(r, pc)
    BY <1>2 DEF EnterBusy, JudgeBusy, WriteFails, ReleaseBusy, Die
  <2>2. claim' = claim /\ runner[r] \notin Ended
    BY <1>2 DEF EnterBusy, JudgeBusy, WriteFails, ReleaseBusy, Die
  <2> QED
    BY <2>1, <2>2, EndingStep
<1>3. ASSUME NEW r \in Runners, Die(r), runner[r] \in {"refused", "done"}
      PROVE  UNCHANGED Contract!claimContractVars
  BY <1>3, UnseenStep DEF Die
<1>4. ASSUME NEW r \in Runners, JudgeStale(r)
      PROVE  Contract!Lapse(Key) \/ UNCHANGED Contract!claimContractVars
  <2>1. \A q \in Runners : runner'[q] = IF q = r THEN "creating" ELSE runner[q]
    BY <1>4 DEF JudgeStale, Go, ClaimTypeOK
  <2>2. CASE claim = Unreadable
    BY <1>4, <2>2, UnseenStep DEF JudgeStale
  <2>3. CASE claim \in Runners /\ MayTakeOver
    <3>1. {q \in Runners : runner[q] \in Holding}'
            = {q \in Runners : runner[q] \in Holding}
      BY <1>4, <2>1 DEF JudgeStale
    <3>2. {q \in Runners : runner[q] \in Ended}'
            = {q \in Runners : runner[q] \in Ended}
      BY <1>4, <2>1 DEF JudgeStale
    <3> QED
      BY <1>4, <2>3, <3>1, <3>2 DEF JudgeStale, MayTakeOver, Contract!Lapse
  <2> QED
    BY <1>4, <2>2, <2>3 DEF JudgeStale
<1>5. ASSUME NEW r \in Runners, WriteFile(r) PROVE Contract!Take(Key, r)
  <2>1. \A q \in Runners : runner'[q] = IF q = r THEN "written" ELSE runner[q]
    BY <1>5 DEF WriteFile, Go, ClaimTypeOK
  <2>2. claim = Unreadable /\ claim' = r /\ runner[r] = "writing"
    BY <1>5 DEF WriteFile, CreatorSees
  <2>3. {q \in Runners : runner[q] \in Holding}'
          = {q \in Runners : runner[q] \in Holding} \cup {r}
    BY <2>1
  <2>4. {q \in Runners : runner[q] \in Ended}'
          = {q \in Runners : runner[q] \in Ended}
    BY <2>1, <2>2
  <2> QED
    BY <2>2, <2>3, <2>4 DEF Contract!Take
<1>6. ASSUME NEW r \in Runners, Remove(r) PROVE Contract!GiveBack(Key, r)
  <2>1. \A q \in Runners : runner'[q] = IF q = r THEN "done" ELSE runner[q]
    BY <1>6 DEF Remove, Go, ClaimTypeOK
  <2>2. claim = r /\ claim' = NoFile /\ runner[r] = "freeing"
    BY <1>6 DEF Remove, HolderIsNamed
  <2>3. {q \in Runners : runner[q] \in Holding}'
          = {q \in Runners : runner[q] \in Holding} \ {r}
    BY <2>1
  <2>4. {q \in Runners : runner[q] \in Ended}'
          = {q \in Runners : runner[q] \in Ended} \cup {r}
    BY <2>1
  <2> QED
    BY <2>2, <2>3, <2>4 DEF Contract!GiveBack
<1>7. CASE Expire \/ UNCHANGED claimVars
  BY <1>7 DEF Expire, claimVars, Contract!claimContractVars
<1> QED
  BY <1>1, <1>2, <1>3, <1>4, <1>5, <1>6, <1>7
     DEF ClaimNext, RunnerStep, Contract!ContractNext

\* The claim file, its lock and its leases implement the contract that the writers
\* of experiments rely on, for any number of runners (claim.py:3-8).
THEOREM ClaimRefinement == ClaimSpec => ImplementsContract
<1>1. ClaimSpec => []ClaimInv
  BY ClaimInductive
<1>2. ClaimInit => Contract!ContractInit
  BY InitImplements
<1>3. ClaimInv /\ [ClaimNext]_claimVars
        => [Contract!ContractNext]_(Contract!claimContractVars)
  BY StepImplements
<1> QED
  BY <1>1, <1>2, <1>3, PTL
     DEF ClaimSpec, ImplementsContract, Contract!ContractSpec
===============================================================================
