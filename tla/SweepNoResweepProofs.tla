------------------------- MODULE SweepNoResweepProofs -------------------------
(***************************************************************************)
(* Proof of the action property NoResweepWithoutCrash of SweepPipeline:   *)
(* in a run without a crash, no claim batch written by the consolidation  *)
(* step (sweep.rs:75-87) contains a file that a sweep already attempted.  *)
(* It rests on RInv of SweepRefinementProofs and on two facts about file  *)
(* keys: they are fresh (below nextFile), and, until a crash, the files of *)
(* pending/ and processing/ have keys no sweep has touched.                *)
(***************************************************************************)
EXTENDS SweepRefinementProofs

(* Every key on disk or in the attempted history was handed out before.   *)
FreshIds ==
    /\ \A f \in pending \cup processing \cup ClaimFiles : f.id < nextFile
    /\ \A i \in attempted : i < nextFile

(* Until the first crash: each key names one file of pending/; the keys of *)
(* pending/ are in no other directory and were never attempted; the keys  *)
(* of processing/ were never attempted; and processing/ is empty outside  *)
(* the move loop, the claim write and its remove_dir_all.                 *)
UniquePendingKeys == \A f, g \in pending : f.id = g.id => f = g
PendingUntouched ==
    Ids(pending) \cap (attempted \cup Ids(processing) \cup Ids(ClaimFiles)) = {}
StagedUnattempted == Ids(processing) \cap attempted = {}
StagingOnlyInMove == pc \notin {"move", "claimw", "rmproc"} => processing = {}

NoCrashStaging ==
    crashes = 0 =>
      /\ UniquePendingKeys
      /\ PendingUntouched
      /\ StagedUnattempted
      /\ StagingOnlyInMove

NInv == RInv /\ FreshIds /\ NoCrashStaging
-----------------------------------------------------------------------------
(* Keys stay fresh: a deposit takes nextFile and increments it, and every  *)
(* other step only moves files or attempts the keys of files on disk.      *)
LEMMA FreshIdsStep == RInv /\ FreshIds /\ [Next]_vars => FreshIds'
<1> SUFFICES ASSUME RInv, FreshIds, [Next]_vars PROVE FreshIds'
  OBVIOUS
<1>. USE DEF FreshIds, ClaimFiles, Ids, diskVars, histVars
<1>0. TypeOK /\ FinalFiles
  BY DEF RInv, IInv
<1>1. CASE Tick \/ ListClaims \/ EndBatches
  BY <1>1 DEF Tick, ListClaims, EndBatches
<1>2. CASE \E f \in pending : MoveFile(f)
  BY <1>2 DEF MoveFile
<1>3. CASE EndMove
  BY <1>3 DEF EndMove
<1>13. CASE CommitClaim
  BY <1>13 DEF CommitClaim, Claim
<1>4. CASE \E f \in processing : RemoveProcessing(f)
  BY <1>4 DEF RemoveProcessing
<1>5. CASE \E c \in claims : SpendBatch(c)
  BY <1>5 DEF SpendBatch
<1>6. CASE \E tx \in curTxs : ProcessTx(tx)
  <2>. PICK tx \in curTxs : ProcessTx(tx)
    BY <1>6
  <2>1. pc = "tx" /\ tx \subseteq ClaimFiles
    BY <1>0 DEF ProcessTx, FinalFiles
  <2>. QED
    BY <2>1 DEF ProcessTx
<1>7. CASE \E c \in claims : RemoveClaim(c)
  BY <1>7 DEF RemoveClaim
<1>8. CASE \E d \in Desc : StartDeposit(d)
  <2>. PICK d \in Desc : StartDeposit(d)
    BY <1>8
  <2>1. nextFile \in Nat /\ attempted \subseteq Nat
    BY <1>0 DEF TypeOK
  <2>2. \A f \in pending \cup processing \cup ClaimFiles : f.id \in Nat
    BY <1>0 DEF TypeOK, File, Batch
  <2>. QED
    BY <2>1, <2>2 DEF StartDeposit
<1>9. CASE CommitDeposit
  BY <1>9 DEF CommitDeposit, Final
<1>10. CASE FundingRequest \/ FundingLock \/ FundingDone
  BY <1>10 DEF FundingRequest, FundingLock, FundingDone
<1>11. CASE Crash
  <2>1. \/ claims' = claims
        \/ \E b \in TmpClaims : claims' = claims \cup {b}
    BY <1>11 DEF Crash
  <2>2. \A f \in ClaimFiles' : f \in ClaimFiles \/ f \in processing
    BY <2>1, TmpClaimFiles
  <2>. QED
    BY <1>11, <2>2 DEF Crash
<1>12. CASE UNCHANGED vars
  BY <1>12 DEF vars
<1>. QED
  BY <1>1, <1>2, <1>3, <1>4, <1>5, <1>6, <1>7, <1>8, <1>9, <1>10, <1>11,
     <1>12, <1>13 DEF Next, SweepStep, HandlerStep

(* The strengthening of the refinement proof is itself inductive.          *)
LEMMA RInvStep == RInv /\ [Next]_vars => RInv'
BY TypeStep, NextCover, FinalFilesStep DEF RInv, IInv

(* Until the first crash, every step keeps the staging facts.              *)
LEMMA StagingStep ==
    RInv /\ FreshIds /\ NoCrashStaging /\ [Next]_vars => NoCrashStaging'
<1> SUFFICES ASSUME RInv, FreshIds, NoCrashStaging, [Next]_vars, crashes' = 0
             PROVE  UniquePendingKeys' /\ PendingUntouched' /\ StagedUnattempted'
                    /\ StagingOnlyInMove'
  BY DEF NoCrashStaging
<1>0. TypeOK /\ FinalFiles
  BY DEF RInv, IInv
<1>a. ~Crash
  BY <1>0 DEF Crash, TypeOK
<1>b. crashes = 0
  BY <1>a DEF Next, SweepStep, HandlerStep, Tick, MoveFile, EndMove,
     CommitClaim, RemoveProcessing, ListClaims, SpendBatch, ProcessTx, EndBatches,
     RemoveClaim, StartDeposit, CommitDeposit, FundingRequest, FundingLock,
     FundingDone, vars
<1>c. UniquePendingKeys /\ PendingUntouched /\ StagedUnattempted /\ StagingOnlyInMove
  BY <1>b DEF NoCrashStaging
<1>. USE <1>c DEF UniquePendingKeys, PendingUntouched, StagedUnattempted,
                  StagingOnlyInMove, ClaimFiles, Ids, diskVars, histVars
<1>1. CASE Tick \/ ListClaims \/ EndBatches
  BY <1>1 DEF Tick, ListClaims, EndBatches
<1>2. CASE \E f \in pending : MoveFile(f)
  BY <1>2 DEF MoveFile
<1>3. CASE EndMove
  BY <1>3 DEF EndMove
<1>12. CASE CommitClaim
  BY <1>12 DEF CommitClaim, Claim
<1>4. CASE \E f \in processing : RemoveProcessing(f)
  BY <1>4 DEF RemoveProcessing
<1>5. CASE \E c \in claims : SpendBatch(c)
  BY <1>5 DEF SpendBatch
<1>6. CASE \E tx \in curTxs : ProcessTx(tx)
  <2>. PICK tx \in curTxs : ProcessTx(tx)
    BY <1>6
  <2>1. pc = "tx" /\ tx \subseteq ClaimFiles
    BY <1>0 DEF ProcessTx, FinalFiles
  <2>. QED
    BY <2>1 DEF ProcessTx
<1>7. CASE \E c \in claims : RemoveClaim(c)
  BY <1>7 DEF RemoveClaim
<1>8. CASE \E d \in Desc : StartDeposit(d)
  <2>. PICK d \in Desc : StartDeposit(d)
    BY <1>8
  <2>. DEFINE nf == [id |-> nextFile, d |-> d, tmp |-> TRUE]
  <2>1. \A g \in pending \cup processing \cup ClaimFiles : g.id # nextFile
    BY <1>0 DEF FreshIds, TypeOK, File, Batch
  <2>2. nextFile \notin attempted
    BY <1>0 DEF FreshIds, TypeOK
  <2>3. pending' = pending \cup {nf}
        /\ UNCHANGED <<processing, claims, attempted, pc>>
    BY DEF StartDeposit
  <2>a. nf.id = nextFile
    OBVIOUS
  <2>4. UniquePendingKeys'
    <3>1. \A g \in pending : g # nf => g.id # nf.id
      BY <2>1, <2>a
    <3>. QED
      BY <3>1, <2>3
  <2>5. Ids(pending') = Ids(pending) \cup {nextFile}
    BY <2>3, <2>a
  <2>6. PendingUntouched'
    BY <2>1, <2>2, <2>3, <2>5
  <2>. QED
    BY <2>3, <2>4, <2>6
<1>9. CASE CommitDeposit
  <2>. PICK f \in inflight :
         /\ f \in pending
         /\ pending' = (pending \ {f}) \cup {Final(f)}
    BY <1>9 DEF CommitDeposit
  <2>1. Final(f).id = f.id
    BY DEF Final
  <2>2. UNCHANGED <<processing, claims, attempted, pc>>
    BY <1>9 DEF CommitDeposit
  <2>3. UniquePendingKeys'
    BY <2>1
  <2>4. Ids(pending') \subseteq Ids(pending)
    BY <2>1
  <2>5. PendingUntouched'
    BY <2>2, <2>4
  <2>. QED
    BY <2>2, <2>3, <2>5
<1>10. CASE FundingRequest \/ FundingLock \/ FundingDone
  BY <1>10 DEF FundingRequest, FundingLock, FundingDone
<1>11. CASE UNCHANGED vars
  BY <1>11 DEF vars
<1>. QED
  BY <1>a, <1>1, <1>2, <1>3, <1>4, <1>5, <1>6, <1>7, <1>8, <1>9, <1>10,
     <1>11, <1>12 DEF Next, SweepStep, HandlerStep

(* The strengthened invariant holds in every reachable state.              *)
LEMMA NInvariant == Spec => []NInv
<1>1. Init => NInv
  BY DEF Init, NInv, RInv, IInv, TypeOK, PC, Cover, NoSilentLoss, StagedInClaim,
      SweepCovered, FreshBatchIds, FileKinds, FinalFiles, ClaimFiles,
      FreshIds, NoCrashStaging, UniquePendingKeys, PendingUntouched,
      StagedUnattempted, StagingOnlyInMove, Ids
<1>2. NInv /\ [Next]_vars => NInv'
  BY RInvStep, FreshIdsStep, StagingStep DEF NInv
<1>. QED
  BY <1>1, <1>2, PTL DEF Spec

(* The step-wise content of NoResweepWithoutCrash.                          *)
ResweepFree ==
    crashes = 0 => \A c \in claims' \ claims : Ids(c.files) \cap attempted = {}

(* Only the claim write adds a batch, completed or cut short by a crash,  *)
(* and it batches files of processing/, whose keys were never attempted   *)
(* while no crash has happened.                                            *)
LEMMA ResweepStep == NInv /\ [Next]_vars => [ResweepFree]_vars
<1> SUFFICES ASSUME NInv, [Next]_vars, crashes = 0
             PROVE  \A c \in claims' \ claims : Ids(c.files) \cap attempted = {}
  BY DEF ResweepFree
<1>1. StagedUnattempted
  BY DEF NInv, NoCrashStaging
<1>2. CASE CommitClaim
  BY <1>1, <1>2 DEF CommitClaim, Claim, StagedUnattempted, Ids
<1>4. CASE Crash
  <2>1. \/ claims' = claims
        \/ \E b \in TmpClaims : claims' = claims \cup {b}
    BY <1>4 DEF Crash
  <2>2. \A c \in claims' \ claims : c.files \subseteq processing
    BY <2>1, TmpClaimFiles
  <2>. QED
    BY <1>1, <2>2 DEF StagedUnattempted, Ids
<1>3. CASE ~CommitClaim /\ ~Crash
  <2>1. claims' \subseteq claims
    BY <1>3 DEF Next, SweepStep, HandlerStep, Tick, MoveFile, EndMove,
       RemoveProcessing, ListClaims, SpendBatch, ProcessTx, EndBatches,
       RemoveClaim, StartDeposit, CommitDeposit, FundingRequest, FundingLock,
       FundingDone, vars, diskVars
  <2>. QED
    BY <2>1
<1>. QED
  BY <1>2, <1>3, <1>4

(* NoResweepWithoutCrash of SweepPipeline, for all values of the constants:*)
(* in a run with no crash, the move-then-remove_dir_all of sweep.rs:72-88 *)
(* never puts a file that a sweep already attempted into a new batch.      *)
THEOREM NoResweepWithoutCrashHolds == Spec => NoResweepWithoutCrash
<1>1. Spec => []NInv
  BY NInvariant
<1>2. NInv /\ [Next]_vars => [ResweepFree]_vars
  BY ResweepStep
<1>. QED
  BY <1>1, <1>2, PTL DEF Spec, NoResweepWithoutCrash, ResweepFree
=============================================================================
