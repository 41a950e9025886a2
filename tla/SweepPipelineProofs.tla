------------------------- MODULE SweepPipelineProofs -------------------------
(***************************************************************************)
(* Proofs about SweepPipeline for every value of its constants: the type  *)
(* invariant, and NoSilentLoss through an inductive strengthening that    *)
(* says which claim batch covers the files of each sweep phase.            *)
(***************************************************************************)
EXTENDS SweepPipeline, TLAPS

(* While processing/ is being unlinked, every file still in it is part of *)
(* the claim batch just written (sweep.rs:85-88).                          *)
StagedInClaim ==
    pc = "rmproc" => \E c \in claims : processing \subseteq c.files

(* During the batch loop, a batch already taken off this tick's list has  *)
(* had all its files attempted, except, while its txs are being processed,*)
(* those in a tx still to go.                                              *)
SweepCovered ==
    /\ pc \in {"batch", "rmclaims"} =>
         \A c \in claims : c.id \notin toSweep => Ids(c.files) \subseteq attempted
    /\ pc = "tx" =>
         \A c \in claims : c.id \notin toSweep =>
           \A f \in c.files : f.id \in attempted \/ \E tx \in curTxs : f \in tx
    /\ pc = "rmclaims" => toSweep = {}

(* Claim keys are fresh: no two batches share one.                         *)
FreshBatchIds ==
    /\ \A c \in claims : c.id < nextBatch
    /\ \A c1, c2 \in claims : c1.id = c2.id => c1 = c2

(* The write in flight is a temporary file; deposited files are final.    *)
FileKinds ==
    /\ \A f \in inflight : f.tmp
    /\ \A f \in deposited : ~f.tmp

Cover ==
    /\ NoSilentLoss
    /\ StagedInClaim
    /\ SweepCovered
    /\ FreshBatchIds
    /\ FileKinds

IInv == TypeOK /\ Cover
-----------------------------------------------------------------------------
(* The files of a batch are split among its txs without loss.             *)
LEMMA TxsCoverFiles ==
    ASSUME NEW S, S \subseteq File
    PROVE  /\ Txs(S) \subseteq SUBSET S
           /\ \A f \in S : \E tx \in Txs(S) : f \in tx
<1>1. Txs(S) \subseteq SUBSET S
  BY DEF Txs
<1>2. ASSUME NEW f \in S PROVE \E tx \in Txs(S) : f \in tx
  <2>. DEFINE tx == {g \in S : Class[g.d] = Class[f.d]}
  <2>1. tx \in Txs(S)
    BY DEF Txs
  <2>2. f \in tx
    OBVIOUS
  <2>. QED
    BY <2>1, <2>2
<1>. QED
  BY <1>1, <1>2

(* A claim written from files of the store is a well-formed batch.        *)
LEMMA ClaimInBatch ==
    ASSUME NEW S, S \subseteq File, nextBatch \in Nat, NEW t \in BOOLEAN
    PROVE  Claim(S, t) \in Batch
  BY Zenon DEF Claim, Batch

(* What a crash in the claim write can leave in spendable_outputs/ is a   *)
(* batch under the fresh key whose files are among those of processing/.  *)
LEMMA TmpClaimFiles ==
    \A b \in TmpClaims : b.files \subseteq processing /\ b.id = nextBatch
  BY DEF TmpClaims, Claim

(* Every step of the pipeline preserves the type invariant.               *)
LEMMA TypeStep == TypeOK /\ [Next]_vars => TypeOK'
  <2> SUFFICES ASSUME TypeOK, [Next]_vars PROVE TypeOK'
    OBVIOUS
  <2>. USE ConstantsAssumption DEF TypeOK, File, Batch, Tx, PC, Ids,
                                   diskVars, histVars
  <2>1. CASE Tick
    BY <2>1 DEF Tick
  <2>2. CASE \E f \in pending : MoveFile(f)
    BY <2>2 DEF MoveFile
  <2>3. CASE EndMove
    BY <2>3 DEF EndMove
  <2>17. CASE CommitClaim
    <3>1. Claim(processing, FALSE) \in Batch
      BY ClaimInBatch
    <3>2. claims' \subseteq Batch
      BY Zenon, <2>17, <3>1 DEF CommitClaim
    <3>4. nextBatch' \in Nat /\ pc' \in PC
      BY <2>17 DEF CommitClaim
    <3>3. UNCHANGED <<pending, processing, listed, toSweep, curTxs, lock, handler,
                      inflight, histVars, crashes, fundings, nextFile>>
      BY <2>17 DEF CommitClaim
    <3>. QED
      BY <3>2, <3>3, <3>4
  <2>4. CASE \E f \in processing : RemoveProcessing(f)
    BY <2>4 DEF RemoveProcessing
  <2>5. CASE ListClaims
    BY <2>5 DEF ListClaims
  <2>6. CASE \E c \in claims : SpendBatch(c)
    <3>. PICK c \in claims : SpendBatch(c)
      BY <2>6
    <3>1. Txs(c.files) \subseteq Tx
      BY TxsCoverFiles
    <3>. QED
      BY <3>1 DEF SpendBatch
  <2>7. CASE \E tx \in curTxs : ProcessTx(tx)
    <3>. PICK tx \in curTxs : ProcessTx(tx)
      BY <2>7
    <3>1. tx \subseteq File /\ Ids(tx) \subseteq Nat /\ {f.d : f \in tx} \subseteq Desc
      OBVIOUS
    <3>2. spent' \subseteq Desc
      BY <3>1 DEF ProcessTx, EmulateRejects, BroadcastOutcomes
    <3>. QED
      BY <3>1, <3>2 DEF ProcessTx
  <2>8. CASE EndBatches
    BY <2>8 DEF EndBatches
  <2>9. CASE \E c \in claims : RemoveClaim(c)
    BY <2>9 DEF RemoveClaim
  <2>10. CASE \E d \in Desc : StartDeposit(d)
    <3>. PICK d \in Desc : StartDeposit(d)
      BY <2>10
    <3>. DEFINE f == [id |-> nextFile, d |-> d, tmp |-> TRUE]
    <3>1. f \in File
      OBVIOUS
    <3>2. pending' = pending \cup {f} /\ inflight' = {f}
      BY DEF StartDeposit
    <3>3. pending' \subseteq File /\ inflight' \subseteq File
      BY <3>1, <3>2
    <3>4. nextFile' \in Nat /\ delivered' \subseteq Desc /\ replayable' \subseteq Desc
      BY DEF StartDeposit
    <3>. QED
      BY <3>3, <3>4 DEF StartDeposit
  <2>11. CASE CommitDeposit
    <3>. PICK f \in inflight :
           /\ f \in pending
           /\ pending' = (pending \ {f}) \cup {Final(f)}
           /\ deposited' = deposited \cup {Final(f)}
      BY <2>11 DEF CommitDeposit
    <3>1. Final(f) \in File
      BY DEF Final
    <3>2. pending' \subseteq File /\ deposited' \subseteq File
      BY <3>1
    <3>. QED
      BY <3>2, <2>11 DEF CommitDeposit
  <2>12. CASE FundingRequest
    BY <2>12 DEF FundingRequest
  <2>13. CASE FundingLock
    BY <2>13 DEF FundingLock
  <2>14. CASE FundingDone
    BY <2>14 DEF FundingDone
  <2>15. CASE Crash
    <3>1. TmpClaims \subseteq Batch
      <4>1. \A S \in SUBSET processing : Claim(S, FALSE) \in Batch
        BY ClaimInBatch
      <4>2. Claim({}, TRUE) \in Batch
        BY ClaimInBatch
      <4>. QED
        BY <4>1, <4>2 DEF TmpClaims
    <3>. QED
      BY <2>15, <3>1 DEF Crash
  <2>16. CASE UNCHANGED vars
    BY <2>16 DEF vars
  <2>. QED
    BY <2>1, <2>2, <2>3, <2>4, <2>5, <2>6, <2>7, <2>8, <2>9, <2>10, <2>11,
       <2>12, <2>13, <2>14, <2>15, <2>16, <2>17
    DEF Next, SweepStep, HandlerStep

(* Type correctness of every reachable state (TypeOK of SweepPipeline).   *)
THEOREM TypeCorrect == Spec => []TypeOK
<1>1. Init => TypeOK
  BY DEF Init, TypeOK, PC
<1>. QED
  BY <1>1, TypeStep, PTL DEF Spec
-----------------------------------------------------------------------------
(* Cover is preserved by each action; one lemma per action.               *)
LEMMA TickCover == TypeOK /\ Cover /\ Tick => Cover'
BY DEF Tick, Cover, NoSilentLoss, InPipeline, ClaimFiles, StagedInClaim,
       SweepCovered, FreshBatchIds, FileKinds, diskVars, histVars

LEMMA MoveFileCover ==
    ASSUME NEW f \in pending, TypeOK, Cover, MoveFile(f) PROVE Cover'
BY DEF MoveFile, Cover, NoSilentLoss, InPipeline, ClaimFiles, StagedInClaim,
       SweepCovered, FreshBatchIds, FileKinds, histVars

LEMMA EndMoveCover == TypeOK /\ Cover /\ EndMove => Cover'
BY DEF EndMove, Cover, NoSilentLoss, InPipeline, ClaimFiles, StagedInClaim,
       SweepCovered, FreshBatchIds, FileKinds, diskVars, histVars

LEMMA CommitClaimCover == TypeOK /\ Cover /\ CommitClaim => Cover'
<1> SUFFICES ASSUME TypeOK, Cover, CommitClaim PROVE Cover'
  OBVIOUS
<1>. DEFINE b == Claim(processing, FALSE)
<1>1. claims' = claims \cup {b} /\ nextBatch' = nextBatch + 1 /\ pc' = "rmproc"
      /\ b.files = processing /\ b.id = nextBatch
  BY DEF CommitClaim, Claim
<1>2. NoSilentLoss'
  BY <1>1 DEF CommitClaim, Cover, NoSilentLoss, InPipeline, ClaimFiles, histVars
<1>3. StagedInClaim'
  BY <1>1 DEF CommitClaim, StagedInClaim
<1>4. FreshBatchIds'
  <2>0. nextBatch \in Nat /\ claims \subseteq Batch
    BY DEF TypeOK
  <2>a. \A c \in claims : c.id \in Nat
    BY Zenon, <2>0 DEF Batch
  <2>1. \A c \in claims : c.id \in Nat /\ c.id < nextBatch /\ c.id # b.id
    BY <1>1, <2>0, <2>a DEF Cover, FreshBatchIds, Claim
  <2>2. \A c \in claims' : c.id < nextBatch'
    <3>1. b.id < nextBatch'
      BY <1>1, <2>0 DEF Claim
    <3>. QED
      BY <1>1, <2>0, <2>1, <3>1 DEF Claim
  <2>3. \A c1, c2 \in claims' : c1.id = c2.id => c1 = c2
    BY <1>1, <2>1 DEF Cover, FreshBatchIds
  <2>. QED
    BY <2>2, <2>3 DEF FreshBatchIds
<1>5. SweepCovered' /\ FileKinds'
  BY <1>1 DEF CommitClaim, Cover, SweepCovered, FileKinds, histVars
<1>. QED
  BY <1>2, <1>3, <1>4, <1>5 DEF Cover

LEMMA RemoveProcessingCover ==
    ASSUME NEW f \in processing, TypeOK, Cover, RemoveProcessing(f) PROVE Cover'
<1>1. PICK c \in claims : processing \subseteq c.files
  BY DEF RemoveProcessing, Cover, StagedInClaim
<1>2. NoSilentLoss'
  BY <1>1 DEF RemoveProcessing, Cover, NoSilentLoss, InPipeline, ClaimFiles, histVars
<1>3. StagedInClaim'
  BY <1>1 DEF RemoveProcessing, StagedInClaim
<1>. QED
  BY <1>2, <1>3 DEF RemoveProcessing, Cover, SweepCovered, FreshBatchIds,
                    FileKinds, histVars

LEMMA ListClaimsCover == TypeOK /\ Cover /\ ListClaims => Cover'
BY DEF ListClaims, Cover, NoSilentLoss, InPipeline, ClaimFiles, StagedInClaim,
       SweepCovered, FreshBatchIds, FileKinds, diskVars, histVars

LEMMA SpendBatchCover ==
    ASSUME NEW c \in claims, TypeOK, Cover, SpendBatch(c) PROVE Cover'
<1>. USE DEF TypeOK, Batch
<1>3. pc = "batch" /\ claims' = claims
  BY DEF SpendBatch, diskVars
<1>a. CASE c.torn /\ pc' = "dead" /\ UNCHANGED <<toSweep, curTxs, lock, attempted>>
  BY <1>a, <1>3 DEF SpendBatch, Cover, NoSilentLoss, InPipeline, ClaimFiles,
     StagedInClaim, SweepCovered, FreshBatchIds, FileKinds, diskVars
<1>b. CASE ~c.torn /\ toSweep' = toSweep \ {c.id}
  <2>0. toSweep' = toSweep \ {c.id}
    BY <1>b
  <2>2. \A c2 \in claims : c2.id = c.id => c2 = c
    BY DEF Cover, FreshBatchIds
  <2>1. \A c2 \in claims : c2.id \notin toSweep' => c2 = c \/ c2.id \notin toSweep
    BY <2>0, <2>2
  <2>4. CASE SpendMayFail /\ attempted' = attempted \cup Ids(c.files)
             /\ UNCHANGED <<pc, curTxs, lock>>
    <3>1. SweepCovered'
      BY <2>1, <1>3, <2>4 DEF Cover, SweepCovered
    <3>. QED
      BY <3>1, <1>3, <2>4 DEF SpendBatch, Cover, NoSilentLoss, InPipeline,
         ClaimFiles, StagedInClaim, FreshBatchIds, FileKinds, diskVars
  <2>5. CASE /\ curTxs' = Txs(c.files)
             /\ pc' = IF curTxs' = {} THEN "batch" ELSE "tx"
             /\ UNCHANGED attempted
    <3>1. \A f \in c.files : \E tx \in curTxs' : f \in tx
      BY <2>5, TxsCoverFiles
    <3>2. ASSUME NEW c2 \in claims', c2.id \notin toSweep', NEW f \in c2.files
          PROVE  f.id \in attempted' \/ \E tx \in curTxs' : f \in tx
      <4>1. CASE c2 = c
        BY <4>1, <3>1
      <4>2. CASE c2.id \notin toSweep
        <5>2. Ids(c2.files) \subseteq attempted
          BY <4>2, <1>3 DEF Cover, SweepCovered
        <5>. QED
          BY <5>2, <2>5 DEF Ids
      <4>. QED
        BY <3>2, <4>1, <4>2, <2>1, <1>3
    <3>3. SweepCovered'
      BY <3>2, <2>5 DEF SweepCovered, Ids
    <3>. QED
      BY <3>3, <1>3, <2>5 DEF SpendBatch, Cover, NoSilentLoss, InPipeline,
         ClaimFiles, StagedInClaim, FreshBatchIds, FileKinds, diskVars
  <2>. QED
    BY <1>b, <2>4, <2>5 DEF SpendBatch
<1>. QED
  BY <1>a, <1>b DEF SpendBatch

LEMMA ProcessTxCover ==
    ASSUME NEW tx \in curTxs, TypeOK, Cover, ProcessTx(tx) PROVE Cover'
<1>1. CASE ~YuvConfigured /\ pc' = "dead" /\ lock' = "none"
           /\ UNCHANGED <<curTxs, attempted, spent>>
  BY <1>1 DEF ProcessTx, Cover, NoSilentLoss, InPipeline, ClaimFiles,
     StagedInClaim, SweepCovered, FreshBatchIds, FileKinds, diskVars
<1>2. CASE YuvConfigured /\ attempted' = attempted \cup Ids(tx)
           /\ curTxs' = curTxs \ {tx}
           /\ pc' = IF curTxs' = {} THEN "batch" ELSE "tx"
  <2>1. pc = "tx" /\ claims' = claims /\ toSweep' = toSweep
    BY DEF ProcessTx, diskVars
  <2>2. \A c \in claims : c.id \notin toSweep =>
          \A f \in c.files : f.id \in attempted' \/ \E tx2 \in curTxs' : f \in tx2
    BY <1>2, <2>1 DEF Cover, SweepCovered, Ids
  <2>3. SweepCovered'
    BY <1>2, <2>1, <2>2 DEF SweepCovered, Ids
  <2>. QED
    BY <2>3, <1>2, <2>1 DEF ProcessTx, Cover, NoSilentLoss, InPipeline, ClaimFiles,
       StagedInClaim, FreshBatchIds, FileKinds, diskVars
<1>. QED
  BY <1>1, <1>2 DEF ProcessTx

LEMMA EndBatchesCover == TypeOK /\ Cover /\ EndBatches => Cover'
BY DEF EndBatches, Cover, NoSilentLoss, InPipeline, ClaimFiles, StagedInClaim,
       SweepCovered, FreshBatchIds, FileKinds, diskVars, histVars

LEMMA RemoveClaimCover ==
    ASSUME NEW c \in claims, TypeOK, Cover, RemoveClaim(c) PROVE Cover'
<1>1. Ids(c.files) \subseteq attempted
  BY DEF RemoveClaim, Cover, SweepCovered
<1>2. NoSilentLoss'
  BY <1>1 DEF RemoveClaim, Cover, NoSilentLoss, InPipeline, ClaimFiles, Ids, histVars
<1>. QED
  BY <1>2 DEF RemoveClaim, Cover, StagedInClaim, SweepCovered, FreshBatchIds,
     FileKinds, histVars

LEMMA StartDepositCover ==
    ASSUME NEW d \in Desc, TypeOK, Cover, StartDeposit(d) PROVE Cover'
BY DEF StartDeposit, Cover, NoSilentLoss, InPipeline, ClaimFiles, StagedInClaim,
       SweepCovered, FreshBatchIds, FileKinds

LEMMA CommitDepositCover == TypeOK /\ Cover /\ CommitDeposit => Cover'
<1> SUFFICES ASSUME TypeOK, Cover, CommitDeposit PROVE Cover'
  OBVIOUS
<1>1. PICK f \in inflight :
        /\ f \in pending
        /\ pending' = (pending \ {f}) \cup {Final(f)}
        /\ deposited' = deposited \cup {Final(f)}
  BY DEF CommitDeposit
<1>2. f.tmp /\ \A g \in deposited : g # f
  BY DEF Cover, FileKinds
<1>3. NoSilentLoss'
  BY <1>1, <1>2 DEF CommitDeposit, Cover, NoSilentLoss, InPipeline, ClaimFiles
<1>4. FileKinds'
  BY <1>1 DEF CommitDeposit, Cover, FileKinds, TypeOK, File, Final
<1>. QED
  BY <1>3, <1>4 DEF CommitDeposit, Cover, StagedInClaim, SweepCovered, FreshBatchIds

LEMMA FundingCover ==
    TypeOK /\ Cover /\ (FundingRequest \/ FundingLock \/ FundingDone) => Cover'
BY DEF FundingRequest, FundingLock, FundingDone, Cover, NoSilentLoss, InPipeline,
       ClaimFiles, StagedInClaim, SweepCovered, FreshBatchIds, FileKinds,
       diskVars, histVars

(* A crash inside the claim write leaves a temporary batch under the key  *)
(* the write was using, which no batch on disk has.                        *)
LEMMA CrashCover == TypeOK /\ Cover /\ Crash => Cover'
<1> SUFFICES ASSUME TypeOK, Cover, Crash PROVE Cover'
  OBVIOUS
<1>1. pc' = "tick" /\ inflight' = {}
      /\ UNCHANGED <<pending, processing, deposited, attempted>>
  BY DEF Crash
<1>2. CASE UNCHANGED <<claims, nextBatch>>
  BY <1>1, <1>2 DEF Cover, NoSilentLoss, InPipeline, ClaimFiles, StagedInClaim,
     SweepCovered, FreshBatchIds, FileKinds
<1>3. CASE \E b \in TmpClaims : claims' = claims \cup {b} /\ nextBatch' = nextBatch + 1
  <2>. PICK b \in TmpClaims : claims' = claims \cup {b} /\ nextBatch' = nextBatch + 1
    BY <1>3
  <2>1. b.id = nextBatch
    BY DEF TmpClaims, Claim
  <2>2. FreshBatchIds'
    BY <2>1 DEF Cover, FreshBatchIds, TypeOK, Batch
  <2>3. NoSilentLoss'
    BY <1>1 DEF Cover, NoSilentLoss, InPipeline, ClaimFiles
  <2>. QED
    BY <1>1, <2>2, <2>3 DEF Cover, StagedInClaim, SweepCovered, FileKinds
<1>. QED
  BY <1>2, <1>3 DEF Crash

LEMMA NextCover == TypeOK /\ Cover /\ [Next]_vars => Cover'
<1> SUFFICES ASSUME TypeOK, Cover, [Next]_vars PROVE Cover'
  OBVIOUS
<1>1. CASE UNCHANGED vars
  BY <1>1 DEF vars, Cover, NoSilentLoss, InPipeline, ClaimFiles, StagedInClaim,
     SweepCovered, FreshBatchIds, FileKinds
<1>. QED
  BY <1>1, TickCover, MoveFileCover, EndMoveCover, CommitClaimCover,
     RemoveProcessingCover,
     ListClaimsCover, SpendBatchCover, ProcessTxCover, EndBatchesCover,
     RemoveClaimCover, StartDepositCover, CommitDepositCover, FundingCover,
     CrashCover
  DEF Next, SweepStep, HandlerStep

(* NoSilentLoss of SweepPipeline holds in every reachable state, for all  *)
(* values of the constants: no interleaving of the sweep loop, the event  *)
(* handler and crashes loses a deposited file before a sweep attempt.     *)
THEOREM NoSilentLossInvariant == Spec => []NoSilentLoss
<1>1. Init => IInv
  BY DEF Init, IInv, TypeOK, PC, Cover, NoSilentLoss, StagedInClaim,
     SweepCovered, FreshBatchIds, FileKinds
<1>2. IInv /\ [Next]_vars => IInv'
  BY TypeStep, NextCover DEF IInv
<1>3. IInv => NoSilentLoss
  BY DEF IInv, Cover
<1>. QED
  BY <1>1, <1>2, <1>3, PTL DEF Spec
=============================================================================
