------------------------ MODULE SweepRefinementProofs ------------------------
(***************************************************************************)
(* Proof that SweepPipeline implements AbstractSweep under the refinement  *)
(* mapping of SweepPipeline (held <- HeldIds): every step of the sweep     *)
(* loop, the event handler or a crash is a stutter, a Deposit, an Attempt  *)
(* of held files, or a Drop of attempted ones.  It rests on the invariant  *)
(* IInv of SweepPipelineProofs and on where final files can be.            *)
(***************************************************************************)
EXTENDS SweepPipelineProofs

(* Only final files reach processing/ and spendable_outputs/ (the name    *)
(* check of sweep.rs:67), the txs being processed are made of files of a  *)
(* batch still on disk, and the write in flight has a key in range.       *)
FinalFiles ==
    /\ \A f \in processing \cup ClaimFiles : ~f.tmp
    /\ pc = "tx" => \A tx \in curTxs : tx \subseteq ClaimFiles
    /\ \A f \in inflight : f.id \in 1..MaxDeposits
    /\ nextFile \in Nat \ {0}

RInv == IInv /\ FinalFiles
-----------------------------------------------------------------------------
(* FinalFiles is preserved by every step.                                  *)
LEMMA FinalFilesStep == TypeOK /\ FinalFiles /\ [Next]_vars => FinalFiles'
<1> SUFFICES ASSUME TypeOK, FinalFiles, [Next]_vars PROVE FinalFiles'
  OBVIOUS
<1>. USE DEF FinalFiles, ClaimFiles, diskVars, histVars
<1>1. CASE Tick
  BY <1>1 DEF Tick
<1>2. CASE \E f \in pending : MoveFile(f)
  BY <1>2 DEF MoveFile
<1>3. CASE EndMove
  BY <1>3 DEF EndMove
<1>15. CASE CommitClaim
  BY <1>15 DEF CommitClaim, Claim
<1>4. CASE \E f \in processing : RemoveProcessing(f)
  BY <1>4 DEF RemoveProcessing
<1>5. CASE ListClaims
  BY <1>5 DEF ListClaims
<1>6. CASE \E c \in claims : SpendBatch(c)
  <2>. PICK c \in claims : SpendBatch(c)
    BY <1>6
  <2>1. Txs(c.files) \subseteq SUBSET c.files
    BY TxsCoverFiles DEF TypeOK, Batch
  <2>. QED
    BY <2>1 DEF SpendBatch
<1>7. CASE \E tx \in curTxs : ProcessTx(tx)
  BY <1>7 DEF ProcessTx
<1>8. CASE EndBatches
  BY <1>8 DEF EndBatches
<1>9. CASE \E c \in claims : RemoveClaim(c)
  BY <1>9 DEF RemoveClaim
<1>10. CASE \E d \in Desc : StartDeposit(d)
  BY <1>10 DEF StartDeposit, TypeOK
<1>11. CASE CommitDeposit
  BY <1>11 DEF CommitDeposit
<1>12. CASE FundingRequest \/ FundingLock \/ FundingDone
  BY <1>12 DEF FundingRequest, FundingLock, FundingDone
<1>13. CASE Crash
  <2>1. pc' = "tick" /\ inflight' = {} /\ nextFile' = nextFile
        /\ UNCHANGED <<pending, processing>>
    BY <1>13 DEF Crash
  <2>2. \/ claims' = claims
        \/ \E b \in TmpClaims : claims' = claims \cup {b}
    BY <1>13 DEF Crash
  <2>3. \A f \in ClaimFiles' : f \in ClaimFiles \/ f \in processing
    BY <2>2, TmpClaimFiles
  <2>. QED
    BY <2>1, <2>3
<1>14. CASE UNCHANGED vars
  BY <1>14 DEF vars
<1>. QED
  BY <1>1, <1>2, <1>3, <1>4, <1>5, <1>6, <1>7, <1>8, <1>9, <1>10, <1>11,
     <1>12, <1>13, <1>14, <1>15 DEF Next, SweepStep, HandlerStep

(* The invariant the refinement step rests on holds in every state.       *)
LEMMA RInvariant == Spec => []RInv
<1>1. Init => RInv
  BY DEF Init, RInv, IInv, TypeOK, PC, Cover, NoSilentLoss, StagedInClaim,
     SweepCovered, FreshBatchIds, FileKinds, FinalFiles, ClaimFiles
<1>2. RInv /\ [Next]_vars => RInv'
  BY TypeStep, NextCover, FinalFilesStep DEF RInv, IInv
<1>. QED
  BY <1>1, <1>2, PTL DEF Spec
-----------------------------------------------------------------------------
(* The union of the three directories' files, of which HeldIds keeps the   *)
(* final ones.                                                              *)
OnDisk == pending \cup processing \cup ClaimFiles

LEMMA HeldIdsDef ==
    /\ HeldIds = Ids({f \in OnDisk : ~f.tmp})
    /\ HeldIds' = Ids({f \in OnDisk' : ~f.tmp})
BY DEF HeldIds, OnDisk

(* A step that changes none of the three directories and no deposit       *)
(* leaves what the abstract pipeline holds and was given alone.            *)
LEMMA DiskUnchanged ==
    ASSUME UNCHANGED <<pending, processing, claims, deposited>>
    PROVE  HeldIds' = HeldIds /\ Ids(deposited)' = Ids(deposited)
BY DEF HeldIds, ClaimFiles, Ids

(* A step that moves files between directories without adding or         *)
(* removing a final one leaves the abstract state alone.                  *)
LEMMA SameFinalFiles ==
    ASSUME {f \in OnDisk' : ~f.tmp} = {f \in OnDisk : ~f.tmp},
           deposited' = deposited, attempted' = attempted
    PROVE  UNCHANGED Abstract!vars
<1>1. HeldIds' = HeldIds
  BY HeldIdsDef
<1>2. Ids(deposited)' = Ids(deposited)
  BY DEF Ids
<1>. QED
  BY <1>1, <1>2 DEF Abstract!vars

LEMMA MoveStutters ==
    ASSUME TypeOK, IInv,
           \/ \E f \in pending : MoveFile(f)
           \/ EndMove
           \/ CommitClaim
           \/ \E f \in processing : RemoveProcessing(f)
           \/ \E d \in Desc : StartDeposit(d)
    PROVE  UNCHANGED Abstract!vars
<1>1. CASE \E f \in pending : MoveFile(f)
  <2>. PICK f \in pending : MoveFile(f)
    BY <1>1
  <2>1. OnDisk' = OnDisk
    BY DEF MoveFile, OnDisk, ClaimFiles
  <2>. QED
    BY <2>1, SameFinalFiles DEF MoveFile, histVars
<1>2. CASE EndMove
  <2>1. OnDisk' = OnDisk
    BY <1>2 DEF EndMove, OnDisk, ClaimFiles, diskVars
  <2>. QED
    BY <2>1, <1>2, SameFinalFiles DEF EndMove, histVars, diskVars
<1>5. CASE CommitClaim
  <2>1. OnDisk' = OnDisk
    BY <1>5 DEF CommitClaim, Claim, OnDisk, ClaimFiles
  <2>. QED
    BY <2>1, <1>5, SameFinalFiles DEF CommitClaim, histVars
<1>3. CASE \E f \in processing : RemoveProcessing(f)
  <2>. PICK f \in processing : RemoveProcessing(f)
    BY <1>3
  <2>1. PICK c \in claims : processing \subseteq c.files
    BY DEF RemoveProcessing, IInv, Cover, StagedInClaim
  <2>2. OnDisk' = OnDisk
    BY <2>1 DEF RemoveProcessing, OnDisk, ClaimFiles
  <2>. QED
    BY <2>2, SameFinalFiles DEF RemoveProcessing, histVars
<1>4. CASE \E d \in Desc : StartDeposit(d)
  <2>. PICK d \in Desc : StartDeposit(d)
    BY <1>4
  <2>1. {f \in OnDisk' : ~f.tmp} = {f \in OnDisk : ~f.tmp}
    BY DEF StartDeposit, OnDisk, ClaimFiles
  <2>. QED
    BY <2>1, SameFinalFiles DEF StartDeposit
<1>. QED
  BY <1>1, <1>2, <1>3, <1>4, <1>5

(* Files of the batches on disk, final ones, are held.                    *)
LEMMA ClaimedHeld ==
    ASSUME FinalFiles, NEW S, S \subseteq ClaimFiles
    PROVE  Ids(S) \in SUBSET HeldIds
<1>1. S \subseteq {f \in OnDisk : ~f.tmp}
  BY DEF FinalFiles, OnDisk
<1>. QED
  BY <1>1, HeldIdsDef DEF Ids

(* A spend attempt, failed in spend_yuv_spendable_outputs or carried to a *)
(* broadcast, covers files the pipeline holds: an Attempt.                 *)
LEMMA SpendBatchMaps ==
    ASSUME NEW c \in claims, TypeOK, FinalFiles, SpendBatch(c)
    PROVE  [Abstract!Next]_Abstract!vars
<1>1. Ids(c.files) \in SUBSET HeldIds
  BY ClaimedHeld DEF ClaimFiles
<1>2. HeldIds' = HeldIds /\ Ids(deposited)' = Ids(deposited)
  BY DiskUnchanged DEF SpendBatch, diskVars
<1>3. CASE attempted' = attempted \cup Ids(c.files)
  <2>1. Abstract!Attempt(Ids(c.files))
    BY <1>2, <1>3 DEF Abstract!Attempt
  <2>. QED
    BY <1>1, <2>1 DEF Abstract!Next
<1>4. CASE UNCHANGED attempted
  BY <1>2, <1>4 DEF Abstract!vars
<1>. QED
  BY <1>3, <1>4 DEF SpendBatch

LEMMA ProcessTxMaps ==
    ASSUME NEW tx \in curTxs, TypeOK, FinalFiles, ProcessTx(tx)
    PROVE  [Abstract!Next]_Abstract!vars
<1>1. Ids(tx) \in SUBSET HeldIds
  BY ClaimedHeld DEF ProcessTx, FinalFiles
<1>2. HeldIds' = HeldIds /\ Ids(deposited)' = Ids(deposited)
  BY DiskUnchanged DEF ProcessTx, diskVars
<1>3. CASE YuvConfigured
  <2>1. Abstract!Attempt(Ids(tx))
    BY <1>2, <1>3 DEF ProcessTx, Abstract!Attempt
  <2>. QED
    BY <1>1, <2>1 DEF Abstract!Next
<1>4. CASE ~YuvConfigured
  BY <1>2, <1>4 DEF ProcessTx, Abstract!vars
<1>. QED
  BY <1>3, <1>4

(* The queue wipe of sweep.rs:180 lets go of files already attempted: a   *)
(* Drop.                                                                    *)
LEMMA RemoveClaimMaps ==
    ASSUME NEW c \in claims, TypeOK, IInv, RemoveClaim(c)
    PROVE  [Abstract!Next]_Abstract!vars
<1>. DEFINE S == HeldIds \ HeldIds'
<1>1. Ids(c.files) \subseteq attempted
  BY DEF RemoveClaim, IInv, Cover, SweepCovered
<1>2. OnDisk' \subseteq OnDisk /\ OnDisk \subseteq OnDisk' \cup c.files
  BY DEF RemoveClaim, OnDisk, ClaimFiles
<1>3. HeldIds' \subseteq HeldIds
  BY <1>2, HeldIdsDef DEF Ids
<1>4. S \subseteq Ids(c.files)
  <2>1. ASSUME NEW x \in S PROVE x \in Ids(c.files)
    <3>1. PICK g \in OnDisk : ~g.tmp /\ g.id = x
      BY HeldIdsDef DEF Ids
    <3>2. g \notin OnDisk'
      BY <3>1, HeldIdsDef DEF Ids
    <3>. QED
      BY <3>1, <3>2, <1>2 DEF Ids
  <2>. QED
    BY <2>1
<1>5. HeldIds' = HeldIds \ S /\ Ids(deposited)' = Ids(deposited)
  BY <1>3 DEF RemoveClaim, histVars, Ids
<1>6. Abstract!Drop(S)
  BY <1>1, <1>4, <1>5 DEF RemoveClaim, histVars, Abstract!Drop
<1>. QED
  BY <1>6 DEF Abstract!Next

(* The store's rename of a new descriptor file: a Deposit.                *)
LEMMA CommitDepositMaps ==
    ASSUME TypeOK, IInv, FinalFiles, CommitDeposit
    PROVE  [Abstract!Next]_Abstract!vars
<1>1. PICK f \in inflight :
        /\ f \in pending
        /\ pending' = (pending \ {f}) \cup {Final(f)}
        /\ deposited' = deposited \cup {Final(f)}
  BY DEF CommitDeposit
<1>2. f.tmp /\ f.id \in 1..MaxDeposits
  BY DEF IInv, Cover, FileKinds, FinalFiles
<1>3. Final(f).id = f.id /\ ~Final(f).tmp
  BY DEF Final
<1>4. {g \in OnDisk' : ~g.tmp} = {g \in OnDisk : ~g.tmp} \cup {Final(f)}
  BY <1>1, <1>2, <1>3 DEF CommitDeposit, OnDisk, ClaimFiles
<1>5. HeldIds' = HeldIds \cup {f.id}
  BY <1>3, <1>4, HeldIdsDef DEF Ids
<1>6. Ids(deposited)' = Ids(deposited) \cup {f.id}
  BY <1>1, <1>3 DEF Ids
<1>7. Abstract!Deposit(f.id)
  BY <1>5, <1>6 DEF CommitDeposit, Abstract!Deposit
<1>. QED
  BY <1>2, <1>7 DEF Abstract!Next

LEMMA OtherStutters ==
    ASSUME TypeOK,
           Tick \/ ListClaims \/ EndBatches \/ FundingRequest \/ FundingLock
           \/ FundingDone \/ UNCHANGED vars
    PROVE  UNCHANGED Abstract!vars
BY DEF Tick, ListClaims, EndBatches, FundingRequest, FundingLock, FundingDone,
       vars, Abstract!vars, HeldIds, ClaimFiles, diskVars, histVars

(* A crash loses no file: what an interrupted claim write leaves behind   *)
(* holds files that are still in processing/.                              *)
LEMMA CrashStutters ==
    ASSUME TypeOK, Crash
    PROVE  UNCHANGED Abstract!vars
<1>1. \/ claims' = claims
      \/ \E b \in TmpClaims : claims' = claims \cup {b}
  BY DEF Crash
<1>2. UNCHANGED <<pending, processing>>
  BY DEF Crash
<1>3. OnDisk' = OnDisk
  BY <1>1, <1>2, TmpClaimFiles DEF OnDisk, ClaimFiles
<1>. QED
  BY <1>3, SameFinalFiles DEF Crash

(* Every step of the pipeline is a step of AbstractSweep or a stutter.     *)
LEMMA RefinementStep == RInv /\ [Next]_vars => [Abstract!Next]_Abstract!vars
<1> SUFFICES ASSUME RInv, [Next]_vars PROVE [Abstract!Next]_Abstract!vars
  OBVIOUS
<1>1. TypeOK /\ IInv /\ FinalFiles
  BY DEF RInv, IInv
<1>. QED
  BY <1>1, MoveStutters, SpendBatchMaps, ProcessTxMaps, RemoveClaimMaps,
     CommitDepositMaps, OtherStutters, CrashStutters DEF Next, SweepStep, HandlerStep

(* SweepPipeline implements AbstractSweep: for all values of the         *)
(* constants, no step of the sweep loop, the event handler or a crash     *)
(* drops a held file that no attempt has covered.                          *)
THEOREM Refinement == Spec => AbstractSpec
<1>1. Init => Abstract!Init
  BY DEF Init, Abstract!Init, HeldIds, ClaimFiles, Ids
<1>. QED
  BY <1>1, RInvariant, RefinementStep, PTL DEF Spec, AbstractSpec, Abstract!Spec
=============================================================================
