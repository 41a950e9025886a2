---------------------------- MODULE SweepPipeline ----------------------------
(***************************************************************************)
(* The spendable-output sweep pipeline of the sample node (src/sweep.rs),  *)
(* together with the two pieces of main.rs that share state with it: the  *)
(* SpendableOutputs event handler, which deposits one file per descriptor *)
(* into pending_spendable_outputs/, and the FundingGenerationReady        *)
(* handler, which contends with the sweep for the wallet mutex.            *)
(*                                                                         *)
(* Disk state (survives a crash):                                          *)
(*   pending     files of pending_spendable_outputs/ (tmp = the store's   *)
(*               in-flight temporary file, whose name is not 64 chars)    *)
(*   processing  files of processing_spendable_outputs/                   *)
(*   claims      files of spendable_outputs/, one consolidated batch each *)
(*               (torn = a truncated file that does not decode)          *)
(* Task state (lost on a crash): the sweep loop's pc and locals, the      *)
(* event handler's state and the wallet mutex.                            *)
(* History and environment: deposited, attempted, delivered, replayable,  *)
(* spent (the descriptors whose outputs a chain transaction has spent).   *)
(***************************************************************************)
EXTENDS Naturals, FiniteSets

CONSTANTS
    Desc,              \* spendable output descriptors LDK may hand us
    Classes,           \* YUV classifications (chromas, or none)
    Class,             \* Desc -> Classes; one sweep tx per class
    MaxDeposits,       \* bound on descriptor files written (file keys)
    MaxCrashes,        \* bound on process crashes
    MaxFunding,        \* bound on FundingGenerationReady events
    YuvConfigured,     \* the node was started with a YUV RPC url
    SpendMayFail,      \* spend_yuv_spendable_outputs may return Err
    EmulateMayReject,  \* the YUV node may answer Invalid to an emulation
    BroadcastMayFail,  \* a broadcast may never reach the chain
    TornWrites         \* a crash may cut a file write short (power loss)

ASSUME ConstantsAssumption ==
    /\ Desc # {}
    /\ Class \in [Desc -> Classes]
    /\ MaxDeposits \in Nat /\ MaxCrashes \in Nat /\ MaxFunding \in Nat
    /\ YuvConfigured \in BOOLEAN /\ SpendMayFail \in BOOLEAN
    /\ EmulateMayReject \in BOOLEAN /\ BroadcastMayFail \in BOOLEAN
    /\ TornWrites \in BOOLEAN

VARIABLES
    pending, processing, claims,
    pc, listed, toSweep, curTxs,
    lock, handler, inflight,
    deposited, delivered, replayable, attempted, spent,
    crashes, fundings, nextFile, nextBatch

vars == <<pending, processing, claims, pc, listed, toSweep, curTxs,
          lock, handler, inflight, deposited, delivered, replayable,
          attempted, spent, crashes, fundings, nextFile, nextBatch>>

diskVars == <<pending, processing, claims>>
histVars == <<deposited, delivered, replayable, attempted, spent>>

(* A file on disk: its random key, the descriptor it holds, and whether   *)
(* it is the store's temporary file (name longer than 64 characters).      *)
File == [id : Nat, d : Desc, tmp : BOOLEAN]
Batch == [id : Nat, files : SUBSET File, torn : BOOLEAN]
Tx == SUBSET File

PC == {"tick", "move", "claimw", "rmproc", "list", "batch", "tx", "rmclaims", "dead"}

Ids(S) == {f.id : f \in S}
ClaimFiles == UNION {c.files : c \in claims}

(* The transactions spend_yuv_spendable_outputs builds for a batch: one   *)
(* per YUV classification present among its descriptors.                   *)
Txs(files) ==
    {{f \in files : Class[f.d] = k} : k \in {Class[f.d] : f \in files}}

(* Whether the chain accepts a broadcast tx: no input twice, none spent.   *)
ChainAccepts(tx) ==
    /\ \A f, g \in tx : f.d = g.d => f = g
    /\ \A f \in tx : f.d \notin spent

(* emulate_yuv_transaction: Some(reason) only on an Invalid answer; an RPC *)
(* error is logged and yields None, i.e. the tx is broadcast anyway.       *)
EmulateRejects == IF EmulateMayReject THEN {FALSE, TRUE} ELSE {FALSE}

BroadcastOutcomes == IF BroadcastMayFail THEN {FALSE, TRUE} ELSE {TRUE}

Init ==
    /\ pending = {} /\ processing = {} /\ claims = {}
    /\ pc = "tick" /\ listed = {} /\ toSweep = {} /\ curTxs = {}
    /\ lock = "none" /\ handler = "idle" /\ inflight = {}
    /\ deposited = {} /\ delivered = {} /\ replayable = {}
    /\ attempted = {} /\ spent = {}
    /\ crashes = 0 /\ fundings = 0 /\ nextFile = 1 /\ nextBatch = 1

-----------------------------------------------------------------------------
(* Sweep task: interval.tick().await, then fs::read_dir(pending).          *)
Tick ==
    /\ pc = "tick"
    /\ pc' = "move"
    /\ listed' = Ids({f \in pending : ~f.tmp})
    /\ UNCHANGED <<diskVars, toSweep, curTxs, lock, handler, inflight,
                   histVars, crashes, fundings, nextFile, nextBatch>>

(* One iteration of the read_dir loop: rename a 64-char-named file into   *)
(* processing_spendable_outputs/.                                          *)
MoveFile(f) ==
    /\ pc = "move" /\ f \in pending
    /\ ~f.tmp
    /\ pending' = pending \ {f}
    /\ processing' = processing \cup {f}
    /\ UNCHANGED <<claims, pc, listed, toSweep, curTxs, lock, handler,
                   inflight, histVars, crashes, fundings, nextFile, nextBatch>>

(* Mutant: consolidate only on a tick that found new files in pending.    *)
EndMove_onlyIfListed ==
    /\ pc = "move"
    /\ \A f \in pending : ~f.tmp => f.id \notin listed
    /\ pc' = IF processing # {} /\ listed # {} THEN "claimw" ELSE "list"
    /\ UNCHANGED <<diskVars, listed, toSweep, curTxs, lock, handler, inflight,
                   histVars, crashes, fundings, nextFile, nextBatch>>

(* The read_dir iterator is exhausted (it must have returned every entry   *)
(* present when it was opened); if processing holds anything, its files   *)
(* are concatenated and persister.write starts: FilesystemStore creates   *)
(* a temporary file in spendable_outputs/ and writes the batch into it.   *)
EndMove ==
    /\ pc = "move"
    /\ \A f \in pending : ~f.tmp => f.id \notin listed
    /\ pc' = IF processing # {} THEN "claimw" ELSE "list"
    /\ UNCHANGED <<diskVars, listed, toSweep, curTxs, lock, handler, inflight,
                   histVars, crashes, fundings, nextFile, nextBatch>>

(* A claim batch file under the fresh key nextBatch.                      *)
Claim(files, torn) == [id |-> nextBatch, files |-> files, torn |-> torn]

(* Mutant: the batch holds only the files this tick moved.                *)
CommitClaim_onlyMovedThisTick ==
    /\ pc = "claimw"
    /\ claims' = claims \cup {Claim({f \in processing : f.id \in listed}, FALSE)}
    /\ nextBatch' = nextBatch + 1
    /\ pc' = "rmproc"
    /\ UNCHANGED <<pending, processing, listed, toSweep, curTxs, lock, handler,
                   inflight, histVars, crashes, fundings, nextFile>>

(* Mutant: processing_spendable_outputs/ is not removed after the write. *)
CommitClaim_keepsStaging ==
    /\ pc = "claimw"
    /\ claims' = claims \cup {Claim(processing, FALSE)}
    /\ nextBatch' = nextBatch + 1
    /\ pc' = "list"
    /\ UNCHANGED <<pending, processing, listed, toSweep, curTxs, lock, handler,
                   inflight, histVars, crashes, fundings, nextFile>>

(* The store syncs the temporary file and renames it onto the key: the    *)
(* batch is in spendable_outputs/; remove_dir_all(processing) follows.     *)
CommitClaim ==
    /\ pc = "claimw"
    /\ claims' = claims \cup {Claim(processing, FALSE)}
    /\ nextBatch' = nextBatch + 1
    /\ pc' = "rmproc"
    /\ UNCHANGED <<pending, processing, listed, toSweep, curTxs, lock, handler,
                   inflight, histVars, crashes, fundings, nextFile>>

(* fs::remove_dir_all(processing): unlinks the files one at a time.        *)
RemoveProcessing(f) ==
    /\ pc = "rmproc" /\ f \in processing
    /\ processing' = processing \ {f}
    /\ pc' = IF processing' = {} THEN "list" ELSE "rmproc"
    /\ UNCHANGED <<pending, claims, listed, toSweep, curTxs, lock, handler,
                   inflight, histVars, crashes, fundings, nextFile, nextBatch>>

(* fs::read_dir(spendable_outputs): every file in it, a temporary one    *)
(* left by a crash included, is a batch to try this tick.                  *)
ListClaims ==
    /\ pc = "list"
    /\ toSweep' = {c.id : c \in claims}
    /\ pc' = "batch"
    /\ UNCHANGED <<diskVars, listed, curTxs, lock, handler, inflight,
                   histVars, crashes, fundings, nextFile, nextBatch>>

(* One batch: decode it (Readable::read(..).unwrap() panics, ending the  *)
(* task, on a truncated file), wallet.lock().await, get_change_yuv_pubkey *)
(* (which always succeeds), then spend_yuv_spendable_outputs.  On Err the *)
(* error is logged and the guard dropped; on Ok its txs are processed.    *)
SpendBatch(c) ==
    /\ pc = "batch" /\ c \in claims /\ c.id \in toSweep
    /\ \/ /\ c.torn
          /\ pc' = "dead"
          /\ UNCHANGED <<toSweep, curTxs, lock, attempted>>
       \/ /\ ~c.torn /\ lock = "none"
          /\ toSweep' = toSweep \ {c.id}
          /\ \/ /\ SpendMayFail
                /\ attempted' = attempted \cup Ids(c.files)
                /\ UNCHANGED <<pc, curTxs, lock>>
             \/ /\ curTxs' = Txs(c.files)
                /\ pc' = IF curTxs' = {} THEN "batch" ELSE "tx"
                /\ lock' = IF curTxs' = {} THEN "none" ELSE "sweep"
                /\ UNCHANGED attempted
    /\ UNCHANGED <<diskVars, listed, handler, inflight, deposited, delivered,
                   replayable, spent, crashes, fundings, nextFile, nextBatch>>

ProcessTx_panicKeepsLock(tx) ==
    /\ pc = "tx" /\ tx \in curTxs
    /\ \/ /\ ~YuvConfigured
          /\ pc' = "dead"
          /\ UNCHANGED <<curTxs, attempted, spent, lock>>
       \/ /\ YuvConfigured
          /\ attempted' = attempted \cup Ids(tx)
          /\ curTxs' = curTxs \ {tx}
          /\ pc' = IF curTxs' = {} THEN "batch" ELSE "tx"
          /\ lock' = IF curTxs' = {} THEN "none" ELSE "sweep"
          /\ \E rejected \in EmulateRejects, reaches \in BroadcastOutcomes :
               spent' = IF ~rejected /\ reaches /\ ChainAccepts(tx)
                          THEN spent \cup {f.d : f \in tx}
                          ELSE spent
    /\ UNCHANGED <<diskVars, listed, toSweep, handler, inflight, deposited,
                   delivered, replayable, crashes, fundings, nextFile, nextBatch>>

(* One tx of the batch: yuv_client.as_ref().unwrap() (a panic that ends    *)
(* the task when no YUV client is configured), emulate, and unless        *)
(* rejected, publish the proofs and broadcast.  After the last tx the      *)
(* wallet guard goes out of scope.                                         *)
ProcessTx(tx) ==
    /\ pc = "tx" /\ tx \in curTxs
    /\ \/ /\ ~YuvConfigured
          /\ pc' = "dead" /\ lock' = "none"
          /\ UNCHANGED <<curTxs, attempted, spent>>
       \/ /\ YuvConfigured
          /\ attempted' = attempted \cup Ids(tx)
          /\ curTxs' = curTxs \ {tx}
          /\ pc' = IF curTxs' = {} THEN "batch" ELSE "tx"
          /\ lock' = IF curTxs' = {} THEN "none" ELSE "sweep"
          /\ \E rejected \in EmulateRejects, reaches \in BroadcastOutcomes :
               spent' = IF ~rejected /\ reaches /\ ChainAccepts(tx)
                          THEN spent \cup {f.d : f \in tx}
                          ELSE spent
    /\ UNCHANGED <<diskVars, listed, toSweep, handler, inflight, deposited,
                   delivered, replayable, crashes, fundings, nextFile, nextBatch>>

(* Every listed batch was tried: fs::remove_dir_all(spendable_outputs),    *)
(* whatever each attempt's outcome.                                        *)
EndBatches ==
    /\ pc = "batch" /\ toSweep = {}
    /\ pc' = IF claims = {} THEN "tick" ELSE "rmclaims"
    /\ UNCHANGED <<diskVars, listed, toSweep, curTxs, lock, handler, inflight,
                   histVars, crashes, fundings, nextFile, nextBatch>>

RemoveClaim(c) ==
    /\ pc = "rmclaims" /\ c \in claims
    /\ claims' = claims \ {c}
    /\ pc' = IF claims' = {} THEN "tick" ELSE "rmclaims"
    /\ UNCHANGED <<pending, processing, listed, toSweep, curTxs, lock, handler,
                   inflight, histVars, crashes, fundings, nextFile, nextBatch>>

-----------------------------------------------------------------------------
(* Event handler, SpendableOutputs: fs_store.write of one descriptor under *)
(* a fresh random key.  The store first writes a temporary file next to    *)
(* the destination ...                                                     *)
StartDeposit(d) ==
    /\ handler = "idle" /\ nextFile <= MaxDeposits
    /\ d \notin delivered \/ d \in replayable
    /\ LET f == [id |-> nextFile, d |-> d, tmp |-> TRUE] IN
         /\ pending' = pending \cup {f}
         /\ inflight' = {f}
    /\ handler' = "writing"
    /\ nextFile' = nextFile + 1
    /\ delivered' = delivered \cup {d}
    /\ replayable' = replayable \ {d}
    /\ UNCHANGED <<processing, claims, pc, listed, toSweep, curTxs, lock,
                   deposited, attempted, spent, crashes, fundings, nextBatch>>

(* The file a temporary one becomes once renamed onto its key.           *)
Final(f) == [id |-> f.id, d |-> f.d, tmp |-> FALSE]

(* ... then renames it onto the 64-hex-character key.                      *)
CommitDeposit ==
    /\ handler = "writing"
    /\ \E f \in inflight :
         /\ f \in pending
         /\ pending' = (pending \ {f}) \cup {Final(f)}
         /\ deposited' = deposited \cup {Final(f)}
    /\ handler' = "idle" /\ inflight' = {}
    /\ UNCHANGED <<processing, claims, pc, listed, toSweep, curTxs, lock,
                   delivered, replayable, attempted, spent, crashes, fundings,
                   nextFile, nextBatch>>

(* Event handler, FundingGenerationReady: wallet.lock().await ...          *)
FundingRequest ==
    /\ handler = "idle" /\ fundings < MaxFunding
    /\ handler' = "waitWallet" /\ fundings' = fundings + 1
    /\ UNCHANGED <<diskVars, pc, listed, toSweep, curTxs, lock, inflight,
                   histVars, crashes, nextFile, nextBatch>>

FundingLock ==
    /\ handler = "waitWallet" /\ lock = "none"
    /\ handler' = "funding" /\ lock' = "handler"
    /\ UNCHANGED <<diskVars, pc, listed, toSweep, curTxs, inflight,
                   histVars, crashes, fundings, nextFile, nextBatch>>

(* ... build the funding tx, hand it to the channel manager, drop guard.   *)
FundingDone ==
    /\ handler = "funding"
    /\ handler' = "idle" /\ lock' = "none"
    /\ UNCHANGED <<diskVars, pc, listed, toSweep, curTxs, inflight,
                   histVars, crashes, fundings, nextFile, nextBatch>>

-----------------------------------------------------------------------------
(* What a crash inside the claim write leaves in spendable_outputs/: the  *)
(* store's temporary file, which line 98 reads like any other.  Written up *)
(* to a descriptor boundary it decodes to some of the batch's files; cut  *)
(* short inside a descriptor it does not decode.                          *)
TmpClaims ==
    {Claim(S, FALSE) : S \in SUBSET processing}
        \cup (IF TornWrites THEN {Claim({}, TRUE)} ELSE {})

(* The process dies at any point and is restarted: start_ldk spawns a      *)
(* fresh periodic_sweep; files on disk (temporary ones included) remain;   *)
(* LDK may hand back SpendableOutputs events already handled.              *)
Crash ==
    /\ crashes < MaxCrashes
    /\ crashes' = crashes + 1
    /\ pc' = "tick" /\ listed' = {} /\ toSweep' = {} /\ curTxs' = {}
    /\ lock' = "none" /\ handler' = "idle" /\ inflight' = {}
    /\ replayable' = delivered
    /\ \/ UNCHANGED <<claims, nextBatch>>
       \/ /\ pc = "claimw"
          /\ \E b \in TmpClaims : claims' = claims \cup {b}
          /\ nextBatch' = nextBatch + 1
    /\ UNCHANGED <<pending, processing, deposited, delivered, attempted, spent,
                   fundings, nextFile>>

SweepStep ==
    \/ Tick
    \/ \E f \in pending : MoveFile(f)
    \/ EndMove
    \/ CommitClaim
    \/ \E f \in processing : RemoveProcessing(f)
    \/ ListClaims
    \/ \E c \in claims : SpendBatch(c)
    \/ \E tx \in curTxs : ProcessTx(tx)
    \/ EndBatches
    \/ \E c \in claims : RemoveClaim(c)

HandlerStep ==
    \/ \E d \in Desc : StartDeposit(d)
    \/ CommitDeposit
    \/ FundingRequest
    \/ FundingLock
    \/ FundingDone

Next == SweepStep \/ HandlerStep \/ Crash

(* The sweep task and the handler are tokio tasks that run whenever they  *)
(* can; the wallet is a FIFO-fair tokio::sync::Mutex, so an acquirer that *)
(* is repeatedly able to take it eventually does.  Producers and crashes  *)
(* are the environment and get no fairness.                                *)
Fairness ==
    /\ SF_vars(SweepStep)
    /\ WF_vars(CommitDeposit)
    /\ SF_vars(FundingLock)
    /\ WF_vars(FundingDone)

Spec == Init /\ [][Next]_vars

FairSpec == Spec /\ Fairness

-----------------------------------------------------------------------------
TypeOK ==
    /\ pending \subseteq File /\ processing \subseteq File
    /\ claims \subseteq Batch
    /\ pc \in PC /\ listed \subseteq Nat /\ toSweep \subseteq Nat
    /\ curTxs \subseteq Tx
    /\ lock \in {"none", "sweep", "handler"}
    /\ handler \in {"idle", "writing", "waitWallet", "funding"}
    /\ inflight \subseteq File
    /\ deposited \subseteq File /\ delivered \subseteq Desc
    /\ replayable \subseteq Desc /\ attempted \subseteq Nat
    /\ spent \subseteq Desc
    /\ crashes \in Nat /\ fundings \in Nat
    /\ nextFile \in Nat /\ nextBatch \in Nat

InPipeline(f) == f \in pending \/ f \in processing \/ f \in ClaimFiles

(* Conservation across crashes (spec section 8): a deposited descriptor   *)
(* file leaves pending, processing and spendable_outputs only after a     *)
(* sweep attempt has covered it: the renames of sweep.rs:72, the write and *)
(* remove_dir_all of sweep.rs:85-88 and the queue wipe of sweep.rs:180 in  *)
(* any interleaving with a crash never drop an unattempted file.          *)
NoSilentLoss ==
    \A f \in deposited : InPipeline(f) \/ f.id \in attempted

(* What a consolidation step may never do in a run without a crash: put  *)
(* into a new claim batch a file that an earlier sweep already tried.  The *)
(* move-then-remove_dir_all of sweep.rs:72-88 makes every file pass through *)
(* spendable_outputs/ once; only a crash inside that window can repeat it. *)
NoResweepWithoutCrash ==
    [][ crashes = 0 =>
          \A c \in claims' \ claims : Ids(c.files) \cap attempted = {}
      ]_vars

-----------------------------------------------------------------------------
(* Refinement: the ids of the final (non-temporary) files in the three     *)
(* directories are what the abstract pipeline holds.                       *)
HeldIds == Ids({f \in pending \cup processing \cup ClaimFiles : ~f.tmp})

Abstract == INSTANCE AbstractSweep
                WITH FileId <- 1..MaxDeposits,
                     held <- HeldIds,
                     deposited <- Ids(deposited),
                     attempted <- attempted

(* The pipeline implements AbstractSweep: every step of the sweep loop,   *)
(* the event handler or a crash either leaves the held, deposited and     *)
(* attempted files alone or is a Deposit, an Attempt, or a Drop of files  *)
(* already attempted (the deletions of sweep.rs:88 and sweep.rs:180).      *)
AbstractSpec == Abstract!Spec

(* Liveness: with the scheduler running fairly, every descriptor file that *)
(* the event handler deposited is eventually covered by a sweep attempt.   *)
EveryDepositAttempted ==
    \A i \in 1..MaxDeposits :
        (\E f \in deposited : f.id = i) ~> (i \in attempted)

(* The FundingGenerationReady handler waiting for the wallet at          *)
(* main.rs:210 gets it, unless a crash ends the wait: the sweep holds the *)
(* tokio guard across the emulation RPC (sweep.rs:114-169), and when      *)
(* yuv_client.as_ref().unwrap() panics at sweep.rs:143 the task unwinds   *)
(* and drops the guard, so a dead sweep task does not stall channel       *)
(* funding.                                                                *)
FundingProceeds ==
    \A n \in 0..MaxCrashes :
        (handler = "waitWallet" /\ crashes = n)
            ~> (handler = "funding" \/ crashes > n)

(* The comment at sweep.rs:93-96 says every set of spendable outputs is   *)
(* tried "over and over again forever"; the spec calls deletion harmless  *)
(* because the expected failure is re-broadcasting a confirmed sweep.     *)
(* Both amount to: a file leaves the pipeline only once its output has    *)
(* been spent on chain.                                                    *)
SweptOrStillQueued ==
    \A f \in deposited : InPipeline(f) \/ f.d \in spent
=============================================================================
