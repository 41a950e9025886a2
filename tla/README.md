# TLA+ verification of yuv-lightning-ldk-sample

This directory models the parts of the sample node (`src/src/`) that have
state and concurrency of their own. Those parts are kept apart from the calls
the node makes into LDK, Bitcoin Core and the YUV node. The modules are
checked with TLC. The core invariants, the refinement of the sweep into an
abstract specification, and the payment-store invariant are proved with TLAPS.

## 1. The system

The repository holds five source files:

| File | What it does |
|------|--------------|
| `main.rs` (1305 lines) | Node start-up, the LDK event handler `handle_ldk_events`, and the background tasks (event processing, reconnection, node announcements, and the spawn of the sweep). |
| `sweep.rs` (184 lines) | `periodic_sweep`, a tokio task that every 5 s moves spendable-output descriptors from `pending_spendable_outputs/` through `processing_spendable_outputs/` into a batch file under `spendable_outputs/`. It then tries to spend every batch with a YUV sweep tx and deletes the batches. |
| `wallet.rs` (164 lines) | The YUV wallet, shared as `Arc<tokio::sync::Mutex<Wallet>>`. It builds funding txs, and `get_change_yuv_pubkey` always returns `Ok`. |
| `yuv_client.rs` (115 lines) | The RPC client of the YUV node. `emulate_yuv_transaction` returns `Some(reason)` only for `Invalid`; an RPC error returns `None`. `broadcast_transactions_proofs` is spawned fire-and-forget. |
| `cli.rs` (1456 lines) | The interactive commands: `openchannel`, `sendpayment`, `keysend`, `getinvoice` and others. Several of them write the payment stores `inbound_payments` and `outbound_payments`, which are `std::sync::Mutex`. |

How the parts interact:

* The event handler and the sweep task share the filesystem. The handler writes
  one `FilesystemStore` entry per `SpendableOutputs` descriptor. Each write is a
  temporary file followed by a rename onto a 64-hex name.
* The event handler and the sweep task share the wallet mutex. The
  `FundingGenerationReady` branch and each sweep batch hold it across `await`s.
* Events are handled one at a time, in order (`process_events_async`). LDK
  redelivers an event whose handling did not complete before a restart.
* After a restart (`start_ldk`, main.rs:1210-1219) a fresh sweep task starts
  from whatever the three directories hold.

The behaviours that make the sweep hard to get right:

* A crash can happen between any two filesystem operations.
* New deposits arrive while the pending directory is being read.
* A replayed event deposits a second copy of a descriptor.
* Each batch can fail in several independent ways: spend construction, YUV
  emulation, and broadcast. Every batch is deleted at the end of the tick
  whatever happened to it.

## 2. Modules

| Module | Models | Source |
|--------|--------|--------|
| `SweepPipeline` | The sweep loop, the `SpendableOutputs` and `FundingGenerationReady` branches of the event handler, the wallet mutex, YUV emulation, the chain, and node crashes. | sweep.rs:34-183, main.rs:192-255, 521-537, 1084-1112, 1210-1219, yuv_client.rs:51-70 |
| `MCSweepPipeline` | Model values and small instances for TLC. | n/a |
| `SweepPipelineProofs` | The TLAPS proofs of `TypeOK` and `NoSilentLoss`. | n/a |
| `AbstractSweep` | What the sweep promises: a deposited descriptor is held until a spend attempt covered it. | sweep.rs (spec §4) |
| `SweepRefinementProofs` | The proof that `SweepPipeline` implements `AbstractSweep`. | n/a |
| `SweepNoResweepProofs` | The proof of `NoResweepWithoutCrash`. | n/a |
| `Payments` | The two `PaymentInfoStorage` maps and their files, the CLI payment commands, the payment event handlers, LDK's payment state, and restarts with the start-up repair. | cli.rs:348-481, 1204-1383, main.rs:72-83, 259-384, 419-434, 1009-1041 |
| `MCPayments`, `PaymentsProofs` | The TLC instance, and the proofs of `TypeOK`, `RecordsDurable`, `SucceededOnlyIfFulfilled` and `SucceededLostOnlyByResend`. | n/a |
| `ChannelPeers` | `channel_peer_data`, `connectpeer`, `openchannel`, `disconnectpeer`, `closechannel`, the OpenChannelRequest handler and the reconnection task. | cli.rs:264-347, 482-512, 1115-1178, 1385-1403, main.rs:385-414, 1141-1177 |
| `MCChannelPeers`, `ChannelPeersProofs` | The TLC instance, and the proof of `TypeOK`. | n/a |

### State of `SweepPipeline`

**Disk, which survives a crash:**

* `pending`, `processing`: the contents of the two directories. A file is a
  record `[id, d, tmp]`. `id` stands for the random 64-hex key, `d` for the
  descriptor, and `tmp` marks the store's temporary file.
* `claims`: the contents of `spendable_outputs/`, as batch records
  `[id, files, torn]`. `torn` marks a truncated file that does not decode.

**Sweep task:**

* `pc`: the position in the loop body.
* `listed`: the entries `read_dir` returned this tick.
* `toSweep`: the batches still to process this tick.
* `curTxs`: the txs left in the current batch.

**Handler and wallet:**

* `handler`: where the event handler is.
* `inflight`: the store write in progress.
* `lock`: the holder of the wallet mutex.

**History, used only by the properties:**

* `deposited`, `delivered`, `replayable`: what the handler has written or been
  given.
* `attempted`: the ids covered by a spend attempt.
* `spent`: descriptors spent on chain.
* `crashes`, `fundings`, `nextFile`, `nextBatch`: bounded counters.

### Actions and the code they model

Sweep task:

* `Tick` is `interval.tick()` followed by `read_dir(pending)`. The set of
  entries the iterator can return is fixed by `listed`: files present at the
  tick, or written during the iteration.
* `MoveFile(f)`, one rename (sweep.rs:63-74). The guard `~f.tmp` is the
  `len() == 64` check.
* `EndMove` is the re-read of `processing/` and the `outputs.is_empty()`
  check (sweep.rs:75-83). It reads the *directory*, so it also includes files
  a crashed tick left behind. When there is something to write, the task
  enters the claim write (`pc = "claimw"`).
* `CommitClaim` is the end of `persister.write` (sweep.rs:84-87): the
  store's temporary file is renamed onto the fresh key, and the batch of all
  of `processing/` is in `spendable_outputs/`.
  The write is two steps because `FilesystemStore` writes its temporary file
  *in the same directory* as the key, and a crash between them leaves that
  file in `spendable_outputs/` (`TmpClaims`, below).
* `RemoveProcessing(f)` is one unlink of `remove_dir_all(processing)`.
* `ListClaims` is `read_dir(spendable_outputs)`.
* `SpendBatch(c)` takes the wallet lock, gets the change key (always `Ok`), and
  calls `spend_yuv_spendable_outputs`, whose `Err` branch is logged and skipped
  (sweep.rs:99-135, 170-176). One tx is built per descriptor class, and the
  model marks a failed batch as attempted. The loop first decodes the file
  (`Readable::read(..).unwrap()`, sweep.rs:111). A torn file panics the task
  (`pc = "dead"`), before the wallet lock is taken.
* `ProcessTx(tx)`: `unwrap()` of the YUV client (`pc = "dead"` when there is
  none), then emulation, proof publication and broadcast (sweep.rs:139-168).
  The chain accepts a tx only if no input appears twice and no input is
  already spent.
* `EndBatches` and `RemoveClaim(c)` are `remove_dir_all(spendables_dir)`
  (sweep.rs:178-181).

Event handler:

* `StartDeposit(d)` and `CommitDeposit` are the store write of main.rs:531-535,
  split at the rename. A delivered descriptor may be delivered again after a
  crash (`replayable`).
* `FundingRequest`, `FundingLock`, `FundingDone` are main.rs:200-255. The lock
  is awaited, and the handler cannot take another event until the funding
  branch returns.

Node:

* `Crash` is a process crash and restart. Disk stays, memory is reset, and
  every delivered event becomes replayable. A crash during the claim write
  (`pc = "claimw"`) may leave the store's temporary file in
  `spendable_outputs/`, where `read_dir` at sweep.rs:98 lists it like any
  batch. `TmpClaims` is what that file can hold: a prefix of the
  concatenation that ends between two descriptors, which, since `read_dir`
  order is arbitrary, is any subset of the files of `processing/`; or, when
  `TornWrites` is set, a file cut inside a descriptor, which does not decode.

Data is abstracted to what the properties distinguish. Fee rate, locktime,
keys and tx bytes are left out. The split of a batch into txs is modelled as
one tx per descriptor class (`Txs`), the grouping that
`spend_yuv_spendable_outputs` performs.

## 3. Runs

| Run | Config | Result | What it shows |
|-----|--------|--------|---------------|
| `sweep_safety` | `SweepSafety.cfg` | pass, 833k states | Crashes anywhere (inside the claim write too), torn claim files, replays, concurrent writes and every failure outcome are all allowed. Under these, `NoSilentLoss` holds: every deposited file stays in a directory until a spend attempt has covered it. `NoResweepWithoutCrash` holds: without a crash no file enters a second batch after it was attempted. `CHECK_DEADLOCK FALSE` because a torn claim kills the task for good. |
| `sweep_funding_no_yuv` | `SweepFundingNoYuv.cfg` | pass, 409k states | `FundingProceeds`: with no YUV client the sweep task panics at sweep.rs:143 while it holds the wallet mutex, but the guard is dropped as the task unwinds, so the `FundingGenerationReady` handler still gets the wallet. |
| `sweep_liveness` | `SweepLiveness.cfg` | pass, 127k states | `EveryDepositAttempted`: each deposit is eventually covered by a spend attempt, including files stranded in `processing/` and partial claim files left by a crash, as long as no claim file is torn. |
| `sweep_torn_claim` | `SweepTornClaim.cfg` | **violation** | `EveryDepositAttempted` fails once a crash can cut a claim write short. In the trace a descriptor is deposited, the tick reaches the claim write, and the node crashes. The truncated temporary file stays in `spendable_outputs/`, and the next tick panics decoding it (sweep.rs:111). Nothing removes the file, so every restart dies the same way and no deposit is swept again. |
| `sweep_forgotten` | `SweepForgotten.cfg` | **violation** | `SweptOrStillQueued` fails even with a reliable wallet, YUV node and chain. In the trace: a descriptor is deposited, the node crashes, the event is replayed, and both copies go into one batch. The resulting tx double-spends and is rejected, and the wipe at sweep.rs:180 forgets the descriptor. |
| `sweep_no_yuv_liveness` | `SweepNoYuvLiveness.cfg` | **violation** | With no `--yuv-rpc-url`, the `unwrap()` at sweep.rs:143 panics, and deposits are never swept again. |

Bounds are 3 descriptors in 2 classes, 3 deposits, 1 crash and 1 funding
request. With these bounds:

* a descriptor can be replayed;
* a batch has two txs;
* a crash can fall between any two pipeline steps, the two halves of the
  claim write included, while another deposit is in flight;
* the funding handler can contend for the wallet.

`TornWrites` is `TRUE` in the safety runs, so a torn claim is among the
states they cover, and `FALSE` in `sweep_liveness`, which asks what the
sweep guarantees when the filesystem never leaves a truncated file;
`sweep_torn_claim` is the same config with it set.

Each safety property is broken by a mutant of the code under these bounds
(see `mutants` in `PROJECT.json`): a claim that holds only this tick's files
loses stranded ones, and a claim write not followed by the removal of
`processing/` batches a file twice. The liveness config uses 2 descriptors of
different classes to keep the temporal check small.

**Fairness.** `SweepStep` is strongly fair:

* the tokio task is polled again whenever it is runnable;
* its only wait is the wallet mutex, and tokio's mutex is FIFO-fair;
* `SpendBatch` can be disabled by the funding handler holding the lock, so
  weak fairness would not be enough.

`FundingLock` is strongly fair for the same reason. `CommitDeposit` and
`FundingDone` are weakly fair, because a started write or funding build
completes.

Deposits, crashes and replays are environment steps and get no fairness.
Crashes are bounded, so they cannot hide the property.

## 3a. The abstract sweep and the refinement

`AbstractSweep` has three sets of file ids: `held` (on disk somewhere in the
pipeline), `deposited` and `attempted`. Its actions are `Deposit(i)`,
`Attempt(S)` for held ids, and `Drop(S)`, which is allowed only for ids already
attempted. In `SweepPipeline` the mapping is:

* `held` is `HeldIds`: the ids of the final (non-temporary) files in
  `pending/`, `processing/` and the batches of `spendable_outputs/`;
* `deposited` and `attempted` map to the ids of the same history variables.

Under this mapping every `MoveFile`, `EndMove`, `CommitClaim` and tick step is
a stutter, because the file stays held. `CommitDeposit` is a `Deposit`, and `SpendBatch`
and `ProcessTx` are `Attempt`s. `RemoveProcessing` is a stutter, because the
file is already in a batch. `RemoveClaim` and the batch wipe are `Drop`s of
attempted ids. A crash is a stutter: what an interrupted claim write leaves
behind holds only files still in `processing/`. `Abstract == INSTANCE
AbstractSweep WITH ...` and `AbstractSpec == Abstract!Spec` is proved by
`Refinement`. It is not a run of its own: under this mapping the abstract
specification says no more than `NoSilentLoss`, which `sweep_safety` checks.

## 3b. Payments

The model holds these variables:

* `outbound`, `inbound`: the maps in memory.
* `outboundDisk`, `inboundDisk`: the files.
* `cli`: which command holds a store. `sendpayment` and `keysend` hold the
  outbound lock from the insert until after the `Err` branch of the send.
  `getinvoice` holds the inbound lock from `get_invoice` to the write.
* `ldkOut`, `ldkIn`: the durable state of the ChannelManager per hash.
* `events`, `handled`: pending and handled-but-not-persisted events.

The actions map to the code as follows:

* `SendPayment`, `Keysend` and `RecordSend` are the insert of a Pending record
  and the persist. `SendCall` is `send_payment` and its `Err` branch, which
  marks the record Failed and persists it. `send_payment` fails for a
  duplicate id while LDK remembers it, and for a new one may fail when
  `SendMayFail` is set (no route, expired invoice).
* `CreateInvoice` and `WriteInvoice` are `get_invoice` and the persist after it.
* `HandleClaimable` is `claim_funds`: LDK claims the HTLC and queues
  PaymentClaimed. The records are not touched.
* `HandleClaimed`, `HandleSent` and `HandleFailed` are the other handlers.
  Each takes the store's lock (it waits while the CLI holds it), updates the
  record and persists.
* `LdkResolve`, `LdkForget`, `Pay` and `PersistManager` are LDK's side.
  `LdkResolve` either fulfils a payment and queues PaymentSent, or gives up:
  it queues PaymentFailed and drops the abandoned payment from the recent
  payments at once. `LdkForget` stands for `list_recent_payments` dropping a
  fulfilled payment once its PaymentSent is handled and persisted.
  Events are one FIFO queue (`events`); what a restart would replay is
  `handled \o events`. `PersistManager` stands for the background processor
  persisting the ChannelManager, after which handled events are not replayed.
* `Restart` reloads both files and applies the start-up repair of main.rs:1017:
  a Pending record whose hash is not in the recent payments becomes Failed,
  and the file is rewritten. Events that were handled but not persisted are
  delivered again.

Runs (`MCPayments`, 2 outbound hashes, 1 inbound hash, 3 sends, 1 crash):

| Run | Result | What it shows |
|-----|--------|---------------|
| `payments_safety` | pass, 58k states | `RecordsDurable`: whenever no command holds a store, its file equals the map. A crash at that moment loses nothing. `SucceededOnlyIfFulfilled`: a record shows Succeeded only for a payment LDK fulfilled or has forgotten, never for one in flight, across resends, redelivered events and the start-up repair. `SucceededLostOnlyByResend`: a Succeeded record is replaced only by a `sendpayment` or `keysend` of the same hash, or by a replayed PaymentFailed of an earlier attempt while the PaymentSent that restores the record is still queued behind it; the repair never does. |
| `payments_liveness` | pass | `AcceptedPaymentSettles`: a payment LDK accepted ends Succeeded or Failed *on disk*. `ClaimedPaymentRecorded`: a claimed inbound payment is recorded Succeeded on disk, even when a crash lost the invoice's record (the Vacant branch of PaymentClaimed). |
| `payments_resend` | **violation** | `SucceededStaysSucceeded`: `sendpayment` of an invoice already paid overwrites the Succeeded record with a fresh Pending one, dropping the preimage. LDK then rejects the duplicate and the record becomes Failed. |

Fairness: `WF` on the CLI's second step, on LDK resolving a pending payment,
and on each event handler. These are steps of a running thread that waits
only for the std mutex, which a CLI command always releases. User commands,
payments arriving, forgetting and restarts are environment steps without
fairness, and sends and crashes are bounded.

## 3c. Channel peers

The model holds these variables:

* `peerData`: the address `channel_peer_data` yields for each pubkey. An
  address is abstracted to `good` (the peer listens on it) or `bad`. The file
  is append-only and read into a map, so the last line wins.
* `connected`: the PeerManager's connections.
* `chan`: whether a channel with the peer exists.
* `rc`: the reconnection task and the snapshot of the file that it read at
  its tick.
* `disc`: the peer `disconnectpeer` has checked and not yet disconnected.

The actions map to the code as follows:

* `ConnectPeer` is `connect_peer_if_necessary`, which returns Ok at once for
  a connected peer, followed by an unconditional persist.
* `OpenChannel` refuses unknown peers, connects with the stored address, and
  creates the channel.
* `AcceptChannel` is the OpenChannelRequest handler.
* `DisconnectPeer` is the two checks of `do_disconnect_peer` (no channel in
  `list_channels`, the peer in `list_peers`). `DisconnectByNodeId` is the
  `disconnect_by_node_id` call after them. They are separate steps, because
  the event handler runs on another task and can accept a channel between
  them. While `disc` is set, no other command runs (the CLI is one thread).
* `CloseChannel` is `closechannel` and `forceclosechannel`.
* `PeerDrop` is the network dropping a connection (bounded).
* `ReconnectTick`, `ReconnectOne` and `ReconnectEnd` are one pass of the
  task.

The reconnection task gets weak fairness: it is a tokio interval loop with no
other wait.

| Run | Result | What it shows |
|-----|--------|---------------|
| `peers_liveness` | pass | `GoodChannelPeerReconnected`: a dropped channel peer whose stored address is right is reconnected, even when the file changes during a tick. |
| `peers_disconnect_race` | **violation** | `DisconnectSparesChannelPeers`: `disconnectpeer` passes its channel check, the OpenChannelRequest handler accepts an inbound channel from the peer, and `disconnect_by_node_id` then disconnects a channel peer. LDK drops the new unfunded channel. |
| `peers_address_overwrite` | **violation** | `KnownChannelPeerReconnected`: a `connectpeer` with a mistyped address is persisted whether or not it was used or worked. It replaces the channel peer's good address, and after a drop the task retries the wrong one forever. |

## 4. Proofs (`SweepPipelineProofs`, `SweepRefinementProofs`, `SweepNoResweepProofs`, `PaymentsProofs`, `ChannelPeersProofs`)

**`TypeCorrect`** proves `Spec => []TypeOK`. The argument is one step case per
action in `TypeStep`.

**`NoSilentLossInvariant`** proves `Spec => []NoSilentLoss`. This holds for
every set of descriptors, every class map and all bounds allowed by
`ConstantsAssumption`.

`NoSilentLoss` is not inductive on its own. The proof uses
`IInv == TypeOK /\ Cover`, where `Cover` adds the following conjuncts:

* `StagedInClaim`: while `processing/` is being deleted, its files are already
  in the batch just written.
* `SweepCovered`:
  * in `batch` and `rmclaims`, a batch no longer in `toSweep` is fully
    attempted;
  * in `tx`, each file of the current batch is attempted or lies in a tx still
    to process;
  * in `rmclaims`, `toSweep` is empty.

  This is what makes deleting the batches safe.
* `FreshBatchIds`: batch ids are unique and below `nextBatch`.
* `FileKinds`: in-flight records are temporary and deposited ones are final,
  so a commit never collides with a deposited file.

IInv was checked as a TLC invariant on the `sweep_safety` instance before it
was proved. The proof has one lemma per action (`TickCover` …
`CrashCover`), combined in `NextCover`, and the temporal step is closed
`BY PTL DEF Spec`. The lemma `TxsCoverFiles` states that the txs of a batch
cover its files.

**`Refinement`** (`SweepRefinementProofs`) proves `Spec => AbstractSpec`.
The invariant it rests on is `RInv == IInv /\ FinalFiles`. `FinalFiles` says
three things:

* files in `processing/` and in batches are final;
* while a batch is being processed, its txs only contain files of the claim
  queue;
* in-flight ids lie in `1..MaxDeposits`.

With `RInv`, one lemma per action shows that the step maps to an abstract
step or a stutter (`SpendBatchMaps`, `ProcessTxMaps`, `RemoveClaimMaps`,
`CommitDepositMaps`, `MoveStutters`, `OtherStutters`). `RefinementStep`
combines them. The initial state maps to `Abstract!Init`, and the temporal
step is `PTL`. `TmpClaimFiles` (in `SweepPipelineProofs`) carries the
crash case: a claim left by an interrupted write holds files of
`processing/`.

**`PaymentsTypeCorrect`** and **`RecordsDurableInvariant`** (`PaymentsProofs`)
prove `Spec => []TypeOK` and `Spec => []RecordsDurable` for any hash sets and
bounds. `RecordsDurable` is not inductive: a handler that runs while the
CLI holds the outbound store must find the file equal to the map. So the
proof uses `DurableInv`: the outbound file *always* equals the outbound map,
because every outbound writer, the CLI included, persists in the same atomic
step as its change. The inbound file equals the map whenever `getinvoice` is
not between `get_invoice` and its write. `PInv` (TypeOK and DurableInv) was
checked by TLC on the `payments_safety` instance first.

**`NoResweepWithoutCrashHolds`** (`SweepNoResweepProofs`) proves
`Spec => NoResweepWithoutCrash`: in a behaviour without crashes, no claim the
sweep writes holds a file that an earlier claim covered. It is an action
property, proved from `[]NInv` and the lemma `ResweepStep`
(`NInv /\ [Next]_vars => [ResweepFree]_vars`). `NInv` is `RInv` and two more
facts:

* `FreshIds`: every file id on disk, in flight or attempted is below
  `nextFile`, so a new deposit never reuses an attempted key.
* `NoCrashStaging`: while no crash has happened, pending files have distinct
  keys, no pending file is attempted, staged or in a claim, no staged file is
  attempted, and `processing/` is empty except while a tick moves files
  into it and removes it.

Together they say that what the claim write (`CommitClaim`, or a crash
inside it) puts into a claim comes only from `pending/`, and nothing in `pending/` was attempted. A crash breaks
`NoCrashStaging` (staged files stay behind and are moved again), which is why
the property, and the proof, are conditional on `crashes = 0`. `NInv` was
checked by TLC on the `sweep_safety` instance before it was proved.

**`SucceededOnlyIfFulfilledInvariant`** and
**`SucceededLostOnlyByResendHolds`** (`PaymentsProofs`) prove
`Spec => []SucceededOnlyIfFulfilled` and
`Spec => SucceededLostOnlyByResend`. Both rest on
`SInv == PInv /\ QueueInv(Replay, ldkOut, outbound) /\ CliSendPending /\ SucceededOnlyIfFulfilled`,
where `Replay == handled \o events` is the queue a restart would deliver:

* `SentFulfilled`: every PaymentSent in the queue has LDK's payment
  Fulfilled. LDK forgets a payment only once none of its events is left, so
  a redelivered PaymentSent never meets a payment in flight.
* `NoFailedAfterSent`: no PaymentFailed of a hash is queued behind a
  PaymentSent of it. LDK queues PaymentFailed only for a pending payment.
* `FailedThenSent`: a queued PaymentFailed whose record is Succeeded has a
  PaymentSent of the same hash behind it. This is the transient the
  property allows: a replayed failure of an earlier attempt flips the
  record, and the PaymentSent behind it restores it.
* `CliSendPending`: while `sendpayment` or `keysend` holds the lock, its
  record is Pending. So `send_payment`'s `Err` branch only overwrites
  Pending.

The queue facts are predicates of a sequence, and the lemmas `QueueSuffix`,
`QueueAppend`, `QueueFrame` and `QueueSent` show how each operation on the
queue (handling the head, persisting handled events, LDK appending an event,
a record changing) keeps them. `ReplayShift`, `ReplayAppend` and
`ReplayPositions` relate `Replay` before and after a step, from the
`SequenceTheorems` facts. The start-up repair rewrites only Pending records,
and `DurableInv` gives `outboundDisk = outbound`, so a restart keeps every
Succeeded record. `SInv` was checked by TLC on the `payments_safety`
instance, with two crashes, first. `SInvInit`, `SInvStep` (one case per
action) and `LostStep` are the lemmas of the two theorems.

**`PeersTypeCorrect`** (`ChannelPeersProofs`) proves `Spec => []TypeOK` for
ChannelPeers, with one case per action.

**Left to TLC.** These need ENABLED and fairness, which are beyond TLAPS, so
they are only model-checked:

* `EveryDepositAttempted`;
* `AcceptedPaymentSettles`;
* `ClaimedPaymentRecorded`;
* `GoodChannelPeerReconnected`.

The violations are counterexamples and need no proof.

## 5. Not modelled (yet) and plan

* **Scheduler.** `tokio::time::interval` defaults to `Burst`, which the model
  does not distinguish; planned.
* **I/O errors** (the other `unwrap()`s at sweep.rs:64-98). Planned as an
  action that kills the task. The decode failure of sweep.rs:111 is modelled
  for the one way the code can produce it, a torn claim write.
* **A temporary file the sweep renames.** The `len() == 64` check of
  sweep.rs:67 is the guard of `MoveFile`. What would happen to the store's
  rename without it is in `FilesystemStore`, outside this repository, so no
  property is about it.
* **Not planned:**
  * start-up wiring, the background processor and node announcement, which
    are pure calls into LDK;
  * the wallet's funding and transfer calls (`wallet.rs`), which are calls
    into the YUV wallet library with no state of this repository's own;
  * the logging-only event branches;
  * the CLI parsing and printing, and the commands that only print or pass a
    value to LDK (`configchannel`, `updatebalance`, `signmessage`,
    `sendonionmessage`, the list commands).

