------------------------------- MODULE Payments -------------------------------
(***************************************************************************)
(* The node's payment records: the two PaymentInfoStorage maps behind      *)
(* std::sync::Mutex (inbound_payments, outbound_payments), written by the  *)
(* CLI thread (cli.rs: sendpayment, keysend, getinvoice) and by the LDK    *)
(* event handler (main.rs: PaymentClaimable, PaymentClaimed, PaymentSent,  *)
(* PaymentFailed), each map persisted whole by fs_store.write after every *)
(* change, and reloaded and repaired at start-up (main.rs:1010-1042).      *)
(*                                                                         *)
(* LDK's ChannelManager is the environment: what it knows of each outbound *)
(* payment (ldkOut), of each inbound one (ldkIn), and the events it has    *)
(* queued, in order.  Its state survives a restart, and the events it    *)
(* handed to the handler since the ChannelManager was last persisted are  *)
(* delivered again, in their order, after a restart (at-least-once).       *)
(***************************************************************************)
EXTENDS Naturals, FiniteSets, Sequences

CONSTANTS
    OutHashes,      \* payment hashes of invoices we may pay, and keysends
    InHashes,       \* payment hashes of invoices getinvoice may create
    MaxSends,       \* bound on sendpayment/keysend commands
    MaxCrashes,     \* bound on node restarts
    SendMayFail     \* send_payment may return Err for a fresh payment
                    \* (RouteNotFound, PaymentExpired)

ASSUME PaymentsAssumption ==
    /\ OutHashes \cap InHashes = {}
    /\ MaxSends \in Nat /\ MaxCrashes \in Nat
    /\ SendMayFail \in BOOLEAN

VARIABLES
    outbound, outboundDisk,   \* outbound_payments in memory / on disk
    inbound, inboundDisk,     \* inbound_payments in memory / on disk
    cli,                      \* the CLI thread; holds a map's lock mid-command
    ldkOut, ldkIn,            \* the ChannelManager's view of each payment
    issued,                   \* invoices handed to the user
    events, handled,          \* queued events / handled but redeliverable,
                              \* both in LDK's order
    sends, crashes

vars == <<outbound, outboundDisk, inbound, inboundDisk, cli, ldkOut, ldkIn,
          issued, events, handled, sends, crashes>>

(* HTLCStatus, with "none" for a hash absent from the map.                 *)
OutStatus == {"none", "pending", "succeeded", "failed"}
InStatus == {"none", "pending", "succeeded"}

(* RecentPaymentDetails of a payment LDK still remembers: Pending or      *)
(* Fulfilled; "none" once it has forgotten it.  An abandoned payment with *)
(* no HTLC left is removed when its PaymentFailed is queued.               *)
LdkOutState == {"none", "pending", "fulfilled"}
LdkInState == {"none", "claimable", "claimed"}

Event == [kind : {"sent", "failed"}, h : OutHashes]
           \cup [kind : {"claimable", "claimed"}, h : InHashes]

Idle == [op |-> "idle"]
Cli == {Idle} \cup [op : {"send"}, h : OutHashes] \cup [op : {"invoice"}]

(* The outbound lock is free unless the CLI is inside send_payment or     *)
(* keysend; the inbound lock unless it is inside getinvoice.              *)
OutboundFree == cli.op # "send"
InboundFree == cli.op # "invoice"

Init ==
    /\ outbound = [h \in OutHashes |-> "none"]
    /\ outboundDisk = outbound
    /\ inbound = [h \in InHashes |-> "none"]
    /\ inboundDisk = inbound
    /\ cli = Idle
    /\ ldkOut = [h \in OutHashes |-> "none"]
    /\ ldkIn = [h \in InHashes |-> "none"]
    /\ issued = {}
    /\ events = <<>>
    /\ handled = <<>>
    /\ sends = 0
    /\ crashes = 0

-----------------------------------------------------------------------------
(* CLI thread.                                                             *)

(* Insert the Pending record, persist outbound_payments, keep the lock.   *)
RecordSend(h) ==
    /\ outbound' = [outbound EXCEPT ![h] = "pending"]
    /\ outboundDisk' = outbound'
    /\ cli' = [op |-> "send", h |-> h]
    /\ sends' = sends + 1

(* sendpayment <invoice>: a well-formed invoice of any hash, paid again or *)
(* not; the invalid-input paths print and change nothing.                  *)
SendPayment(h) ==
    /\ cli = Idle
    /\ sends < MaxSends
    /\ RecordSend(h)
    /\ UNCHANGED <<inbound, inboundDisk, ldkOut, ldkIn, issued, events,
                   handled, crashes>>

(* keysend: the payment hash comes from a fresh random preimage.          *)
Keysend(h) ==
    /\ cli = Idle
    /\ sends < MaxSends
    /\ outbound[h] = "none" /\ ldkOut[h] = "none"
    /\ RecordSend(h)
    /\ UNCHANGED <<inbound, inboundDisk, ldkOut, ldkIn, issued, events,
                   handled, crashes>>

SendCall_noFailWrite ==
    /\ cli.op = "send"
    /\ LET h == cli.h IN
       \/ /\ ldkOut[h] = "none"
          /\ ldkOut' = [ldkOut EXCEPT ![h] = "pending"]
          /\ UNCHANGED <<outbound, outboundDisk>>
       \/ /\ ldkOut[h] # "none" \/ SendMayFail
          /\ outbound' = [outbound EXCEPT ![h] = "failed"]
          /\ UNCHANGED <<outboundDisk, ldkOut>>
    /\ cli' = Idle
    /\ UNCHANGED <<inbound, inboundDisk, ldkIn, issued, events, handled,
                   sends, crashes>>

(* channel_manager.send_payment / send_spontaneous_payment_with_retry.    *)
(* LDK takes a payment id it does not know; one it still remembers is    *)
(* DuplicatePayment.  On Err the record is set Failed and persisted.      *)
SendCall ==
    /\ cli.op = "send"
    /\ LET h == cli.h IN
       \/ /\ ldkOut[h] = "none"
          /\ ldkOut' = [ldkOut EXCEPT ![h] = "pending"]
          /\ UNCHANGED <<outbound, outboundDisk>>
       \/ /\ ldkOut[h] # "none" \/ SendMayFail
          /\ outbound' = [outbound EXCEPT ![h] = "failed"]
          /\ outboundDisk' = outbound'
          /\ UNCHANGED ldkOut
    /\ cli' = Idle
    /\ UNCHANGED <<inbound, inboundDisk, ldkIn, issued, events, handled,
                   sends, crashes>>

(* getinvoice: the invoice is created (and printed) and its Pending record *)
(* inserted inside get_invoice; the lock is held until the write after it. *)
CreateInvoice(h) ==
    /\ cli = Idle
    /\ h \notin issued
    /\ inbound' = [inbound EXCEPT ![h] = "pending"]
    /\ issued' = issued \cup {h}
    /\ cli' = [op |-> "invoice"]
    /\ UNCHANGED <<outbound, outboundDisk, inboundDisk, ldkOut, ldkIn, events,
                   handled, sends, crashes>>

WriteInvoice ==
    /\ cli.op = "invoice"
    /\ inboundDisk' = inbound
    /\ cli' = Idle
    /\ UNCHANGED <<outbound, outboundDisk, inbound, ldkOut, ldkIn, issued,
                   events, handled, sends, crashes>>

-----------------------------------------------------------------------------
(* LDK and the network.                                                    *)

(* The events LDK would hand out after a restart, in order.              *)
Replay == handled \o events

(* An outbound payment ends: the preimage comes back and PaymentSent is   *)
(* queued, or retries run out, PaymentFailed is queued and the payment is *)
(* dropped from the recent payments.                                       *)
LdkResolve(h) ==
    /\ ldkOut[h] = "pending"
    /\ \/ /\ ldkOut' = [ldkOut EXCEPT ![h] = "fulfilled"]
          /\ events' = Append(events, [kind |-> "sent", h |-> h])
       \/ /\ ldkOut' = [ldkOut EXCEPT ![h] = "none"]
          /\ events' = Append(events, [kind |-> "failed", h |-> h])
    /\ UNCHANGED <<outbound, outboundDisk, inbound, inboundDisk, cli, ldkIn,
                   issued, handled, sends, crashes>>

(* After its PaymentSent is handled and persisted, LDK eventually drops  *)
(* a fulfilled payment.                                                      *)
LdkForget(h) ==
    /\ ldkOut[h] = "fulfilled"
    /\ \A i \in 1..Len(Replay) : Replay[i].h # h
    /\ ldkOut' = [ldkOut EXCEPT ![h] = "none"]
    /\ UNCHANGED <<outbound, outboundDisk, inbound, inboundDisk, cli, ldkIn,
                   issued, events, handled, sends, crashes>>

(* A payer pays an invoice we issued.                                      *)
Pay(h) ==
    /\ h \in issued
    /\ ldkIn[h] = "none"
    /\ ldkIn' = [ldkIn EXCEPT ![h] = "claimable"]
    /\ events' = Append(events, [kind |-> "claimable", h |-> h])
    /\ UNCHANGED <<outbound, outboundDisk, inbound, inboundDisk, cli, ldkOut,
                   issued, handled, sends, crashes>>

(* The background processor persists the ChannelManager: the events       *)
(* handled so far will not be delivered again.                              *)
PersistManager ==
    /\ handled # <<>>
    /\ handled' = <<>>
    /\ UNCHANGED <<outbound, outboundDisk, inbound, inboundDisk, cli, ldkOut,
                   ldkIn, issued, events, sends, crashes>>

-----------------------------------------------------------------------------
(* Event handler (handle_ldk_events), one event at a time, in order.      *)

Consume(e) ==
    /\ events' = Tail(events)
    /\ handled' = Append(handled, e)

(* PaymentClaimable: claim_funds with the preimage; LDK then queues       *)
(* PaymentClaimed.  The records are not touched.                           *)
HandleClaimable(e) ==
    /\ e.kind = "claimable"
    /\ ldkIn' = [ldkIn EXCEPT ![e.h] = "claimed"]
    /\ events' = Tail(events) \o
          (IF ldkIn[e.h] = "claimable" THEN <<[kind |-> "claimed", h |-> e.h]>>
                                       ELSE <<>>)
    /\ handled' = Append(handled, e)
    /\ UNCHANGED <<outbound, outboundDisk, inbound, inboundDisk, cli, ldkOut,
                   issued, sends, crashes>>

HandleClaimed_occupiedOnly(e) ==
    /\ e.kind = "claimed"
    /\ InboundFree
    /\ inbound' = IF inbound[e.h] # "none"
                  THEN [inbound EXCEPT ![e.h] = "succeeded"] ELSE inbound
    /\ inboundDisk' = inbound'
    /\ Consume(e)
    /\ UNCHANGED <<outbound, outboundDisk, cli, ldkOut, ldkIn, issued, sends,
                   crashes>>

(* PaymentClaimed: the entry, occupied or vacant, becomes Succeeded, and   *)
(* inbound_payments is persisted.                                           *)
HandleClaimed(e) ==
    /\ e.kind = "claimed"
    /\ InboundFree
    /\ inbound' = [inbound EXCEPT ![e.h] = "succeeded"]
    /\ inboundDisk' = inbound'
    /\ Consume(e)
    /\ UNCHANGED <<outbound, outboundDisk, cli, ldkOut, ldkIn, issued, sends,
                   crashes>>

HandleSent_noWrite(e) ==
    /\ e.kind = "sent"
    /\ OutboundFree
    /\ outbound' = IF outbound[e.h] # "none"
                   THEN [outbound EXCEPT ![e.h] = "succeeded"] ELSE outbound
    /\ Consume(e)
    /\ UNCHANGED <<outboundDisk, inbound, inboundDisk, cli, ldkOut, ldkIn,
                   issued, sends, crashes>>

(* PaymentSent: a known record becomes Succeeded and is persisted; for an  *)
(* unknown hash the handler returns without writing.                        *)
HandleSent(e) ==
    /\ e.kind = "sent"
    /\ OutboundFree
    /\ outbound' = IF outbound[e.h] # "none"
                   THEN [outbound EXCEPT ![e.h] = "succeeded"] ELSE outbound
    /\ outboundDisk' = outbound'
    /\ Consume(e)
    /\ UNCHANGED <<inbound, inboundDisk, cli, ldkOut, ldkIn, issued, sends,
                   crashes>>

(* PaymentFailed: a known record becomes Failed; the map is persisted.    *)
HandleFailed(e) ==
    /\ e.kind = "failed"
    /\ OutboundFree
    /\ outbound' = IF outbound[e.h] # "none"
                   THEN [outbound EXCEPT ![e.h] = "failed"] ELSE outbound
    /\ outboundDisk' = outbound'
    /\ Consume(e)
    /\ UNCHANGED <<inbound, inboundDisk, cli, ldkOut, ldkIn, issued, sends,
                   crashes>>

HandleEvent(e) ==
    /\ events # <<>> /\ e = Head(events)
    /\ HandleClaimable(e) \/ HandleClaimed(e) \/ HandleSent(e) \/ HandleFailed(e)

-----------------------------------------------------------------------------
(* Crash and restart: memory is lost, both maps are read back, and every  *)
(* Pending outbound record whose hash is not among LDK's recent payments  *)
(* is set Failed and outbound_payments persisted (main.rs:1010-1042).     *)
Recovered_recentIsSucceeded(h) ==
    IF outboundDisk[h] = "pending" /\ ldkOut[h] = "none" THEN "failed"
    ELSE IF outboundDisk[h] = "pending" THEN "succeeded" ELSE outboundDisk[h]

Recovered_forgottenIsFailed(h) ==
    IF outboundDisk[h] # "none" /\ ldkOut[h] = "none"
    THEN "failed" ELSE outboundDisk[h]

Recovered(h) ==
    IF outboundDisk[h] = "pending" /\ ldkOut[h] = "none"
    THEN "failed" ELSE outboundDisk[h]

Restart ==
    /\ crashes < MaxCrashes
    /\ crashes' = crashes + 1
    /\ outbound' = [h \in OutHashes |-> Recovered(h)]
    /\ outboundDisk' = outbound'
    /\ inbound' = inboundDisk
    /\ cli' = Idle
    /\ events' = Replay
    /\ handled' = <<>>
    /\ UNCHANGED <<inboundDisk, ldkOut, ldkIn, issued, sends>>

-----------------------------------------------------------------------------
UserStep ==
    \/ \E h \in OutHashes : SendPayment(h) \/ Keysend(h)
    \/ \E h \in InHashes : CreateInvoice(h)

CliStep == SendCall \/ WriteInvoice

LdkStep ==
    \/ \E h \in OutHashes : LdkResolve(h) \/ LdkForget(h)
    \/ \E h \in InHashes : Pay(h)
    \/ PersistManager

HandlerStep == \E e \in Event : HandleEvent(e)

Next == UserStep \/ CliStep \/ LdkStep \/ HandlerStep \/ Restart

(* The CLI thread finishes a command it has started; LDK resolves what it *)
(* has in flight (Retry::Timeout(10 s)); the background processor keeps   *)
(* handing queued events to the handler.  Users, payers and crashes are   *)
(* the environment and get no fairness.                                    *)
Fairness ==
    /\ WF_vars(CliStep)
    /\ \A h \in OutHashes : WF_vars(LdkResolve(h))
    /\ WF_vars(HandlerStep)

Spec == Init /\ [][Next]_vars

FairSpec == Spec /\ Fairness

-----------------------------------------------------------------------------
TypeOK ==
    /\ outbound \in [OutHashes -> OutStatus]
    /\ outboundDisk \in [OutHashes -> OutStatus]
    /\ inbound \in [InHashes -> InStatus]
    /\ inboundDisk \in [InHashes -> InStatus]
    /\ cli \in Cli
    /\ ldkOut \in [OutHashes -> LdkOutState]
    /\ ldkIn \in [InHashes -> LdkInState]
    /\ issued \subseteq InHashes
    /\ events \in Seq(Event) /\ handled \in Seq(Event)
    /\ sends \in 0..MaxSends /\ crashes \in 0..MaxCrashes

(* Every change a handler or command makes to a payment map is on disk by *)
(* the time the map's lock is released: whenever neither the CLI nor a    *)
(* handler is mid-update, a restart would read back exactly the records   *)
(* in memory.                                                               *)
RecordsDurable ==
    /\ OutboundFree => outboundDisk = outbound
    /\ InboundFree => inboundDisk = inbound

(* listpayments never shows a payment Succeeded that LDK has in flight:   *)
(* the PaymentSent handler, the start-up repair, a redelivered event and  *)
(* a resend of the same hash leave a Succeeded record only beside a       *)
(* payment LDK fulfilled (or has since forgotten).                         *)
SucceededOnlyIfFulfilled ==
    \A h \in OutHashes :
        outbound[h] = "succeeded" => ldkOut[h] \in {"fulfilled", "none"}

(* A Succeeded outbound record is replaced only by a new sendpayment or  *)
(* keysend of the same hash, or, after a restart, by a replayed           *)
(* PaymentFailed of an earlier attempt whose PaymentSent is still queued  *)
(* behind it and restores the record: neither the send's Err branch, nor *)
(* the start-up repair (which rewrites Pending records only), nor an      *)
(* event handler otherwise turns a payment that succeeded into Failed.    *)
SucceededLostOnlyByResend ==
    [][\A h \in OutHashes :
          outbound[h] = "succeeded" /\ outbound'[h] # "succeeded"
              => \/ cli' = [op |-> "send", h |-> h]
                 \/ \E i \in 1..Len(events') :
                       events'[i] = [kind |-> "sent", h |-> h]]_vars

(* An outbound payment LDK has accepted ends up Succeeded or Failed in    *)
(* the persisted outbound_payments, across restarts and redelivered       *)
(* events: the record a restart reads back settles.                        *)
AcceptedPaymentSettles ==
    \A h \in OutHashes :
        ldkOut[h] = "pending" ~> outboundDisk[h] \in {"succeeded", "failed"}

(* A payment LDK claimed for one of our invoices ends up Succeeded in the  *)
(* persisted inbound_payments, even when a restart came between printing  *)
(* the invoice and writing its Pending record.                              *)
ClaimedPaymentRecorded ==
    \A h \in InHashes : ldkIn[h] = "claimed" ~> inboundDisk[h] = "succeeded"

(* A record of a payment that succeeded stays Succeeded: the preimage it  *)
(* holds is the proof of payment (PaymentSent).                            *)
SucceededStaysSucceeded ==
    [][\A h \in OutHashes :
          outbound[h] = "succeeded" => outbound'[h] = "succeeded"]_vars

=============================================================================
