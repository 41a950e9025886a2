---------------------------- MODULE PaymentsProofs ----------------------------
(***************************************************************************)
(* Proofs about Payments for every value of its constants: the type        *)
(* invariant; RecordsDurable, through the strengthening that the outbound *)
(* map is written inside every critical section that changes it; and     *)
(* SucceededOnlyIfFulfilled and SucceededLostOnlyByResend, through three  *)
(* facts about the queue LDK would replay after a restart (handled \o     *)
(* events) that relate its PaymentSent and PaymentFailed events to each    *)
(* other, to LDK's recent payments and to the records.                     *)
(***************************************************************************)
EXTENDS Payments, SequenceTheorems, TLAPS

(* outbound_payments is persisted in the same critical section as every   *)
(* change (cli.rs:1253, 1269, 1295, 1309; main.rs:383, 433, 1040), and     *)
(* inbound_payments differs from disk only inside getinvoice.              *)
DurableInv ==
    /\ outboundDisk = outbound
    /\ InboundFree => inboundDisk = inbound

PInv == TypeOK /\ DurableInv
-----------------------------------------------------------------------------
(* Every step of the payment handling preserves the type invariant.        *)
LEMMA PaymentsTypeStep == TypeOK /\ [Next]_vars => TypeOK'
<1> SUFFICES ASSUME TypeOK, [Next]_vars PROVE TypeOK'
  OBVIOUS
<1>. USE PaymentsAssumption DEF TypeOK, OutStatus, InStatus, LdkOutState,
                                  LdkInState, Cli, Idle
<1>1. CASE \E h \in OutHashes : SendPayment(h) \/ Keysend(h)
  <2>. PICK h \in OutHashes : SendPayment(h) \/ Keysend(h)
    BY <1>1
  <2>1. /\ cli = Idle /\ sends < MaxSends /\ RecordSend(h)
        /\ UNCHANGED <<inbound, inboundDisk, ldkOut, ldkIn, issued, events,
                       handled, crashes>>
    BY DEF SendPayment, Keysend
  <2>. QED
    BY <2>1 DEF RecordSend
<1>2. CASE \E h \in InHashes : CreateInvoice(h)
  BY <1>2 DEF CreateInvoice
<1>3. CASE SendCall
  BY <1>3 DEF SendCall
<1>4. CASE WriteInvoice
  <2>1. /\ cli.op = "invoice" /\ inboundDisk' = inbound /\ cli' = Idle
        /\ UNCHANGED <<outbound, outboundDisk, inbound, ldkOut, ldkIn, issued,
                       events, handled, sends, crashes>>
    BY <1>4 DEF WriteInvoice
  <2>. QED
    BY <2>1
<1>5. CASE \E h \in OutHashes : LdkResolve(h) \/ LdkForget(h)
  <2>. PICK h \in OutHashes : LdkResolve(h) \/ LdkForget(h)
    BY <1>5
  <2>1. CASE LdkResolve(h)
    <3>1. \E k \in {"sent", "failed"} :
             /\ ldkOut' \in [OutHashes -> LdkOutState]
             /\ events' = Append(events, [kind |-> k, h |-> h])
      BY <2>1 DEF LdkResolve
    <3>2. events' \in Seq(Event)
      BY <3>1 DEF Event
    <3>. QED
      BY <2>1, <3>1, <3>2 DEF LdkResolve
  <2>2. CASE LdkForget(h)
    BY <2>2 DEF LdkForget
  <2>. QED
    BY <2>1, <2>2
<1>6. CASE \E h \in InHashes : Pay(h)
  BY <1>6 DEF Pay, Event
<1>7. CASE PersistManager
  BY <1>7 DEF PersistManager
<1>8. CASE \E e \in Event : HandleEvent(e)
  <2>. PICK e \in Event : HandleEvent(e)
    BY <1>8
  <2>0. events # <<>> /\ e = Head(events) /\ e \in Event
    BY DEF HandleEvent
  <2>1. CASE HandleClaimable(e)
    <3>1. e.h \in InHashes /\ [kind |-> "claimed", h |-> e.h] \in Event
      BY <2>1 DEF HandleClaimable, Event
    <3>. QED
      BY <2>0, <2>1, <3>1 DEF HandleClaimable
  <2>2. CASE HandleClaimed(e)
    <3>1. events' = Tail(events) /\ handled' = Append(handled, e)
      BY <2>2 DEF HandleClaimed, Consume
    <3>2. events' \in Seq(Event) /\ handled' \in Seq(Event)
      BY <2>0, <3>1
    <3>. QED
      BY <2>2, <3>2 DEF HandleClaimed
  <2>3. CASE HandleSent(e)
    <3>1. events' = Tail(events) /\ handled' = Append(handled, e)
      BY <2>3 DEF HandleSent, Consume
    <3>2. events' \in Seq(Event) /\ handled' \in Seq(Event)
      BY <2>0, <3>1
    <3>. QED
      BY <2>3, <3>2 DEF HandleSent
  <2>4. CASE HandleFailed(e)
    <3>1. events' = Tail(events) /\ handled' = Append(handled, e)
      BY <2>4 DEF HandleFailed, Consume
    <3>2. events' \in Seq(Event) /\ handled' \in Seq(Event)
      BY <2>0, <3>1
    <3>. QED
      BY <2>4, <3>2 DEF HandleFailed
  <2>. QED
    BY <2>1, <2>2, <2>3, <2>4 DEF HandleEvent
<1>9. CASE Restart
  BY <1>9 DEF Restart, Recovered, Replay
<1>10. CASE UNCHANGED vars
  BY <1>10 DEF vars
<1>. QED
  BY <1>1, <1>2, <1>3, <1>4, <1>5, <1>6, <1>7, <1>8, <1>9, <1>10
  DEF Next, UserStep, CliStep, LdkStep, HandlerStep

(* Type correctness of every reachable state (TypeOK of Payments).         *)
THEOREM PaymentsTypeCorrect == Spec => []TypeOK
<1>1. Init => TypeOK
  BY PaymentsAssumption DEF Init, TypeOK, OutStatus, InStatus, LdkOutState,
                            LdkInState, Cli, Idle
<1>. QED
  BY <1>1, PaymentsTypeStep, PTL DEF Spec
-----------------------------------------------------------------------------
(* DurableInv is preserved by every step.                                  *)
LEMMA DurableStep == TypeOK /\ DurableInv /\ [Next]_vars => DurableInv'
<1> SUFFICES ASSUME TypeOK, DurableInv, [Next]_vars PROVE DurableInv'
  OBVIOUS
<1>. USE DEF DurableInv, InboundFree, OutboundFree, Idle
<1>1. CASE \E h \in OutHashes : SendPayment(h) \/ Keysend(h)
  BY <1>1 DEF SendPayment, Keysend, RecordSend
<1>2. CASE \E h \in InHashes : CreateInvoice(h)
  BY <1>2 DEF CreateInvoice
<1>3. CASE SendCall
  BY <1>3 DEF SendCall
<1>4. CASE WriteInvoice
  BY <1>4 DEF WriteInvoice
<1>5. CASE \E h \in OutHashes : LdkResolve(h) \/ LdkForget(h)
  BY <1>5 DEF LdkResolve, LdkForget
<1>6. CASE \E h \in InHashes : Pay(h)
  BY <1>6 DEF Pay
<1>7. CASE PersistManager
  BY <1>7 DEF PersistManager
<1>8. CASE \E e \in Event : HandleEvent(e)
  <2>. PICK e \in Event : HandleEvent(e)
    BY <1>8
  <2>1. CASE HandleClaimable(e)
    BY <2>1 DEF HandleClaimable
  <2>2. CASE HandleClaimed(e)
    BY <2>2 DEF HandleClaimed, Consume
  <2>3. CASE HandleSent(e)
    BY <2>3 DEF HandleSent, Consume
  <2>4. CASE HandleFailed(e)
    BY <2>4 DEF HandleFailed
  <2>. QED
    BY <2>1, <2>2, <2>3, <2>4 DEF HandleEvent
<1>9. CASE Restart
  BY <1>9 DEF Restart
<1>10. CASE UNCHANGED vars
  BY <1>10 DEF vars
<1>. QED
  BY <1>1, <1>2, <1>3, <1>4, <1>5, <1>6, <1>7, <1>8, <1>9, <1>10
  DEF Next, UserStep, CliStep, LdkStep, HandlerStep

(* RecordsDurable of Payments holds in every reachable state for all      *)
(* values of the constants: whenever no command or handler is inside its  *)
(* critical section, a restart reads back exactly the records in memory,  *)
(* whatever the interleaving of the CLI, the event handler and restarts.   *)
THEOREM RecordsDurableInvariant == Spec => []RecordsDurable
<1>1. Init => PInv
  BY PaymentsAssumption DEF Init, PInv, TypeOK, DurableInv, OutStatus, InStatus,
     LdkOutState, LdkInState, Cli, Idle, InboundFree
<1>2. PInv /\ [Next]_vars => PInv'
  BY PaymentsTypeStep, DurableStep DEF PInv
<1>3. PInv => RecordsDurable
  BY DEF PInv, DurableInv, RecordsDurable
<1>. QED
  BY <1>1, <1>2, <1>3, PTL DEF Spec
-----------------------------------------------------------------------------
(* The queue LDK would replay after a restart, handled \o events, under   *)
(* each operation on the two sequences.                                    *)

(* Handling the head event moves it from events to handled: the replay   *)
(* queue is unchanged.                                                      *)
LEMMA ReplayShift ==
  ASSUME NEW S, NEW H \in Seq(S), NEW E \in Seq(S), E # <<>>
  PROVE  Append(H, Head(E)) \o Tail(E) = H \o E
<1>1. /\ Append(H, Head(E)) \in Seq(S) /\ Tail(E) \in Seq(S)
      /\ Len(Append(H, Head(E))) = Len(H) + 1 /\ Len(Tail(E)) = Len(E) - 1
  BY HeadTailProperties, AppendProperties
<1>. DEFINE A == Append(H, Head(E))  L == A \o Tail(E)  R == H \o E
<1>2. L \in Seq(S) /\ R \in Seq(S) /\ Len(L) = Len(R)
  BY <1>1, ConcatProperties
<1>3. ASSUME NEW i \in 1..Len(L) PROVE L[i] = R[i]
  <2>1. CASE i <= Len(H)
    BY <2>1, <1>1, AppendProperties, ConcatProperties
  <2>2. CASE i = Len(H) + 1
    BY <2>2, <1>1, AppendProperties, ConcatProperties
  <2>3. CASE i > Len(H) + 1
    BY <2>3, <1>1, <1>2, HeadTailProperties, ConcatProperties
  <2>. QED
    BY <2>1, <2>2, <2>3
<1>. QED
  BY <1>2, <1>3, SeqEqual

LEMMA EventConcatAssoc ==
  ASSUME NEW A \in Seq(Event), NEW B \in Seq(Event), NEW C \in Seq(Event)
  PROVE  (A \o B) \o C = A \o (B \o C)
BY ConcatAssociative

(* Queuing an event appends it to the replay queue.                        *)
LEMMA ReplayAppend ==
  ASSUME NEW S, NEW H \in Seq(S), NEW E \in Seq(S), NEW x \in S
  PROVE  H \o Append(E, x) = Append(H \o E, x)
BY AppendProperties, ConcatProperties, SeqEqual

(* The head event sits right after the handled ones, and each queued event *)
(* at its offset behind them.                                               *)
LEMMA ReplayPositions ==
  ASSUME NEW S, NEW H \in Seq(S), NEW E \in Seq(S)
  PROVE  /\ Len(H \o E) = Len(H) + Len(E)
         /\ \A k \in 1..Len(E) : (H \o E)[Len(H) + k] = E[k]
         /\ E # <<>> => (H \o E)[Len(H) + 1] = Head(E)
BY ConcatProperties
-----------------------------------------------------------------------------
(* What the replay queue s says of the records, for an ldkOut lo and an    *)
(* outbound map out.  A queued PaymentSent is for a payment LDK has         *)
(* fulfilled; no PaymentFailed of a hash is queued behind a PaymentSent of *)
(* it (a failed attempt is abandoned before a resend is accepted); and a   *)
(* queued PaymentFailed of a Succeeded record has a PaymentSent of the     *)
(* same hash behind it (the record succeeded through a later attempt).      *)
SentFulfilled(s, lo) ==
    \A i \in 1..Len(s) : s[i].kind = "sent" => lo[s[i].h] = "fulfilled"

NoFailedAfterSent(s) ==
    \A i, j \in 1..Len(s) :
        i < j /\ s[i].kind = "sent" /\ s[j].kind = "failed" => s[i].h # s[j].h

FailedThenSent(s, out) ==
    \A i \in 1..Len(s) :
        s[i].kind = "failed" /\ out[s[i].h] = "succeeded"
            => \E j \in i+1..Len(s) : s[j] = [kind |-> "sent", h |-> s[i].h]

QueueInv(s, lo, out) ==
    SentFulfilled(s, lo) /\ NoFailedAfterSent(s) /\ FailedThenSent(s, out)

(* A suffix of the queue (what is left once handled events are persisted) *)
(* keeps the three facts.                                                    *)
LEMMA QueueSuffix ==
  ASSUME NEW H \in Seq(Event), NEW E \in Seq(Event), NEW lo, NEW out,
         QueueInv(H \o E, lo, out)
  PROVE  QueueInv(E, lo, out)
<1>. DEFINE n == Len(H)
<1>1. /\ n \in Nat /\ Len(E) \in Nat
      /\ Len(H \o E) = n + Len(E)
      /\ \A k \in 1..Len(E) : (H \o E)[n + k] = E[k]
  BY ReplayPositions, LenProperties
<1>2. SentFulfilled(E, lo)
  BY <1>1 DEF QueueInv, SentFulfilled
<1>3. NoFailedAfterSent(E)
  <2>1. SUFFICES ASSUME NEW i \in 1..Len(E), NEW j \in 1..Len(E), i < j,
                        E[i].kind = "sent", E[j].kind = "failed"
                 PROVE  E[i].h # E[j].h
    BY DEF NoFailedAfterSent
  <2>2. /\ n + i \in 1..Len(H \o E) /\ n + j \in 1..Len(H \o E) /\ n + i < n + j
        /\ (H \o E)[n + i] = E[i] /\ (H \o E)[n + j] = E[j]
    <3>1. n + i \in 1..Len(H \o E) /\ n + j \in 1..Len(H \o E) /\ n + i < n + j
      BY <1>1, <2>1
    <3>2. (H \o E)[n + i] = E[i] /\ (H \o E)[n + j] = E[j]
      BY <1>1
    <3>. QED
      BY <3>1, <3>2
  <2>. QED
    BY <2>1, <2>2 DEF QueueInv, NoFailedAfterSent
<1>4. FailedThenSent(E, out)
  <2>1. SUFFICES ASSUME NEW i \in 1..Len(E), E[i].kind = "failed",
                        out[E[i].h] = "succeeded"
                 PROVE  \E j \in i+1..Len(E) : E[j] = [kind |-> "sent", h |-> E[i].h]
    BY DEF FailedThenSent
  <2>2. n + i \in 1..Len(H \o E) /\ (H \o E)[n + i] = E[i]
    BY <1>1
  <2>3. PICK j \in n+i+1..Len(H \o E) :
               (H \o E)[j] = [kind |-> "sent", h |-> E[i].h]
    BY <2>1, <2>2 DEF QueueInv, FailedThenSent
  <2>4. j - n \in i+1..Len(E) /\ E[j - n] = (H \o E)[j]
    BY <1>1, <2>3
  <2>. QED
    BY <2>3, <2>4
<1>. QED
  BY <1>2, <1>3, <1>4 DEF QueueInv

(* Queuing an event keeps the three facts when a PaymentSent is for a     *)
(* fulfilled payment and a PaymentFailed for a hash neither Succeeded nor  *)
(* already queued as sent.                                                  *)
LEMMA QueueAppend ==
  ASSUME NEW s \in Seq(Event), NEW x \in Event, NEW lo, NEW out,
         QueueInv(s, lo, out),
         x.kind = "sent" => lo[x.h] = "fulfilled",
         x.kind = "failed" => /\ out[x.h] # "succeeded"
                              /\ \A i \in 1..Len(s) : s[i].kind = "sent" => s[i].h # x.h
  PROVE  QueueInv(Append(s, x), lo, out)
<1>. DEFINE t == Append(s, x)
<1>1. /\ Len(t) = Len(s) + 1
      /\ \A i \in 1..Len(s) : t[i] = s[i]
      /\ t[Len(s) + 1] = x
  BY AppendProperties
<1>2. SentFulfilled(t, lo)
  BY <1>1 DEF QueueInv, SentFulfilled
<1>3. NoFailedAfterSent(t)
  BY <1>1 DEF QueueInv, NoFailedAfterSent
<1>4. FailedThenSent(t, out)
  <2>1. SUFFICES ASSUME NEW i \in 1..Len(t), t[i].kind = "failed",
                        out[t[i].h] = "succeeded"
                 PROVE  \E j \in i+1..Len(t) : t[j] = [kind |-> "sent", h |-> t[i].h]
    BY DEF FailedThenSent
  <2>2. i \in 1..Len(s)
    BY <1>1, <2>1
  <2>3. PICK j \in i+1..Len(s) : s[j] = [kind |-> "sent", h |-> s[i].h]
    BY <1>1, <2>1, <2>2 DEF QueueInv, FailedThenSent
  <2>. QED
    BY <1>1, <2>2, <2>3
<1>. QED
  BY <1>2, <1>3, <1>4 DEF QueueInv

(* The facts survive a change of ldkOut that spares every hash queued as  *)
(* sent, and a change of the records that makes no queued failed hash     *)
(* newly Succeeded.                                                          *)
LEMMA QueueFrame ==
  ASSUME NEW s \in Seq(Event), NEW lo, NEW out, NEW lo2, NEW out2,
         QueueInv(s, lo, out),
         \A i \in 1..Len(s) : s[i].kind = "sent" => lo2[s[i].h] = lo[s[i].h],
         \A i \in 1..Len(s) :
             s[i].kind = "failed" /\ out2[s[i].h] = "succeeded"
                 => out[s[i].h] = "succeeded"
  PROVE  QueueInv(s, lo2, out2)
BY DEF QueueInv, SentFulfilled, FailedThenSent

(* Handling the PaymentSent at position p may make its hash Succeeded:    *)
(* every PaymentFailed of that hash is queued before it.                    *)
LEMMA QueueSent ==
  ASSUME NEW s \in Seq(Event), NEW lo, NEW out, NEW out2,
         QueueInv(s, lo, out),
         NEW p \in 1..Len(s), s[p].kind = "sent",
         \A h \in OutHashes : out2[h] = "succeeded"
                                 => out[h] = "succeeded" \/ h = s[p].h
  PROVE  QueueInv(s, lo, out2)
<1>1. SUFFICES ASSUME NEW i \in 1..Len(s), s[i].kind = "failed",
                      out2[s[i].h] = "succeeded"
               PROVE  \E j \in i+1..Len(s) : s[j] = [kind |-> "sent", h |-> s[i].h]
  BY DEF QueueInv, FailedThenSent
<1>2. s[i].h \in OutHashes
  BY <1>1 DEF Event
<1>3. CASE out[s[i].h] = "succeeded"
  BY <1>1, <1>3 DEF QueueInv, FailedThenSent
<1>4. CASE s[i].h = s[p].h
  <2>1. i < p
    BY <1>1, <1>4 DEF QueueInv, NoFailedAfterSent
  <2>2. s[p] = [kind |-> "sent", h |-> s[p].h]
    BY DEF Event
  <2>. QED
    BY <1>4, <2>1, <2>2
<1>. QED
  BY <1>1, <1>2, <1>3, <1>4
-----------------------------------------------------------------------------
(* While the CLI is between sendpayment's write and send_payment, the      *)
(* record it wrote is Pending: no handler takes outbound_payments then.    *)
CliSendPending == cli.op = "send" => outbound[cli.h] = "pending"

(* The strengthening of SucceededOnlyIfFulfilled that is inductive.        *)
SInv ==
    /\ PInv
    /\ QueueInv(Replay, ldkOut, outbound)
    /\ CliSendPending
    /\ SucceededOnlyIfFulfilled

LEMMA SInvInit == Init => SInv
<1> SUFFICES ASSUME Init PROVE SInv
  OBVIOUS
<1>1. PInv
  BY PaymentsAssumption DEF Init, PInv, TypeOK, DurableInv, OutStatus, InStatus,
     LdkOutState, LdkInState, Cli, Idle, InboundFree
<1>2. Replay = <<>>
  BY DEF Init, Replay
<1>. QED
  BY <1>1, <1>2 DEF Init, Idle, SInv, QueueInv, SentFulfilled, NoFailedAfterSent,
     FailedThenSent, CliSendPending, SucceededOnlyIfFulfilled

(* SInv is preserved by every step.                                        *)
LEMMA SInvStep == SInv /\ [Next]_vars => SInv'
<1> SUFFICES ASSUME SInv, [Next]_vars PROVE SInv'
  OBVIOUS
<1>1. /\ TypeOK /\ DurableInv /\ QueueInv(Replay, ldkOut, outbound)
      /\ CliSendPending /\ SucceededOnlyIfFulfilled
  BY DEF SInv, PInv
<1>2. PInv'
  BY <1>1, PaymentsTypeStep, DurableStep DEF PInv
<1>3. Replay \in Seq(Event) /\ events \in Seq(Event) /\ handled \in Seq(Event)
  BY <1>1, ConcatProperties DEF TypeOK, Replay
<1>4. /\ outbound \in [OutHashes -> OutStatus] /\ ldkOut \in [OutHashes -> LdkOutState]
      /\ outboundDisk \in [OutHashes -> OutStatus] /\ cli \in Cli
  BY <1>1 DEF TypeOK
<1>5. \A i \in 1..Len(Replay) : Replay[i] \in Event
                                /\ (Replay[i].kind \in {"sent", "failed"}
                                      => Replay[i].h \in OutHashes)
  BY <1>3 DEF Event
<1> SUFFICES /\ QueueInv(Replay, ldkOut, outbound)'
             /\ CliSendPending' /\ SucceededOnlyIfFulfilled'
  BY <1>2 DEF SInv
<1>6. CASE \E h \in OutHashes : SendPayment(h) \/ Keysend(h)
  <2>. PICK h \in OutHashes : SendPayment(h) \/ Keysend(h)
    BY <1>6
  <2>1. /\ outbound' = [outbound EXCEPT ![h] = "pending"]
        /\ cli' = [op |-> "send", h |-> h]
        /\ UNCHANGED <<ldkOut, events, handled>>
    BY DEF SendPayment, Keysend, RecordSend
  <2>2. QueueInv(Replay, ldkOut, outbound')
    <3>1. \A i \in 1..Len(Replay) :
             Replay[i].kind = "failed" /\ outbound'[Replay[i].h] = "succeeded"
                 => outbound[Replay[i].h] = "succeeded"
      BY <1>4, <1>5, <2>1
    <3>. QED
      BY <1>1, <1>3, <3>1, QueueFrame
  <2>3. QueueInv(Replay, ldkOut, outbound)'
    BY <2>1, <2>2 DEF Replay
  <2>. QED
    BY <1>1, <1>4, <2>1, <2>3 DEF CliSendPending, SucceededOnlyIfFulfilled
<1>7. CASE \E h \in InHashes : CreateInvoice(h)
  <2>1. UNCHANGED <<outbound, ldkOut, events, handled>> /\ cli' = [op |-> "invoice"]
    BY <1>7 DEF CreateInvoice
  <2>. QED
    BY <1>1, <2>1 DEF Replay, CliSendPending, SucceededOnlyIfFulfilled
<1>8. CASE WriteInvoice
  <2>1. UNCHANGED <<outbound, ldkOut, events, handled>> /\ cli' = Idle
    BY <1>8 DEF WriteInvoice
  <2>. QED
    BY <1>1, <2>1 DEF Replay, CliSendPending, SucceededOnlyIfFulfilled, Idle
<1>9. CASE SendCall
  <2>. DEFINE h == cli.h
  <2>0. cli.op = "send" /\ h \in OutHashes /\ outbound[h] = "pending"
    BY <1>1, <1>4, <1>9 DEF SendCall, CliSendPending, Cli, Idle
  <2>1. CASE /\ ldkOut[h] = "none"
             /\ ldkOut' = [ldkOut EXCEPT ![h] = "pending"]
             /\ UNCHANGED <<outbound, events, handled>> /\ cli' = Idle
    <3>1. \A i \in 1..Len(Replay) : Replay[i].kind = "sent" => Replay[i].h # h
      BY <1>1, <2>1 DEF QueueInv, SentFulfilled
    <3>2. \A i \in 1..Len(Replay) :
             Replay[i].kind = "sent" => ldkOut'[Replay[i].h] = ldkOut[Replay[i].h]
      BY <1>4, <1>5, <2>1, <3>1
    <3>3. QueueInv(Replay, ldkOut', outbound)
      BY <1>1, <1>3, <3>2, QueueFrame
    <3>4. QueueInv(Replay, ldkOut, outbound)'
      BY <2>1, <3>3 DEF Replay
    <3>. QED
      BY <1>1, <1>4, <2>0, <2>1, <3>4 DEF CliSendPending, SucceededOnlyIfFulfilled, Idle
  <2>2. CASE /\ outbound' = [outbound EXCEPT ![h] = "failed"]
             /\ UNCHANGED <<ldkOut, events, handled>> /\ cli' = Idle
    <3>1. \A i \in 1..Len(Replay) :
             Replay[i].kind = "failed" /\ outbound'[Replay[i].h] = "succeeded"
                 => outbound[Replay[i].h] = "succeeded"
      BY <1>4, <1>5, <2>0, <2>2
    <3>2. QueueInv(Replay, ldkOut, outbound')
      BY <1>1, <1>3, <3>1, QueueFrame
    <3>3. QueueInv(Replay, ldkOut, outbound)'
      BY <2>2, <3>2 DEF Replay
    <3>. QED
      BY <1>1, <1>4, <2>2, <3>3 DEF CliSendPending, SucceededOnlyIfFulfilled, Idle
  <2>. QED
    BY <1>9, <2>1, <2>2 DEF SendCall
<1>10. CASE \E h \in OutHashes : LdkResolve(h)
  <2>. PICK h \in OutHashes : LdkResolve(h)
    BY <1>10
  <2>. PICK k \in {"sent", "failed"} :
          /\ ldkOut' = [ldkOut EXCEPT ![h] = IF k = "sent" THEN "fulfilled" ELSE "none"]
          /\ events' = Append(events, [kind |-> k, h |-> h])
    BY DEF LdkResolve
  <2>1. /\ ldkOut[h] = "pending"
        /\ UNCHANGED <<outbound, cli, handled>>
    BY DEF LdkResolve
  <2>. DEFINE x == [kind |-> k, h |-> h]
  <2>2. x \in Event
    BY DEF Event
  <2>3. Replay' = Append(Replay, x)
    BY <1>3, <2>1, <2>2, ReplayAppend DEF Replay
  <2>4. \A i \in 1..Len(Replay) : Replay[i].kind = "sent" => Replay[i].h # h
    BY <1>1, <2>1 DEF QueueInv, SentFulfilled
  <2>5. \A i \in 1..Len(Replay) :
           Replay[i].kind = "sent" => ldkOut'[Replay[i].h] = ldkOut[Replay[i].h]
    BY <1>4, <1>5, <2>4
  <2>6. QueueInv(Replay, ldkOut', outbound)
    BY <1>1, <1>3, <2>5, QueueFrame
  <2>7. outbound[h] # "succeeded"
    BY <1>1, <2>1 DEF SucceededOnlyIfFulfilled
  <2>8. x.kind = "sent" => ldkOut'[x.h] = "fulfilled"
    BY <1>4
  <2>9. QueueInv(Append(Replay, x), ldkOut', outbound)
    BY <1>3, <2>2, <2>4, <2>6, <2>7, <2>8, QueueAppend
  <2>10. QueueInv(Replay, ldkOut, outbound)'
    BY <2>1, <2>3, <2>9
  <2>. QED
    BY <1>1, <1>4, <2>1, <2>10 DEF CliSendPending, SucceededOnlyIfFulfilled
<1>11. CASE \E h \in OutHashes : LdkForget(h)
  <2>. PICK h \in OutHashes : LdkForget(h)
    BY <1>11
  <2>1. /\ \A i \in 1..Len(Replay) : Replay[i].h # h
        /\ ldkOut' = [ldkOut EXCEPT ![h] = "none"]
        /\ UNCHANGED <<outbound, cli, events, handled>>
    BY DEF LdkForget
  <2>2. \A i \in 1..Len(Replay) :
           Replay[i].kind = "sent" => ldkOut'[Replay[i].h] = ldkOut[Replay[i].h]
    BY <1>4, <1>5, <2>1
  <2>3. QueueInv(Replay, ldkOut', outbound)
    BY <1>1, <1>3, <2>2, QueueFrame
  <2>4. QueueInv(Replay, ldkOut, outbound)'
    BY <2>1, <2>3 DEF Replay
  <2>. QED
    BY <1>1, <1>4, <2>1, <2>4 DEF CliSendPending, SucceededOnlyIfFulfilled
<1>12. CASE \E h \in InHashes : Pay(h)
  <2>. PICK h \in InHashes : Pay(h)
    BY <1>12
  <2>. DEFINE x == [kind |-> "claimable", h |-> h]
  <2>1. /\ events' = Append(events, x)
        /\ UNCHANGED <<outbound, ldkOut, cli, handled>>
    BY DEF Pay
  <2>2. x \in Event
    BY DEF Event
  <2>3. Replay' = Append(Replay, x)
    BY <1>3, <2>1, <2>2, ReplayAppend DEF Replay
  <2>4. QueueInv(Append(Replay, x), ldkOut, outbound)
    BY <1>1, <1>3, <2>2, QueueAppend
  <2>. QED
    BY <1>1, <2>1, <2>3, <2>4 DEF CliSendPending, SucceededOnlyIfFulfilled
<1>13. CASE PersistManager
  <2>1. /\ handled' = <<>>
        /\ UNCHANGED <<outbound, ldkOut, cli, events>>
    BY <1>13 DEF PersistManager
  <2>2. Replay' = events
    BY <1>3, <2>1, ConcatEmptySeq DEF Replay
  <2>3. QueueInv(events, ldkOut, outbound)
    BY <1>1, <1>3, QueueSuffix DEF Replay
  <2>. QED
    BY <1>1, <2>1, <2>2, <2>3 DEF CliSendPending, SucceededOnlyIfFulfilled
<1>14. CASE \E e \in Event : HandleEvent(e)
  <2>. PICK e \in Event : HandleEvent(e)
    BY <1>14
  <2>. DEFINE p == Len(handled) + 1
  <2>1. events # <<>> /\ e = Head(events)
    BY DEF HandleEvent
  <2>2. p \in 1..Len(Replay) /\ Replay[p] = e
    BY <1>3, <2>1, ReplayPositions, LenProperties DEF Replay
  <2>3. Append(handled, e) \o Tail(events) = Replay
    BY <1>3, <2>1, ReplayShift DEF Replay
  <2>4. CASE HandleClaimable(e)
    <3>. DEFINE c == [kind |-> "claimed", h |-> e.h]
             T == IF ldkIn[e.h] = "claimable" THEN <<c>> ELSE <<>>
    <3>1. /\ events' = Tail(events) \o T /\ handled' = Append(handled, e)
          /\ UNCHANGED <<outbound, ldkOut, cli>>
      BY <2>4 DEF HandleClaimable
    <3>2. c \in Event /\ T \in Seq(Event) /\ Tail(events) \in Seq(Event)
          /\ Append(handled, e) \in Seq(Event)
      <4>1. c \in Event
        BY <2>4 DEF HandleClaimable, Event
      <4>2. T \in Seq(Event)
        BY <4>1
      <4>3. Tail(events) \in Seq(Event) /\ Append(handled, e) \in Seq(Event)
        BY <1>3, <2>1, HeadTailProperties, AppendProperties
      <4>. QED
        BY <4>1, <4>2, <4>3
    <3>3. Replay' = Replay \o T
      <4>1. (Append(handled, e) \o Tail(events)) \o T
              = Append(handled, e) \o (Tail(events) \o T)
        BY <3>2, EventConcatAssoc
      <4>. QED
        BY <2>3, <3>1, <4>1 DEF Replay
    <3>4. QueueInv(Replay \o T, ldkOut, outbound)
      <4>1. CASE ldkIn[e.h] = "claimable"
        <5>1. Replay \o T = Append(Replay, c)
          BY <1>3, <3>2, <4>1, AppendIsConcat
        <5>. QED
          BY <1>1, <1>3, <3>2, <5>1, QueueAppend
      <4>2. CASE ldkIn[e.h] # "claimable"
        BY <1>1, <1>3, <4>2, ConcatEmptySeq
      <4>. QED
        BY <4>1, <4>2
    <3>. QED
      BY <1>1, <3>1, <3>3, <3>4 DEF CliSendPending, SucceededOnlyIfFulfilled
  <2>5. CASE HandleClaimed(e)
    <3>1. /\ events' = Tail(events) /\ handled' = Append(handled, e)
          /\ UNCHANGED <<outbound, ldkOut, cli>>
      BY <2>5 DEF HandleClaimed, Consume
    <3>. QED
      BY <1>1, <2>3, <3>1 DEF Replay, CliSendPending, SucceededOnlyIfFulfilled
  <2>6. CASE HandleSent(e)
    <3>1. /\ events' = Tail(events) /\ handled' = Append(handled, e)
          /\ e.kind = "sent" /\ OutboundFree
          /\ outbound' = IF outbound[e.h] # "none"
                         THEN [outbound EXCEPT ![e.h] = "succeeded"] ELSE outbound
          /\ UNCHANGED <<ldkOut, cli>>
      BY <2>6 DEF HandleSent, Consume
    <3>2. Replay' = Replay
      BY <2>3, <3>1 DEF Replay
    <3>3. \A h \in OutHashes : outbound'[h] = "succeeded"
                                  => outbound[h] = "succeeded" \/ h = Replay[p].h
      BY <1>4, <2>2, <3>1
    <3>4. QueueInv(Replay, ldkOut, outbound')
      BY <1>1, <1>3, <2>2, <3>1, <3>3, QueueSent
    <3>5. ldkOut[e.h] = "fulfilled"
      BY <1>1, <2>2, <3>1 DEF QueueInv, SentFulfilled
    <3>. QED
      BY <1>1, <1>4, <3>1, <3>2, <3>4, <3>5
      DEF CliSendPending, SucceededOnlyIfFulfilled, OutboundFree
  <2>7. CASE HandleFailed(e)
    <3>1. /\ events' = Tail(events) /\ handled' = Append(handled, e)
          /\ outbound' = IF outbound[e.h] # "none"
                         THEN [outbound EXCEPT ![e.h] = "failed"] ELSE outbound
          /\ OutboundFree /\ UNCHANGED <<ldkOut, cli>>
      BY <2>7 DEF HandleFailed, Consume
    <3>2. Replay' = Replay
      BY <2>3, <3>1 DEF Replay
    <3>3. \A i \in 1..Len(Replay) :
             Replay[i].kind = "failed" /\ outbound'[Replay[i].h] = "succeeded"
                 => outbound[Replay[i].h] = "succeeded"
      BY <1>4, <1>5, <3>1
    <3>4. QueueInv(Replay, ldkOut, outbound')
      BY <1>1, <1>3, <3>3, QueueFrame
    <3>. QED
      BY <1>1, <1>4, <3>1, <3>2, <3>4
      DEF CliSendPending, SucceededOnlyIfFulfilled, OutboundFree
  <2>. QED
    BY <2>4, <2>5, <2>6, <2>7 DEF HandleEvent
<1>15. CASE Restart
  <2>1. /\ outbound' = [h \in OutHashes |-> Recovered(h)]
        /\ events' = Replay /\ handled' = <<>>
        /\ cli' = Idle /\ UNCHANGED ldkOut
    BY <1>15 DEF Restart
  <2>2. Replay' = Replay
    BY <1>3, <2>1, ConcatEmptySeq DEF Replay
  <2>3. \A h \in OutHashes : outbound'[h] = "succeeded" => outbound[h] = "succeeded"
    BY <1>1, <2>1 DEF Recovered, DurableInv
  <2>4. \A i \in 1..Len(Replay) :
           Replay[i].kind = "failed" /\ outbound'[Replay[i].h] = "succeeded"
               => outbound[Replay[i].h] = "succeeded"
    BY <1>5, <2>3
  <2>5. QueueInv(Replay, ldkOut, outbound')
    BY <1>1, <1>3, <2>4, QueueFrame
  <2>. QED
    BY <1>1, <2>1, <2>2, <2>3, <2>5 DEF CliSendPending, SucceededOnlyIfFulfilled, Idle
<1>16. CASE UNCHANGED vars
  BY <1>1, <1>16 DEF vars, Replay, CliSendPending, SucceededOnlyIfFulfilled
<1>. QED
  BY <1>6, <1>7, <1>8, <1>9, <1>10, <1>11, <1>12, <1>13, <1>14, <1>15, <1>16
  DEF Next, UserStep, CliStep, LdkStep, HandlerStep

(* SucceededOnlyIfFulfilled of Payments holds in every reachable state for *)
(* all values of the constants: no PaymentSent handler, start-up repair,    *)
(* redelivered event or resend leaves listpayments showing Succeeded for a *)
(* payment LDK still has in flight.                                          *)
THEOREM SucceededOnlyIfFulfilledInvariant == Spec => []SucceededOnlyIfFulfilled
<1>1. SInv => SucceededOnlyIfFulfilled
  BY DEF SInv
<1>. QED
  BY <1>1, SInvInit, SInvStep, PTL DEF Spec

(* The one step that can replace a Succeeded record other than a resend:  *)
(* a PaymentFailed handled while a PaymentSent of the same hash is queued  *)
(* behind it.                                                                *)
LEMMA LostStep ==
  ASSUME SInv, [Next]_vars
  PROVE  \A h \in OutHashes :
             outbound[h] = "succeeded" /\ outbound'[h] # "succeeded"
                 => \/ cli' = [op |-> "send", h |-> h]
                    \/ \E i \in 1..Len(events') :
                          events'[i] = [kind |-> "sent", h |-> h]
<1>. SUFFICES ASSUME NEW x \in OutHashes, outbound[x] = "succeeded",
                     outbound'[x] # "succeeded"
              PROVE  \/ cli' = [op |-> "send", h |-> x]
                     \/ \E i \in 1..Len(events') :
                           events'[i] = [kind |-> "sent", h |-> x]
  OBVIOUS
<1>1. /\ TypeOK /\ DurableInv /\ QueueInv(Replay, ldkOut, outbound)
      /\ CliSendPending
  BY DEF SInv, PInv
<1>2. /\ outbound \in [OutHashes -> OutStatus]
      /\ events \in Seq(Event) /\ handled \in Seq(Event)
  BY <1>1 DEF TypeOK
<1>3. CASE \E h \in OutHashes : SendPayment(h) \/ Keysend(h)
  <2>. PICK h \in OutHashes : SendPayment(h) \/ Keysend(h)
    BY <1>3
  <2>1. outbound' = [outbound EXCEPT ![h] = "pending"]
        /\ cli' = [op |-> "send", h |-> h]
    BY DEF SendPayment, Keysend, RecordSend
  <2>. QED
    BY <1>2, <2>1
<1>4. CASE SendCall
  <2>1. outbound[cli.h] = "pending" /\ cli.h \in OutHashes
    BY <1>1, <1>4 DEF SendCall, CliSendPending, TypeOK, Cli, Idle
  <2>2. outbound' = outbound \/ outbound' = [outbound EXCEPT ![cli.h] = "failed"]
    BY <1>4 DEF SendCall
  <2>. QED
    BY <1>2, <2>1, <2>2
<1>5. CASE \E e \in Event : HandleEvent(e)
  <2>. PICK e \in Event : HandleEvent(e)
    BY <1>5
  <2>1. CASE HandleFailed(e)
    <3>. DEFINE n == Len(handled)
    <3>1. /\ events' = Tail(events) /\ e.kind = "failed"
          /\ outbound' = IF outbound[e.h] # "none"
                         THEN [outbound EXCEPT ![e.h] = "failed"] ELSE outbound
      BY <2>1 DEF HandleFailed, Consume
    <3>2. e.h = x
      BY <1>2, <3>1
    <3>3. events # <<>> /\ n + 1 \in 1..Len(Replay) /\ Replay[n + 1] = e
          /\ n \in Nat /\ Len(Replay) = n + Len(events)
          /\ \A k \in 1..Len(events) : Replay[n + k] = events[k]
      BY <1>2, ReplayPositions, LenProperties DEF HandleEvent, Replay
    <3>4. PICK j \in n+2..Len(Replay) : Replay[j] = [kind |-> "sent", h |-> x]
      BY <1>1, <3>1, <3>2, <3>3 DEF QueueInv, FailedThenSent
    <3>5. /\ Len(events') = Len(events) - 1
          /\ \A k \in 1..Len(events') : events'[k] = events[k + 1]
      BY <1>2, <3>1, <3>3, HeadTailProperties
    <3>6. j - n - 1 \in 1..Len(events') /\ events'[j - n - 1] = Replay[j]
      BY <3>3, <3>4, <3>5
    <3>. QED
      BY <3>4, <3>6
  <2>2. CASE HandleClaimable(e) \/ HandleClaimed(e) \/ HandleSent(e)
    <3>1. outbound'[x] = outbound[x] \/ outbound'[x] = "succeeded"
      BY <1>2, <2>2 DEF HandleClaimable, HandleClaimed, HandleSent
    <3>. QED
      BY <3>1
  <2>. QED
    BY <2>1, <2>2 DEF HandleEvent
<1>6. CASE Restart
  BY <1>1, <1>6 DEF Restart, Recovered, DurableInv
<1>7. CASE \/ \E h \in InHashes : CreateInvoice(h)
           \/ WriteInvoice
           \/ \E h \in OutHashes : LdkResolve(h) \/ LdkForget(h)
           \/ \E h \in InHashes : Pay(h)
           \/ PersistManager
           \/ UNCHANGED vars
  <2>1. outbound' = outbound
    BY <1>7 DEF CreateInvoice, WriteInvoice, LdkResolve, LdkForget, Pay,
       PersistManager, vars
  <2>. QED
    BY <2>1
<1>. QED
  BY <1>3, <1>4, <1>5, <1>6, <1>7 DEF Next, UserStep, CliStep, LdkStep, HandlerStep

(* SucceededLostOnlyByResend of Payments holds for all values of the       *)
(* constants: a Succeeded outbound record is replaced only by a resend of  *)
(* its hash, or by a replayed PaymentFailed whose later PaymentSent is      *)
(* still queued to restore it.                                               *)
THEOREM SucceededLostOnlyByResendHolds == Spec => SucceededLostOnlyByResend
<1>1. SInv /\ [Next]_vars
        => [\A h \in OutHashes :
               outbound[h] = "succeeded" /\ outbound'[h] # "succeeded"
                   => \/ cli' = [op |-> "send", h |-> h]
                      \/ \E i \in 1..Len(events') :
                            events'[i] = [kind |-> "sent", h |-> h]]_vars
  BY LostStep
<1>. QED
  BY <1>1, SInvInit, SInvStep, PTL DEF Spec, SucceededLostOnlyByResend
=============================================================================
