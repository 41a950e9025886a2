------------------------- MODULE ChannelPeersProofs -------------------------
(***************************************************************************)
(* Proofs about ChannelPeers for every set of peers and every bound.       *)
(***************************************************************************)
EXTENDS ChannelPeers, TLAPS

(* Each command, handler and step of the reconnection task keeps the      *)
(* peer data, the connection set, the task's snapshot and the pending     *)
(* disconnect well typed.                                                  *)
LEMMA PeersTypeStep == TypeOK /\ [Next]_vars => TypeOK'
<1> SUFFICES ASSUME TypeOK, [Next]_vars PROVE TypeOK'
  OBVIOUS
<1>. USE PeersAssumption DEF TypeOK, Addr, NoAddr
<1>1. CASE \E p \in Peers : \E a \in Addr : ConnectPeer(p, a)
  BY <1>1 DEF ConnectPeer, ConnectIfNecessary
<1>2. CASE \E p \in Peers : OpenChannel(p)
  BY <1>2 DEF OpenChannel, ConnectIfNecessary
<1>3. CASE \E p \in Peers : DisconnectPeer(p) \/ CloseChannel(p)
  BY <1>3 DEF DisconnectPeer, CloseChannel
<1>4. CASE DisconnectByNodeId
  BY <1>4 DEF DisconnectByNodeId
<1>5. CASE \E p \in Peers : AcceptChannel(p)
  BY <1>5 DEF AcceptChannel
<1>6. CASE \E p \in Peers : PeerDrop(p)
  BY <1>6 DEF PeerDrop
<1>7. CASE ReconnectTick
  BY <1>7 DEF ReconnectTick
<1>8. CASE \E p \in Peers : ReconnectOne(p)
  BY <1>8 DEF ReconnectOne
<1>9. CASE ReconnectEnd
  BY <1>9 DEF ReconnectEnd, RcIdle
<1>10. CASE UNCHANGED vars
  BY <1>10 DEF vars
<1>. QED
  BY <1>1, <1>2, <1>3, <1>4, <1>5, <1>6, <1>7, <1>8, <1>9, <1>10
  DEF Next, UserStep, ReconnectStep

(* Every reachable state of the peer bookkeeping is well typed, for all  *)
(* sets of peers and all bounds on commands and drops.                     *)
THEOREM PeersTypeCorrect == Spec => []TypeOK
<1>1. Init => TypeOK
  BY PeersAssumption DEF Init, TypeOK, RcIdle, Addr, NoAddr
<1>. QED
  BY <1>1, PeersTypeStep, PTL DEF Spec
=============================================================================
