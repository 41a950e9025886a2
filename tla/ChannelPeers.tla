---------------------------- MODULE ChannelPeers ----------------------------
(***************************************************************************)
(* The node's peer bookkeeping: the channel_peer_data file written by the *)
(* `connectpeer` command, the commands that read it (`openchannel`) or    *)
(* change the connections and channels (`disconnectpeer`, `closechannel`, *)
(* `forceclosechannel`), the OpenChannelRequest handler, and the task of  *)
(* start_ldk that reconnects to channel peers every second.               *)
(*                                                                         *)
(* An address is abstracted to whether the peer listens on it ("good") or *)
(* not ("bad").  The file is read into a map from pubkey to address, so   *)
(* the line written last for a pubkey is the one used.                    *)
(***************************************************************************)
EXTENDS Naturals

CONSTANTS
    Peers,      \* node ids of the remote nodes
    MaxCmds,    \* bound on the connectpeer commands the user types
    MaxDrops    \* bound on connections the network or the remote side drops

ASSUME PeersAssumption ==
    /\ MaxCmds \in Nat
    /\ MaxDrops \in Nat

Addr == {"good", "bad"}
NoAddr == "none"

VARIABLES
    peerData,   \* channel_peer_data: the address stored for each peer
    connected,  \* peers the PeerManager has a connection to
    chan,       \* whether the ChannelManager has a channel with the peer
    rc,         \* the reconnection task: position, and what this tick read
    cmds,       \* connectpeer commands typed so far
    drops,      \* connections dropped so far
    disc        \* the peer disconnectpeer has checked and not yet
                \* disconnected ({} when the CLI is not inside it)

vars == <<peerData, connected, chan, rc, cmds, drops, disc>>

RcIdle == [pc |-> "idle", todo |-> {}, info |-> [p \in Peers |-> NoAddr]]

TypeOK ==
    /\ peerData \in [Peers -> Addr \cup {NoAddr}]
    /\ connected \subseteq Peers
    /\ chan \in [Peers -> BOOLEAN]
    /\ rc.pc \in {"idle", "scan"}
    /\ rc.todo \subseteq Peers
    /\ rc.info \in [Peers -> Addr \cup {NoAddr}]
    /\ cmds \in 0..MaxCmds
    /\ drops \in 0..MaxDrops
    /\ disc \subseteq Peers

Init ==
    /\ peerData = [p \in Peers |-> NoAddr]
    /\ connected = {}
    /\ chan = [p \in Peers |-> FALSE]
    /\ rc = RcIdle
    /\ cmds = 0
    /\ drops = 0
    /\ disc = {}

(***************************************************************************)
(* connect_peer_if_necessary: Ok at once if the peer is already connected *)
(* (the address is not tried), otherwise do_connect_peer, which succeeds  *)
(* only on an address the peer listens on.                                *)
(***************************************************************************)
ConnectIfNecessary(p, a) ==
    IF p \in connected \/ a = "good" THEN connected \cup {p} ELSE connected

(***************************************************************************)
(* `connectpeer pubkey@addr`: connect if necessary, then persist the      *)
(* address whatever the connection attempt returned (let _ = ...).        *)
(***************************************************************************)
ConnectPeer(p, a) ==
    /\ disc = {}
    /\ cmds < MaxCmds
    /\ connected' = ConnectIfNecessary(p, a)
    /\ peerData' = [peerData EXCEPT ![p] = a]
    /\ cmds' = cmds + 1
    /\ UNCHANGED <<chan, rc, drops, disc>>

(***************************************************************************)
(* `openchannel`: an unknown peer is refused; a failed connection ends    *)
(* the command; otherwise create_channel opens a channel with the peer.   *)
(***************************************************************************)
OpenChannel(p) ==
    /\ disc = {}
    /\ peerData[p] # NoAddr
    /\ LET c == ConnectIfNecessary(p, peerData[p]) IN
         /\ connected' = c
         /\ chan' = IF p \in c THEN [chan EXCEPT ![p] = TRUE] ELSE chan
    /\ UNCHANGED <<peerData, rc, cmds, drops, disc>>

(***************************************************************************)
(* OpenChannelRequest: the handler accepts every inbound channel, from a  *)
(* connected peer whose address may be unknown to channel_peer_data.      *)
(***************************************************************************)
AcceptChannel(p) ==
    /\ p \in connected
    /\ chan' = [chan EXCEPT ![p] = TRUE]
    /\ UNCHANGED <<peerData, connected, rc, cmds, drops, disc>>

(***************************************************************************)
(* `disconnectpeer`, do_disconnect_peer: refused while list_channels has *)
(* a channel with the peer or when list_peers does not have the peer.     *)
(* The checks and disconnect_by_node_id are separate calls into LDK, and  *)
(* the event handler runs between them.                                   *)
(***************************************************************************)
DisconnectPeer(p) ==
    /\ disc = {}
    /\ ~chan[p]
    /\ p \in connected
    /\ disc' = {p}
    /\ UNCHANGED <<peerData, connected, chan, rc, cmds, drops>>

DisconnectByNodeId ==
    /\ \E p \in disc : connected' = connected \ {p}
    /\ disc' = {}
    /\ UNCHANGED <<peerData, chan, rc, cmds, drops>>

(***************************************************************************)
(* `closechannel` / `forceclosechannel`, up to the ChannelClosed event.   *)
(***************************************************************************)
CloseChannel(p) ==
    /\ disc = {}
    /\ chan[p]
    /\ chan' = [chan EXCEPT ![p] = FALSE]
    /\ UNCHANGED <<peerData, connected, rc, cmds, drops, disc>>

(***************************************************************************)
(* The remote side or the network drops a connection.                     *)
(***************************************************************************)
PeerDrop(p) ==
    /\ drops < MaxDrops
    /\ p \in connected
    /\ connected' = connected \ {p}
    /\ drops' = drops + 1
    /\ UNCHANGED <<peerData, chan, rc, cmds, disc>>

(***************************************************************************)
(* The reconnection task.  A tick reads channel_peer_data and list_peers  *)
(* once, and lists the channel counterparties that are not connected.     *)
(***************************************************************************)
ReconnectTick_connectedOnly ==
    /\ rc.pc = "idle"
    /\ rc' = [pc |-> "scan", info |-> peerData,
              todo |-> {p \in Peers : chan[p] /\ p \in connected}]
    /\ UNCHANGED <<peerData, connected, chan, cmds, drops, disc>>

ReconnectTick ==
    /\ rc.pc = "idle"
    /\ rc' = [pc |-> "scan", info |-> peerData,
              todo |-> {p \in Peers : chan[p] /\ p \notin connected}]
    /\ UNCHANGED <<peerData, connected, chan, cmds, drops, disc>>

(***************************************************************************)
(* One counterparty of the tick: do_connect_peer with the address read at *)
(* the tick, if the file had one.                                         *)
(***************************************************************************)
ReconnectOne(p) ==
    /\ rc.pc = "scan"
    /\ p \in rc.todo
    /\ connected' = IF rc.info[p] = "good" THEN connected \cup {p}
                    ELSE connected
    /\ rc' = [rc EXCEPT !.todo = @ \ {p}]
    /\ UNCHANGED <<peerData, chan, cmds, drops, disc>>

ReconnectEnd ==
    /\ rc.pc = "scan"
    /\ rc.todo = {}
    /\ rc' = RcIdle
    /\ UNCHANGED <<peerData, connected, chan, cmds, drops, disc>>

UserStep ==
    \/ \E p \in Peers :
        \/ \E a \in Addr : ConnectPeer(p, a)
        \/ OpenChannel(p)
        \/ DisconnectPeer(p)
        \/ CloseChannel(p)
    \/ DisconnectByNodeId

ReconnectStep == ReconnectTick \/ ReconnectEnd \/ \E p \in Peers : ReconnectOne(p)

Next ==
    \/ UserStep
    \/ \E p \in Peers : AcceptChannel(p) \/ PeerDrop(p)
    \/ ReconnectStep

Spec == Init /\ [][Next]_vars

(***************************************************************************)
(* The reconnection task is a tokio task on a 1 s interval that never     *)
(* blocks on anything but the connection attempt.                         *)
(***************************************************************************)
FairSpec == Spec /\ WF_vars(ReconnectStep)

-----------------------------------------------------------------------------
(***************************************************************************)
(* The reconnection task (main.rs:1141): a channel peer that is not       *)
(* connected, and whose stored address is one it listens on, is           *)
(* eventually connected again, unless its channel goes away or the        *)
(* stored address changes.                                                *)
(***************************************************************************)
GoodChannelPeerReconnected ==
    \A p \in Peers :
        (chan[p] /\ p \notin connected /\ peerData[p] = "good")
            ~> (p \in connected \/ ~chan[p] \/ peerData[p] # "good")

(***************************************************************************)
(* What the reconnection task is there for: a channel peer we opened a    *)
(* channel with through `openchannel` (so its address is in               *)
(* channel_peer_data) is reconnected after the connection drops.          *)
(***************************************************************************)
KnownChannelPeerReconnected ==
    \A p \in Peers :
        (chan[p] /\ p \notin connected /\ peerData[p] # NoAddr)
            ~> (p \in connected \/ ~chan[p])

(***************************************************************************)
(* What do_disconnect_peer's first check is for (cli.rs:1158-1166: "close *)
(* any channels first"): a peer we have a channel with loses its          *)
(* connection only when the network or the remote side drops it, never   *)
(* by disconnectpeer.                                                      *)
(***************************************************************************)
DisconnectSparesChannelPeers ==
    [][\A p \in Peers :
          chan[p] /\ p \in connected /\ p \notin connected'
              => drops' = drops + 1]_vars
=============================================================================
