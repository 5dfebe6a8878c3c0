----------------------------- MODULE UdpHandle ------------------------------
(***************************************************************************)
(* The UDP side of the tunnel, crates/tun/src/udp.rs, with the parts of    *)
(* cancelable.rs that its tasks run under.                                 *)
(*                                                                         *)
(* One loop takes packets off the tunnel.  A packet to port 53 goes to the *)
(* DNS code; any other goes to the session of its source address, made on  *)
(* the first packet: a bounded channel, a task forward_to_outgoing that    *)
(* empties it into a socket and a cancelable task forward_to_incoming that *)
(* reads the socket and removes the session when nothing arrived for       *)
(* UDP_SESSION_TIMEOUT.  clear_fut empties the map when the network        *)
(* changes, until the route monitor ends.  The map's tokio mutex is held   *)
(* across awaits: by the loop while a full channel makes it wait, by       *)
(* clear_fut while it tells the DNS proxy.                                 *)
(*                                                                         *)
(* A payload is modelled by the destination its packet was addressed to.   *)
(* A session's Sender and CancelHandle live in the map entry only, so a    *)
(* session is cancelled, and its channel closed, exactly when it is not    *)
(* the entry of its source any more.                                       *)
(***************************************************************************)
EXTENDS Integers, Sequences, FiniteSets

CONSTANTS
  Src, Dst,          \* addresses on the two sides
  MaxPacket,         \* bound: packets taken off the tunnel, its end included
  MaxNotify,         \* bound: network changes
  UDP_RECV_CH_SIZE,  \* capacity of a session's channel
  DnsChannelSize     \* capacity of the dns_clear channel, 16 in the code

ASSUME SizeAssumption ==
  /\ MaxPacket \in Nat /\ MaxNotify \in Nat
  /\ UDP_RECV_CH_SIZE \in Nat \ {0}
  /\ DnsChannelSize \in Nat \ {0}

ASSUME AddressAssumption == Src # {} /\ Dst # {}

Session == 1 .. MaxPacket    \* a packet makes one session at the most
None == 0

VARIABLES
  handler,    \* the loop of handle_udp_socket
  packet,     \* the packet it is working on
  arrived,    \* how often udp_rx.next() has returned
  mutex,      \* who holds the sessions mutex across an await
  sessions,   \* source -> session or None
  made,       \* how many sessions have been made
  source,     \* session -> its source address
  d_addr,     \* session -> the destination forward_to_outgoing was given
  channel,    \* session -> payloads waiting in its channel
  outgoing,   \* session -> forward_to_outgoing
  payload,    \* session -> what forward_to_outgoing is sending
  incoming,   \* session -> forward_to_incoming inside its Cancelable
  clear,      \* clear_fut
  unseen,     \* notifications clear_fut has not seen; 2: it lags
  notified,   \* how many there have been
  closed,     \* the monitor has ended and dropped notify_tx
  dns_clear   \* messages in the dns_clear channel

loopVars == <<handler, packet, arrived>>
mapVars == <<mutex, sessions>>
sessionVars == <<made, source, d_addr>>
outVars == <<outgoing, payload>>
clearVars == <<clear, unseen, notified, closed, dns_clear>>
vars == <<loopVars, mapVars, sessionVars, channel, outVars, incoming, clearVars>>

Packet == [src : Src, dst : Dst]
AnyPacket == CHOOSE p \in Packet : TRUE
AnyDst == CHOOSE d \in Dst : TRUE

Made(t) == t <= made
Cancelled(t) == Made(t) /\ sessions[source[t]] # t

(* Sender::send fails once forward_to_outgoing, which owns the receiver,   *)
(* has returned.                                                           *)
FaultFullIsClosed(t) == Len(channel[t]) >= UDP_RECV_CH_SIZE
ChannelClosed(t) == outgoing[t] = "Done"

FaultUnbounded(t) == FALSE
ChannelFull(t) == Len(channel[t]) >= UDP_RECV_CH_SIZE

(* When the loop ends or panics, Tun::run returns and the program stops.   *)
Up == handler # "Ended"

FaultMutexIgnored == TRUE
Free == mutex = "none"

Init ==
  /\ handler = "Idle" /\ packet = AnyPacket /\ arrived = 0
  /\ mutex = "none"
  /\ sessions = [s \in Src |-> None]
  /\ made = 0
  /\ source = [t \in Session |-> AnyPacket.src]
  /\ d_addr = [t \in Session |-> AnyDst]
  /\ channel = [t \in Session |-> <<>>]
  /\ outgoing = [t \in Session |-> "Recv"]
  /\ payload = [t \in Session |-> AnyDst]
  /\ incoming = [t \in Session |-> "New"]
  /\ clear = "Recv" /\ unseen = 0 /\ notified = 0 /\ closed = FALSE
  /\ dns_clear = 0
-----------------------------------------------------------------------------
(* The loop of handle_udp_socket.                                          *)
Arrive ==
  /\ handler = "Idle"
  /\ arrived < MaxPacket
  /\ arrived' = arrived + 1

(* A packet to port 53 that fake_dns passes on: dns_proxy.send is awaited, *)
(* with a TCP connect in the worst case.                                   *)
DnsPacket ==
  /\ Arrive
  /\ handler' = "Dns"
  /\ UNCHANGED <<packet, mapVars, sessionVars, channel, outVars, incoming,
                 clearVars>>

(* It returns, an error being logged, or panics on the bind of its socket. *)
DnsSent(ok) ==
  /\ handler = "Dns"
  /\ handler' = IF ok THEN "Idle" ELSE "Ended"
  /\ UNCHANGED <<packet, arrived, mapVars, sessionVars, channel, outVars,
                 incoming, clearVars>>

(* A packet to port 53 answered with a fake address: the answer goes to    *)
(* the tunnel, and an error there ends the loop.                           *)
DnsAnswered(ok) ==
  /\ Arrive
  /\ handler' = IF ok THEN "Idle" ELSE "Ended"
  /\ UNCHANGED <<packet, mapVars, sessionVars, channel, outVars, incoming,
                 clearVars>>

(* udp_rx.next() is None: the tunnel's stack is gone and the loop ends.    *)
TunnelEnds ==
  /\ Arrive
  /\ handler' = "Ended"
  /\ UNCHANGED <<packet, mapVars, sessionVars, channel, outVars, incoming,
                 clearVars>>

(* Any other packet waits for the sessions mutex.                          *)
DataPacket(p) ==
  /\ Arrive
  /\ packet' = p
  /\ handler' = "Lock"
  /\ UNCHANGED <<mapVars, sessionVars, channel, outVars, incoming, clearVars>>

Entry == sessions[packet.src]

(* Occupied, and the channel has room.                                     *)
Forward ==
  /\ handler = "Lock" /\ Free /\ Entry # None
  /\ ~ChannelClosed(Entry) /\ ~ChannelFull(Entry)
  /\ channel' = [channel EXCEPT ![Entry] = Append(@, packet.dst)]
  /\ handler' = "Idle"
  /\ UNCHANGED <<packet, arrived, mapVars, sessionVars, outVars, incoming,
                 clearVars>>

(* Occupied, and the channel is full: wait, holding the mutex ...          *)
ForwardWaits ==
  /\ handler = "Lock" /\ Free /\ Entry # None
  /\ ~ChannelClosed(Entry) /\ ChannelFull(Entry)
  /\ handler' = "Sending"
  /\ mutex' = "handler"
  /\ UNCHANGED <<packet, arrived, sessions, sessionVars, channel, outVars,
                 incoming, clearVars>>

(* ... until there is room.                                                *)
ForwardResumes ==
  /\ handler = "Sending"
  /\ ~ChannelClosed(Entry) /\ ~ChannelFull(Entry)
  /\ channel' = [channel EXCEPT ![Entry] = Append(@, packet.dst)]
  /\ handler' = "Idle"
  /\ mutex' = "none"
  /\ UNCHANGED <<packet, arrived, sessions, sessionVars, outVars, incoming,
                 clearVars>>

(* Occupied, but the channel is closed, at once or while waiting: the      *)
(* packet is lost and the entry removed.                                   *)
ForwardFails ==
  /\ (handler = "Lock" /\ Free) \/ handler = "Sending"
  /\ Entry # None /\ ChannelClosed(Entry)
  /\ sessions' = [sessions EXCEPT ![packet.src] = None]
  /\ handler' = "Idle"
  /\ mutex' = "none"
  /\ UNCHANGED <<packet, arrived, sessionVars, channel, outVars, incoming,
                 clearVars>>

(* Vacant: a session for this source and this destination.                 *)
NewSession ==
  LET t == made + 1 IN
  /\ handler = "Lock" /\ Free /\ Entry = None
  /\ made' = t
  /\ source' = [source EXCEPT ![t] = packet.src]
  /\ d_addr' = [d_addr EXCEPT ![t] = packet.dst]
  /\ channel' = [channel EXCEPT ![t] = <<packet.dst>>]
  /\ sessions' = [sessions EXCEPT ![packet.src] = t]
  /\ handler' = "Idle"
  /\ UNCHANGED <<packet, arrived, mutex, outVars, incoming, clearVars>>

(* Vacant: the unwrap of create_outbound_udp_socket panics.                *)
NewSessionPanics ==
  /\ handler = "Lock" /\ Free /\ Entry = None
  /\ handler' = "Ended"
  /\ UNCHANGED <<packet, arrived, mapVars, sessionVars, channel, outVars,
                 incoming, clearVars>>
-----------------------------------------------------------------------------
(* forward_to_outgoing.                                                    *)
OutFrame == Up /\ UNCHANGED <<loopVars, mapVars, sessionVars, incoming, clearVars>>

OutTake(t) ==
  /\ Made(t) /\ outgoing[t] = "Recv" /\ channel[t] # <<>>
  /\ payload' = [payload EXCEPT ![t] = Head(channel[t])]
  /\ channel' = [channel EXCEPT ![t] = Tail(@)]
  /\ outgoing' = [outgoing EXCEPT ![t] = "Send"]
  /\ OutFrame

(* The channel is empty and its only Sender dropped.                       *)
FaultSenderCloned(t) == FALSE
SenderDropped(t) == Cancelled(t)

OutEnds(t) ==
  /\ Made(t) /\ outgoing[t] = "Recv" /\ channel[t] = <<>> /\ SenderDropped(t)
  /\ outgoing' = [outgoing EXCEPT ![t] = "Done"]
  /\ UNCHANGED <<channel, payload>>
  /\ OutFrame

(* send_to(&pkg.payload, d_addr).                                          *)
OutSend(t) ==
  /\ outgoing[t] = "Send"
  /\ outgoing' = [outgoing EXCEPT ![t] = "Recv"]
  /\ UNCHANGED <<channel, payload>>
  /\ OutFrame

(* An error of send_to ends the task and drops the receiver.               *)
OutFails(t) ==
  /\ outgoing[t] = "Send"
  /\ outgoing' = [outgoing EXCEPT ![t] = "Done"]
  /\ channel' = [channel EXCEPT ![t] = <<>>]
  /\ UNCHANGED payload
  /\ OutFrame
-----------------------------------------------------------------------------
(* forward_to_incoming, polled through Cancelable: every poll first reads  *)
(* the flag.  A datagram that arrives is passed to the tunnel and starts   *)
(* the timeout afresh, which changes nothing here.                         *)
InFrame == Up /\ UNCHANGED <<loopVars, sessionVars, channel, outVars, clearVars>>

(* The first poll.                                                         *)
InStart(t) ==
  /\ Made(t) /\ incoming[t] = "New" /\ ~Cancelled(t)
  /\ incoming' = [incoming EXCEPT ![t] = "Recv"]
  /\ UNCHANGED mapVars
  /\ InFrame

(* A poll finds the flag set.  The wake of a cancellation may be lost in   *)
(* the first poll; the timeout then causes the poll.                       *)
InCancelled(t) ==
  /\ Cancelled(t) /\ incoming[t] \in {"New", "Recv", "TimedOut"}
  /\ incoming' = [incoming EXCEPT ![t] = "Done"]
  /\ UNCHANGED mapVars
  /\ InFrame

(* recv_from fails, or the unwrap on the tunnel's sink panics: the task    *)
(* ends and the session stays in the map.                                  *)
InFails(t) ==
  /\ incoming[t] = "Recv" /\ ~Cancelled(t)
  /\ incoming' = [incoming EXCEPT ![t] = "Done"]
  /\ UNCHANGED mapVars
  /\ InFrame

(* The timeout fires in a poll that read the flag before ...               *)
InExpires(t) ==
  /\ incoming[t] = "Recv" /\ ~Cancelled(t)
  /\ incoming' = [incoming EXCEPT ![t] = "Removing"]
  /\ UNCHANGED mapVars
  /\ InFrame

(* ... and either gets the mutex at once, and removes what is then the     *)
(* entry of its source ...                                                 *)
FaultRemovesNothing(s) == sessions
WithoutEntry(s) == [sessions EXCEPT ![s] = None]

InRemoves(t) ==
  /\ incoming[t] = "Removing" /\ Free
  /\ sessions' = WithoutEntry(source[t])
  /\ incoming' = [incoming EXCEPT ![t] = "Done"]
  /\ UNCHANGED mutex
  /\ InFrame

(* ... or waits for it.                                                    *)
InWaits(t) ==
  /\ incoming[t] = "Removing" /\ ~Free
  /\ incoming' = [incoming EXCEPT ![t] = "TimedOut"]
  /\ UNCHANGED mapVars
  /\ InFrame

(* The mutex is handed to the waiting task before the poll that reads the  *)
(* flag, so a cancellation can not come in between.                        *)
InRemovesLater(t) ==
  /\ incoming[t] = "TimedOut" /\ Free /\ ~Cancelled(t)
  /\ sessions' = WithoutEntry(source[t])
  /\ incoming' = [incoming EXCEPT ![t] = "Done"]
  /\ UNCHANGED mutex
  /\ InFrame
-----------------------------------------------------------------------------
(* The route monitor reports a network change on a broadcast channel that  *)
(* holds one message.                                                      *)
Notify ==
  /\ Up
  /\ ~closed /\ notified < MaxNotify
  /\ notified' = notified + 1
  /\ unseen' = IF unseen = 0 THEN 1 ELSE 2
  /\ UNCHANGED <<loopVars, mapVars, sessionVars, channel, outVars, incoming,
                 clear, closed, dns_clear>>

(* The monitor ends before the tunnel does: its watcher failed.            *)
MonitorEnds ==
  /\ Up
  /\ ~closed
  /\ closed' = TRUE
  /\ UNCHANGED <<loopVars, mapVars, sessionVars, channel, outVars, incoming,
                 clear, unseen, notified, dns_clear>>

ClearFrame ==
  /\ Up
  /\ UNCHANGED <<loopVars, sessionVars, channel, outVars, incoming, notified,
                 closed>>

(* clear_fut: notify.recv() is Ok; wait for the mutex.                     *)
ClearNotified ==
  /\ clear = "Recv" /\ unseen = 1
  /\ unseen' = 0
  /\ clear' = "Lock"
  /\ UNCHANGED <<mapVars, dns_clear>>
  /\ ClearFrame

(* notify.recv() is Lagged: the next recv returns the message retained.    *)
FaultLaggedIsClosed == "Ended"
AfterLagged == "Recv"

ClearLagged ==
  /\ clear = "Recv" /\ unseen = 2
  /\ unseen' = 1
  /\ clear' = AfterLagged
  /\ UNCHANGED <<mapVars, dns_clear>>
  /\ ClearFrame

(* notify.recv() is Closed, which it is when no message is left: return.   *)
ClearClosed ==
  /\ clear = "Recv" /\ unseen = 0 /\ closed
  /\ clear' = "Ended"
  /\ UNCHANGED <<mapVars, unseen, dns_clear>>
  /\ ClearFrame

(* guard.clear(), then the dns_clear channel is awaited under the mutex.   *)
(* That send does not fail: dns_clear_rx belongs to a task of DnsProxy     *)
(* that returns only when clear_fut has dropped dns_clear_tx.              *)
FaultMutexKept == "clear"
MutexAfterClear == "none"

ClearSessions ==
  /\ clear = "Lock" /\ Free
  /\ sessions' = [s \in Src |-> None]
  /\ mutex' = "clear"
  /\ clear' = "Tell"
  /\ UNCHANGED <<unseen, dns_clear>>
  /\ ClearFrame

ClearTellsDns ==
  /\ clear = "Tell" /\ dns_clear < DnsChannelSize
  /\ dns_clear' = dns_clear + 1
  /\ mutex' = MutexAfterClear
  /\ clear' = "Recv"
  /\ UNCHANGED <<sessions, unseen>>
  /\ ClearFrame

(* The clear task of DnsProxy takes a message; it needs the lock that      *)
(* dns_proxy.send holds.                                                   *)
DnsTakesClear ==
  /\ dns_clear > 0 /\ handler # "Dns"
  /\ dns_clear' = dns_clear - 1
  /\ UNCHANGED <<mapVars, clear, unseen>>
  /\ ClearFrame
-----------------------------------------------------------------------------
Loop ==
  \/ DnsPacket
  \/ \E ok \in BOOLEAN : DnsSent(ok)
  \/ \E ok \in BOOLEAN : DnsAnswered(ok)
  \/ TunnelEnds
  \/ \E p \in Packet : DataPacket(p)
  \/ Forward
  \/ ForwardWaits
  \/ ForwardResumes
  \/ ForwardFails
  \/ NewSession
  \/ NewSessionPanics

Outgoing(t) == OutTake(t) \/ OutEnds(t) \/ OutSend(t) \/ OutFails(t)

Incoming(t) ==
  \/ InStart(t) \/ InCancelled(t) \/ InFails(t) \/ InExpires(t)
  \/ InRemoves(t) \/ InWaits(t) \/ InRemovesLater(t)

Clear ==
  \/ ClearNotified \/ ClearLagged \/ ClearClosed
  \/ ClearSessions \/ ClearTellsDns

Next ==
  \/ Loop
  \/ \E t \in Session : Outgoing(t)
  \/ \E t \in Session : Incoming(t)
  \/ Notify
  \/ MonitorEnds
  \/ Clear
  \/ DnsTakesClear

(* Ready tasks are polled; sends on UDP sockets complete; dns_proxy.send   *)
(* ends by its connect timeout at the latest.  tokio's mutex serves its    *)
(* waiters in order, which is strong fairness for the steps that take it.  *)
(* The tunnel's input, network changes and socket timeouts are not fair.   *)
Fairness ==
  /\ WF_vars((\E ok \in BOOLEAN : DnsSent(ok)) \/ ForwardResumes
             \/ (handler = "Sending" /\ ForwardFails))
  /\ SF_vars(Forward \/ ForwardWaits \/ NewSession \/ NewSessionPanics
             \/ (handler = "Lock" /\ ForwardFails))
  /\ \A t \in Session :
       /\ WF_vars(Outgoing(t))
       /\ WF_vars(InStart(t) \/ InCancelled(t) \/ InRemoves(t) \/ InWaits(t))
       /\ SF_vars(InRemovesLater(t))
  /\ WF_vars(ClearNotified \/ ClearLagged \/ ClearClosed \/ ClearTellsDns)
  /\ SF_vars(ClearSessions)
  /\ WF_vars(DnsTakesClear)

Spec == Init /\ [][Next]_vars /\ Fairness
-----------------------------------------------------------------------------
(* Types, and the bound on every session's channel: the loop never puts a  *)
(* packet into a channel that is full.                                     *)
TypeOK ==
  /\ handler \in {"Idle", "Dns", "Lock", "Sending", "Ended"}
  /\ packet \in Packet
  /\ arrived \in 0 .. MaxPacket
  /\ mutex \in {"none", "handler", "clear"}
  /\ sessions \in [Src -> 0 .. made]
  /\ made \in 0 .. arrived
  /\ source \in [Session -> Src]
  /\ d_addr \in [Session -> Dst]
  /\ channel \in [Session -> Seq(Dst)]
  /\ \A t \in Session : Len(channel[t]) <= UDP_RECV_CH_SIZE
  /\ outgoing \in [Session -> {"Recv", "Send", "Done"}]
  /\ payload \in [Session -> Dst]
  /\ incoming \in [Session -> {"New", "Recv", "Removing", "TimedOut", "Done"}]
  /\ clear \in {"Recv", "Lock", "Tell", "Ended"}
  /\ unseen \in 0 .. 2 /\ notified \in 0 .. MaxNotify
  /\ dns_clear \in 0 .. DnsChannelSize
  /\ closed \in BOOLEAN

(* While the loop waits for room in a session's channel, holding the map's *)
(* mutex, neither a timeout nor a clear takes that session away: the       *)
(* packet it is holding still has an entry to go to.                       *)
WaitingEntryStays == handler = "Sending" => Entry # None

(* A session leaves the map only because the map is cleared, its own       *)
(* timeout fired, its outgoing task died, or an older task of the same     *)
(* source, cancelled during the very poll in which its timeout fired,      *)
(* removes by address; an entry is never replaced while it is there.       *)
LossHasReason(s) ==
  LET t == sessions[s] IN
  (t # None /\ sessions'[s] # t) =>
    /\ sessions'[s] = None
    /\ \/ ClearSessions
       \/ InRemoves(t) \/ InRemovesLater(t)
       \/ outgoing[t] = "Done"
       \/ \E u \in 1 .. t - 1 : source[u] = s /\ InRemoves(u)

(* Every loss of an entry, in every step, has one of those reasons.        *)
EntryLossReasons == [][\A s \in Src : LossHasReason(s)]_vars

(* The loop never hangs on a packet: a full channel is emptied or closed   *)
(* although the loop holds the mutex meanwhile, and clear_fut gives the    *)
(* mutex back although it waits for the DNS proxy under it.                *)
LoopGoesOn ==
  handler \in {"Dns", "Lock", "Sending"} ~> handler \in {"Idle", "Ended"}

(* A network change reaches every session that exists when it is reported, *)
(* also when clear_fut lags behind the broadcast channel.                  *)
ClearReachesSessions ==
  \A t \in Session :
    (unseen > 0 /\ sessions[source[t]] = t)
      ~> (sessions[source[t]] # t \/ ~Up)

(* A session whose timeout fired leaves the map, however busy the mutex.   *)
TimedOutRemoved ==
  \A t \in Session :
    incoming[t] \in {"Removing", "TimedOut"}
      ~> (sessions[source[t]] # t \/ ~Up)

(* The two tasks of a session that has left the map end, so its socket is  *)
(* closed and nothing of it leaks.                                         *)
CancelledTasksEnd ==
  \A t \in Session :
    Cancelled(t) ~> ((incoming[t] = "Done" /\ outgoing[t] = "Done") \/ ~Up)

(* "receive packets from the local tunnel and send them to the remote":    *)
(* every datagram leaves for the address its packet was sent to.  It does  *)
(* not hold: a session sends to the destination of its first packet.       *)
SentToItsDestination ==
  [][\A t \in Session : OutSend(t) => payload[t] = d_addr[t]]_vars

(* "It will clean up sessions that are no longer active": a session whose  *)
(* forward_to_incoming has ended does not stay in the map for ever.  It    *)
(* does not hold: an error of recv_from ends the task without the removal. *)
DeadSessionsCleaned ==
  \A t \in Session :
    (incoming[t] = "Done" /\ ~Cancelled(t)) ~> (Cancelled(t) \/ ~Up)
=============================================================================
