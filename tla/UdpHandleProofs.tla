-------------------------- MODULE UdpHandleProofs ---------------------------
(***************************************************************************)
(* Proofs about UdpHandle, for any addresses, any number of packets and    *)
(* network changes, and channels of any size.                              *)
(***************************************************************************)
EXTENDS UdpHandle, TLAPS

(* Whoever waits with the mutex in hand is the one the mutex says.  The    *)
(* other side of the mutex can not have it: ClearSessions, InRemoves and   *)
(* the loop each begin by taking it.                                       *)
MutexHolders ==
  /\ handler = "Sending" => mutex = "handler"
  /\ clear = "Tell" => mutex = "clear"

(* A packet that waits for the mutex has not made its session yet, so      *)
(* there is a number left for it.                                          *)
RoomForSession == handler = "Lock" => made < arrived

(* The entry of a source is the youngest session that source ever had: a   *)
(* session is made when the entry is vacant, and none comes back.          *)
EntryYoungest ==
  \A t \in Session :
    Made(t) => sessions[source[t]] = None \/ sessions[source[t]] >= t

(* Tasks run only for sessions that were made.                             *)
RunningMade ==
  \A t \in Session : incoming[t] # "New" => Made(t)

IInv ==
  /\ TypeOK
  /\ WaitingEntryStays
  /\ MutexHolders
  /\ RoomForSession
  /\ EntryYoungest
  /\ RunningMade

-----------------------------------------------------------------------------
(* The packet in hand has a source and a destination, and the entry of its *)
(* source is None or a session.                                            *)
LEMMA PacketFacts ==
  ASSUME TypeOK
  PROVE  /\ packet.src \in Src /\ packet.dst \in Dst
         /\ Entry \in 0 .. made
         /\ Entry # None => Entry \in Session /\ Made(Entry)
         /\ made \in Nat /\ arrived \in Nat /\ made <= arrived /\ arrived <= MaxPacket
<1>1. packet.src \in Src /\ packet.dst \in Dst
  BY DEF TypeOK, Packet
<1>2. made \in Nat /\ arrived \in Nat /\ made <= arrived /\ arrived <= MaxPacket
  BY SizeAssumption DEF TypeOK
<1>3. Entry \in 0 .. made
  BY <1>1 DEF TypeOK, Entry
<1> QED BY <1>1, <1>2, <1>3, SizeAssumption DEF Session, Made, None

(* A channel that is not full has room for one more payload.               *)
LEMMA RoomInChannel ==
  ASSUME TypeOK, NEW t \in Session, ~ChannelFull(t), NEW d \in Dst
  PROVE  /\ Append(channel[t], d) \in Seq(Dst)
         /\ Len(Append(channel[t], d)) <= UDP_RECV_CH_SIZE
<1>1. channel[t] \in Seq(Dst)
  BY DEF TypeOK
<1>2. Len(Append(channel[t], d)) = Len(channel[t]) + 1 /\ Len(channel[t]) \in Nat
  BY <1>1
<1>3. Len(channel[t]) < UDP_RECV_CH_SIZE
  BY <1>2, SizeAssumption DEF ChannelFull
<1> QED BY <1>1, <1>2, <1>3, SizeAssumption

LEMMA InitInvariant == Init => IInv
<1> SUFFICES ASSUME Init PROVE IInv
  OBVIOUS
<1> USE DEF Init
<1>1. AnyPacket \in Packet /\ AnyDst \in Dst
  <2>1. \E p : p \in Packet
    <3>1. PICK s \in Src, d \in Dst : TRUE
      BY AddressAssumption
    <3> QED BY <3>1, [src |-> s, dst |-> d] \in Packet DEF Packet
  <2> QED BY <2>1, AddressAssumption DEF AnyPacket, AnyDst
<1>2. AnyPacket.src \in Src
  BY <1>1 DEF Packet
<1>3. TypeOK
  <2>1. channel \in [Session -> Seq(Dst)]
    OBVIOUS
  <2>2. \A t \in Session : Len(channel[t]) <= UDP_RECV_CH_SIZE
    BY SizeAssumption
  <2>3. sessions \in [Src -> 0 .. made] /\ made \in 0 .. arrived
    BY DEF None
  <2>4. /\ arrived \in 0 .. MaxPacket /\ unseen \in 0 .. 2
        /\ notified \in 0 .. MaxNotify /\ dns_clear \in 0 .. DnsChannelSize
    BY SizeAssumption
  <2>5. /\ packet \in Packet /\ source \in [Session -> Src]
        /\ d_addr \in [Session -> Dst] /\ payload \in [Session -> Dst]
    BY <1>1, <1>2
  <2>6. /\ outgoing \in [Session -> {"Recv", "Send", "Done"}]
        /\ incoming \in [Session -> {"New", "Recv", "Removing", "TimedOut", "Done"}]
    OBVIOUS
  <2> QED BY <2>1, <2>2, <2>3, <2>4, <2>5, <2>6 DEF TypeOK
<1>4. WaitingEntryStays /\ MutexHolders /\ RoomForSession /\ RunningMade
  BY DEF WaitingEntryStays, MutexHolders, RoomForSession, RunningMade
<1>5. EntryYoungest
  BY DEF EntryYoungest, Made, Session
<1> QED BY <1>3, <1>4, <1>5 DEF IInv

-----------------------------------------------------------------------------
(* The loop of handle_udp_socket.                                          *)

(* Taking a packet to port 53 off the tunnel, finishing with it, or the    *)
(* end of the tunnel moves only the loop, and never to a place where it    *)
(* would need the map.                                                     *)
LEMMA DnsKeepsInvariant ==
  ASSUME IInv,
         DnsPacket \/ (\E ok \in BOOLEAN : DnsSent(ok) \/ DnsAnswered(ok))
         \/ TunnelEnds
  PROVE  IInv'
<1>1. /\ handler' \in {"Idle", "Dns", "Ended"}
      /\ UNCHANGED <<packet, mapVars, sessionVars, channel, outVars, incoming,
                     clearVars>>
  BY DEF DnsPacket, DnsSent, DnsAnswered, TunnelEnds
<1>2. arrived' \in 0 .. MaxPacket /\ made \in 0 .. arrived'
  <2>1. arrived \in 0 .. MaxPacket /\ made \in 0 .. arrived
    BY DEF IInv, TypeOK
  <2>2. arrived' = arrived \/ (arrived < MaxPacket /\ arrived' = arrived + 1)
    BY DEF DnsPacket, DnsSent, DnsAnswered, TunnelEnds, Arrive
  <2> QED BY <2>1, <2>2, SizeAssumption
<1>3. TypeOK'
  BY <1>1, <1>2
     DEF IInv, TypeOK, mapVars, sessionVars, outVars, clearVars
<1>4. handler' # "Sending" /\ handler' # "Lock"
  BY <1>1
<1>5. WaitingEntryStays' /\ MutexHolders' /\ RoomForSession'
  BY <1>1, <1>4, Zenon
     DEF IInv, WaitingEntryStays, MutexHolders, RoomForSession, mapVars, clearVars
<1>6. EntryYoungest' /\ RunningMade'
  BY <1>1, Zenon
     DEF IInv, EntryYoungest, RunningMade, Made, mapVars, sessionVars
<1> QED BY <1>3, <1>5, <1>6 DEF IInv

(* A packet to any other port leaves a number for the session it may make. *)
LEMMA DataPacketKeepsInvariant ==
  ASSUME IInv, NEW p \in Packet, DataPacket(p)
  PROVE  IInv'
<1>1. /\ handler' = "Lock" /\ packet' = p
      /\ UNCHANGED <<mapVars, sessionVars, channel, outVars, incoming, clearVars>>
  BY DEF DataPacket
<1>2. /\ arrived' \in 0 .. MaxPacket /\ made \in 0 .. arrived' /\ made < arrived'
  <2>1. arrived \in 0 .. MaxPacket /\ made \in 0 .. arrived
    BY DEF IInv, TypeOK
  <2>2. arrived < MaxPacket /\ arrived' = arrived + 1
    BY DEF DataPacket, Arrive
  <2> QED BY <2>1, <2>2, SizeAssumption
<1>3. TypeOK'
  BY <1>1, <1>2
     DEF IInv, TypeOK, mapVars, sessionVars, outVars, clearVars
<1>4. handler' # "Sending"
  BY <1>1
<1>5. WaitingEntryStays' /\ MutexHolders'
  BY <1>1, <1>4, Zenon
     DEF IInv, WaitingEntryStays, MutexHolders, mapVars, clearVars
<1>6. RoomForSession'
  BY <1>1, <1>2 DEF RoomForSession, sessionVars
<1>7. EntryYoungest' /\ RunningMade'
  BY <1>1, Zenon
     DEF IInv, EntryYoungest, RunningMade, Made, mapVars, sessionVars
<1> QED BY <1>3, <1>5, <1>6, <1>7 DEF IInv

(* A payload put into a channel with room, at once or after a wait.        *)
LEMMA ForwardKeepsInvariant ==
  ASSUME IInv, Forward \/ ForwardResumes
  PROVE  IInv'
<1>1. /\ handler' = "Idle" /\ mutex' = "none"
      /\ channel' = [channel EXCEPT ![Entry] = Append(@, packet.dst)]
      /\ ~ChannelFull(Entry)
      /\ UNCHANGED <<packet, arrived, sessions, sessionVars, outVars, incoming,
                     clearVars>>
  BY DEF Forward, ForwardResumes, Free, mapVars
<1>2. Entry # None /\ (mutex = "none" \/ mutex = "handler")
  BY DEF IInv, WaitingEntryStays, MutexHolders, Forward, ForwardResumes, Free
<1>3. Entry \in Session /\ packet.dst \in Dst
  BY <1>2, PacketFacts DEF IInv
<1>4. TypeOK'
  <2>1. /\ Append(channel[Entry], packet.dst) \in Seq(Dst)
        /\ Len(Append(channel[Entry], packet.dst)) <= UDP_RECV_CH_SIZE
    BY <1>1, <1>3, RoomInChannel DEF IInv
  <2>2. channel' \in [Session -> Seq(Dst)]
    BY <1>1, <1>3, <2>1 DEF IInv, TypeOK
  <2>3. \A t \in Session : Len(channel'[t]) <= UDP_RECV_CH_SIZE
    BY <1>1, <1>3, <2>1 DEF IInv, TypeOK
  <2> QED BY <1>1, <2>2, <2>3 DEF IInv, TypeOK, sessionVars, outVars, clearVars
<1>5. handler' # "Sending" /\ handler' # "Lock"
  BY <1>1
<1>6. clear # "Tell"
  BY <1>2 DEF IInv, MutexHolders
<1>7. WaitingEntryStays' /\ MutexHolders' /\ RoomForSession'
  BY <1>1, <1>5, <1>6, Zenon
     DEF WaitingEntryStays, MutexHolders, RoomForSession, clearVars
<1>8. EntryYoungest' /\ RunningMade'
  BY <1>1, Zenon DEF IInv, EntryYoungest, RunningMade, Made, sessionVars
<1> QED BY <1>4, <1>7, <1>8 DEF IInv

(* The loop waits for room only on a session that is in the map.           *)
LEMMA ForwardWaitsKeepsInvariant ==
  ASSUME IInv, ForwardWaits
  PROVE  IInv'
<1>1. /\ handler' = "Sending" /\ mutex' = "handler" /\ mutex = "none"
      /\ Entry # None
      /\ UNCHANGED <<packet, arrived, sessions, sessionVars, channel, outVars,
                     incoming, clearVars>>
  BY DEF ForwardWaits, Free
<1>2. TypeOK'
  BY <1>1 DEF IInv, TypeOK, sessionVars, outVars, clearVars
<1>3. handler' # "Lock" /\ clear # "Tell"
  BY <1>1 DEF IInv, MutexHolders
<1>4. WaitingEntryStays' /\ MutexHolders' /\ RoomForSession'
  BY <1>1, <1>3, Zenon
     DEF WaitingEntryStays, MutexHolders, RoomForSession, Entry, clearVars
<1>5. EntryYoungest' /\ RunningMade'
  BY <1>1, Zenon DEF IInv, EntryYoungest, RunningMade, Made, sessionVars
<1> QED BY <1>2, <1>4, <1>5 DEF IInv

(* Taking an entry out of the map leaves the others where they were.       *)
LEMMA WithoutEntryFacts ==
  ASSUME IInv, NEW s \in Src, sessions' = [sessions EXCEPT ![s] = None],
         UNCHANGED <<made, source>>
  PROVE  sessions' \in [Src -> 0 .. made] /\ EntryYoungest'
<1>1. sessions \in [Src -> 0 .. made] /\ source \in [Session -> Src]
  BY DEF IInv, TypeOK
<1>2. None \in 0 .. made
  BY PacketFacts DEF None, IInv
<1>3. sessions' \in [Src -> 0 .. made]
  BY <1>1, <1>2
<1>4. ASSUME NEW t \in Session, Made(t)'
      PROVE  sessions'[source'[t]] = None \/ sessions'[source'[t]] >= t
  <2>1. source[t] \in Src /\ source' = source
    BY <1>1
  <2>2. sessions[source[t]] = None \/ sessions[source[t]] >= t
    BY <1>4 DEF IInv, EntryYoungest, Made
  <2>3. sessions'[source[t]] = None \/ sessions'[source[t]] = sessions[source[t]]
    BY <1>1, <2>1
  <2> QED BY <2>1, <2>2, <2>3
<1> QED BY <1>3, <1>4 DEF EntryYoungest

(* A closed channel: the packet is lost, the entry removed, and the mutex  *)
(* given back if the loop was holding it.                                  *)
LEMMA ForwardFailsKeepsInvariant ==
  ASSUME IInv, ForwardFails
  PROVE  IInv'
<1>1. /\ handler' = "Idle" /\ mutex' = "none"
      /\ sessions' = [sessions EXCEPT ![packet.src] = None]
      /\ UNCHANGED <<packet, arrived, sessionVars, channel, outVars, incoming,
                     clearVars>>
  BY DEF ForwardFails
<1>2. mutex = "none" \/ mutex = "handler"
  BY DEF IInv, MutexHolders, ForwardFails, Free
<1>3. packet.src \in Src
  BY PacketFacts DEF IInv
<1>4. sessions' \in [Src -> 0 .. made] /\ EntryYoungest'
  BY <1>1, <1>3, WithoutEntryFacts DEF sessionVars
<1>5. TypeOK'
  BY <1>1, <1>4 DEF IInv, TypeOK, sessionVars, outVars, clearVars
<1>6. handler' # "Sending" /\ handler' # "Lock" /\ clear # "Tell"
  BY <1>1, <1>2 DEF IInv, MutexHolders
<1>7. WaitingEntryStays' /\ MutexHolders' /\ RoomForSession'
  BY <1>1, <1>6, Zenon
     DEF WaitingEntryStays, MutexHolders, RoomForSession, clearVars
<1>8. RunningMade'
  BY <1>1, Zenon DEF IInv, RunningMade, Made, sessionVars
<1> QED BY <1>4, <1>5, <1>7, <1>8 DEF IInv

(* A session made for a vacant entry is the youngest of all.               *)
LEMMA NewSessionKeepsInvariant ==
  ASSUME IInv, NewSession
  PROVE  IInv'
<1> DEFINE t == made + 1
           s == packet.src
<1>1. /\ handler = "Lock" /\ handler' = "Idle" /\ mutex = "none"
      /\ made' = t
      /\ source' = [source EXCEPT ![t] = s]
      /\ d_addr' = [d_addr EXCEPT ![t] = packet.dst]
      /\ channel' = [channel EXCEPT ![t] = <<packet.dst>>]
      /\ sessions' = [sessions EXCEPT ![s] = t]
      /\ UNCHANGED <<packet, arrived, mutex, outVars, incoming, clearVars>>
  BY DEF NewSession, Free
<1>2. s \in Src /\ packet.dst \in Dst
  BY PacketFacts DEF IInv
<1>3. /\ made \in Nat /\ arrived \in Nat /\ made < arrived /\ arrived <= MaxPacket
  BY <1>1, PacketFacts DEF IInv, RoomForSession
<1>4. t \in Session /\ t \in 0 .. arrived /\ t > made /\ t \in Nat
  BY <1>3, SizeAssumption DEF Session
<1> HIDE DEF t, s
<1>5. TypeOK'
  <2>1. sessions' \in [Src -> 0 .. made']
    <3>1. sessions \in [Src -> 0 .. made]
      BY DEF IInv, TypeOK
    <3>2. 0 .. made \subseteq 0 .. t /\ t \in 0 .. t
      BY <1>3, <1>4
    <3> QED BY <1>1, <1>2, <3>1, <3>2
  <2>2. made' \in 0 .. arrived'
    BY <1>1, <1>4
  <2>3. source' \in [Session -> Src] /\ d_addr' \in [Session -> Dst]
    BY <1>1, <1>2, <1>4 DEF IInv, TypeOK
  <2>4. channel' \in [Session -> Seq(Dst)]
    <3>1. <<packet.dst>> \in Seq(Dst)
      BY <1>2
    <3> QED BY <1>1, <1>4, <3>1 DEF IInv, TypeOK
  <2>5. \A u \in Session : Len(channel'[u]) <= UDP_RECV_CH_SIZE
    <3>1. Len(<<packet.dst>>) <= UDP_RECV_CH_SIZE
      BY SizeAssumption
    <3> QED BY <1>1, <1>4, <3>1 DEF IInv, TypeOK
  <2> QED BY <1>1, <2>1, <2>2, <2>3, <2>4, <2>5 DEF IInv, TypeOK, outVars, clearVars
<1>6. handler' # "Sending" /\ handler' # "Lock" /\ clear # "Tell"
  BY <1>1 DEF IInv, MutexHolders
<1>7. WaitingEntryStays' /\ MutexHolders' /\ RoomForSession'
  BY <1>1, <1>6, Zenon
     DEF WaitingEntryStays, MutexHolders, RoomForSession, clearVars
<1>8. EntryYoungest'
  <2> SUFFICES ASSUME NEW u \in Session, Made(u)'
               PROVE  sessions'[source'[u]] = None \/ sessions'[source'[u]] >= u
    BY DEF EntryYoungest
  <2>1. u \in Nat /\ u <= t
    BY <1>1 DEF Made, Session
  <2>2. source'[u] \in Src
    BY <1>5 DEF TypeOK
  <2>3. CASE source'[u] = s
    BY <1>1, <1>2, <1>4, <2>1, <2>3 DEF IInv, TypeOK
  <2>4. CASE source'[u] # s
    <3>1. u # t
      BY <1>1, <1>4, <2>4 DEF IInv, TypeOK
    <3>2. source'[u] = source[u]
      BY <1>1, <3>1 DEF IInv, TypeOK
    <3>3. Made(u)
      BY <1>3, <2>1, <3>1 DEF Made, t
    <3>4. sessions'[source[u]] = sessions[source[u]]
      BY <1>1, <2>2, <2>4, <3>2 DEF IInv, TypeOK
    <3> QED BY <3>2, <3>3, <3>4 DEF IInv, EntryYoungest
  <2> QED BY <2>3, <2>4
<1>9. RunningMade'
  <2> SUFFICES ASSUME NEW u \in Session, incoming'[u] # "New" PROVE Made(u)'
    BY DEF RunningMade
  <2>1. Made(u)
    BY <1>1 DEF IInv, RunningMade
  <2> QED BY <1>1, <1>3, <1>4, <2>1 DEF Made, Session
<1> QED BY <1>5, <1>7, <1>8, <1>9 DEF IInv

(* A panic ends the loop.                                                  *)
LEMMA PanicKeepsInvariant ==
  ASSUME IInv, NewSessionPanics
  PROVE  IInv'
<1>1. /\ handler' = "Ended"
      /\ UNCHANGED <<packet, arrived, mapVars, sessionVars, channel, outVars,
                     incoming, clearVars>>
  BY DEF NewSessionPanics
<1>2. TypeOK'
  BY <1>1 DEF IInv, TypeOK, mapVars, sessionVars, outVars, clearVars
<1>3. handler' # "Sending" /\ handler' # "Lock"
  BY <1>1
<1>4. WaitingEntryStays' /\ MutexHolders' /\ RoomForSession'
  BY <1>1, <1>3, Zenon
     DEF IInv, WaitingEntryStays, MutexHolders, RoomForSession, mapVars, clearVars
<1>5. EntryYoungest' /\ RunningMade'
  BY <1>1, Zenon
     DEF IInv, EntryYoungest, RunningMade, Made, mapVars, sessionVars
<1> QED BY <1>2, <1>4, <1>5 DEF IInv

-----------------------------------------------------------------------------
(* The tasks of a session.                                                 *)

(* A step that leaves the loop, the map and clear_fut where they are, and  *)
(* starts no task of a session not made, keeps what relates them.          *)
LEMMA QuietStep ==
  ASSUME IInv, UNCHANGED <<loopVars, mapVars, sessionVars, clear>>, RunningMade'
  PROVE  /\ WaitingEntryStays' /\ MutexHolders' /\ RoomForSession'
         /\ EntryYoungest'
<1>1. WaitingEntryStays' /\ MutexHolders'
  BY Zenon DEF IInv, WaitingEntryStays, MutexHolders, Entry, loopVars, mapVars
<1>2. RoomForSession'
  BY Zenon DEF IInv, RoomForSession, loopVars, sessionVars
<1>3. EntryYoungest'
  BY Zenon DEF IInv, EntryYoungest, Made, mapVars, sessionVars
<1> QED BY <1>1, <1>2, <1>3

LEMMA OutgoingKeepsInvariant ==
  ASSUME IInv, NEW t \in Session, Outgoing(t)
  PROVE  IInv'
<1>1. UNCHANGED <<loopVars, mapVars, sessionVars, incoming, clearVars>>
  BY DEF Outgoing, OutTake, OutEnds, OutSend, OutFails, OutFrame
<1>2. channel[t] \in Seq(Dst) /\ Len(channel[t]) <= UDP_RECV_CH_SIZE
  BY DEF IInv, TypeOK
<1>3. /\ outgoing' \in [Session -> {"Recv", "Send", "Done"}]
      /\ payload' \in [Session -> Dst]
      /\ channel' \in [Session -> Seq(Dst)]
      /\ \A u \in Session : Len(channel'[u]) <= UDP_RECV_CH_SIZE
  <2>1. CASE OutTake(t)
    <3>1. /\ Head(channel[t]) \in Dst /\ Tail(channel[t]) \in Seq(Dst)
          /\ Len(Tail(channel[t])) <= UDP_RECV_CH_SIZE
      <4>1. channel[t] # <<>>
        BY <2>1 DEF OutTake
      <4>2. /\ Head(channel[t]) \in Dst /\ Tail(channel[t]) \in Seq(Dst)
            /\ Len(Tail(channel[t])) = Len(channel[t]) - 1
        BY <1>2, <4>1
      <4>3. Len(channel[t]) \in Nat
        BY <1>2
      <4> QED BY <1>2, <4>2, <4>3, SizeAssumption
    <3>2. outgoing' \in [Session -> {"Recv", "Send", "Done"}]
      BY <2>1 DEF IInv, TypeOK, OutTake
    <3>3. payload' \in [Session -> Dst] /\ channel' \in [Session -> Seq(Dst)]
      BY <2>1, <3>1 DEF IInv, TypeOK, OutTake
    <3>4. \A u \in Session : Len(channel'[u]) <= UDP_RECV_CH_SIZE
      BY <2>1, <3>1 DEF IInv, TypeOK, OutTake
    <3> QED BY <3>2, <3>3, <3>4
  <2>2. CASE OutEnds(t) \/ OutSend(t)
    BY <2>2 DEF IInv, TypeOK, OutEnds, OutSend
  <2>3. CASE OutFails(t)
    <3>1. <<>> \in Seq(Dst) /\ Len(<<>>) <= UDP_RECV_CH_SIZE
      BY SizeAssumption
    <3>2. outgoing' \in [Session -> {"Recv", "Send", "Done"}]
      BY <2>3 DEF IInv, TypeOK, OutFails
    <3>3. payload' \in [Session -> Dst] /\ channel' \in [Session -> Seq(Dst)]
      BY <2>3, <3>1 DEF IInv, TypeOK, OutFails
    <3>4. \A u \in Session : Len(channel'[u]) <= UDP_RECV_CH_SIZE
      BY <2>3, <3>1 DEF IInv, TypeOK, OutFails
    <3> QED BY <3>2, <3>3, <3>4
  <2> QED BY <2>1, <2>2, <2>3 DEF Outgoing
<1>4. TypeOK'
  BY <1>1, <1>3 DEF IInv, TypeOK, loopVars, mapVars, sessionVars, clearVars
<1>5. RunningMade'
  BY <1>1, Zenon DEF IInv, RunningMade, Made, sessionVars
<1>6. UNCHANGED <<loopVars, mapVars, sessionVars, clear>>
  BY <1>1 DEF clearVars
<1> QED BY <1>4, <1>5, <1>6, QuietStep DEF IInv

(* forward_to_incoming touches the map only while the mutex is free, so    *)
(* never while the loop waits with it.                                     *)
LEMMA IncomingKeepsInvariant ==
  ASSUME IInv, NEW t \in Session, Incoming(t)
  PROVE  IInv'
<1>1. UNCHANGED <<loopVars, sessionVars, channel, outVars, clearVars, mutex>>
  BY DEF Incoming, InStart, InCancelled, InFails, InExpires, InRemoves, InWaits,
         InRemovesLater, InFrame, mapVars
<1>2. \E w \in {"Recv", "Removing", "TimedOut", "Done"} :
         incoming' = [incoming EXCEPT ![t] = w]
  BY DEF Incoming, InStart, InCancelled, InFails, InExpires, InRemoves, InWaits,
         InRemovesLater
<1>3. incoming' \in [Session -> {"New", "Recv", "Removing", "TimedOut", "Done"}]
  BY <1>2 DEF IInv, TypeOK
<1>4. Made(t)
  <2>1. incoming[t] # "New" => Made(t)
    BY DEF IInv, RunningMade
  <2> QED BY <2>1
          DEF Incoming, InStart, InCancelled, InFails, InExpires, InRemoves,
              InWaits, InRemovesLater, Cancelled
<1>5. RunningMade'
  <2>1. incoming \in [Session -> {"New", "Recv", "Removing", "TimedOut", "Done"}]
    BY DEF IInv, TypeOK
  <2>2. \A u \in Session : u # t => incoming'[u] = incoming[u]
    BY <1>2, <2>1
  <2>3. made' = made
    BY <1>1 DEF sessionVars
  <2> QED BY <1>4, <2>2, <2>3 DEF IInv, RunningMade, Made
<1>6. CASE UNCHANGED sessions
  <2>1. TypeOK'
    BY <1>1, <1>3, <1>6 DEF IInv, TypeOK, loopVars, sessionVars, outVars, clearVars
  <2>2. UNCHANGED <<loopVars, mapVars, sessionVars, clear>>
    BY <1>1, <1>6 DEF clearVars, mapVars
  <2> QED BY <1>5, <2>1, <2>2, QuietStep DEF IInv
<1>7. CASE Free /\ sessions' = WithoutEntry(source[t])
  <2>1. source[t] \in Src
    BY DEF IInv, TypeOK
  <2>2. sessions' \in [Src -> 0 .. made] /\ EntryYoungest'
    BY <1>1, <1>7, <2>1, WithoutEntryFacts DEF WithoutEntry, sessionVars
  <2>3. TypeOK'
    BY <1>1, <1>3, <2>2 DEF IInv, TypeOK, loopVars, sessionVars, outVars, clearVars
  <2>4. handler # "Sending"
    BY <1>7 DEF IInv, MutexHolders, Free
  <2>5. WaitingEntryStays'
    BY <1>1, <2>4, Zenon DEF WaitingEntryStays, loopVars
  <2>6. MutexHolders' /\ RoomForSession'
    BY <1>1, Zenon DEF IInv, MutexHolders, RoomForSession, loopVars, sessionVars,
                       clearVars
  <2> QED BY <1>5, <2>2, <2>3, <2>5, <2>6 DEF IInv
<1>8. UNCHANGED sessions \/ (Free /\ sessions' = WithoutEntry(source[t]))
  BY DEF Incoming, InStart, InCancelled, InFails, InExpires, InRemoves, InWaits,
         InRemovesLater, mapVars
<1> QED BY <1>6, <1>7, <1>8
-----------------------------------------------------------------------------
(* clear_fut.                                                              *)

(* Notifications, messages and the end of the monitor move counters, the   *)
(* mark that the channel is closed, and clear_fut outside the mutex.       *)
LEMMA CountersKeepInvariant ==
  ASSUME IInv,
         \/ Notify \/ MonitorEnds \/ DnsTakesClear
         \/ ClearNotified \/ ClearLagged \/ ClearClosed
  PROVE  IInv'
<1>1. UNCHANGED <<loopVars, mapVars, sessionVars, channel, outVars, incoming>>
  BY DEF Notify, MonitorEnds, DnsTakesClear, ClearNotified, ClearLagged,
         ClearClosed, ClearFrame
<1>2. /\ clear' = clear \/ (clear' \in {"Lock", "Recv", "Ended"})
      /\ unseen' \in 0 .. 2 /\ notified' \in 0 .. MaxNotify
      /\ closed' \in BOOLEAN /\ dns_clear' \in 0 .. DnsChannelSize
  <2>1. /\ unseen \in 0 .. 2 /\ notified \in 0 .. MaxNotify
        /\ closed \in BOOLEAN /\ dns_clear \in 0 .. DnsChannelSize
    BY DEF IInv, TypeOK
  <2>2. CASE Notify
    BY <2>1, <2>2, SizeAssumption DEF Notify
  <2>3. CASE DnsTakesClear
    BY <2>1, <2>3, SizeAssumption DEF DnsTakesClear, ClearFrame
  <2>4. CASE ClearNotified \/ ClearLagged \/ ClearClosed
    BY <2>1, <2>4
       DEF ClearNotified, ClearLagged, ClearClosed, ClearFrame, AfterLagged
  <2>5. CASE MonitorEnds
    BY <2>1, <2>5 DEF MonitorEnds
  <2> QED BY <2>2, <2>3, <2>4, <2>5
<1>3. TypeOK'
  BY <1>1, <1>2 DEF IInv, TypeOK, loopVars, mapVars, sessionVars, outVars
<1>4. clear' = "Tell" => clear = "Tell"
  BY <1>2
<1>5. WaitingEntryStays' /\ MutexHolders'
  BY <1>1, <1>4, Zenon
     DEF IInv, WaitingEntryStays, MutexHolders, Entry, loopVars, mapVars
<1>6. RoomForSession' /\ EntryYoungest' /\ RunningMade'
  BY <1>1, Zenon
     DEF IInv, RoomForSession, EntryYoungest, RunningMade, Made, loopVars,
         mapVars, sessionVars
<1> QED BY <1>3, <1>5, <1>6 DEF IInv

(* The clear begins with the mutex free ...                                *)
LEMMA ClearSessionsKeepsInvariant ==
  ASSUME IInv, ClearSessions
  PROVE  IInv'
<1>1. /\ mutex = "none" /\ mutex' = "clear" /\ clear' = "Tell"
      /\ sessions' = [s \in Src |-> None]
      /\ UNCHANGED <<loopVars, sessionVars, channel, outVars, incoming, notified,
                     unseen, closed, dns_clear>>
  BY DEF ClearSessions, ClearFrame, Free
<1>2. sessions' \in [Src -> 0 .. made]
  <2>1. None \in 0 .. made
    BY PacketFacts DEF IInv, None
  <2> QED BY <1>1, <2>1
<1>3. TypeOK'
  BY <1>1, <1>2 DEF IInv, TypeOK, loopVars, sessionVars, outVars
<1>4. handler # "Sending"
  BY <1>1 DEF IInv, MutexHolders
<1>5. WaitingEntryStays' /\ MutexHolders' /\ RoomForSession'
  BY <1>1, <1>4, Zenon
     DEF IInv, WaitingEntryStays, MutexHolders, RoomForSession, loopVars,
         sessionVars
<1>6. EntryYoungest'
  <2>1. \A t \in Session : source'[t] \in Src
    BY <1>3 DEF TypeOK
  <2> QED BY <1>1, <2>1 DEF EntryYoungest
<1>7. RunningMade'
  BY <1>1, Zenon DEF IInv, RunningMade, Made, sessionVars
<1> QED BY <1>3, <1>5, <1>6, <1>7 DEF IInv

(* ... and gives it back when the DNS proxy has been told.                 *)
LEMMA ClearTellsDnsKeepsInvariant ==
  ASSUME IInv, ClearTellsDns
  PROVE  IInv'
<1>1. /\ clear = "Tell" /\ mutex' = "none" /\ clear' = "Recv"
      /\ UNCHANGED <<loopVars, sessions, sessionVars, channel, outVars, incoming,
                     notified, unseen, closed>>
  BY DEF ClearTellsDns, ClearFrame, MutexAfterClear
<1>2. dns_clear' \in 0 .. DnsChannelSize
  <2>1. dns_clear \in 0 .. DnsChannelSize
    BY DEF IInv, TypeOK
  <2> QED BY <2>1, SizeAssumption DEF ClearTellsDns
<1>3. TypeOK'
  BY <1>1, <1>2 DEF IInv, TypeOK, loopVars, sessionVars, outVars
<1>4. handler # "Sending" /\ clear' # "Tell"
  BY <1>1 DEF IInv, MutexHolders
<1>5. WaitingEntryStays' /\ MutexHolders' /\ RoomForSession'
  BY <1>1, <1>4, Zenon
     DEF IInv, WaitingEntryStays, MutexHolders, RoomForSession, loopVars,
         sessionVars
<1>6. EntryYoungest' /\ RunningMade'
  BY <1>1, Zenon DEF IInv, EntryYoungest, RunningMade, Made, sessionVars
<1> QED BY <1>3, <1>5, <1>6 DEF IInv

(* Every step of the UDP handler keeps the invariant.                      *)
LEMMA NextInvariant == IInv /\ [Next]_vars => IInv'
<1> SUFFICES ASSUME IInv, [Next]_vars PROVE IInv'
  OBVIOUS
<1>1. CASE Loop
  BY <1>1, DnsKeepsInvariant, DataPacketKeepsInvariant, ForwardKeepsInvariant,
     ForwardWaitsKeepsInvariant, ForwardFailsKeepsInvariant,
     NewSessionKeepsInvariant, PanicKeepsInvariant, Zenon DEF Loop
<1>2. CASE (\E t \in Session : Outgoing(t)) \/ (\E t \in Session : Incoming(t))
  BY <1>2, OutgoingKeepsInvariant, IncomingKeepsInvariant, Zenon
<1>3. CASE Notify \/ MonitorEnds \/ Clear \/ DnsTakesClear
  BY <1>3, CountersKeepInvariant, ClearSessionsKeepsInvariant,
     ClearTellsDnsKeepsInvariant, Zenon DEF Clear
<1>4. CASE UNCHANGED vars
  <2>1. UNCHANGED <<loopVars, mapVars, sessionVars, clear>>
    BY <1>4 DEF vars, clearVars
  <2>2. RunningMade'
    BY <1>4, Zenon DEF IInv, RunningMade, Made, vars, sessionVars
  <2>3. TypeOK'
    BY <1>4 DEF IInv, TypeOK, vars, loopVars, mapVars, sessionVars, outVars,
                clearVars
  <2> QED BY <2>1, <2>2, <2>3, QuietStep DEF IInv
<1> QED BY <1>1, <1>2, <1>3, <1>4, Zenon DEF Next

(* The invariant holds in every state the UDP handler can be in.           *)
THEOREM Invariance == Spec => []IInv
  BY InitInvariant, NextInvariant, PTL DEF Spec
-----------------------------------------------------------------------------
(* Types, and the bound on every session's channel.                        *)
THEOREM TypeCorrect == Spec => []TypeOK
<1>1. IInv => TypeOK
  BY DEF IInv
<1> QED BY <1>1, Invariance, PTL

(* The session whose channel the loop waits on, holding the mutex, stays   *)
(* in the map: neither forward_to_incoming nor clear_fut takes it away.    *)
THEOREM WaitedEntryStays == Spec => []WaitingEntryStays
<1>1. IInv => WaitingEntryStays
  BY DEF IInv
<1> QED BY <1>1, Invariance, PTL

-----------------------------------------------------------------------------
(* Why an entry leaves the map.                                            *)

(* forward_to_incoming removes by address.  What it then removes is its    *)
(* own session or a younger one: never an older one.                       *)
LEMMA RemovalHasReason ==
  ASSUME IInv, NEW u \in Session, InRemoves(u) \/ InRemovesLater(u), NEW s \in Src
  PROVE  LossHasReason(s)
<1> DEFINE t == sessions[s]
<1> SUFFICES ASSUME t # None, sessions'[s] # t
             PROVE  /\ sessions'[s] = None
                    /\ \/ InRemoves(t) \/ InRemovesLater(t)
                       \/ \E v \in 1 .. t - 1 : source[v] = s /\ InRemoves(v)
  BY DEF LossHasReason
<1>1. sessions' = [sessions EXCEPT ![source[u]] = None]
  BY DEF InRemoves, InRemovesLater, WithoutEntry
<1>2. sessions \in [Src -> 0 .. made] /\ source[u] \in Src
  BY DEF IInv, TypeOK
<1>3. s = source[u] /\ sessions'[s] = None
  BY <1>1, <1>2
<1>4. Made(u)
  BY DEF IInv, RunningMade, InRemoves, InRemovesLater
<1>5. t >= u /\ t \in Nat /\ u \in Nat /\ u >= 1
  BY <1>2, <1>3, <1>4, PacketFacts DEF IInv, EntryYoungest, None, Session
<1> HIDE DEF t
<1>6. CASE u = t
  BY <1>3, <1>6
<1>7. CASE u # t /\ InRemoves(u)
  <2>1. u \in 1 .. t - 1
    BY <1>5, <1>7
  <2> QED BY <1>3, <1>7, <2>1
<1>8. CASE u # t /\ InRemovesLater(u)
  BY <1>3, <1>4, <1>8 DEF InRemovesLater, Cancelled, t
<1> QED BY <1>3, <1>6, <1>7, <1>8

(* Every step that takes an entry away has one of the reasons.             *)
LEMMA StepLossHasReason ==
  ASSUME IInv, [Next]_vars, NEW s \in Src
  PROVE  LossHasReason(s)
<1>1. CASE UNCHANGED sessions
  BY <1>1 DEF LossHasReason
<1>2. CASE ForwardFails
  <2>1. sessions \in [Src -> 0 .. made] /\ packet.src \in Src
    BY PacketFacts DEF IInv, TypeOK
  <2>2. /\ sessions' = [sessions EXCEPT ![packet.src] = None]
        /\ outgoing[sessions[packet.src]] = "Done"
    BY <1>2 DEF ForwardFails, Entry, ChannelClosed
  <2>3. CASE s = packet.src
    BY <2>1, <2>2, <2>3 DEF LossHasReason
  <2>4. CASE s # packet.src
    BY <2>1, <2>2, <2>4 DEF LossHasReason
  <2> QED BY <2>3, <2>4
<1>3. CASE NewSession
  <2>1. sessions \in [Src -> 0 .. made] /\ packet.src \in Src
    BY PacketFacts DEF IInv, TypeOK
  <2>2. /\ sessions' = [sessions EXCEPT ![packet.src] = made + 1]
        /\ sessions[packet.src] = None
    BY <1>3 DEF NewSession, Entry
  <2>3. sessions[s] # None => sessions'[s] = sessions[s]
    BY <2>1, <2>2
  <2> QED BY <2>3 DEF LossHasReason
<1>4. CASE ClearSessions
  <2>1. sessions'[s] = None
    BY <1>4 DEF ClearSessions
  <2> QED BY <1>4, <2>1 DEF LossHasReason
<1>5. CASE \E u \in Session : InRemoves(u) \/ InRemovesLater(u)
  BY <1>5, RemovalHasReason
<1>6. \/ UNCHANGED sessions \/ ForwardFails \/ NewSession \/ ClearSessions
      \/ \E u \in Session : InRemoves(u) \/ InRemovesLater(u)
  <2>1. CASE Loop
    BY <2>1 DEF Loop, DnsPacket, DnsSent, DnsAnswered, TunnelEnds, DataPacket,
                Forward, ForwardWaits, ForwardResumes, NewSessionPanics, mapVars
  <2>2. CASE \E t \in Session : Outgoing(t)
    BY <2>2 DEF Outgoing, OutTake, OutEnds, OutSend, OutFails, OutFrame, mapVars
  <2>3. CASE \E t \in Session : Incoming(t)
    BY <2>3 DEF Incoming, InStart, InCancelled, InFails, InExpires, InWaits, mapVars
  <2>4. CASE Notify \/ MonitorEnds \/ Clear \/ DnsTakesClear \/ UNCHANGED vars
    BY <2>4 DEF Notify, MonitorEnds, Clear, ClearNotified, ClearLagged,
                ClearClosed, ClearTellsDns, DnsTakesClear, vars, mapVars
  <2> QED BY <2>1, <2>2, <2>3, <2>4, Zenon DEF Next
<1> QED BY <1>1, <1>2, <1>3, <1>4, <1>5, <1>6, Zenon

(* An entry is lost only to a clear, to its own timeout, to the death of   *)
(* its outgoing task, or to an older task of its source that was past its  *)
(* last look at the cancellation flag.                                     *)
THEOREM LossesHaveReasons == Spec => EntryLossReasons
<1>1. IInv /\ [Next]_vars => [\A s \in Src : LossHasReason(s)]_vars
  BY StepLossHasReason
<1> QED BY <1>1, Invariance, PTL DEF Spec, EntryLossReasons
=============================================================================
