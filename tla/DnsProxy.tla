------------------------------ MODULE DnsProxy ------------------------------
(***************************************************************************)
(* The DNS forwarder of crates/tun/src/dns_proxy.rs.                       *)
(*                                                                         *)
(* DnsProxy::send spreads the client queries round-robin over max_upstream *)
(* slots.  A slot in use has an upstream: a socket, a SendFut task that    *)
(* gives each query a fresh 16-bit id, writes it out and only then records *)
(* the session, and a RecvFut task that looks the session of a response up *)
(* by id and returns the answer to the client.  A cleaner removes old      *)
(* sessions, and a clear task empties all slots when the network changes.  *)
(*                                                                         *)
(* A query stands for its peer, its original id and its message.  The      *)
(* sessions mutex is never held across an await, so a step under it is one *)
(* action; the upstream mutex is held while a TCP connect is awaited, and  *)
(* that is the handler state "Connecting".                                 *)
(***************************************************************************)
EXTENDS Integers, Sequences, FiniteSets

CONSTANTS
  MaxQuery,      \* bound: how many queries the clients send
  MaxClear,      \* bound: how many network changes are notified
  MaxStart,      \* bound: how many upstreams are started
  max_upstream,  \* slots
  IdSpace,       \* 2^16 in the code
  PortSpace,     \* 2^16 in the code
  FirstPort,     \* DNS_PROXY_LISTEN_PORT
  Protos         \* the values of DNS_UPSTREAM_PROTO that are considered

ASSUME BoundsAssumption ==
  /\ MaxQuery \in Nat /\ MaxClear \in Nat /\ MaxStart \in Nat
  /\ max_upstream \in Nat \ {0}
  /\ IdSpace \in Nat \ {0}
  /\ PortSpace \in Nat \ {0} /\ FirstPort \in 1 .. PortSpace - 1
  /\ Protos \subseteq {"Udp", "Tcp"}

Query == 1 .. MaxQuery
Slot == 0 .. max_upstream - 1
Upstream == 1 .. MaxStart
None == 0

VARIABLES
  proto,       \* DNS_UPSTREAM_PROTO
  handler,     \* the task that calls DnsProxy::send
  received,    \* how many queries it has taken, the last one being received
  idx,         \* DnsProxy.idx
  listen_port, \* DnsProxy.dns_listen_port
  slot,        \* DnsProxy.upstream: slot -> upstream or None
  started,     \* how many upstreams have been started
  port,        \* upstream -> the port its UDP socket is bound to
  rx,          \* upstream -> its channel of queries
  running,     \* upstream -> its UpstreamSender has not been dropped
  send,        \* upstream -> state of SendFut
  session,     \* upstream -> SendFut.session
  recv,        \* upstream -> state of RecvFut
  msg,         \* upstream -> RecvFut.msg
  deaf,        \* upstream -> the wake of its UpstreamSender's drop was lost
  wire,        \* upstream -> requests whose response may still be read
  serial,      \* DnsProxy.id, without the wrap to 16 bits
  number,      \* query -> the serial it was given, 0 before
  sessions,    \* id -> query or None
  expired,     \* sessions of serials up to this one have timed out
  cleaner,     \* the session_clear task has been spawned
  clears,      \* notifications in dns_clear_rx
  notified,    \* how many there have been
  taken        \* history: query -> responses its session was removed for

handlerVars == <<handler, received, idx, listen_port>>
upstreamVars == <<slot, started, port, running>>
sendVars == <<rx, send, session, serial, number>>
recvVars == <<recv, msg, deaf, taken>>
timeVars == <<expired, cleaner>>
clearVars == <<clears, notified>>
vars == <<proto, handlerVars, upstreamVars, sendVars, recvVars, wire,
          sessions, timeVars, clearVars>>
-----------------------------------------------------------------------------
Id(n) == n % IdSpace

Started(u) == u <= started

(* The socket is shared by SendFut and RecvFut; the last one closes it.    *)
SocketOpen(u) == Started(u) /\ (send[u] # "Done" \/ recv[u] # "Done")

(* `timeout` has passed since SendFut took the query.                      *)
FaultAllOld(q) == TRUE
Old(q) == number[q] <= expired

(* The first upstream id is 1, and fetch_add returns the value before.     *)
FaultIdNotAdvanced(n) == n
FaultIdAdvancedTwice(n) == n + 2
AfterFetchAdd(n) == n + 1

(* `*dns_listen_port += 1` on a u16.                                        *)
FaultPortNotWrittenBack(p) == p
NextPort(p) == (p + 1) % PortSpace
Overflows(p) == p + 1 = PortSpace

(* sessions.remove(&msg_id).                                               *)
FaultGetOnly(i) == sessions
SessionsWithout(i) == [sessions EXCEPT ![i] = None]

Init ==
  /\ proto \in Protos
  /\ handler = "Idle" /\ received = 0 /\ idx = 0 /\ listen_port = FirstPort
  /\ slot = [s \in Slot |-> None]
  /\ started = 0
  /\ port = [u \in Upstream |-> 0]
  /\ rx = [u \in Upstream |-> <<>>]
  /\ running = [u \in Upstream |-> FALSE]
  /\ send = [u \in Upstream |-> "Begin"]
  /\ session = [u \in Upstream |-> None]
  /\ recv = [u \in Upstream |-> "New"]
  /\ msg = [u \in Upstream |-> None]
  /\ deaf = [u \in Upstream |-> FALSE]
  /\ wire = [u \in Upstream |-> {}]
  /\ serial = 1
  /\ number = [q \in Query |-> 0]
  /\ sessions = [i \in 0 .. IdSpace - 1 |-> None]
  /\ expired = 0 /\ cleaner = FALSE
  /\ clears = 0 /\ notified = 0
  /\ taken = [q \in Query |-> <<>>]
-----------------------------------------------------------------------------
(* DnsProxy::send.                                                         *)

(* A new query: pick the slot, spawn the cleaner the first time.           *)
FaultCleanerForgotten == cleaner
SpawnCleaner == TRUE

Take ==
  /\ handler = "Idle"
  /\ received < MaxQuery
  /\ received' = received + 1
  /\ idx' = idx + 1
  /\ cleaner' = SpawnCleaner

Chosen == idx % max_upstream
Accepts(s) == slot[s] # None /\ send[slot[s]] # "Done"
NeedsStart(s) == started < MaxStart /\ ~Accepts(s)

(* The slot has an upstream whose SendFut still holds the receiver.        *)
Enqueue ==
  /\ Take
  /\ Accepts(Chosen)
  /\ rx' = [rx EXCEPT ![slot[Chosen]] = Append(@, received + 1)]
  /\ UNCHANGED <<proto, handler, listen_port, upstreamVars, send, session,
                 serial, number, recvVars, wire, sessions, expired, clearVars>>

(* The end of start_upstream: the query goes into the new channel, the     *)
(* sender into the slot (dropping the one that was there) and both tasks   *)
(* are spawned.                                                            *)
Dropped(old) == IF old = None THEN running ELSE [running EXCEPT ![old] = FALSE]

Install(s, q) ==
  LET u == started + 1 IN
  /\ started' = u
  /\ running' = [Dropped(slot[s]) EXCEPT ![u] = TRUE]
  /\ slot' = [slot EXCEPT ![s] = u]
  /\ rx' = [rx EXCEPT ![u] = <<q>>]
  /\ UNCHANGED <<proto, send, session, serial, number, recvVars, wire,
                 sessions, expired, clearVars>>

(* start_upstream over UDP: bind the next port; for port 0 the system      *)
(* picks a free one.  The bind is unwrapped, so a port still in use, or    *)
(* any other failure, is a panic of the handler.                           *)
PortInUse(p) == \E u \in Upstream : SocketOpen(u) /\ port[u] = p
Bound(p) == IF p = 0 THEN 1 .. PortSpace - 1 ELSE {p}

StartUdp ==
  /\ proto = "Udp"
  /\ Take
  /\ NeedsStart(Chosen)
  /\ \E p \in Bound(listen_port) :
       ~PortInUse(p) /\ port' = [port EXCEPT ![started + 1] = p]
  /\ Install(Chosen, received + 1)
  /\ listen_port' = NextPort(listen_port)
  /\ UNCHANGED handler

BindFails ==
  /\ proto = "Udp"
  /\ Take
  /\ NeedsStart(Chosen)
  /\ handler' = IF PortInUse(listen_port) THEN "PortInUse" ELSE "BindFailed"
  /\ UNCHANGED <<proto, listen_port, upstreamVars, sendVars, recvVars, wire,
                 sessions, expired, clearVars>>

(* With overflow checks the increment of the last port is a panic too.     *)
PortOverflows ==
  /\ proto = "Udp"
  /\ Take
  /\ NeedsStart(Chosen)
  /\ ~PortInUse(listen_port) /\ Overflows(listen_port)
  /\ handler' = "Overflow"
  /\ UNCHANGED <<proto, listen_port, upstreamVars, sendVars, recvVars, wire,
                 sessions, expired, clearVars>>

(* start_upstream over TCP: connect while holding the upstream mutex ...   *)
Connect ==
  /\ proto = "Tcp"
  /\ Take
  /\ NeedsStart(Chosen)
  /\ handler' = "Connecting"
  /\ UNCHANGED <<proto, listen_port, upstreamVars, sendVars, recvVars, wire,
                 sessions, expired, clearVars>>

(* ... until it is connected ...                                           *)
Connected ==
  /\ handler = "Connecting"
  /\ handler' = "Idle"
  /\ Install((idx - 1) % max_upstream, received)
  /\ UNCHANGED <<received, idx, listen_port, port, cleaner>>

(* ... or the connect fails or times out, and the query is dropped.        *)
ConnectFails ==
  /\ handler = "Connecting"
  /\ handler' = "Idle"
  /\ UNCHANGED <<proto, received, idx, listen_port, upstreamVars, sendVars,
                 recvVars, wire, sessions, timeVars, clearVars>>
-----------------------------------------------------------------------------
(* SendFut.                                                                *)
SendUnchanged == UNCHANGED <<proto, handlerVars, upstreamVars, recvVars,
                             timeVars, clearVars>>

(* Begin: take a query and give it the next id.  A message that cannot be  *)
(* encoded or framed uses its id up, and the loop goes on.                 *)
TakeQuery(u, encoded) ==
  /\ Started(u) /\ send[u] = "Begin" /\ rx[u] # <<>>
  /\ rx' = [rx EXCEPT ![u] = Tail(@)]
  /\ session' = [session EXCEPT ![u] = Head(rx[u])]
  /\ number' = [number EXCEPT ![Head(rx[u])] = serial]
  /\ serial' = AfterFetchAdd(serial)
  /\ send' = [send EXCEPT ![u] = IF encoded THEN "Send" ELSE "Begin"]
  /\ UNCHANGED <<wire, sessions>>
  /\ SendUnchanged

(* Begin: the channel is drained and its sender is gone.                   *)
SendFutEnds(u) ==
  /\ Started(u) /\ send[u] = "Begin" /\ rx[u] = <<>> /\ ~running[u]
  /\ send' = [send EXCEPT ![u] = "Done"]
  /\ UNCHANGED <<rx, session, serial, number, wire, sessions>>
  /\ SendUnchanged

(* Send: the whole message has left; next is the sessions lock.            *)
WriteAll(u) ==
  /\ send[u] = "Send"
  /\ send' = [send EXCEPT ![u] = "SessionsLock"]
  /\ wire' = IF recv[u] = "Done" THEN wire
             ELSE [wire EXCEPT ![u] = @ \cup {session[u]}]
  /\ UNCHANGED <<rx, session, serial, number, sessions>>
  /\ SendUnchanged

(* Send over TCP: a part was written and poll returns Pending, with no     *)
(* waker registered for the rest.                                          *)
WritePart(u) ==
  /\ proto = "Tcp" /\ send[u] = "Send"
  /\ send' = [send EXCEPT ![u] = "Stalled"]
  /\ UNCHANGED <<rx, session, serial, number, wire, sessions>>
  /\ SendUnchanged

(* Only a waker that poll_recv happened to leave behind resumes it, when   *)
(* the next query arrives or the channel closes.                           *)
WriteResumes(u) ==
  /\ send[u] = "Stalled" /\ (rx[u] # <<>> \/ ~running[u])
  /\ send' = [send EXCEPT ![u] = "Send"]
  /\ UNCHANGED <<rx, session, serial, number, wire, sessions>>
  /\ SendUnchanged

(* Send: an I/O error ends the task; queries still in its channel go too.  *)
WriteFails(u) ==
  /\ send[u] = "Send"
  /\ send' = [send EXCEPT ![u] = "Done"]
  /\ rx' = [rx EXCEPT ![u] = <<>>]
  /\ session' = [session EXCEPT ![u] = None]
  /\ UNCHANGED <<serial, number, wire, sessions>>
  /\ SendUnchanged

(* SessionsLock: record the session.                                       *)
InsertSession(u) ==
  /\ send[u] = "SessionsLock"
  /\ sessions' = [sessions EXCEPT ![Id(number[session[u]])] = session[u]]
  /\ session' = [session EXCEPT ![u] = None]
  /\ send' = [send EXCEPT ![u] = "Begin"]
  /\ UNCHANGED <<rx, serial, number, wire>>
  /\ SendUnchanged
-----------------------------------------------------------------------------
(* RecvFut.  Each turn of its loop starts with the check of running.       *)
RecvUnchanged == UNCHANGED <<proto, handlerVars, upstreamVars, sendVars,
                             timeVars, clearVars>>

(* The task ends; nobody reads the socket or the message any more.         *)
RecvEnds(u) ==
  /\ recv' = [recv EXCEPT ![u] = "Done"]
  /\ msg' = [msg EXCEPT ![u] = None]
  /\ deaf' = [deaf EXCEPT ![u] = FALSE]
  /\ wire' = [wire EXCEPT ![u] = {}]

(* The first turn: the flag is read before the waker is registered for the *)
(* first time, so these are two steps.                                     *)
CheckRunning(u) ==
  /\ Started(u) /\ recv[u] = "New"
  /\ IF running[u]
     THEN recv' = [recv EXCEPT ![u] = "Checked"] /\ UNCHANGED <<msg, deaf, wire>>
     ELSE RecvEnds(u)
  /\ UNCHANGED <<taken, sessions>>
  /\ RecvUnchanged

(* A drop in between woke nobody.  Over UDP RecvFut then parks on the      *)
(* socket alone; over TCP Begin only moves to TcpHeader, and the loop      *)
(* comes round to the flag before it reads.                                *)
RegisterWaker(u) ==
  /\ recv[u] = "Checked"
  /\ recv' = [recv EXCEPT ![u] = "Begin"]
  /\ deaf' = [deaf EXCEPT ![u] = proto = "Udp" /\ ~running[u]]
  /\ UNCHANGED <<msg, taken, wire, sessions>>
  /\ RecvUnchanged

(* Woken by the drop, the loop sees the flag and ends.                     *)
FaultDropDoesNotWake(u) == FALSE
WokenByDrop(u) == ~running[u] /\ ~deaf[u]

RecvFutEnds(u) ==
  /\ recv[u] \in {"Begin", "SessionsLock", "Stalled"}
  /\ WokenByDrop(u)
  /\ RecvEnds(u)
  /\ UNCHANGED <<taken, sessions>>
  /\ RecvUnchanged

(* Begin (with TcpHeader and TcpBody): a response to q arrives.  The       *)
(* network may delay, drop and reorder responses, and duplicate datagrams. *)
Receive(u, q) ==
  /\ recv[u] = "Begin" /\ running[u]
  /\ q \in wire[u]
  /\ recv' = [recv EXCEPT ![u] = "SessionsLock"]
  /\ msg' = [msg EXCEPT ![u] = q]
  /\ wire' = IF proto = "Tcp" THEN [wire EXCEPT ![u] = @ \ {q}] ELSE wire
  /\ UNCHANGED <<deaf, taken, sessions>>
  /\ RecvUnchanged

(* A packet also ends a RecvFut that missed its drop: after it the loop    *)
(* comes round to the flag.                                                *)
ReceiveAfterDrop(u, q) ==
  /\ recv[u] = "Begin" /\ deaf[u]
  /\ q \in wire[u]
  /\ RecvEnds(u)
  /\ UNCHANGED <<taken, sessions>>
  /\ RecvUnchanged

(* TcpHeader, TcpBody: a part was read and poll returns Pending with no    *)
(* waker registered on the socket; only the drop wakes the task again.     *)
ReceivePart(u, q) ==
  /\ proto = "Tcp" /\ recv[u] = "Begin"
  /\ q \in wire[u]
  /\ recv' = [recv EXCEPT ![u] = "Stalled"]
  /\ wire' = [wire EXCEPT ![u] = @ \ {q}]
  /\ UNCHANGED <<msg, deaf, taken, sessions>>
  /\ RecvUnchanged

(* An I/O error, or the peer closing a TCP upstream, ends the task while   *)
(* SendFut goes on.                                                        *)
ReceiveFails(u) ==
  /\ recv[u] = "Begin"
  /\ RecvEnds(u)
  /\ UNCHANGED <<taken, sessions>>
  /\ RecvUnchanged

(* SessionsLock: the session found under the response's id is removed.     *)
(* Its answer is sent, or could not be encoded (both go on with Begin), or *)
(* the unwrap on the tun sink panics and ends the task.                    *)
Deliver(u, sinkOpen) ==
  LET i == Id(number[msg[u]])
      q == sessions[i]
  IN
  /\ recv[u] = "SessionsLock" /\ running[u]
  /\ q # None
  /\ sessions' = SessionsWithout(i)
  /\ taken' = [taken EXCEPT ![q] = Append(@, msg[u])]
  /\ IF sinkOpen
     THEN /\ recv' = [recv EXCEPT ![u] = "Begin"]
          /\ msg' = [msg EXCEPT ![u] = None]
          /\ UNCHANGED <<deaf, wire>>
     ELSE RecvEnds(u)
  /\ RecvUnchanged

(* SessionsLock: no session has that id, and the response is discarded.    *)
Discard(u) ==
  /\ recv[u] = "SessionsLock" /\ running[u]
  /\ sessions[Id(number[msg[u]])] = None
  /\ msg' = [msg EXCEPT ![u] = None]
  /\ recv' = [recv EXCEPT ![u] = "Begin"]
  /\ UNCHANGED <<deaf, taken, wire, sessions>>
  /\ RecvUnchanged
-----------------------------------------------------------------------------
(* Time passes: the sessions of some more serials become old.              *)
TimePasses ==
  /\ expired < serial - 1
  /\ expired' \in expired + 1 .. serial - 1
  /\ UNCHANGED <<proto, handlerVars, upstreamVars, sendVars, recvVars, wire,
                 sessions, cleaner, clearVars>>

(* One round of the session_clear loop.                                    *)
RemoveOld(m) ==
  [i \in DOMAIN m |-> IF m[i] # None /\ Old(m[i]) THEN None ELSE m[i]]

CleanSessions ==
  /\ cleaner
  /\ RemoveOld(sessions) # sessions
  /\ sessions' = RemoveOld(sessions)
  /\ UNCHANGED <<proto, handlerVars, upstreamVars, sendVars, recvVars, wire,
                 timeVars, clearVars>>

(* UdpHandle notifies a network change (external to dns_proxy.rs).         *)
NotifyClear ==
  /\ notified < MaxClear
  /\ notified' = notified + 1
  /\ clears' = clears + 1
  /\ UNCHANGED <<proto, handlerVars, upstreamVars, sendVars, recvVars, wire,
                 sessions, timeVars>>

(* The clear task takes the upstream lock and drops every UpstreamSender.  *)
FaultFirstSlotOnly(s) == s = 0
Released(s) == slot[s] # None

ClearUpstreams ==
  /\ clears > 0 /\ handler # "Connecting"
  /\ clears' = clears - 1
  /\ running' = [u \in Upstream |->
       running[u] /\ ~\E s \in Slot : slot[s] = u /\ Released(s)]
  /\ slot' = [s \in Slot |-> IF Released(s) THEN None ELSE slot[s]]
  /\ UNCHANGED <<proto, handlerVars, started, port, sendVars, recvVars, wire,
                 sessions, timeVars, notified>>
-----------------------------------------------------------------------------
Send == Enqueue \/ StartUdp \/ BindFails \/ PortOverflows \/ Connect

SendFut(u) ==
  \/ \E encoded \in BOOLEAN : TakeQuery(u, encoded)
  \/ SendFutEnds(u)
  \/ WriteAll(u)
  \/ WritePart(u)
  \/ WriteResumes(u)
  \/ WriteFails(u)
  \/ InsertSession(u)

RecvFut(u) ==
  \/ CheckRunning(u)
  \/ RegisterWaker(u)
  \/ RecvFutEnds(u)
  \/ \E q \in Query : Receive(u, q)
  \/ \E q \in Query : ReceiveAfterDrop(u, q)
  \/ \E q \in Query : ReceivePart(u, q)
  \/ ReceiveFails(u)
  \/ \E sinkOpen \in BOOLEAN : Deliver(u, sinkOpen)
  \/ Discard(u)

Next ==
  \/ Send
  \/ Connected
  \/ ConnectFails
  \/ \E u \in Upstream : SendFut(u)
  \/ \E u \in Upstream : RecvFut(u)
  \/ TimePasses
  \/ CleanSessions
  \/ NotifyClear
  \/ ClearUpstreams

(* The runtime polls every task that is ready or has been woken; a connect *)
(* ends by its timeout at the latest; time passes.  Nothing is assumed of  *)
(* the clients, of the network or of a task that has no waker.             *)
Fairness ==
  /\ WF_vars(Connected \/ ConnectFails)
  /\ \A u \in Upstream :
       /\ WF_vars(\E encoded \in BOOLEAN : TakeQuery(u, encoded))
       /\ WF_vars(SendFutEnds(u))
       /\ WF_vars(WriteAll(u) \/ WritePart(u) \/ WriteFails(u))
       /\ WF_vars(InsertSession(u))
       /\ WF_vars(CheckRunning(u))
       /\ WF_vars(RegisterWaker(u))
       /\ WF_vars(RecvFutEnds(u))
       /\ WF_vars((\E sinkOpen \in BOOLEAN : Deliver(u, sinkOpen)) \/ Discard(u))
  /\ WF_vars(TimePasses)
  /\ WF_vars(CleanSessions)
  /\ WF_vars(ClearUpstreams)

Spec == Init /\ [][Next]_vars /\ Fairness
-----------------------------------------------------------------------------
(* Types, and one serial per query: fetch_add gives out at most as many    *)
(* ids as queries were taken from the channels.                            *)
TypeOK ==
  /\ proto \in Protos
  /\ handler \in {"Idle", "Connecting", "PortInUse", "BindFailed", "Overflow"}
  /\ received \in 0 .. MaxQuery /\ idx = received
  /\ listen_port \in 0 .. PortSpace - 1
  /\ slot \in [Slot -> Upstream \cup {None}]
  /\ started \in 0 .. MaxStart
  /\ port \in [Upstream -> 0 .. PortSpace - 1]
  /\ rx \in [Upstream -> Seq(Query)]
  /\ running \in [Upstream -> BOOLEAN]
  /\ send \in [Upstream -> {"Begin", "Send", "Stalled", "SessionsLock", "Done"}]
  /\ session \in [Upstream -> Query \cup {None}]
  /\ recv \in [Upstream ->
       {"New", "Checked", "Begin", "Stalled", "SessionsLock", "Done"}]
  /\ msg \in [Upstream -> Query \cup {None}]
  /\ deaf \in [Upstream -> BOOLEAN]
  /\ wire \in [Upstream -> SUBSET Query]
  /\ serial \in 1 .. MaxQuery + 1
  /\ number \in [Query -> 0 .. MaxQuery]
  /\ sessions \in [0 .. IdSpace - 1 -> Query \cup {None}]
  /\ expired \in 0 .. serial - 1
  /\ cleaner \in BOOLEAN
  /\ notified \in 0 .. MaxClear /\ clears \in 0 .. notified
  /\ taken \in [Query -> Seq(Query)]

(* A client gets at most one answer per query, however often the server or *)
(* the network repeats the response: RecvFut removes the session it uses.  *)
AtMostOneAnswer == \A q \in Query : Len(taken[q]) <= 1

(* A client is given the response to another query only if the ids have    *)
(* wrapped between the two: the AtomicU16 shared by all SendFuts keeps     *)
(* concurrent sessions apart until 2^16 ids later, across upstreams,       *)
(* restarts and late or repeated responses.                                *)
WrongAnswerOnlyAfterWrap ==
  \A q \in Query : \A k \in DOMAIN taken[q] :
    LET p == taken[q][k]
    IN p # q => /\ number[p] # number[q]
                /\ Id(number[p]) = Id(number[q])

(* The session of q is legitimately absent: used, timed out, or its id was *)
(* given to another query as well.                                         *)
SessionGone(q) ==
  \/ taken[q] # <<>>
  \/ number[q] <= expired
  \/ \E p \in Query \ {q} : number[p] # 0 /\ Id(number[p]) = Id(number[q])

(* q has been written to the socket but SendFut has not recorded it yet.   *)
NotYetRecorded(q) ==
  \E u \in Upstream : send[u] = "SessionsLock" /\ session[u] = q

(* RecvFut throws a response away only when its session was used, timed    *)
(* out or was overwritten after a wrap, or in the window between SendFut's *)
(* write and its insert.                                                   *)
DiscardJustified ==
  [][\A u \in Upstream :
       Discard(u) => SessionGone(msg[u]) \/ NotYetRecorded(msg[u])]_vars

(* The unwrap of the bind in start_upstream meets a port that an earlier   *)
(* upstream still holds only after the u16 counter has gone past its last  *)
(* value, although cleared upstreams close their sockets late or never.    *)
PortInUseOnlyAfterWrap ==
  handler = "PortInUse" => FirstPort + started >= PortSpace

InMap(q) == \E i \in DOMAIN sessions : sessions[i] = q

(* No session stays in the map for ever, answered or not: the cleaner that *)
(* the first send spawns removes it after its timeout.                     *)
SessionsDrain ==
  \A q \in Query : InMap(q) ~> ~InMap(q)

(* A clear reaches every upstream that is in a slot when it is notified,   *)
(* also when the handler holds the lock for a connect at that time.        *)
ClearReachesUpstreams ==
  \A u \in Upstream, s \in Slot :
    (clears > 0 /\ slot[s] = u) ~> ~running[u]

(* Both tasks of an upstream whose sender was dropped come to an end, so   *)
(* its socket is released ("release listener"), unless, over UDP, the drop *)
(* fell into RecvFut's first poll, or SendFut hangs on a partial write.    *)
DroppedUpstreamStops ==
  \A u \in Upstream :
    (Started(u) /\ ~running[u]) ~>
      /\ recv[u] = "Done" \/ deaf[u]
      /\ send[u] \in {"Done", "Stalled"}
=============================================================================
