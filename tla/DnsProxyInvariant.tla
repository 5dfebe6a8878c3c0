-------------------------- MODULE DnsProxyInvariant -------------------------
(***************************************************************************)
(* The inductive invariant of DnsProxy, and the proofs that the handler,   *)
(* RecvFut, the cleaner and the clear task keep it.  DnsProxyProofs has    *)
(* SendFut, which gives out the serials, and the theorems.                 *)
(***************************************************************************)
EXTENDS DnsProxy, TLAPS

(* A query taken by the handler and not yet given to a channel.            *)
Held ==
  {q \in Query : q > received \/ (q = received /\ handler = "Connecting")}

(* A query waits in one channel, at one place, and has no serial yet.      *)
Waiting ==
  /\ \A q \in Held : number[q] = 0
  /\ \A u \in Upstream : \A i \in 1 .. Len(rx[u]) :
       number[rx[u][i]] = 0 /\ rx[u][i] \notin Held
  /\ \A u, v \in Upstream : \A i \in 1 .. Len(rx[u]), j \in 1 .. Len(rx[v]) :
       rx[u][i] = rx[v][j] => u = v /\ i = j
  /\ \A u \in Upstream : ~Started(u) => rx[u] = <<>>

(* Serials are given out once, as many as there are queries with one.      *)
HasNumber == {q \in Query : number[q] # 0}

Numbered ==
  /\ Cardinality(HasNumber) = serial - 1
  /\ \A q \in Query : number[q] < serial
  /\ \A p, q \in Query : number[p] = number[q] /\ number[q] # 0 => p = q

(* SendFut holds a query that is nowhere else and has no answer.           *)
Active(u) == send[u] \in {"Send", "Stalled", "SessionsLock"}

Sending ==
  /\ \A u \in Upstream : Active(u) =>
       LET q == session[u] IN
       /\ Started(u) /\ q \in Query /\ number[q] # 0 /\ taken[q] = <<>>
       /\ \A i \in 0 .. IdSpace - 1 : sessions[i] # q
  /\ \A u, v \in Upstream :
       Active(u) /\ Active(v) /\ session[u] = session[v] => u = v

(* A session is recorded under the id of its query, which has no answer.   *)
Recorded ==
  \A i \in 0 .. IdSpace - 1 : sessions[i] # None =>
    LET q == sessions[i] IN number[q] # 0 /\ Id(number[q]) = i /\ taken[q] = <<>>

(* What is on the wire, or has been read, answers a query with a serial    *)
(* that is recorded, accounted for or about to be recorded.                *)
Accounted(q) ==
  /\ number[q] # 0
  /\ \/ sessions[Id(number[q])] = q
     \/ SessionGone(q)
     \/ NotYetRecorded(q)

Answering ==
  /\ \A u \in Upstream : \A q \in wire[u] : Accounted(q)
  /\ \A u \in Upstream : recv[u] = "SessionsLock" =>
       msg[u] \in Query /\ Accounted(msg[u])

Answered ==
  \A q \in Query : taken[q] # <<>> =>
    /\ Len(taken[q]) = 1 /\ number[q] # 0 /\ number[taken[q][1]] # 0
    /\ Id(number[taken[q][1]]) = Id(number[q])

(* The ports, until the counter wraps.                                     *)
Ports ==
  /\ proto = "Udp" =>
       /\ FirstPort + started < PortSpace => listen_port = FirstPort + started
       /\ \A u \in Upstream :
            (Started(u) /\ FirstPort + u <= PortSpace) => port[u] = FirstPort + u - 1
  /\ handler = "PortInUse" => FirstPort + started >= PortSpace

Starts ==
  /\ handler = "Connecting" =>
       proto = "Tcp" /\ started < MaxStart /\ received \in Query
  /\ \A s \in Slot : slot[s] # None => Started(slot[s])
  /\ \A u \in Upstream : ~Started(u) =>
       ~running[u] /\ send[u] = "Begin" /\ recv[u] = "New" /\ wire[u] = {}

IInv ==
  TypeOK /\ Waiting /\ Numbered /\ Sending /\ Recorded /\ Answering /\ Answered
    /\ Ports /\ Starts
-----------------------------------------------------------------------------
LEMMA Constants ==
  /\ MaxQuery \in Nat /\ MaxClear \in Nat /\ MaxStart \in Nat
  /\ max_upstream \in Nat /\ max_upstream >= 1 /\ IdSpace \in Nat /\ IdSpace >= 1
  /\ PortSpace \in Nat /\ FirstPort \in Nat /\ FirstPort >= 1 /\ FirstPort < PortSpace
  /\ None \notin Query /\ None \notin Upstream
BY BoundsAssumption DEF Query, Upstream, None

LEMMA Remainder ==
  ASSUME NEW n \in Nat, NEW k \in Nat, k >= 1
  PROVE  n % k \in 0 .. k - 1
OBVIOUS

LEMMA SmallRemainder ==
  ASSUME NEW n \in Nat, NEW k \in Nat, n < k
  PROVE  n % k = n
OBVIOUS

LEMMA ChosenSlot ==
  ASSUME TypeOK
  PROVE  Chosen \in Slot /\ (received \in Query => (idx - 1) % max_upstream \in Slot)
<1>1. idx \in Nat /\ (received \in Query => idx - 1 \in Nat)
  BY Constants DEF TypeOK, Query
<1>2. Chosen \in Slot
  BY <1>1, Remainder, Constants DEF Chosen, Slot
<1>3. received \in Query => (idx - 1) % max_upstream \in Slot
  BY <1>1, Remainder, Constants DEF Slot
<1> QED BY <1>2, <1>3

LEMMA IdRange ==
  ASSUME NEW n \in Nat
  PROVE  Id(n) \in 0 .. IdSpace - 1
BY Remainder, Constants DEF Id

LEMMA NextPortRange ==
  ASSUME NEW p \in 0 .. PortSpace - 1
  PROVE  NextPort(p) \in 0 .. PortSpace - 1
BY Remainder, Constants DEF NextPort

LEMMA TailFacts ==
  ASSUME NEW S, NEW s \in Seq(S), s # <<>>
  PROVE  /\ Tail(s) \in Seq(S) /\ Len(Tail(s)) = Len(s) - 1
         /\ \A i \in 1 .. Len(s) - 1 : Tail(s)[i] = s[i + 1]
OBVIOUS
-----------------------------------------------------------------------------
(* What each part of the invariant depends on.                             *)
LEMMA WaitingQuiet ==
  ASSUME Waiting, UNCHANGED <<rx, number, received, handler, started>>
  PROVE  Waiting'
BY DEF Waiting, Held, Started

LEMMA NumberedQuiet ==
  ASSUME Numbered, UNCHANGED <<serial, number>>
  PROVE  Numbered'
BY DEF Numbered, HasNumber

LEMMA SendingQuiet ==
  ASSUME Sending, UNCHANGED <<send, session, number, taken, sessions, started>>
  PROVE  Sending'
BY DEF Sending, Active, Started

LEMMA RecordedQuiet ==
  ASSUME Recorded, UNCHANGED <<sessions, number, taken>>
  PROVE  Recorded'
BY DEF Recorded, Id

LEMMA AnsweringQuiet ==
  ASSUME Answering,
         UNCHANGED <<wire, recv, msg, number, sessions, taken, expired, send, session>>
  PROVE  Answering'
BY DEF Answering, Accounted, SessionGone, NotYetRecorded, Id

LEMMA AnsweredQuiet ==
  ASSUME Answered, UNCHANGED <<number, taken>>
  PROVE  Answered'
BY DEF Answered, Id

LEMMA PortsQuiet ==
  ASSUME Ports, UNCHANGED <<proto, started, listen_port, port, handler>>
  PROVE  Ports'
BY DEF Ports, Started

(* The tasks' part: nothing of it changes.                                 *)
LEMMA TasksQuiet ==
  ASSUME IInv,
         UNCHANGED <<send, session, serial, number, recv, msg, taken, wire, sessions,
                     expired>>,
         \A u \in Upstream : Started(u) => Started(u)'
  PROVE  (Numbered /\ Sending /\ Recorded /\ Answering /\ Answered)'
<1>1. Sending'
  BY DEF IInv, Sending, Active
<1> QED BY <1>1, NumberedQuiet, RecordedQuiet, AnsweringQuiet, AnsweredQuiet DEF IInv
-----------------------------------------------------------------------------
(* DnsProxy::send.                                                         *)

(* A query goes from the handler into a channel.                           *)
LEMMA WaitingAdd ==
  ASSUME TypeOK, Waiting, NEW v \in Upstream, NEW q \in Query, q \in Held, q \notin Held',
         rx' = [rx EXCEPT ![v] = Append(@, q)], UNCHANGED number,
         Held' \subseteq Held,
         \A u \in Upstream : Started(u) => Started(u)', Started(v)'
  PROVE  Waiting'
<1>1. \A u \in Upstream : rx[u] \in Seq(Query) /\ Len(rx[u]) \in Nat
  BY DEF TypeOK
<1>2. \A u \in Upstream \ {v} : rx'[u] = rx[u]
  BY DEF TypeOK
<1>3. rx'[v] = Append(rx[v], q)
  BY DEF TypeOK
<1>4. /\ Len(rx'[v]) = Len(rx[v]) + 1 /\ rx'[v][Len(rx[v]) + 1] = q
      /\ \A i \in 1 .. Len(rx[v]) : rx'[v][i] = rx[v][i]
  BY <1>1, <1>3
<1>5. ASSUME NEW u \in Upstream, NEW i \in 1 .. Len(rx'[u])
      PROVE  \/ u = v /\ i = Len(rx[v]) + 1 /\ rx'[u][i] = q
             \/ i \in 1 .. Len(rx[u]) /\ rx'[u][i] = rx[u][i]
  BY <1>1, <1>2, <1>4
<1>6. \A u \in Upstream : \A i \in 1 .. Len(rx[u]) :
        rx[u][i] \in Query /\ rx[u][i] # q
  BY <1>1 DEF Waiting
<1>7. \A u \in Upstream : \A i \in 1 .. Len(rx'[u]) :
        number'[rx'[u][i]] = 0 /\ rx'[u][i] \notin Held'
  <2> SUFFICES ASSUME NEW u \in Upstream, NEW i \in 1 .. Len(rx'[u])
               PROVE  number'[rx'[u][i]] = 0 /\ rx'[u][i] \notin Held'
    OBVIOUS
  <2>1. CASE rx'[u][i] = q
    BY <2>1 DEF Waiting
  <2>2. CASE i \in 1 .. Len(rx[u]) /\ rx'[u][i] = rx[u][i]
    <3>1. rx[u][i] \in Query /\ number[rx[u][i]] = 0 /\ rx[u][i] \notin Held
      BY <1>6, <2>2 DEF Waiting
    <3> QED BY <2>2, <3>1
  <2> QED BY <1>5, <2>1, <2>2
<1>8. \A u, w \in Upstream : \A i \in 1 .. Len(rx'[u]), j \in 1 .. Len(rx'[w]) :
        rx'[u][i] = rx'[w][j] => u = w /\ i = j
  <2> SUFFICES ASSUME NEW u \in Upstream, NEW w \in Upstream,
                      NEW i \in 1 .. Len(rx'[u]), NEW j \in 1 .. Len(rx'[w]),
                      rx'[u][i] = rx'[w][j]
               PROVE  u = w /\ i = j
    OBVIOUS
  <2>1. CASE rx'[u][i] = q
    BY <1>5, <1>6, <2>1
  <2>2. CASE rx'[u][i] # q
    <3>1. /\ i \in 1 .. Len(rx[u]) /\ j \in 1 .. Len(rx[w]) /\ rx[u][i] = rx[w][j]
      BY <1>5, <2>2
    <3> QED BY <3>1 DEF Waiting
  <2> QED BY <2>1, <2>2
<1>9. \A u \in Upstream : ~Started(u)' => rx'[u] = <<>>
  BY <1>2 DEF Waiting
<1>10. \A p \in Held' : number'[p] = 0
  BY DEF Waiting
<1> QED BY <1>7, <1>8, <1>9, <1>10 DEF Waiting

LEMMA EnqueueKeeps ==
  ASSUME IInv, Enqueue
  PROVE  IInv'
<1> USE DEF handlerVars, upstreamVars, sendVars, recvVars, timeVars, clearVars
<1>0. Chosen \in Slot /\ slot[Chosen] \in Upstream /\ Started(slot[Chosen])
      /\ received + 1 \in Query
  <2>1. Chosen \in Slot
    BY ChosenSlot DEF IInv
  <2>2. slot[Chosen] # None
    BY DEF Enqueue, Accepts
  <2> QED BY <2>1, <2>2, Constants DEF IInv, TypeOK, Starts, Enqueue, Take, Query
<1>1. PICK v \in Upstream, q \in Query :
      /\ v = slot[Chosen] /\ q = received + 1 /\ Started(v)
  BY <1>0
<1>2. /\ received' = q /\ handler = "Idle"
      /\ rx' = [rx EXCEPT ![v] = Append(@, q)] /\ idx' = idx + 1 /\ cleaner' = TRUE
      /\ UNCHANGED <<proto, handler, listen_port, slot, started, port, running, send,
                     session, serial, number, recv, msg, deaf, taken, wire, sessions,
                     expired, clears, notified>>
  BY <1>1 DEF Enqueue, Take, SpawnCleaner
<1>3. rx' \in [Upstream -> Seq(Query)]
  BY <1>2 DEF IInv, TypeOK
<1>n. received \in Nat /\ idx = received /\ q = received + 1 /\ q <= MaxQuery
      /\ MaxQuery \in Nat
  BY <1>1, Constants DEF IInv, TypeOK, Query
<1>4. TypeOK'
  <2>1. received' \in 0 .. MaxQuery /\ idx' = received' /\ cleaner' \in BOOLEAN
    BY <1>2, <1>n
  <2> QED BY <1>2, <1>3, <2>1, Zenon DEF IInv, TypeOK
<1>5. \A u \in Upstream : Started(u)' <=> Started(u)
  BY <1>2 DEF Started
<1>6. Waiting'
  <2>1. q \in Held /\ q \notin Held' /\ Held' \subseteq Held
    BY <1>2, <1>n DEF Held, Query
  <2> QED BY <1>1, <1>2, <1>5, <2>1, WaitingAdd, Zenon DEF IInv
<1>7. (Numbered /\ Sending /\ Recorded /\ Answering /\ Answered)'
  BY <1>2, <1>5, TasksQuiet
<1>8. Ports' /\ Starts'
  BY <1>2 DEF IInv, Ports, Starts, Started
<1> QED BY <1>4, <1>6, <1>7, <1>8 DEF IInv

(* The parts of the invariant that the end of start_upstream touches.      *)
Installed ==
  /\ started \in 0 .. MaxStart /\ slot \in [Slot -> Upstream \cup {None}]
  /\ rx \in [Upstream -> Seq(Query)] /\ running \in [Upstream -> BOOLEAN]
  /\ Waiting /\ Numbered /\ Sending /\ Recorded /\ Answering /\ Answered /\ Starts

LEMMA InstallKeeps ==
  ASSUME IInv, NEW s \in Slot, NEW q \in Query, Install(s, q), started < MaxStart,
         q \in Held, q \notin Held', Held' \subseteq Held, handler' # "Connecting"
  PROVE  Installed'
<1>1. PICK u \in Upstream : u = started + 1 /\ ~Started(u)
  BY Constants DEF IInv, TypeOK, Upstream, Started
<1>2. /\ started' = u /\ running' = [Dropped(slot[s]) EXCEPT ![u] = TRUE]
      /\ slot' = [slot EXCEPT ![s] = u] /\ rx' = [rx EXCEPT ![u] = <<q>>]
      /\ UNCHANGED <<proto, send, session, serial, number, recv, msg, deaf, taken,
                     wire, sessions, expired, clears, notified>>
  BY <1>1 DEF Install, recvVars, clearVars
<1>n. started \in Nat /\ u \in Nat /\ u = started + 1 /\ u <= MaxStart
      /\ MaxStart \in Nat /\ Upstream \subseteq Nat
  BY <1>1, Constants DEF IInv, TypeOK, Upstream
<1>3. started' \in 0 .. MaxStart
  BY <1>2, <1>n
<1>4. slot' \in [Slot -> Upstream \cup {None}]
  BY <1>2 DEF IInv, TypeOK
<1>5. rx' \in [Upstream -> Seq(Query)]
  <2>1. <<q>> \in Seq(Query)
    OBVIOUS
  <2> QED BY <1>2, <2>1 DEF IInv, TypeOK
<1>6. Dropped(slot[s]) \in [Upstream -> BOOLEAN]
      /\ \A w \in Upstream : Dropped(slot[s])[w] => running[w]
  BY DEF IInv, TypeOK, Dropped
<1>7. running' \in [Upstream -> BOOLEAN]
      /\ \A w \in Upstream : running'[w] => running[w] \/ w = u
  BY <1>2, <1>6
<1>8. \A w \in Upstream : Started(w)' <=> Started(w) \/ w = u
  BY <1>2, <1>n DEF Started
<1>9. Waiting'
  <2>1. rx[u] = <<>>
    BY <1>1 DEF IInv, Waiting
  <2>2. rx' = [rx EXCEPT ![u] = Append(@, q)]
    BY <1>2, <2>1
  <2> QED BY <1>2, <1>8, <2>2, WaitingAdd, Zenon DEF IInv
<1>10. (Numbered /\ Sending /\ Recorded /\ Answering /\ Answered)'
  BY <1>2, <1>8, TasksQuiet
<1>11. Starts'
  <2>1. \A w \in Upstream : ~Started(w)' =>
          ~running'[w] /\ send'[w] = "Begin" /\ recv'[w] = "New" /\ wire'[w] = {}
    BY <1>2, <1>7, <1>8 DEF IInv, Starts
  <2>2. \A t \in Slot : slot'[t] # None => slot'[t] \in Upstream /\ slot'[t] <= started'
    <3>1. \A t \in Slot : slot'[t] = u \/ slot'[t] = slot[t]
      BY <1>2 DEF IInv, TypeOK
    <3>2. \A t \in Slot : slot[t] # None => slot[t] \in Upstream /\ slot[t] <= started
      BY DEF IInv, TypeOK, Starts, Started
    <3> SUFFICES ASSUME NEW t \in Slot, slot'[t] # None
                 PROVE  slot'[t] \in Upstream /\ slot'[t] <= u
      BY <1>2
    <3>3. CASE slot'[t] = u
      BY <1>n, <3>3
    <3>4. CASE slot'[t] = slot[t]
      <4>1. slot[t] \in Upstream /\ slot[t] <= started
        BY <3>2, <3>4
      <4>2. slot[t] \in Nat
        BY <1>n, <4>1, Zenon DEF Upstream
      <4>3. slot[t] <= u
        BY <1>n, <4>1, <4>2
      <4> QED BY <3>4, <4>1, <4>3
    <3> QED BY <3>1, <3>3, <3>4
  <2> QED BY <2>1, <2>2 DEF Starts, Started
<1> QED BY <1>3, <1>4, <1>5, <1>7, <1>9, <1>10, <1>11 DEF Installed

LEMMA StartUdpKeeps ==
  ASSUME IInv, StartUdp
  PROVE  IInv'
<1> USE DEF handlerVars, upstreamVars, sendVars, recvVars, timeVars, clearVars
<1>1. /\ proto = "Udp" /\ handler = "Idle" /\ received < MaxQuery /\ started < MaxStart
      /\ received' = received + 1 /\ idx' = idx + 1 /\ cleaner' = TRUE
      /\ Install(Chosen, received + 1) /\ listen_port' = NextPort(listen_port)
      /\ UNCHANGED handler
  BY DEF StartUdp, Take, SpawnCleaner, NeedsStart
<1>2. PICK p \in Bound(listen_port) :
        ~PortInUse(p) /\ port' = [port EXCEPT ![started + 1] = p]
  BY Zenon DEF StartUdp
<1>3. Chosen \in Slot
  BY ChosenSlot DEF IInv
<1>n. received \in Nat /\ idx = received /\ started \in Nat /\ MaxStart \in Nat
      /\ MaxQuery \in Nat /\ listen_port \in 0 .. PortSpace - 1 /\ PortSpace \in Nat
      /\ FirstPort \in Nat /\ FirstPort >= 1 /\ FirstPort < PortSpace
  BY Constants DEF IInv, TypeOK
<1>4. PICK q \in Query : q = received + 1
  BY <1>1, <1>n DEF Query
<1>5. q \in Held /\ q \notin Held' /\ Held' \subseteq Held
  BY <1>1, <1>4, <1>n DEF Held, Query
<1>6. Installed'
  BY <1>1, <1>3, <1>4, <1>5, InstallKeeps
<1>7. p \in 0 .. PortSpace - 1
  BY <1>2, <1>n DEF Bound
<1>8. /\ port' \in [Upstream -> 0 .. PortSpace - 1]
      /\ listen_port' \in 0 .. PortSpace - 1
      /\ received' \in 0 .. MaxQuery /\ idx' = received' /\ cleaner' \in BOOLEAN
  <2>1. port' \in [Upstream -> 0 .. PortSpace - 1]
    BY <1>2, <1>7, Zenon DEF IInv, TypeOK
  <2>2. listen_port' \in 0 .. PortSpace - 1
    BY <1>1, <1>n, NextPortRange
  <2>3. received' \in 0 .. MaxQuery /\ idx' = received'
    BY <1>1, <1>n
  <2> QED BY <1>1, <2>1, <2>2, <2>3
<1>9. /\ started' = started + 1
      /\ UNCHANGED <<proto, handler, send, session, serial, number, recv, msg, deaf,
                     taken, wire, sessions, expired, clears, notified>>
  BY <1>1 DEF Install
<1>10. TypeOK'
  BY <1>6, <1>8, <1>9 DEF IInv, TypeOK, Installed
<1>11. Ports'
  <2>1. FirstPort + started < PortSpace =>
          listen_port = FirstPort + started /\ p = FirstPort + started
    BY <1>1, <1>2, <1>n DEF IInv, Ports, Bound
  <2>2. FirstPort + started + 1 < PortSpace => listen_port' = FirstPort + started'
    <3>1. FirstPort + started + 1 < PortSpace =>
            NextPort(listen_port) = FirstPort + started + 1
      <4> SUFFICES ASSUME FirstPort + started + 1 < PortSpace
                   PROVE  (listen_port + 1) % PortSpace = FirstPort + started + 1
        BY DEF NextPort
      <4>1. listen_port + 1 = FirstPort + started + 1
        BY <1>n, <2>1
      <4>2. (FirstPort + started + 1) % PortSpace = FirstPort + started + 1
        BY <1>n, SmallRemainder
      <4> QED BY <4>1, <4>2
    <3> QED BY <1>1, <1>9, <1>n, <3>1
  <2>3. ASSUME NEW u \in Upstream, u <= started + 1, FirstPort + u <= PortSpace
        PROVE  port'[u] = FirstPort + u - 1
    <3>1. u \in Nat
      BY Constants DEF Upstream
    <3>2. CASE u = started + 1
      BY <1>2, <1>n, <2>1, <2>3, <3>2 DEF IInv, TypeOK
    <3>3. CASE u # started + 1
      <4>1. u <= started
        BY <1>n, <2>3, <3>1, <3>3
      <4>2. port'[u] = port[u]
        BY <1>2, <3>3 DEF IInv, TypeOK
      <4> QED BY <1>1, <2>3, <4>1, <4>2 DEF IInv, Ports, Started
    <3> QED BY <3>2, <3>3
  <2> QED BY <1>1, <1>9, <1>n, <2>2, <2>3 DEF Ports, Started
<1> QED BY <1>6, <1>10, <1>11 DEF IInv, Installed

LEMMA ConnectedKeeps ==
  ASSUME IInv, Connected
  PROVE  IInv'
<1> USE DEF handlerVars, upstreamVars, sendVars, recvVars, timeVars, clearVars
<1>1. /\ handler = "Connecting" /\ handler' = "Idle"
      /\ Install((idx - 1) % max_upstream, received)
      /\ started' = started + 1
      /\ UNCHANGED <<proto, received, idx, listen_port, port, cleaner, send, session,
                     serial, number, recv, msg, deaf, taken, wire, sessions, expired,
                     clears, notified>>
  BY DEF Connected, Install
<1>2. PICK q \in Query : q = received /\ started < MaxStart
  BY <1>1 DEF IInv, Starts
<1>3. (idx - 1) % max_upstream \in Slot
  BY <1>2, ChosenSlot DEF IInv
<1>4. q \in Held /\ q \notin Held' /\ Held' \subseteq Held
  <2>1. q \in Nat
    BY DEF Query
  <2> QED BY <1>1, <1>2, <2>1 DEF Held
<1>5. Installed'
  BY <1>1, <1>2, <1>3, <1>4, InstallKeeps
<1>6. TypeOK'
  BY <1>1, <1>5, SMTT(20) DEF IInv, TypeOK, Installed
<1>7. Ports'
  BY <1>1, Zenon DEF IInv, Ports, Starts
<1> QED BY <1>5, <1>6, <1>7 DEF IInv, Installed

(* The handler takes or drops a query and starts nothing.                  *)
LEMMA HandlerKeeps ==
  ASSUME IInv, Held' \subseteq Held, received' \in 0 .. MaxQuery, idx' = received',
         handler' \in {"Idle", "Connecting", "PortInUse", "BindFailed", "Overflow"},
         cleaner' \in BOOLEAN,
         handler' = "Connecting" =>
           proto = "Tcp" /\ started < MaxStart /\ received' \in Query,
         handler' = "PortInUse" => FirstPort + started >= PortSpace,
         UNCHANGED <<proto, listen_port, slot, started, port, running, rx, send, session,
                     serial, number, recv, msg, deaf, taken, wire, sessions, expired,
                     clears, notified>>
  PROVE  IInv'
<1>1. TypeOK'
  BY SMTT(20) DEF IInv, TypeOK
<1>2. Waiting'
  <2>1. \A u \in Upstream : Started(u)' <=> Started(u)
    BY DEF Started
  <2>2. \A q \in Held' : number'[q] = 0
    BY Zenon DEF IInv, Waiting
  <2>3. \A u \in Upstream : \A i \in 1 .. Len(rx'[u]) :
          number'[rx'[u][i]] = 0 /\ rx'[u][i] \notin Held'
    BY Zenon DEF IInv, Waiting
  <2>4. \A u, v \in Upstream : \A i \in 1 .. Len(rx'[u]), j \in 1 .. Len(rx'[v]) :
          rx'[u][i] = rx'[v][j] => u = v /\ i = j
    <3>1. rx' = rx
      OBVIOUS
    <3> QED BY <3>1 DEF IInv, Waiting
  <2> QED BY <2>1, <2>2, <2>3, <2>4, Zenon DEF IInv, Waiting
<1>3. (Numbered /\ Sending /\ Recorded /\ Answering /\ Answered)'
  BY TasksQuiet DEF Started
<1>4. Ports' /\ Starts'
  BY DEF IInv, Ports, Starts, Started
<1> QED BY <1>1, <1>2, <1>3, <1>4 DEF IInv

LEMMA HeldPortIsOld ==
  ASSUME IInv, proto = "Udp", PortInUse(listen_port)
  PROVE  FirstPort + started >= PortSpace
<1>1. PICK u \in Upstream : Started(u) /\ port[u] = listen_port
  BY DEF PortInUse, SocketOpen
<1>2. u \in Nat /\ started \in Nat /\ FirstPort \in Nat /\ PortSpace \in Nat
  BY Constants DEF IInv, TypeOK, Upstream
<1>3. ASSUME FirstPort + started < PortSpace
      PROVE  FALSE
  <2>1. u <= started
    BY <1>1 DEF Started
  <2>2. port[u] = FirstPort + u - 1
    <3>1. FirstPort + u <= PortSpace
      BY <1>2, <1>3, <2>1
    <3> QED BY <1>1, <3>1 DEF IInv, Ports
  <2>3. listen_port = FirstPort + started
    BY <1>3 DEF IInv, Ports
  <2>4. FirstPort + u - 1 = FirstPort + started
    BY <1>1, <2>2, <2>3, Zenon
  <2> QED BY <1>2, <2>1, <2>4
<1> QED BY <1>2, <1>3

LEMMA NotStartedKeeps ==
  ASSUME IInv, BindFails \/ PortOverflows \/ Connect
  PROVE  IInv'
<1> USE DEF handlerVars, upstreamVars, sendVars, recvVars, timeVars, clearVars
<1>1. /\ handler = "Idle" /\ received < MaxQuery /\ started < MaxStart
      /\ received' = received + 1 /\ idx' = idx + 1 /\ cleaner' = TRUE
      /\ UNCHANGED <<proto, listen_port, slot, started, port, running, rx, send, session,
                     serial, number, recv, msg, deaf, taken, wire, sessions, expired,
                     clears, notified>>
  BY DEF BindFails, PortOverflows, Connect, Take, SpawnCleaner, NeedsStart
<1>2. \/ handler' = "PortInUse" /\ FirstPort + started >= PortSpace
      \/ handler' \in {"BindFailed", "Overflow"}
      \/ handler' = "Connecting" /\ proto = "Tcp"
  BY HeldPortIsOld DEF BindFails, PortOverflows, Connect
<1>n. received \in Nat /\ idx = received /\ MaxQuery \in Nat
  BY Constants DEF IInv, TypeOK
<1>3. received' \in 0 .. MaxQuery /\ received' \in Query /\ idx' = received'
  BY <1>1, <1>n DEF Query
<1>4. Held' \subseteq Held
  BY <1>1, <1>n DEF Held, Query
<1> QED BY <1>1, <1>2, <1>3, <1>4, HandlerKeeps

LEMMA ConnectFailsKeeps ==
  ASSUME IInv, ConnectFails
  PROVE  IInv'
<1> USE DEF handlerVars, upstreamVars, sendVars, recvVars, timeVars, clearVars
<1>1. Held' \subseteq Held
  BY DEF ConnectFails, Held
<1> QED BY <1>1, HandlerKeeps DEF ConnectFails, IInv, TypeOK
-----------------------------------------------------------------------------
(* RecvFut.                                                                *)
RecvStates == {"New", "Checked", "Begin", "Stalled", "SessionsLock", "Done"}

(* What every step of RecvFut does to its own variables: it reads what was *)
(* on the wire, or forgets.                                                *)
Reads(u) ==
  /\ recv' \in [Upstream -> RecvStates] /\ msg' \in [Upstream -> Query \cup {None}]
  /\ deaf' \in [Upstream -> BOOLEAN] /\ wire' \in [Upstream -> SUBSET Query]
  /\ \A v \in Upstream : wire'[v] \subseteq wire[v]
  /\ \A v \in Upstream : recv'[v] = "SessionsLock" =>
       \/ recv[v] = "SessionsLock" /\ msg'[v] = msg[v]
       \/ msg'[v] \in wire[v]
  /\ \A v \in Upstream \ {u} : recv'[v] = recv[v]

LEMMA RecvParts ==
  ASSUME IInv, NEW u \in Upstream, Started(u), RecvUnchanged, Reads(u),
         taken' \in [Query -> Seq(Query)],
         sessions' \in [0 .. IdSpace - 1 -> Query \cup {None}]
  PROVE  (TypeOK /\ Waiting /\ Numbered /\ Ports /\ Starts)'
<1>1. UNCHANGED <<proto, handler, received, idx, listen_port, slot, started, port, running,
                  rx, send, session, serial, number, expired, cleaner, clears, notified>>
  BY DEF RecvUnchanged, handlerVars, upstreamVars, sendVars, timeVars, clearVars
<1>2. TypeOK'
  <2>1. /\ recv' \in [Upstream -> RecvStates] /\ msg' \in [Upstream -> Query \cup {None}]
        /\ deaf' \in [Upstream -> BOOLEAN] /\ wire' \in [Upstream -> SUBSET Query]
    BY DEF Reads
  <2> QED BY <1>1, <2>1, SMTT(20) DEF IInv, TypeOK, RecvStates
<1>3. Waiting' /\ Numbered' /\ Ports'
  BY <1>1, WaitingQuiet, NumberedQuiet, PortsQuiet DEF IInv
<1>4. Starts'
  <2>1. \A v \in Upstream : ~Started(v) => v # u /\ recv'[v] = recv[v] /\ wire'[v] = {}
    BY DEF IInv, Starts, Reads
  <2> QED BY <1>1, <2>1 DEF IInv, Starts, Started
<1> QED BY <1>2, <1>3, <1>4

LEMMA AnsweringRead ==
  ASSUME IInv, NEW u \in Upstream, Reads(u), UNCHANGED number,
         \A p \in Query : Accounted(p) => Accounted(p)'
  PROVE  Answering'
<1>1. \A v \in Upstream : wire[v] \subseteq Query
  BY DEF IInv, TypeOK
<1>2. \A v \in Upstream : \A p \in wire'[v] : Accounted(p)'
  BY <1>1 DEF IInv, Answering, Reads
<1>3. ASSUME NEW v \in Upstream, recv'[v] = "SessionsLock"
      PROVE  msg'[v] \in Query /\ \A p \in Query : msg'[v] = p => Accounted(p)'
  BY <1>1, <1>3 DEF IInv, Answering, Reads
<1> QED BY <1>2, <1>3 DEF Answering

LEMMA RecvQuietKeeps ==
  ASSUME IInv, NEW u \in Upstream, Started(u), RecvUnchanged, Reads(u),
         UNCHANGED <<taken, sessions>>
  PROVE  IInv'
<1>1. UNCHANGED <<send, session, number, expired, started>>
  BY DEF RecvUnchanged, upstreamVars, sendVars, timeVars
<1>2. (TypeOK /\ Waiting /\ Numbered /\ Ports /\ Starts)'
  BY RecvParts, Zenon DEF IInv, TypeOK
<1>3. Sending' /\ Recorded' /\ Answered'
  BY <1>1, SendingQuiet, RecordedQuiet, AnsweredQuiet DEF IInv
<1>4. \A p \in Query : Accounted(p) => Accounted(p)'
  BY <1>1, Zenon DEF Accounted, SessionGone, NotYetRecorded, Id
<1>5. Answering'
  BY <1>1, <1>4, AnsweringRead
<1> QED BY <1>2, <1>3, <1>5 DEF IInv

LEMMA RecvEndsReads ==
  ASSUME TypeOK, NEW u \in Upstream, RecvEnds(u)
  PROVE  Reads(u)
<1>1. recv' \in [Upstream -> RecvStates] /\ msg' \in [Upstream -> Query \cup {None}]
  BY DEF TypeOK, RecvEnds, RecvStates
<1>2. deaf' \in [Upstream -> BOOLEAN]
  BY DEF TypeOK, RecvEnds
<1>3. wire' \in [Upstream -> SUBSET Query] /\ \A v \in Upstream : wire'[v] \subseteq wire[v]
  BY DEF TypeOK, RecvEnds
<1>4. /\ recv'[u] = "Done"
      /\ \A v \in Upstream \ {u} : recv'[v] = recv[v] /\ msg'[v] = msg[v]
  BY DEF TypeOK, RecvEnds
<1> QED BY <1>1, <1>2, <1>3, <1>4 DEF Reads

LEMMA RecvStepsRead ==
  ASSUME TypeOK, NEW u \in Upstream,
         \/ CheckRunning(u) \/ RegisterWaker(u) \/ Discard(u)
         \/ \E q \in Query : Receive(u, q) \/ ReceivePart(u, q)
  PROVE  Reads(u)
<1>0. /\ recv \in [Upstream -> RecvStates] /\ msg \in [Upstream -> Query \cup {None}]
      /\ deaf \in [Upstream -> BOOLEAN] /\ wire \in [Upstream -> SUBSET Query]
      /\ running[u] \in BOOLEAN
  BY DEF TypeOK, RecvStates
<1>1. CASE CheckRunning(u)
  <2>1. CASE running[u]
    BY <1>0, <1>1, <2>1 DEF CheckRunning, Reads, RecvStates
  <2>2. CASE ~running[u]
    BY <1>1, <2>2, RecvEndsReads DEF CheckRunning
  <2> QED BY <2>1, <2>2
<1>2. CASE RegisterWaker(u)
  <2>1. deaf' \in [Upstream -> BOOLEAN]
    BY <1>0, <1>2 DEF RegisterWaker
  <2>2. recv' \in [Upstream -> RecvStates] /\ recv'[u] = "Begin"
        /\ (\A v \in Upstream \ {u} : recv'[v] = recv[v]) /\ UNCHANGED <<msg, wire>>
    BY <1>0, <1>2 DEF RegisterWaker, RecvStates
  <2> QED BY <1>0, <2>1, <2>2 DEF Reads
<1>3. CASE Discard(u)
  <2>1. /\ recv' \in [Upstream -> RecvStates] /\ msg' \in [Upstream -> Query \cup {None}]
        /\ recv'[u] = "Begin"
        /\ \A v \in Upstream \ {u} : recv'[v] = recv[v] /\ msg'[v] = msg[v]
    BY <1>0, <1>3 DEF Discard, RecvStates
  <2> QED BY <1>0, <1>3, <2>1 DEF Discard, Reads
<1>4. ASSUME NEW q \in Query, Receive(u, q)
      PROVE  Reads(u)
  <2>1. /\ recv' \in [Upstream -> RecvStates] /\ msg' \in [Upstream -> Query \cup {None}]
        /\ msg'[u] = q /\ q \in wire[u] /\ UNCHANGED deaf
        /\ \A v \in Upstream \ {u} : recv'[v] = recv[v] /\ msg'[v] = msg[v]
    BY <1>0, <1>4 DEF Receive, RecvStates
  <2>2. wire' \in [Upstream -> SUBSET Query]
        /\ \A v \in Upstream : wire'[v] \subseteq wire[v]
    BY <1>0, <1>4 DEF Receive
  <2> QED BY <1>0, <2>1, <2>2 DEF Reads
<1>5. ASSUME NEW q \in Query, ReceivePart(u, q)
      PROVE  Reads(u)
  <2>1. /\ recv' \in [Upstream -> RecvStates] /\ recv'[u] = "Stalled"
        /\ UNCHANGED <<msg, deaf>> /\ \A v \in Upstream \ {u} : recv'[v] = recv[v]
    BY <1>0, <1>5 DEF ReceivePart, RecvStates
  <2>2. wire' \in [Upstream -> SUBSET Query]
        /\ \A v \in Upstream : wire'[v] \subseteq wire[v]
    BY <1>0, <1>5 DEF ReceivePart
  <2> QED BY <1>0, <2>1, <2>2 DEF Reads
<1> QED BY <1>1, <1>2, <1>3, <1>4, <1>5

LEMMA DeliverKeeps ==
  ASSUME IInv, NEW u \in Upstream, NEW sinkOpen \in BOOLEAN, Deliver(u, sinkOpen)
  PROVE  IInv'
<1>0. /\ recv[u] = "SessionsLock" /\ RecvUnchanged
      /\ sessions[Id(number[msg[u]])] # None
      /\ sessions' = SessionsWithout(Id(number[msg[u]]))
      /\ taken' = [taken EXCEPT ![sessions[Id(number[msg[u]])]] = Append(@, msg[u])]
      /\ \/ RecvEnds(u)
         \/ /\ recv' = [recv EXCEPT ![u] = "Begin"] /\ msg' = [msg EXCEPT ![u] = None]
            /\ UNCHANGED <<deaf, wire>>
  BY DEF Deliver
<1>1. PICK m \in Query : m = msg[u] /\ number[m] # 0 /\ number[m] \in Nat
  <2>1. msg[u] \in Query /\ number[msg[u]] # 0
    BY <1>0 DEF IInv, Answering, Accounted
  <2>2. number[msg[u]] \in Nat
    BY <2>1 DEF IInv, TypeOK
  <2> QED BY <2>1, <2>2, SMTT(20)
<1>2. PICK i \in 0 .. IdSpace - 1 : i = Id(number[m])
  BY <1>1, IdRange
<1>3. PICK q \in Query :
        q = sessions[i] /\ number[q] # 0 /\ Id(number[q]) = i /\ taken[q] = <<>>
  <2>1. sessions[i] # None
    BY <1>0, <1>1, <1>2
  <2>2. sessions[i] \in Query
    BY <2>1, Zenon DEF IInv, TypeOK
  <2> QED BY <2>1, <2>2 DEF IInv, Recorded
<1>4. UNCHANGED <<send, session, number, expired, started>>
  BY <1>0 DEF RecvUnchanged, upstreamVars, sendVars, timeVars
<1>5. /\ sessions' = [sessions EXCEPT ![i] = None]
      /\ taken' = [taken EXCEPT ![q] = Append(@, m)]
  BY <1>0, <1>1, <1>2, <1>3 DEF SessionsWithout
<1>6. /\ sessions' \in [0 .. IdSpace - 1 -> Query \cup {None}] /\ sessions'[i] = None
      /\ \A k \in 0 .. IdSpace - 1 : k # i => sessions'[k] = sessions[k]
  BY <1>5 DEF IInv, TypeOK
<1>7. /\ taken' \in [Query -> Seq(Query)] /\ taken'[q] = <<m>>
      /\ \A p \in Query \ {q} : taken'[p] = taken[p]
  <2>1. Append(taken[q], m) = <<m>> /\ <<m>> \in Seq(Query)
    BY <1>3
  <2> QED BY <1>5, <2>1 DEF IInv, TypeOK
<1>s. taken'[q] # <<>> /\ Len(taken'[q]) = 1 /\ taken'[q][1] = m
  <2>1. <<m>> # <<>> /\ Len(<<m>>) = 1 /\ <<m>>[1] = m
    OBVIOUS
  <2>2. taken'[q] = <<m>>
    BY <1>7
  <2> QED BY <2>1, <2>2, Zenon
<1>8. Started(u)
  BY <1>0 DEF IInv, Starts
<1>9. Reads(u)
  <2>1. CASE RecvEnds(u)
    BY <2>1, RecvEndsReads DEF IInv
  <2>2. CASE /\ recv' = [recv EXCEPT ![u] = "Begin"] /\ msg' = [msg EXCEPT ![u] = None]
             /\ UNCHANGED <<deaf, wire>>
    <3>1. /\ recv' \in [Upstream -> RecvStates] /\ msg' \in [Upstream -> Query \cup {None}]
          /\ recv'[u] = "Begin"
          /\ \A v \in Upstream \ {u} : recv'[v] = recv[v] /\ msg'[v] = msg[v]
      BY <2>2 DEF IInv, TypeOK, RecvStates
    <3>2. /\ deaf' \in [Upstream -> BOOLEAN] /\ wire' \in [Upstream -> SUBSET Query]
          /\ wire' = wire
      BY <2>2, SMTT(20) DEF IInv, TypeOK
    <3> QED BY <3>1, <3>2 DEF Reads
  <2> QED BY <1>0, <2>1, <2>2
<1>10. (TypeOK /\ Waiting /\ Numbered /\ Ports /\ Starts)'
  BY <1>0, <1>6, <1>7, <1>8, <1>9, RecvParts, ZenonT(30)
<1>11. Sending'
  <2>1. \A v \in Upstream : Active(v)' => Active(v)
    BY <1>4, SMTT(20) DEF Active
  <2>2. ASSUME NEW v \in Upstream, Active(v)
        PROVE  /\ Started(v) /\ session[v] \in Query /\ number[session[v]] # 0
               /\ taken'[session[v]] = <<>>
               /\ \A k \in 0 .. IdSpace - 1 : sessions'[k] # session[v]
    <3>1. /\ Started(v) /\ session[v] \in Query /\ number[session[v]] # 0
          /\ taken[session[v]] = <<>>
          /\ \A k \in 0 .. IdSpace - 1 : sessions[k] # session[v]
      BY <2>2 DEF IInv, Sending
    <3>2. session[v] # q
      BY <1>3, <3>1
    <3>3. taken'[session[v]] = <<>>
      BY <1>7, <3>1, <3>2
    <3>4. \A k \in 0 .. IdSpace - 1 : sessions'[k] # session[v]
      BY <1>6, <3>1, Constants
    <3> QED BY <3>1, <3>3, <3>4, Zenon
  <2>3. \A v, w \in Upstream : Active(v) /\ Active(w) /\ session[v] = session[w] => v = w
    BY DEF IInv, Sending
  <2> QED BY <1>4, <2>1, <2>2, <2>3 DEF Sending, Started
<1>12. Recorded'
  <2> SUFFICES ASSUME NEW k \in 0 .. IdSpace - 1, sessions'[k] # None
               PROVE  /\ number[sessions'[k]] # 0 /\ Id(number[sessions'[k]]) = k
                      /\ taken'[sessions'[k]] = <<>>
    BY <1>4 DEF Recorded, Id
  <2>1. k # i /\ sessions'[k] = sessions[k] /\ sessions[k] \in Query
    BY <1>6, ZenonT(30) DEF IInv, TypeOK
  <2>2. /\ number[sessions[k]] # 0 /\ Id(number[sessions[k]]) = k
        /\ taken[sessions[k]] = <<>>
    BY <2>1 DEF IInv, Recorded
  <2>3. sessions[k] # q
    BY <1>3, <2>1, <2>2
  <2> QED BY <1>7, <2>1, <2>2, <2>3
<1>13. ASSUME NEW p \in Query, Accounted(p)
       PROVE  Accounted(p)'
  <2>1. number'[p] = number[p] /\ Id(number[p]) \in 0 .. IdSpace - 1 /\ number[p] # 0
    <3>1. number[p] \in Nat
      BY DEF IInv, TypeOK
    <3> QED BY <1>4, <1>13, <3>1, IdRange DEF Accounted
  <2>2. taken[p] # <<>> => taken'[p] # <<>>
    BY <1>7, <1>s, Zenon
  <2>3. CASE SessionGone(p)
    <3>1. SessionGone(p)'
      BY <1>4, <2>2, <2>3 DEF SessionGone, Id
    <3> QED BY <2>1, <3>1 DEF Accounted
  <2>4. CASE NotYetRecorded(p)
    <3>1. NotYetRecorded(p)'
      BY <1>4, <2>4 DEF NotYetRecorded
    <3> QED BY <2>1, <3>1 DEF Accounted
  <2>5. CASE sessions[Id(number[p])] = p /\ Id(number[p]) = i
    <3>1. p = q
      BY <1>3, <2>5
    <3>2. SessionGone(p)'
      BY <1>s, <3>1 DEF SessionGone
    <3> QED BY <2>1, <3>2 DEF Accounted
  <2>6. CASE sessions[Id(number[p])] = p /\ Id(number[p]) # i
    <3>1. sessions'[Id(number[p])] = p
      BY <1>6, <2>1, <2>6
    <3> QED BY <2>1, <3>1, <1>4 DEF Accounted, Id
  <2> QED BY <1>13, <2>3, <2>4, <2>5, <2>6 DEF Accounted
<1>14. Answering'
  BY <1>4, <1>9, <1>13, AnsweringRead
<1>15. Answered'
  <2> SUFFICES ASSUME NEW p \in Query, taken'[p] # <<>>
               PROVE  /\ Len(taken'[p]) = 1 /\ number[p] # 0 /\ number[taken'[p][1]] # 0
                      /\ Id(number[taken'[p][1]]) = Id(number[p])
    BY <1>4 DEF Answered, Id
  <2>1. CASE p = q
    <3>1. Len(taken'[p]) = 1 /\ taken'[p][1] = m
      BY <1>s, <2>1
    <3> QED BY <1>1, <1>2, <1>3, <2>1, <3>1
  <2>2. CASE p # q
    BY <1>7, <2>2 DEF IInv, Answered
  <2> QED BY <2>1, <2>2
<1> QED BY <1>10, <1>11, <1>12, <1>14, <1>15 DEF IInv

LEMMA RecvFutKeeps ==
  ASSUME IInv, NEW u \in Upstream, RecvFut(u)
  PROVE  IInv'
<1>1. CASE \/ CheckRunning(u) \/ RegisterWaker(u) \/ Discard(u)
           \/ \E q \in Query : Receive(u, q) \/ ReceivePart(u, q)
  <2>1. Reads(u)
    BY <1>1, RecvStepsRead DEF IInv
  <2>2. Started(u) /\ RecvUnchanged /\ UNCHANGED <<taken, sessions>>
    BY <1>1 DEF CheckRunning, RegisterWaker, Discard, Receive, ReceivePart, IInv, Starts
  <2> QED BY <2>1, <2>2, RecvQuietKeeps
<1>2. CASE RecvFutEnds(u) \/ ReceiveFails(u) \/ \E q \in Query : ReceiveAfterDrop(u, q)
  <2>1. RecvEnds(u) /\ Started(u) /\ RecvUnchanged /\ UNCHANGED <<taken, sessions>>
    BY <1>2 DEF RecvFutEnds, ReceiveFails, ReceiveAfterDrop, IInv, Starts
  <2> QED BY <2>1, RecvEndsReads, RecvQuietKeeps DEF IInv
<1> QED BY <1>1, <1>2, DeliverKeeps DEF RecvFut

-----------------------------------------------------------------------------
(* The cleaner and the clear task.                                         *)
LEMMA TimeKeeps ==
  ASSUME IInv, TimePasses \/ CleanSessions
  PROVE  IInv'
<1>1. UNCHANGED <<proto, handler, received, idx, listen_port, slot, started, port, running,
                  rx, send, session, serial, number, recv, msg, deaf, taken, wire, cleaner,
                  clears, notified>>
  BY DEF TimePasses, CleanSessions, handlerVars, upstreamVars, sendVars, recvVars,
         timeVars, clearVars
<1>n. /\ expired \in Nat /\ serial \in Nat
      /\ \A p \in Query : number[p] \in Nat
  BY DEF IInv, TypeOK
<1>2. expired' \in 0 .. serial - 1 /\ expired <= expired'
  <2>1. CASE TimePasses
    BY <1>n, <2>1 DEF TimePasses
  <2>2. CASE CleanSessions
    BY <1>n, <2>2 DEF CleanSessions, timeVars, IInv, TypeOK
  <2> QED BY <2>1, <2>2
<1>3. /\ sessions' \in [0 .. IdSpace - 1 -> Query \cup {None}]
      /\ \A i \in 0 .. IdSpace - 1 : sessions[i] # None =>
           \/ sessions'[i] = sessions[i]
           \/ sessions'[i] = None /\ number[sessions[i]] <= expired
      /\ \A i \in 0 .. IdSpace - 1 : sessions[i] = None => sessions'[i] = None
  <2>1. CASE TimePasses
    BY <2>1 DEF TimePasses, IInv, TypeOK
  <2>2. CASE CleanSessions
    <3>1. DOMAIN sessions = 0 .. IdSpace - 1
      BY DEF IInv, TypeOK
    <3>2. sessions' = [i \in 0 .. IdSpace - 1 |->
            IF sessions[i] # None /\ Old(sessions[i]) THEN None ELSE sessions[i]]
      BY <2>2, <3>1 DEF CleanSessions, RemoveOld
    <3> QED BY <3>2 DEF IInv, TypeOK, Old
  <2> QED BY <2>1, <2>2
<1>4. TypeOK'
  BY <1>1, <1>2, <1>3 DEF IInv, TypeOK
<1>5. Waiting' /\ Numbered' /\ Answered' /\ Ports'
  BY <1>1, WaitingQuiet, NumberedQuiet, AnsweredQuiet, PortsQuiet DEF IInv
<1>6. Starts'
  BY <1>1 DEF IInv, Starts, Started
<1>7. \A i \in 0 .. IdSpace - 1 : sessions'[i] # None => sessions'[i] = sessions[i]
  BY <1>3
<1>8. Recorded'
  BY <1>1, <1>7 DEF IInv, Recorded, Id
<1>9. Sending'
  <2>1. \A v \in Upstream : Active(v)' <=> Active(v)
    BY <1>1 DEF Active
  <2>2. ASSUME NEW v \in Upstream, Active(v)
        PROVE  \A k \in 0 .. IdSpace - 1 : sessions'[k] # session[v]
    <3>1. session[v] \in Query /\ \A k \in 0 .. IdSpace - 1 : sessions[k] # session[v]
      BY <2>2 DEF IInv, Sending
    <3>2. session[v] # None
      BY <3>1, Constants
    <3> QED BY <1>7, <3>1, <3>2
  <2>3. \A v \in Upstream : Active(v) =>
          /\ Started(v) /\ session[v] \in Query /\ number[session[v]] # 0
          /\ taken[session[v]] = <<>>
    BY DEF IInv, Sending
  <2>4. \A v, w \in Upstream : Active(v) /\ Active(w) /\ session[v] = session[w] => v = w
    BY DEF IInv, Sending
  <2> QED BY <1>1, <2>1, <2>2, <2>3, <2>4 DEF Sending, Started
<1>10. ASSUME NEW p \in Query, Accounted(p)
       PROVE  Accounted(p)'
  <2>1. number'[p] = number[p] /\ Id(number[p]) \in 0 .. IdSpace - 1 /\ number[p] # 0
    BY <1>1, <1>n, <1>10, IdRange DEF Accounted
  <2>2. number[p] <= expired => number'[p] <= expired'
    BY <1>2, <1>n, <2>1
  <2>3. CASE SessionGone(p) \/ number[p] <= expired
    <3>1. SessionGone(p)'
      BY <1>1, <2>2, <2>3 DEF SessionGone, Id
    <3> QED BY <2>1, <3>1 DEF Accounted
  <2>4. CASE NotYetRecorded(p)
    <3>1. NotYetRecorded(p)'
      BY <1>1, <2>4 DEF NotYetRecorded
    <3> QED BY <2>1, <3>1 DEF Accounted
  <2>5. CASE sessions[Id(number[p])] = p /\ ~(number[p] <= expired)
    <3>1. PICK k \in 0 .. IdSpace - 1 : k = Id(number[p])
      BY <2>1
    <3>2. sessions[k] = p /\ p # None
      BY <2>5, <3>1, Constants
    <3>3. sessions'[k] = p
      BY <1>3, <2>5, <3>2
    <3>4. sessions'[Id(number[p])] = p
      BY <3>1, <3>3
    <3> QED BY <1>1, <2>1, <3>4 DEF Accounted, Id
  <2> QED BY <1>10, <2>3, <2>4, <2>5 DEF Accounted
<1>11. Answering'
  <2>1. \A v \in Upstream : wire[v] \subseteq Query
    BY DEF IInv, TypeOK
  <2> QED BY <1>1, <1>10, <2>1, Zenon DEF IInv, Answering
<1> QED BY <1>4, <1>5, <1>6, <1>8, <1>9, <1>11 DEF IInv

LEMMA ClearKeeps ==
  ASSUME IInv, NotifyClear \/ ClearUpstreams
  PROVE  IInv'
<1>1. UNCHANGED <<proto, handler, received, idx, listen_port, started, port, rx, send,
                  session, serial, number, recv, msg, deaf, taken, wire, sessions, expired,
                  cleaner>>
  BY DEF NotifyClear, ClearUpstreams, handlerVars, upstreamVars, sendVars, recvVars,
         timeVars
<1>2. notified' \in 0 .. MaxClear /\ clears' \in 0 .. notified'
  <2>1. notified \in Nat /\ clears \in Nat /\ MaxClear \in Nat /\ clears <= notified
        /\ notified <= MaxClear
    BY Constants DEF IInv, TypeOK
  <2>2. CASE NotifyClear
    <3>1. notified < MaxClear /\ notified' = notified + 1 /\ clears' = clears + 1
      BY <2>2 DEF NotifyClear
    <3> QED BY <2>1, <3>1
  <2>3. CASE ClearUpstreams
    <3>1. clears > 0 /\ notified' = notified /\ clears' = clears - 1
      BY <2>3 DEF ClearUpstreams
    <3> QED BY <2>1, <3>1
  <2> QED BY <2>2, <2>3
<1>3. /\ slot' \in [Slot -> Upstream \cup {None}]
      /\ \A s \in Slot : slot'[s] # None => slot'[s] = slot[s]
  <2>0. slot \in [Slot -> Upstream \cup {None}]
    BY DEF IInv, TypeOK
  <2>1. CASE NotifyClear
    BY <2>0, <2>1 DEF NotifyClear, upstreamVars
  <2>2. CASE ClearUpstreams
    <3>1. slot' = [s \in Slot |-> IF Released(s) THEN None ELSE slot[s]]
      BY <2>2 DEF ClearUpstreams
    <3> QED BY <2>0, <3>1
  <2> QED BY <2>1, <2>2
<1>4. /\ running' \in [Upstream -> BOOLEAN]
      /\ \A v \in Upstream : running'[v] => running[v]
  <2>1. CASE NotifyClear
    BY <2>1 DEF NotifyClear, upstreamVars, IInv, TypeOK
  <2>2. CASE ClearUpstreams
    <3>1. running' = [v \in Upstream |->
                        running[v] /\ ~\E s \in Slot : slot[s] = v /\ Released(s)]
      BY <2>2, Zenon DEF ClearUpstreams
    <3> QED BY <3>1, Zenon
  <2> QED BY <2>1, <2>2
<1>5. TypeOK'
  BY <1>1, <1>2, <1>3, <1>4 DEF IInv, TypeOK
<1>6. Waiting' /\ Ports'
  BY <1>1, WaitingQuiet, PortsQuiet DEF IInv
<1>7. (Numbered /\ Sending /\ Recorded /\ Answering /\ Answered)'
  BY <1>1, TasksQuiet DEF Started
<1>8. Starts'
  BY <1>1, <1>3, <1>4 DEF IInv, Starts, Started
<1> QED BY <1>5, <1>6, <1>7, <1>8 DEF IInv
=============================================================================
