--------------------------- MODULE DnsProxyProofs ---------------------------
(***************************************************************************)
(* Proofs about DnsProxy, for any number of queries, upstreams, slots, ids *)
(* and ports.                                                              *)
(***************************************************************************)
EXTENDS DnsProxyInvariant, FiniteSetTheorems

LEMMA Counted ==
  ASSUME TypeOK, Numbered
  PROVE  /\ IsFiniteSet(Query) /\ Cardinality(Query) = MaxQuery
         /\ IsFiniteSet(HasNumber)
         /\ \A q \in Query : number[q] = 0 => serial <= MaxQuery
<1>1. IsFiniteSet(Query) /\ Cardinality(Query) = MaxQuery
  BY FS_Interval, Constants DEF Query
<1>2. IsFiniteSet(HasNumber) /\ Cardinality(HasNumber) <= MaxQuery
  BY <1>1, FS_Subset, HasNumber \subseteq Query DEF HasNumber
<1>3. ASSUME NEW q \in Query, number[q] = 0
      PROVE  serial <= MaxQuery
  <2>1. HasNumber \cup {q} \subseteq Query /\ q \notin HasNumber
    BY <1>3 DEF HasNumber
  <2>2. Cardinality(HasNumber \cup {q}) = Cardinality(HasNumber) + 1
    BY <1>2, <2>1, FS_AddElement
  <2>3. Cardinality(HasNumber \cup {q}) <= MaxQuery
    BY <1>1, <2>1, FS_Subset
  <2> QED BY <2>2, <2>3, Constants DEF Numbered, TypeOK
<1> QED BY <1>1, <1>2, <1>3
-----------------------------------------------------------------------------
(* SendFut.                                                                *)

(* The parts of the invariant that SendFut does not reach.                 *)
LEMMA SendOutside ==
  ASSUME IInv, SendUnchanged
  PROVE  Ports' /\ \A u \in Upstream : Started(u)' <=> Started(u)
BY PortsQuiet DEF IInv, SendUnchanged, handlerVars, upstreamVars, Started

LEMMA SendKeepsStarts ==
  ASSUME IInv, NEW u \in Upstream, Started(u), SendUnchanged,
         \A v \in Upstream \ {u} : send'[v] = send[v] /\ wire'[v] = wire[v]
  PROVE  Starts'
<1>1. UNCHANGED <<handler, proto, started, received, slot, running, recv>>
  BY DEF SendUnchanged, handlerVars, upstreamVars, recvVars
<1> QED BY <1>1 DEF IInv, Starts, Started

(* Begin to Done, Send to Stalled and back, Send to SessionsLock.          *)
LEMMA SendStateKeeps ==
  ASSUME IInv, NEW u \in Upstream, Started(u), send[u] # "SessionsLock", SendUnchanged,
         NEW x \in {"Send", "Stalled", "SessionsLock", "Done"},
         send' = [send EXCEPT ![u] = x], x # "Done" => Active(u),
         \/ wire' = wire
         \/ x = "SessionsLock" /\ wire' = [wire EXCEPT ![u] = @ \cup {session[u]}],
         UNCHANGED <<rx, session, serial, number, sessions>>
  PROVE  IInv'
<1>1. UNCHANGED <<proto, handler, received, idx, listen_port, slot, started, port, running,
                  recv, msg, deaf, taken, expired, cleaner, clears, notified>>
  BY DEF SendUnchanged, handlerVars, upstreamVars, recvVars, timeVars, clearVars
<1>2. send'[u] = x /\ \A v \in Upstream \ {u} : send'[v] = send[v]
  BY DEF IInv, TypeOK
<1>3. \A v \in Upstream \ {u} : wire'[v] = wire[v]
  BY DEF IInv, TypeOK
<1>4. \A p \in wire'[u] : p \in wire[u] \/ (x = "SessionsLock" /\ p = session[u])
  BY DEF IInv, TypeOK
<1>5. Active(u) => Started(u) /\ session[u] \in Query /\ number[session[u]] # 0
  BY DEF IInv, Sending
<1>6. TypeOK'
  <2>1. send' \in [Upstream -> {"Begin", "Send", "Stalled", "SessionsLock", "Done"}]
    BY DEF IInv, TypeOK
  <2>2. wire' \in [Upstream -> SUBSET Query]
    <3>1. wire \in [Upstream -> SUBSET Query]
      BY DEF IInv, TypeOK
    <3>2. x = "SessionsLock" => session[u] \in Query
      BY <1>5
    <3>3. x = "SessionsLock" => wire[u] \cup {session[u]} \in SUBSET Query
      BY <3>1, <3>2
    <3> QED BY <3>1, <3>3
  <2> QED BY <1>1, <2>1, <2>2 DEF IInv, TypeOK
<1>7. Waiting' /\ Numbered' /\ Recorded' /\ Answered' /\ Ports'
  BY <1>1, WaitingQuiet, NumberedQuiet, RecordedQuiet, AnsweredQuiet, PortsQuiet DEF IInv
<1>8. \A v \in Upstream : Active(v)' => Active(v)
  BY <1>2 DEF Active
<1>9. Sending'
  BY <1>1, <1>8 DEF IInv, Sending, Started
<1>10. \A p \in Query : Accounted(p) => Accounted(p)'
  <2>1. \A p : NotYetRecorded(p) => NotYetRecorded(p)'
    BY <1>2 DEF NotYetRecorded
  <2> QED BY <1>1, <2>1 DEF Accounted, SessionGone, Id
<1>11. x = "SessionsLock" => Accounted(session[u])'
  <2>1. x = "SessionsLock" => NotYetRecorded(session[u])'
    BY <1>2 DEF NotYetRecorded
  <2> QED BY <1>5, <2>1 DEF Accounted
<1>12. Answering'
  <2>1. ASSUME NEW v \in Upstream, NEW p \in wire'[v]
        PROVE  Accounted(p)'
    <3>1. p \in Query
      BY <1>6 DEF TypeOK
    <3>2. CASE p \in wire[v]
      BY <1>10, <3>1, <3>2 DEF IInv, Answering
    <3>3. CASE p \notin wire[v]
      BY <1>3, <1>4, <1>11, <3>3
    <3> QED BY <3>2, <3>3
  <2>2. ASSUME NEW v \in Upstream, recv'[v] = "SessionsLock"
        PROVE  msg'[v] \in Query /\ Accounted(msg[v])'
    BY <1>1, <1>10, <2>2 DEF IInv, Answering
  <2> QED BY <1>1, <2>1, <2>2 DEF Answering
<1>13. Starts'
  BY <1>2, <1>3, SendKeepsStarts
<1> QED BY <1>6, <1>7, <1>9, <1>12, <1>13 DEF IInv

LEMMA SendStatesKeep ==
  ASSUME IInv, NEW u \in Upstream,
         SendFutEnds(u) \/ WriteAll(u) \/ WritePart(u) \/ WriteResumes(u)
  PROVE  IInv'
<1>1. CASE SendFutEnds(u)
  BY <1>1, SendStateKeeps, Zenon DEF SendFutEnds
<1>2. Active(u) => Started(u)
  BY DEF IInv, Sending
<1>3. CASE WriteAll(u)
  BY <1>2, <1>3, SendStateKeeps, Zenon DEF WriteAll, Active
<1>4. CASE WritePart(u)
  BY <1>2, <1>4, SendStateKeeps, Zenon DEF WritePart, Active
<1>5. CASE WriteResumes(u)
  BY <1>2, <1>5, SendStateKeeps, Zenon DEF WriteResumes, Active
<1> QED BY <1>1, <1>3, <1>4, <1>5

LEMMA WriteFailsKeeps ==
  ASSUME IInv, NEW u \in Upstream, WriteFails(u)
  PROVE  IInv'
<1>1. /\ send[u] = "Send" /\ SendUnchanged
      /\ send' = [send EXCEPT ![u] = "Done"] /\ rx' = [rx EXCEPT ![u] = <<>>]
      /\ session' = [session EXCEPT ![u] = None]
      /\ UNCHANGED <<serial, number, wire, sessions>>
  BY DEF WriteFails
<1>2. UNCHANGED <<proto, handler, received, idx, listen_port, slot, started, port, running,
                  recv, msg, deaf, taken, expired, cleaner, clears, notified>>
  BY <1>1 DEF SendUnchanged, handlerVars, upstreamVars, recvVars, timeVars, clearVars
<1>3. /\ send'[u] = "Done" /\ rx'[u] = <<>> /\ Len(rx'[u]) = 0
      /\ \A v \in Upstream \ {u} :
           send'[v] = send[v] /\ rx'[v] = rx[v] /\ session'[v] = session[v]
  BY <1>1 DEF IInv, TypeOK
<1>4. TypeOK'
  <2>1. send' \in [Upstream -> {"Begin", "Send", "Stalled", "SessionsLock", "Done"}]
    BY <1>1 DEF IInv, TypeOK
  <2>2. session' \in [Upstream -> Query \cup {None}]
    BY <1>1 DEF IInv, TypeOK
  <2>3. rx' \in [Upstream -> Seq(Query)]
    BY <1>1 DEF IInv, TypeOK
  <2> QED BY <1>1, <1>2, <2>1, <2>2, <2>3 DEF IInv, TypeOK
<1>5. Held' = Held /\ \A v \in Upstream : Started(v)' <=> Started(v)
  BY <1>2 DEF Held, Started
<1>6. Waiting'
  <2>1. \A v \in Upstream : \A i \in 1 .. Len(rx'[v]) :
          i \in 1 .. Len(rx[v]) /\ rx'[v][i] = rx[v][i]
    BY <1>3
  <2>2. \A v \in Upstream : ~Started(v) => rx'[v] = <<>>
    BY <1>3 DEF IInv, Waiting
  <2> QED BY <1>1, <1>5, <2>1, <2>2 DEF IInv, Waiting
<1>7. Numbered' /\ Recorded' /\ Answered' /\ Ports'
  BY <1>1, <1>2, NumberedQuiet, RecordedQuiet, AnsweredQuiet, PortsQuiet DEF IInv
<1>8. \A v \in Upstream : Active(v)' => Active(v) /\ session'[v] = session[v]
  BY <1>3 DEF Active
<1>9. Sending'
  BY <1>1, <1>2, <1>8 DEF IInv, Sending, Started
<1>10. \A p \in Query : Accounted(p) => Accounted(p)'
  <2>1. \A p : NotYetRecorded(p) => NotYetRecorded(p)'
    BY <1>1, <1>3 DEF NotYetRecorded
  <2> QED BY <1>1, <1>2, <2>1 DEF Accounted, SessionGone, Id
<1>11. Answering'
  <2>1. \A v \in Upstream : wire[v] \subseteq Query
    BY DEF IInv, TypeOK
  <2> QED BY <1>1, <1>2, <1>10, <2>1 DEF IInv, Answering
<1>12. Starts'
  <2>1. Started(u)
    BY <1>1 DEF IInv, Sending, Active
  <2> QED BY <1>1, <1>3, <2>1, SendKeepsStarts
<1> QED BY <1>4, <1>6, <1>7, <1>9, <1>11, <1>12 DEF IInv

LEMMA InsertSessionKeeps ==
  ASSUME IInv, NEW u \in Upstream, InsertSession(u)
  PROVE  IInv'
<1>0. /\ send[u] = "SessionsLock" /\ SendUnchanged
      /\ sessions' = [sessions EXCEPT ![Id(number[session[u]])] = session[u]]
      /\ session' = [session EXCEPT ![u] = None] /\ send' = [send EXCEPT ![u] = "Begin"]
      /\ UNCHANGED <<rx, serial, number, wire>>
  BY DEF InsertSession
<1>1. PICK q \in Query, i \in 0 .. IdSpace - 1 :
        /\ q = session[u] /\ i = Id(number[q]) /\ number[q] # 0 /\ taken[q] = <<>>
        /\ Started(u) /\ \A k \in 0 .. IdSpace - 1 : sessions[k] # q
  <2>1. session[u] \in Query /\ number[session[u]] # 0 /\ taken[session[u]] = <<>>
        /\ Started(u) /\ \A k \in 0 .. IdSpace - 1 : sessions[k] # session[u]
    BY <1>0 DEF IInv, Sending, Active
  <2>2. number[session[u]] \in Nat
    BY <2>1 DEF IInv, TypeOK
  <2>3. Id(number[session[u]]) \in 0 .. IdSpace - 1
    BY <2>2, IdRange
  <2> QED BY <2>1, <2>3
<1>2. UNCHANGED <<proto, handler, received, idx, listen_port, slot, started, port, running,
                  recv, msg, deaf, taken, expired, cleaner, clears, notified>>
  BY <1>0 DEF SendUnchanged, handlerVars, upstreamVars, recvVars, timeVars, clearVars
<1>3. /\ send'[u] = "Begin"
      /\ \A v \in Upstream \ {u} : send'[v] = send[v] /\ session'[v] = session[v]
      /\ sessions'[i] = q
      /\ \A k \in 0 .. IdSpace - 1 : k # i => sessions'[k] = sessions[k]
  BY <1>0, <1>1 DEF IInv, TypeOK
<1>4. TypeOK'
  <2>1. send' \in [Upstream -> {"Begin", "Send", "Stalled", "SessionsLock", "Done"}]
    BY <1>0 DEF IInv, TypeOK
  <2>2. session' \in [Upstream -> Query \cup {None}]
    BY <1>0 DEF IInv, TypeOK
  <2>3. sessions' \in [0 .. IdSpace - 1 -> Query \cup {None}]
    BY <1>0, <1>1 DEF IInv, TypeOK
  <2> QED BY <1>0, <1>2, <2>1, <2>2, <2>3, Zenon DEF IInv, TypeOK
<1>5. Waiting' /\ Numbered' /\ Answered' /\ Ports'
  BY <1>0, <1>2, WaitingQuiet, NumberedQuiet, AnsweredQuiet, PortsQuiet DEF IInv
<1>6. Recorded'
  <2>1. number' = number /\ taken' = taken
    BY <1>0, <1>2
  <2> SUFFICES ASSUME NEW k \in 0 .. IdSpace - 1, sessions'[k] # None
               PROVE  /\ number[sessions'[k]] # 0 /\ Id(number[sessions'[k]]) = k
                      /\ taken[sessions'[k]] = <<>>
    BY <2>1 DEF Recorded, Id
  <2>2. CASE k = i
    BY <1>1, <1>3, <2>2
  <2>3. CASE k # i
    BY <1>3, <2>3 DEF IInv, Recorded
  <2> QED BY <2>2, <2>3
<1>7. \A v \in Upstream : Active(v)' => v # u /\ Active(v) /\ session'[v] = session[v]
  BY <1>3 DEF Active
<1>8. Sending'
  <2>1. ASSUME NEW v \in Upstream, Active(v)'
        PROVE  /\ Started(v)' /\ session'[v] \in Query /\ number'[session'[v]] # 0
               /\ taken'[session'[v]] = <<>>
               /\ \A k \in 0 .. IdSpace - 1 : sessions'[k] # session'[v]
    <3>1. Active(v) /\ session'[v] = session[v] /\ v # u
      BY <1>7, <2>1
    <3>2. session[v] # q
      BY <1>0, <1>1, <3>1 DEF IInv, Sending, Active
    <3>3. /\ Started(v) /\ session[v] \in Query /\ number[session[v]] # 0
          /\ taken[session[v]] = <<>>
          /\ \A k \in 0 .. IdSpace - 1 : sessions[k] # session[v]
      BY <3>1 DEF IInv, Sending
    <3>4. \A k \in 0 .. IdSpace - 1 : sessions'[k] # session[v]
      BY <1>3, <3>2, <3>3
    <3>5. number' = number /\ taken' = taken /\ (Started(v) => Started(v)')
      BY <1>0, <1>2 DEF Started
    <3> QED BY <3>1, <3>3, <3>4, <3>5
  <2>2. \A v, w \in Upstream :
          Active(v)' /\ Active(w)' /\ session'[v] = session'[w] => v = w
    BY <1>7 DEF IInv, Sending
  <2> QED BY <2>1, <2>2 DEF Sending
<1>9. ASSUME NEW p \in Query, Accounted(p)
      PROVE  Accounted(p)'
  <2>1. number'[p] = number[p] /\ Id(number[p]) \in 0 .. IdSpace - 1 /\ number[p] # 0
    <3>1. number[p] \in Nat
      BY DEF IInv, TypeOK
    <3> QED BY <1>0, <1>9, <3>1, IdRange DEF Accounted
  <2>2. CASE p = q
    <3>1. sessions'[Id(number[p])] = p
      BY <1>1, <1>3, <2>2
    <3> QED BY <1>0, <2>1, <3>1 DEF Accounted, Id
  <2>3. CASE p # q /\ sessions[Id(number[p])] = p
    <3>1. CASE Id(number[p]) = i
      <4>1. SessionGone(p)'
        BY <1>0, <1>1, <2>3, <3>1 DEF SessionGone, Id
      <4> QED BY <2>1, <4>1 DEF Accounted
    <3>2. CASE Id(number[p]) # i
      <4>1. sessions'[Id(number[p])] = p
        BY <1>3, <2>1, <2>3, <3>2, SMTT(20)
      <4> QED BY <1>0, <2>1, <4>1 DEF Accounted, Id
    <3> QED BY <3>1, <3>2
  <2>4. CASE SessionGone(p)
    <3>1. SessionGone(p)'
      BY <1>0, <1>2, <2>4, Zenon DEF SessionGone, Id
    <3> QED BY <2>1, <3>1 DEF Accounted
  <2>5. CASE p # q /\ NotYetRecorded(p)
    <3>1. NotYetRecorded(p)'
      BY <1>1, <1>3, <2>5 DEF NotYetRecorded
    <3> QED BY <2>1, <3>1 DEF Accounted
  <2> QED BY <1>9, <2>2, <2>3, <2>4, <2>5 DEF Accounted
<1>10. Answering'
  <2>1. \A v \in Upstream : wire[v] \subseteq Query
    BY DEF IInv, TypeOK
  <2> QED BY <1>0, <1>2, <1>9, <2>1 DEF IInv, Answering
<1>11. Starts'
  BY <1>0, <1>1, <1>3, SendKeepsStarts
<1> QED BY <1>4, <1>5, <1>6, <1>8, <1>10, <1>11 DEF IInv

(* The head of a channel leaves it and gets the next serial.               *)
LEMMA WaitingTake ==
  ASSUME TypeOK, Waiting, NEW u \in Upstream, NEW q \in Query, rx[u] # <<>>,
         q = Head(rx[u]), rx' = [rx EXCEPT ![u] = Tail(@)],
         \A p \in Query \ {q} : number'[p] = number[p],
         UNCHANGED <<received, handler, started>>
  PROVE  Waiting'
<1>1. \A v \in Upstream : rx[v] \in Seq(Query) /\ Len(rx[v]) \in Nat
  BY DEF TypeOK
<1>2. /\ Len(rx[u]) >= 1 /\ rx[u][1] = q /\ rx'[u] = Tail(rx[u])
      /\ \A v \in Upstream \ {u} : rx'[v] = rx[v]
  BY <1>1 DEF TypeOK
<1>3. /\ Len(rx'[u]) = Len(rx[u]) - 1
      /\ \A i \in 1 .. Len(rx[u]) - 1 : rx'[u][i] = rx[u][i + 1]
  <2>1. rx[u] \in Seq(Query) /\ rx[u] # <<>>
    BY <1>1
  <2>2. /\ Len(Tail(rx[u])) = Len(rx[u]) - 1
        /\ \A i \in 1 .. Len(rx[u]) - 1 : Tail(rx[u])[i] = rx[u][i + 1]
    BY <2>1, TailFacts, Zenon
  <2> QED BY <1>2, <2>2, Zenon
<1>4. Held' = Held /\ \A v \in Upstream : Started(v)' <=> Started(v)
  BY DEF Held, Started
<1>5. q \notin Held
  <2>1. 1 \in 1 .. Len(rx[u])
    BY <1>1, <1>2
  <2> QED BY <1>2, <2>1 DEF Waiting
<1>6. \A v \in Upstream : \A i \in 1 .. Len(rx'[v]) :
        IF v = u THEN i + 1 \in 1 .. Len(rx[u]) /\ rx'[v][i] = rx[u][i + 1]
                 ELSE i \in 1 .. Len(rx[v]) /\ rx'[v][i] = rx[v][i]
  BY <1>1, <1>2, <1>3
<1>7. ASSUME NEW v \in Upstream, NEW i \in 1 .. Len(rx[v]), v = u => i # 1
      PROVE  /\ rx[v][i] \in Query /\ rx[v][i] # q /\ rx[v][i] \notin Held
             /\ number'[rx[v][i]] = 0
  <2>1. rx[v][i] \in Query /\ number[rx[v][i]] = 0 /\ rx[v][i] \notin Held
    BY <1>1 DEF Waiting
  <2>2. rx[v][i] # q
    <3>1. 1 \in 1 .. Len(rx[u])
      BY <1>1, <1>2
    <3> QED BY <1>2, <1>7, <3>1 DEF Waiting
  <2> QED BY <2>1, <2>2
<1>8. ASSUME NEW v \in Upstream, NEW i \in 1 .. Len(rx'[v])
      PROVE  number'[rx'[v][i]] = 0 /\ rx'[v][i] \notin Held'
  <2>1. CASE v = u
    <3>1. i + 1 \in 1 .. Len(rx[u]) /\ i + 1 # 1 /\ rx'[v][i] = rx[u][i + 1]
      BY <1>1, <1>3, <1>6, <2>1
    <3> QED BY <1>4, <1>7, <3>1
  <2>2. CASE v # u
    BY <1>4, <1>6, <1>7, <2>2
  <2> QED BY <2>1, <2>2
<1>9. ASSUME NEW v \in Upstream, NEW w \in Upstream,
             NEW i \in 1 .. Len(rx'[v]), NEW j \in 1 .. Len(rx'[w]),
             rx'[v][i] = rx'[w][j]
      PROVE  v = w /\ i = j
  <2>1. PICK k \in 1 .. Len(rx[v]) :
          rx'[v][i] = rx[v][k] /\ k = (IF v = u THEN i + 1 ELSE i)
    BY <1>6
  <2>2. PICK m \in 1 .. Len(rx[w]) :
          rx'[w][j] = rx[w][m] /\ m = (IF w = u THEN j + 1 ELSE j)
    BY <1>6, Zenon
  <2>3. v = w /\ k = m
    BY <1>9, <2>1, <2>2 DEF Waiting
  <2>4. Len(rx'[v]) \in Nat /\ Len(rx'[w]) \in Nat
    BY <1>1, <1>2, <1>3
  <2> QED BY <2>1, <2>2, <2>3, <2>4
<1>10. \A v \in Upstream : ~Started(v)' => rx'[v] = <<>>
  BY <1>2, <1>4 DEF Waiting
<1>11. \A p \in Held' : number'[p] = 0
  <2>1. Held \subseteq Query
    BY DEF Held
  <2> QED BY <1>4, <1>5, <2>1 DEF Waiting
<1> QED BY <1>8, <1>9, <1>10, <1>11 DEF Waiting

LEMMA TakeQueryKeeps ==
  ASSUME IInv, NEW u \in Upstream, NEW encoded \in BOOLEAN, TakeQuery(u, encoded)
  PROVE  IInv'
<1>0. /\ Started(u) /\ send[u] = "Begin" /\ rx[u] # <<>> /\ SendUnchanged
      /\ rx' = [rx EXCEPT ![u] = Tail(@)]
      /\ session' = [session EXCEPT ![u] = Head(rx[u])]
      /\ number' = [number EXCEPT ![Head(rx[u])] = serial] /\ serial' = serial + 1
      /\ send' = [send EXCEPT ![u] = IF encoded THEN "Send" ELSE "Begin"]
      /\ UNCHANGED <<wire, sessions>>
  BY DEF TakeQuery, AfterFetchAdd
<1>1. PICK q \in Query : q = Head(rx[u]) /\ number[q] = 0
  <2>1. rx[u] \in Seq(Query)
    BY DEF IInv, TypeOK
  <2>2. Head(rx[u]) \in Query /\ Head(rx[u]) = rx[u][1] /\ 1 \in 1 .. Len(rx[u])
    BY <1>0, <2>1
  <2> QED BY <2>2 DEF IInv, Waiting
<1>2. UNCHANGED <<proto, handler, received, idx, listen_port, slot, started, port, running,
                  recv, msg, deaf, taken, expired, cleaner, clears, notified>>
  BY <1>0 DEF SendUnchanged, handlerVars, upstreamVars, recvVars, timeVars, clearVars
<1>3. serial \in Nat /\ serial >= 1 /\ serial <= MaxQuery /\ MaxQuery \in Nat
      /\ \A p \in Query : number[p] \in Nat
  BY <1>1, Counted, Constants DEF IInv, TypeOK
<1>4. number'[q] = serial /\ \A p \in Query \ {q} : number'[p] = number[p]
  BY <1>0, <1>1 DEF IInv, TypeOK
<1>5. \A p \in Query : number[p] # 0 => p # q /\ number'[p] = number[p]
  BY <1>1, <1>4
<1>6. /\ session'[u] = q /\ send'[u] = (IF encoded THEN "Send" ELSE "Begin")
      /\ \A v \in Upstream \ {u} : send'[v] = send[v] /\ session'[v] = session[v]
  BY <1>0, <1>1 DEF IInv, TypeOK
<1>7. TypeOK'
  <2>1. send' \in [Upstream -> {"Begin", "Send", "Stalled", "SessionsLock", "Done"}]
    BY <1>0 DEF IInv, TypeOK
  <2>2. session' \in [Upstream -> Query \cup {None}]
    BY <1>0, <1>1 DEF IInv, TypeOK
  <2>3. rx' \in [Upstream -> Seq(Query)]
    <3>1. rx[u] \in Seq(Query)
      BY DEF IInv, TypeOK
    <3>2. Tail(rx[u]) \in Seq(Query)
      BY <1>0, <3>1
    <3> QED BY <1>0, <3>2 DEF IInv, TypeOK
  <2>4. number' \in [Query -> 0 .. MaxQuery]
    <3>1. serial \in 0 .. MaxQuery
      BY <1>3
    <3> QED BY <1>0, <1>1, <3>1 DEF IInv, TypeOK
  <2>5. serial' \in 1 .. MaxQuery + 1 /\ expired' \in 0 .. serial' - 1
    BY <1>0, <1>2, <1>3 DEF IInv, TypeOK
  <2> QED BY <1>0, <1>2, <2>1, <2>2, <2>3, <2>4, <2>5, Zenon DEF IInv, TypeOK
<1>8. Waiting'
  BY <1>0, <1>1, <1>2, <1>4, WaitingTake, Zenon DEF IInv
<1>9. Numbered'
  <2>1. HasNumber' = HasNumber \cup {q} /\ q \notin HasNumber
    BY <1>1, <1>3, <1>4 DEF HasNumber
  <2>2. Cardinality(HasNumber') = Cardinality(HasNumber) + 1
    BY <2>1, Counted, FS_AddElement, Zenon DEF IInv
  <2>3. Cardinality(HasNumber') = serial' - 1
    BY <1>0, <1>3, <2>2 DEF IInv, Numbered
  <2>4. \A p \in Query : number'[p] < serial'
    BY <1>0, <1>3, <1>4 DEF IInv, Numbered
  <2>5. \A p, r \in Query : number'[p] = number'[r] /\ number'[r] # 0 => p = r
    BY <1>3, <1>4 DEF IInv, Numbered
  <2> QED BY <2>3, <2>4, <2>5 DEF Numbered
<1>10. taken[q] = <<>> /\ \A k \in 0 .. IdSpace - 1 : sessions[k] # q
  BY <1>1, Constants DEF IInv, Answered, Recorded
<1>11. Sending'
  <2>1. \A v \in Upstream : Active(v)' =>
          \/ v = u
          \/ v # u /\ Active(v) /\ session'[v] = session[v] /\ session[v] # q
    BY <1>1, <1>6 DEF IInv, Sending, Active
  <2>2. ASSUME NEW v \in Upstream, Active(v)'
        PROVE  /\ Started(v)' /\ session'[v] \in Query /\ number'[session'[v]] # 0
               /\ taken'[session'[v]] = <<>>
               /\ \A k \in 0 .. IdSpace - 1 : sessions'[k] # session'[v]
    <3>1. CASE v = u
      <4>1. session'[v] = q /\ number'[q] # 0
        BY <1>3, <1>4, <1>6, <3>1
      <4>2. Started(v)' /\ taken' = taken /\ sessions' = sessions
        BY <1>0, <1>2, <3>1 DEF Started
      <4> QED BY <1>10, <4>1, <4>2
    <3>2. CASE v # u
      <4>1. Active(v) /\ session'[v] = session[v]
        BY <2>1, <2>2, <3>2
      <4>2. /\ Started(v) /\ session[v] \in Query /\ number[session[v]] # 0
            /\ taken[session[v]] = <<>>
            /\ \A k \in 0 .. IdSpace - 1 : sessions[k] # session[v]
        BY <4>1 DEF IInv, Sending
      <4>3. taken' = taken /\ sessions' = sessions /\ (Started(v) => Started(v)')
        BY <1>0, <1>2 DEF Started
      <4>4. number'[session[v]] # 0
        BY <1>5, <4>2
      <4> QED BY <4>1, <4>2, <4>3, <4>4
    <3> QED BY <3>1, <3>2, Zenon
  <2>3. \A v, w \in Upstream :
          Active(v)' /\ Active(w)' /\ session'[v] = session'[w] => v = w
    BY <1>6, <2>1 DEF IInv, Sending
  <2> QED BY <2>2, <2>3 DEF Sending
<1>12. Recorded'
  <2>1. \A k \in 0 .. IdSpace - 1 : sessions[k] # None => sessions[k] \in Query
    BY Zenon DEF IInv, TypeOK
  <2> QED BY <1>0, <1>2, <1>5, <2>1 DEF IInv, Recorded, Id
<1>13. ASSUME NEW p \in Query, Accounted(p)
       PROVE  Accounted(p)'
  <2>1. number'[p] = number[p] /\ number[p] # 0
    BY <1>5, <1>13 DEF Accounted
  <2>2. SessionGone(p) => SessionGone(p)'
    BY <1>2, <1>5, <2>1 DEF SessionGone, Id
  <2>3. NotYetRecorded(p) => NotYetRecorded(p)'
    BY <1>0, <1>6 DEF NotYetRecorded
  <2> QED BY <1>0, <1>13, <2>1, <2>2, <2>3 DEF Accounted, Id
<1>14. Answering'
  <2>1. \A v \in Upstream : wire[v] \subseteq Query
    BY DEF IInv, TypeOK
  <2> QED BY <1>0, <1>2, <1>13, <2>1 DEF IInv, Answering
<1>15. Answered'
  <2> SUFFICES ASSUME NEW p \in Query, taken[p] # <<>>
               PROVE  /\ Len(taken[p]) = 1 /\ number'[p] # 0
                      /\ number'[taken[p][1]] # 0
                      /\ Id(number'[taken[p][1]]) = Id(number'[p])
    BY <1>2 DEF Answered, Id
  <2>1. /\ Len(taken[p]) = 1 /\ number[p] # 0 /\ number[taken[p][1]] # 0
        /\ Id(number[taken[p][1]]) = Id(number[p])
    BY DEF IInv, Answered
  <2>2. taken[p][1] \in Query
    BY <2>1 DEF IInv, TypeOK
  <2> QED BY <1>5, <2>1, <2>2
<1>16. Ports' /\ Starts'
  BY <1>0, <1>2, <1>6, PortsQuiet, SendKeepsStarts DEF IInv
<1> QED BY <1>7, <1>8, <1>9, <1>11, <1>12, <1>14, <1>15, <1>16 DEF IInv

LEMMA SendFutKeeps ==
  ASSUME IInv, NEW u \in Upstream, SendFut(u)
  PROVE  IInv'
BY TakeQueryKeeps, SendStatesKeep, WriteFailsKeeps, InsertSessionKeeps DEF SendFut

-----------------------------------------------------------------------------
LEMMA InitInvariant == Init => IInv
<1> SUFFICES ASSUME Init
             PROVE  IInv
  OBVIOUS
<1> USE DEF Init
<1>1. TypeOK
  <2>1. rx \in [Upstream -> Seq(Query)] /\ taken \in [Query -> Seq(Query)]
    OBVIOUS
  <2>2. serial \in 1 .. MaxQuery + 1 /\ expired \in 0 .. serial - 1
        /\ received \in 0 .. MaxQuery /\ started \in 0 .. MaxStart
        /\ listen_port \in 0 .. PortSpace - 1 /\ port \in [Upstream -> 0 .. PortSpace - 1]
        /\ number \in [Query -> 0 .. MaxQuery] /\ notified \in 0 .. MaxClear
        /\ clears \in 0 .. notified
    BY Constants
  <2> QED BY <2>1, <2>2, Zenon DEF TypeOK
<1>2. Held \subseteq Query /\ \A q \in Query : number[q] = 0
  BY DEF Held
<1>3. Waiting
  BY <1>2 DEF Waiting
<1>4. Numbered
  <2>1. HasNumber = {}
    BY DEF HasNumber
  <2> QED BY <2>1, FS_EmptySet DEF Numbered
<1>5. Sending /\ Recorded /\ Answering /\ Answered
  BY DEF Sending, Active, Recorded, Answering, Answered
<1>6. Ports
  <2>1. \A u \in Upstream : ~Started(u)
    BY Constants DEF Started, Upstream
  <2> QED BY <2>1, Constants DEF Ports
<1>7. Starts
  BY DEF Starts
<1> QED BY <1>1, <1>3, <1>4, <1>5, <1>6, <1>7 DEF IInv

(* Every step keeps the invariant: one case per action of the tasks.       *)
THEOREM NextInvariant == IInv /\ [Next]_vars => IInv'
<1> SUFFICES ASSUME IInv, [Next]_vars
             PROVE  IInv'
  OBVIOUS
<1>1. CASE Send
  BY <1>1, EnqueueKeeps, StartUdpKeeps, NotStartedKeeps DEF Send
<1>2. CASE UNCHANGED vars
  <2>1. UNCHANGED <<proto, handler, received, idx, listen_port, slot, started, port,
                    running, rx, send, session, serial, number, recv, msg, deaf, taken,
                    wire, sessions, expired, cleaner, clears, notified>>
    BY <1>2 DEF vars, handlerVars, upstreamVars, sendVars, recvVars, timeVars, clearVars
  <2>2. TypeOK'
    BY <2>1, ZenonT(30) DEF IInv, TypeOK
  <2>3. Waiting' /\ Ports' /\ Starts'
    BY <2>1, WaitingQuiet, PortsQuiet, Zenon DEF IInv, Starts, Started
  <2>4. (Numbered /\ Sending /\ Recorded /\ Answering /\ Answered)'
    BY <2>1, TasksQuiet DEF Started
  <2> QED BY <2>2, <2>3, <2>4 DEF IInv
<1> QED BY <1>1, <1>2, ConnectedKeeps, ConnectFailsKeeps, SendFutKeeps, RecvFutKeeps,
           TimeKeeps, ClearKeeps DEF Next

(* IInv is an invariant of every behaviour of the proxy.                   *)
THEOREM Invariance == Spec => []IInv
BY InitInvariant, NextInvariant, PTL DEF Spec

(* Every variable keeps its type; fetch_add gives out at most one serial   *)
(* per query that a SendFut took.                                          *)
THEOREM TypeCorrect == Spec => []TypeOK
<1>1. IInv => TypeOK
  BY DEF IInv
<1> QED BY <1>1, Invariance, PTL

(* RecvFut removes the session it answers, so no query is answered twice,  *)
(* however often its response is repeated.                                 *)
THEOREM OneAnswer == Spec => []AtMostOneAnswer
<1>1. IInv => AtMostOneAnswer
  <2> SUFFICES ASSUME IInv, NEW q \in Query
               PROVE  Len(taken[q]) <= 1
    BY DEF AtMostOneAnswer
  <2>1. CASE taken[q] = <<>>
    <3>1. Len(<<>>) = 0
      OBVIOUS
    <3> QED BY <2>1, <3>1
  <2>2. CASE taken[q] # <<>>
    <3>1. Len(taken[q]) = 1
      BY <2>2 DEF IInv, Answered
    <3> QED BY <3>1
  <2> QED BY <2>1, <2>2
<1> QED BY <1>1, Invariance, PTL

(* A client is given another query's response only when the two ids agree  *)
(* although the serials differ, that is after the AtomicU16 has wrapped.   *)
THEOREM WrongAnswerNeedsWrap == Spec => []WrongAnswerOnlyAfterWrap
<1>1. IInv => WrongAnswerOnlyAfterWrap
  <2> SUFFICES ASSUME IInv, NEW q \in Query, NEW k \in DOMAIN taken[q], taken[q][k] # q
               PROVE  /\ number[taken[q][k]] # number[q]
                      /\ Id(number[taken[q][k]]) = Id(number[q])
    BY DEF WrongAnswerOnlyAfterWrap
  <2>1. taken[q] \in Seq(Query)
    BY DEF IInv, TypeOK
  <2>2. taken[q] # <<>> /\ k \in 1 .. Len(taken[q])
    BY <2>1
  <2>3. /\ Len(taken[q]) = 1 /\ number[q] # 0 /\ number[taken[q][1]] # 0
        /\ Id(number[taken[q][1]]) = Id(number[q])
    BY <2>2 DEF IInv, Answered
  <2>4. k = 1 /\ taken[q][k] \in Query
    BY <2>1, <2>2, <2>3
  <2> QED BY <2>3, <2>4 DEF IInv, Numbered
<1> QED BY <1>1, Invariance, PTL

(* The bind in start_upstream meets a port still held by an earlier        *)
(* upstream only after the u16 port counter has wrapped.                   *)
THEOREM BindNeedsWrap == Spec => []PortInUseOnlyAfterWrap
<1>1. IInv => PortInUseOnlyAfterWrap
  <2> SUFFICES ASSUME IInv, handler = "PortInUse"
               PROVE  FirstPort + started >= PortSpace
    BY DEF PortInUseOnlyAfterWrap
  <2> QED BY DEF IInv, Ports
<1> QED BY <1>1, Invariance, PTL

(* RecvFut discards a response only when the session was answered, has     *)
(* timed out, shares its id with another query, or is not recorded yet.    *)
THEOREM DiscardsJustified == Spec => DiscardJustified
<1>1. IInv /\ [Next]_vars =>
        [\A u \in Upstream :
           Discard(u) => SessionGone(msg[u]) \/ NotYetRecorded(msg[u])]_vars
  <2> SUFFICES ASSUME IInv, NEW u \in Upstream, Discard(u)
               PROVE  SessionGone(msg[u]) \/ NotYetRecorded(msg[u])
    OBVIOUS
  <2>1. msg[u] \in Query /\ Accounted(msg[u])
    BY DEF IInv, Answering, Discard
  <2>2. sessions[Id(number[msg[u]])] = None
    BY DEF Discard
  <2> QED BY <2>1, <2>2, Constants DEF Accounted
<1> QED BY <1>1, Invariance, PTL DEF Spec, DiscardJustified
=============================================================================
