-------------------------- MODULE TcpHandleProofs ---------------------------
(***************************************************************************)
(* The connection map of TcpHandle is right for every number of streams,   *)
(* every set of address pairs and every number of network changes.         *)
(***************************************************************************)
EXTENDS TcpHandle, TLAPS

InMapStates == Polling \cup {"Remove"}

(* A connection that has not inserted its handle cannot have been          *)
(* cancelled, and a stream that has not been accepted has no task.         *)
NotYetInserted ==
  \A c \in Conn :
    /\ task[c] \in {"New", "Connecting", "Insert"} => ~cancelled[c]
    /\ c > accepted => task[c] = "New"

IInv ==
  /\ TypeOK
  /\ UncancelledIffInMap
  /\ NoEntryOutlivesItsTask
  /\ NotYetInserted
-----------------------------------------------------------------------------
(* TcpHandle::new establishes the invariant.                               *)
LEMMA InitInvariant == Init => IInv
<1> SUFFICES ASSUME Init PROVE IInv
  OBVIOUS
<1>1. AnyKey \in Key
  BY BoundsAssumption DEF AnyKey
<1>2. TypeOK
  <2>1. /\ accepted \in 0 .. MaxStream /\ notified \in 0 .. MaxNotify
        /\ unseen \in 0 .. 2 /\ clear = "New"
    BY BoundsAssumption DEF Init
  <2>2. closed \in BOOLEAN
    BY Zenon DEF Init
  <2>3. /\ key \in [Conn -> Key] /\ connects \in [Key -> 0 .. accepted]
        /\ cancelled \in [Conn -> BOOLEAN] /\ waker \in [Conn -> BOOLEAN]
        /\ woken \in [Conn -> BOOLEAN]
    BY <1>1 DEF Init, None
  <2>4. task \in [Conn -> {"New", "Connecting", "Insert", "Remove", "Done"}
                           \cup Polling]
    BY DEF Init
  <2> QED BY <2>1, <2>2, <2>3, <2>4 DEF TypeOK
<1>3. UncancelledIffInMap /\ NoEntryOutlivesItsTask /\ NotYetInserted
  BY DEF Init, UncancelledIffInMap, NoEntryOutlivesItsTask, NotYetInserted,
         Polling, None, Conn
<1> QED BY <1>2, <1>3 DEF IInv

(* A step of a task outside the map: nothing but where the task is, its    *)
(* waker and its notification change, and it does not enter or leave the   *)
(* states in which its handle is in the map, or ends without having been.  *)
LEMMA TaskStep ==
  ASSUME IInv, NEW c \in Conn, NEW from, NEW to,
         Moves(c, from, to),
         \/ from = "Connecting" /\ to \in {"Insert", "Done"}
         \/ from \in Polling /\ to \in InMapStates,
         waker' \in [Conn -> BOOLEAN], woken' \in [Conn -> BOOLEAN],
         UNCHANGED <<accepted, key, connects, cancelled, clearVars>>
  PROVE  IInv'
<1> USE DEF IInv, Moves, InMapStates, Polling, clearVars
<1>1. TypeOK'
  BY DEF TypeOK
<1>2. UncancelledIffInMap'
  BY DEF TypeOK, UncancelledIffInMap
<1>3. NoEntryOutlivesItsTask'
  BY DEF TypeOK, NoEntryOutlivesItsTask, None, Conn
<1>4. NotYetInserted'
  BY DEF TypeOK, NotYetInserted, Conn
<1> QED BY <1>1, <1>2, <1>3, <1>4

(* What dropping the handles of S does to the flags, and the types.        *)
LEMMA CancelEffect ==
  ASSUME TypeOK, NEW S, Cancel(S)
  PROVE  /\ cancelled' \in [Conn -> BOOLEAN]
         /\ waker' \in [Conn -> BOOLEAN]
         /\ woken' \in [Conn -> BOOLEAN]
         /\ \A d \in Conn : cancelled'[d] <=> (cancelled[d] \/ d \in S)
  BY DEF TypeOK, Cancel, Flagged, Woken

(* handle_tcp_stream starts a task whose handle is not in the map yet.     *)
LEMMA AcceptKeepsInvariant ==
  ASSUME IInv, NEW k \in Key, Accept(k)
  PROVE  IInv'
<1> DEFINE c == accepted + 1
<1> USE DEF IInv
<1>1. /\ accepted \in Nat /\ c \in Conn /\ accepted' = c
      /\ key' = [key EXCEPT ![c] = k]
      /\ task' = [task EXCEPT ![c] = "Connecting"]
      /\ UNCHANGED <<connects, cancelled, waker, woken, unseen, notified,
                     closed>>
  BY BoundsAssumption DEF Accept, TypeOK, Conn, cancelVars
<1>2. /\ clear' \in {"New", "Recv", "Lock", "Ended"}
      /\ clear' = "Ended" => clear = "Ended"
  BY DEF Accept, ClearSpawned, TypeOK
<1>3. \A j \in Key : connects[j] \in 0 .. accepted /\ connects[j] # c
  BY <1>1 DEF TypeOK
<1>4. TypeOK'
  BY <1>1, <1>2, <1>3 DEF TypeOK, Conn
<1>5. UncancelledIffInMap'
  BY <1>1 DEF TypeOK, UncancelledIffInMap, Polling
<1>6. NoEntryOutlivesItsTask'
  BY <1>1, <1>3 DEF TypeOK, NoEntryOutlivesItsTask, Polling, None, Conn
<1>7. NotYetInserted'
  <2>1. task[c] = "New" /\ ~cancelled[c]
    BY <1>1 DEF NotYetInserted
  <2> QED BY <1>1, <2>1 DEF TypeOK, NotYetInserted, Conn
<1> QED BY <1>4, <1>5, <1>6, <1>7

(* The insert of a connection cancels the one it displaces, and no other.  *)
LEMMA InsertKeepsInvariant ==
  ASSUME IInv, NEW c \in Conn, Insert(c)
  PROVE  IInv'
<1> USE DEF IInv
<1>1. /\ task[c] = "Insert" /\ task' = [task EXCEPT ![c] = "Load"]
      /\ connects' = [connects EXCEPT ![key[c]] = c]
      /\ UNCHANGED <<accepted, key, clear, unseen, notified, closed>>
      /\ key[c] \in Key
  BY DEF Insert, Moves, clearVars, TypeOK
<1>2. /\ cancelled' \in [Conn -> BOOLEAN]
      /\ waker' \in [Conn -> BOOLEAN] /\ woken' \in [Conn -> BOOLEAN]
      /\ \A d \in Conn : cancelled'[d] <=> (cancelled[d] \/ d \in Replaced(c))
  BY CancelEffect DEF Insert
<1>3. c \in 1 .. accepted
  BY <1>1 DEF NotYetInserted, Conn, TypeOK
<1>4. \A k \in Key : connects[k] # c
  BY <1>1 DEF NoEntryOutlivesItsTask, Polling, None, Conn
<1>5. ~cancelled[c] /\ ~cancelled'[c]
  BY <1>1, <1>2, <1>4 DEF NotYetInserted, Replaced
<1>6. TypeOK'
  <2>1. accepted \in Nat /\ c \in 0 .. accepted
    BY <1>3, BoundsAssumption DEF TypeOK
  <2>2. connects' \in [Key -> 0 .. accepted']
    BY <2>1, <1>1 DEF TypeOK
  <2>3. task' \in [Conn -> {"New", "Connecting", "Insert", "Remove", "Done"}
                           \cup Polling]
    BY <1>1 DEF TypeOK, Polling
  <2> QED BY <2>2, <2>3, <1>1, <1>2 DEF TypeOK
<1>7. UncancelledIffInMap'
  <2> SUFFICES ASSUME NEW d \in Conn, task'[d] \in Polling \cup {"Remove"}
               PROVE  ~cancelled'[d] <=> connects'[key'[d]] = d
    BY DEF UncancelledIffInMap
  <2>1. CASE d = c
    BY <2>1, <1>1, <1>5 DEF TypeOK
  <2>2. CASE d # c
    <3>1. task[d] \in Polling \cup {"Remove"} /\ key[d] \in Key
      BY <2>2, <1>1 DEF TypeOK
    <3>2. ~cancelled[d] <=> connects[key[d]] = d
      BY <3>1 DEF UncancelledIffInMap
    <3>3. CASE key[d] = key[c]
      <4>1. connects'[key'[d]] # d
        BY <3>3, <2>2, <1>1 DEF TypeOK
      <4>2. d \in Replaced(c) \/ cancelled[d]
        BY <3>2, <3>3 DEF Replaced, None, Conn
      <4> QED BY <4>1, <4>2, <1>2
    <3>4. CASE key[d] # key[c]
      <4>1. connects'[key'[d]] = connects[key[d]]
        BY <3>4, <3>1, <1>1 DEF TypeOK
      <4>2. d \notin Replaced(c)
        BY <3>4, <1>1 DEF Replaced, NoEntryOutlivesItsTask, None, Conn
      <4> QED BY <4>1, <4>2, <3>2, <1>2
    <3> QED BY <3>3, <3>4
  <2> QED BY <2>1, <2>2
<1>8. NoEntryOutlivesItsTask'
  BY <1>1, <1>4 DEF TypeOK, NoEntryOutlivesItsTask, Polling, None, Conn
<1>9. NotYetInserted'
  <2> SUFFICES ASSUME NEW d \in Conn
               PROVE  /\ task'[d] \in {"New", "Connecting", "Insert"}
                           => ~cancelled'[d]
                      /\ d > accepted' => task'[d] = "New"
    BY DEF NotYetInserted
  <2>1. task'[d] \in {"New", "Connecting", "Insert"} =>
          d # c /\ task[d] \in {"New", "Connecting", "Insert"}
    BY <1>1 DEF TypeOK
  <2>2. task[d] \in {"New", "Connecting", "Insert"} => d \notin Replaced(c)
    BY <1>1 DEF Replaced, NoEntryOutlivesItsTask, Polling, None, Conn
  <2>3. d > accepted' => task'[d] = "New"
    BY <1>1, <1>3 DEF TypeOK, NotYetInserted, Conn
  <2> QED BY <2>1, <2>2, <2>3, <1>2 DEF NotYetInserted
<1> QED BY <1>6, <1>7, <1>8, <1>9

(* The removal of a key cancels the connection that is under it by then.   *)
LEMMA RemoveKeepsInvariant ==
  ASSUME IInv, NEW c \in Conn, Remove(c)
  PROVE  IInv'
<1> USE DEF IInv
<1>1. /\ task[c] = "Remove" /\ task' = [task EXCEPT ![c] = "Done"]
      /\ connects' = [connects EXCEPT ![key[c]] = None]
      /\ UNCHANGED <<accepted, key, clear, unseen, notified, closed>>
      /\ key[c] \in Key
  BY DEF Remove, Moves, WithoutKey, clearVars, TypeOK
<1>2. /\ cancelled' \in [Conn -> BOOLEAN]
      /\ waker' \in [Conn -> BOOLEAN] /\ woken' \in [Conn -> BOOLEAN]
      /\ \A d \in Conn : cancelled'[d] <=> (cancelled[d] \/ d \in Replaced(c))
  BY CancelEffect DEF Remove
<1>3. TypeOK'
  <2>1. connects' \in [Key -> 0 .. accepted']
    BY <1>1, BoundsAssumption DEF TypeOK, None
  <2> QED BY <2>1, <1>1, <1>2 DEF TypeOK
<1>4. UncancelledIffInMap'
  <2> SUFFICES ASSUME NEW d \in Conn, task'[d] \in Polling \cup {"Remove"}
               PROVE  ~cancelled'[d] <=> connects'[key'[d]] = d
    BY DEF UncancelledIffInMap
  <2>1. task[d] \in Polling \cup {"Remove"} /\ key[d] \in Key /\ d # c
    BY <1>1 DEF TypeOK, Polling
  <2>2. ~cancelled[d] <=> connects[key[d]] = d
    BY <2>1 DEF UncancelledIffInMap
  <2>3. CASE key[d] = key[c]
    <3>1. connects'[key'[d]] # d
      BY <2>3, <1>1 DEF TypeOK, None, Conn
    <3>2. d \in Replaced(c) \/ cancelled[d]
      BY <2>2, <2>3 DEF Replaced, None, Conn
    <3> QED BY <3>1, <3>2, <1>2
  <2>4. CASE key[d] # key[c]
    <3>1. connects'[key'[d]] = connects[key[d]]
      BY <2>4, <2>1, <1>1 DEF TypeOK
    <3>2. d \notin Replaced(c)
      BY <2>4, <1>1 DEF Replaced, NoEntryOutlivesItsTask, None, Conn
    <3> QED BY <3>1, <3>2, <2>2, <1>2
  <2> QED BY <2>3, <2>4
<1>5. NoEntryOutlivesItsTask'
  <2> SUFFICES ASSUME NEW k \in Key, connects'[k] # None
               PROVE  /\ key'[connects'[k]] = k
                      /\ task'[connects'[k]] \in Polling \cup {"Remove"}
    BY DEF NoEntryOutlivesItsTask
  <2>1. k # key[c] /\ connects'[k] = connects[k]
    BY <1>1 DEF TypeOK
  <2>2. /\ key[connects[k]] = k
        /\ task[connects[k]] \in Polling \cup {"Remove"}
    BY <2>1 DEF NoEntryOutlivesItsTask
  <2>3. connects[k] # c
    BY <2>1, <2>2
  <2> QED BY <2>1, <2>2, <2>3, <1>1 DEF TypeOK
<1>6. NotYetInserted'
  <2> SUFFICES ASSUME NEW d \in Conn
               PROVE  /\ task'[d] \in {"New", "Connecting", "Insert"}
                           => ~cancelled'[d]
                      /\ d > accepted' => task'[d] = "New"
    BY DEF NotYetInserted
  <2>1. task'[d] \in {"New", "Connecting", "Insert"} =>
          task[d] \in {"New", "Connecting", "Insert"}
    BY <1>1 DEF TypeOK
  <2>2. task[d] \in {"New", "Connecting", "Insert"} => d \notin Replaced(c)
    BY <1>1 DEF Replaced, NoEntryOutlivesItsTask, Polling, None, Conn
  <2>3. d > accepted' => task'[d] = "New"
    BY <1>1 DEF TypeOK, NotYetInserted
  <2> QED BY <2>1, <2>2, <2>3, <1>2 DEF NotYetInserted
<1> QED BY <1>3, <1>4, <1>5, <1>6

(* A clear empties the map and cancels exactly the connections in it.      *)
LEMMA ClearKeepsInvariant ==
  ASSUME IInv, ClearConnects
  PROVE  IInv'
<1> USE DEF IInv
<1>1. /\ connects' = [k \in Key |-> None] /\ clear' = "Recv"
      /\ UNCHANGED <<accepted, key, task, unseen, notified, closed>>
  BY DEF ClearConnects
<1>2. /\ cancelled' \in [Conn -> BOOLEAN]
      /\ waker' \in [Conn -> BOOLEAN] /\ woken' \in [Conn -> BOOLEAN]
      /\ \A d \in Conn : cancelled'[d] <=> (cancelled[d] \/ d \in InMap)
  BY CancelEffect DEF ClearConnects
<1>3. TypeOK'
  <2>1. connects' \in [Key -> 0 .. accepted']
    BY <1>1, BoundsAssumption DEF TypeOK, None
  <2> QED BY <2>1, <1>1, <1>2 DEF TypeOK
<1>4. UncancelledIffInMap'
  <2> SUFFICES ASSUME NEW d \in Conn, task[d] \in Polling \cup {"Remove"}
               PROVE  cancelled'[d] /\ connects'[key'[d]] # d
    BY <1>1 DEF UncancelledIffInMap
  <2>1. key[d] \in Key /\ d # None
    BY DEF TypeOK, None, Conn
  <2>2. cancelled[d] \/ connects[key[d]] = d
    BY DEF UncancelledIffInMap
  <2>3. connects[key[d]] = d => d \in InMap
    BY <2>1 DEF InMap
  <2> QED BY <2>1, <2>2, <2>3, <1>1, <1>2
<1>5. NoEntryOutlivesItsTask'
  BY <1>1 DEF NoEntryOutlivesItsTask
<1>6. NotYetInserted'
  <2>1. \A d \in Conn : task[d] \in {"New", "Connecting", "Insert"}
                          => d \notin InMap
    BY DEF InMap, NoEntryOutlivesItsTask, Polling
  <2> QED BY <2>1, <1>1, <1>2 DEF NotYetInserted
<1> QED BY <1>3, <1>4, <1>5, <1>6

(* A step that touches neither tasks nor map keeps the invariant.          *)
LEMMA QuietStep ==
  ASSUME IInv, UNCHANGED <<accepted, key, task, connects, cancelled, waker>>,
         woken' \in [Conn -> BOOLEAN],
         clear' \in {"New", "Recv", "Lock", "Ended"},
         unseen' \in 0 .. 2, notified' \in 0 .. MaxNotify,
         closed' \in BOOLEAN, clear' = "Ended" => closed' /\ unseen' = 0
  PROVE  IInv'
<1>1. TypeOK'
  BY DEF IInv, TypeOK
<1>2. UncancelledIffInMap' /\ NoEntryOutlivesItsTask' /\ NotYetInserted'
  BY DEF IInv, UncancelledIffInMap, NoEntryOutlivesItsTask, NotYetInserted
<1> QED BY <1>1, <1>2 DEF IInv

(* Every step keeps the invariant.                                         *)
LEMMA NextInvariant == IInv /\ [Next]_vars => IInv'
<1> SUFFICES ASSUME IInv, [Next]_vars PROVE IInv'
  OBVIOUS
<1>t. TypeOK
  BY DEF IInv
<1>1. ASSUME NEW k \in Key, Accept(k) PROVE IInv'
  BY <1>1, AcceptKeepsInvariant
<1>2. ASSUME NEW c \in Conn, Task(c) PROVE IInv'
  <2>1. CASE Connected(c)
    BY <2>1, <1>t, TaskStep DEF Connected, cancelVars, TypeOK
  <2>2. CASE ConnectFails(c)
    BY <2>2, <1>t, TaskStep DEF ConnectFails, cancelVars, TypeOK
  <2>3. CASE Insert(c)
    BY <2>3, InsertKeepsInvariant
  <2>4. CASE Remove(c)
    BY <2>4, RemoveKeepsInvariant
  <2>5. CASE Load(c)
    <3>1. (IF cancelled[c] THEN "Remove" ELSE "Inner") \in InMapStates
      BY DEF InMapStates, Polling
    <3> QED BY <3>1, <2>5, <1>t, TaskStep
            DEF Load, PollFrame, cancelVars, TypeOK, Polling
  <2>6. CASE InnerReady(c)
    BY <2>6, <1>t, TaskStep
       DEF InnerReady, PollFrame, cancelVars, TypeOK, Polling, InMapStates
  <2>7. CASE InnerPending(c)
    BY <2>7, <1>t, TaskStep
       DEF InnerPending, PollFrame, cancelVars, TypeOK, Polling, InMapStates
  <2>8. CASE Register(c)
    BY <2>8, <1>t, TaskStep
       DEF Register, PollFrame, TypeOK, Polling, InMapStates
  <2>9. CASE PollAgain(c)
    BY <2>9, <1>t, TaskStep
       DEF PollAgain, PollFrame, TypeOK, Polling, InMapStates
  <2> QED BY <1>2, <2>1, <2>2, <2>3, <2>4, <2>5, <2>6, <2>7, <2>8, <2>9 DEF Task
<1>3. ASSUME NEW c \in Conn, StreamWakes(c) PROVE IInv'
  BY <1>3, <1>t, QuietStep DEF StreamWakes, PollFrame, clearVars, TypeOK
<1>4. CASE Notify
  BY <1>4, <1>t, QuietStep, BoundsAssumption DEF Notify, cancelVars, TypeOK
<1>5. CASE Clear
  <2>1. CASE ClearNotified
    BY <2>1, <1>t, QuietStep DEF ClearNotified, cancelVars, TypeOK
  <2>2. CASE ClearLagged
    BY <2>2, <1>t, QuietStep DEF ClearLagged, AfterLagged, cancelVars, TypeOK
  <2>3. CASE ClearConnects
    BY <2>3, ClearKeepsInvariant
  <2>4. CASE ClearClosed
    BY <2>4, <1>t, QuietStep DEF ClearClosed, cancelVars, TypeOK
  <2> QED BY <1>5, <2>1, <2>2, <2>3, <2>4 DEF Clear
<1>6. CASE UNCHANGED vars
  BY <1>6, <1>t, QuietStep DEF vars, cancelVars, clearVars, TypeOK
<1>7. CASE MonitorEnds
  BY <1>7, <1>t, QuietStep DEF MonitorEnds, cancelVars, TypeOK
<1> QED BY <1>1, <1>2, <1>3, <1>4, <1>5, <1>6, <1>7 DEF Next
-----------------------------------------------------------------------------
(* The invariant holds in every reachable state.                           *)
THEOREM Invariance == Spec => []IInv
  BY InitInvariant, NextInvariant, PTL DEF Spec

(* Every variable keeps its type, and the clear task ends only when the    *)
(* monitor has ended and every change it reported has been handled.        *)
THEOREM TypeCorrect == Spec => []TypeOK
<1>1. IInv => TypeOK
  BY DEF IInv
<1> QED BY <1>1, Invariance, PTL

(* A copy is uncancelled exactly while its handle is in the map, for any   *)
(* number of connections that share, replace and remove keys.              *)
THEOREM HandlesExact == Spec => []UncancelledIffInMap
<1>1. IInv => UncancelledIffInMap
  BY DEF IInv
<1> QED BY <1>1, Invariance, PTL

(* No entry of the map outlives the task of its connection.                *)
THEOREM NoLeakedEntry == Spec => []NoEntryOutlivesItsTask
<1>1. IInv => NoEntryOutlivesItsTask
  BY DEF IInv
<1> QED BY <1>1, Invariance, PTL

(* Which connections a step can cancel, from the invariant.                *)
LEMMA StepHasReason ==
  ASSUME IInv, [Next]_vars, NEW c \in Conn
  PROVE  HasReason(c)
<1> USE DEF IInv
<1> SUFFICES ASSUME task[c] \in Polling, ~cancelled[c], cancelled'[c]
             PROVE  \/ ClearConnects
                    \/ \E d \in Conn \ {c} :
                         /\ key[d] = key[c]
                         /\ Insert(d) \/ (cancelled[d] /\ Remove(d))
  BY DEF HasReason
<1>1. ASSUME NEW d \in Conn, d # c, c \in Replaced(d)
      PROVE  key[d] = key[c] /\ connects[key[d]] = c
  BY <1>1 DEF Replaced, NoEntryOutlivesItsTask, TypeOK
<1>2. ASSUME NEW d \in Conn, Insert(d)
      PROVE  d # c /\ key[d] = key[c]
  <2>1. d # c
    BY <1>2 DEF Insert, Moves, Polling
  <2>2. c \in Replaced(d)
    BY <1>2, CancelEffect DEF Insert
  <2> QED BY <2>1, <2>2, <1>1
<1>3. ASSUME NEW d \in Conn, Remove(d)
      PROVE  d # c /\ key[d] = key[c] /\ cancelled[d]
  <2>1. d # c /\ task[d] = "Remove"
    BY <1>3 DEF Remove, Moves, Polling
  <2>2. c \in Replaced(d)
    BY <1>3, CancelEffect DEF Remove
  <2>3. key[d] = key[c] /\ connects[key[d]] = c
    BY <2>1, <2>2, <1>1
  <2>4. cancelled[d]
    BY <2>1, <2>3 DEF UncancelledIffInMap
  <2> QED BY <2>1, <2>3, <2>4
<1>4. ASSUME UNCHANGED cancelled PROVE FALSE
  BY <1>4
<1>5. \/ \E d \in Conn : Insert(d) \/ Remove(d)
      \/ ClearConnects
  <2>1. ASSUME NEW d \in Conn, Task(d) PROVE Insert(d) \/ Remove(d)
    BY <2>1, <1>4
       DEF Task, Connected, ConnectFails, Load, InnerReady, InnerPending,
           Register, PollAgain, cancelVars
  <2>2. ASSUME Clear PROVE ClearConnects
    BY <2>2, <1>4 DEF Clear, ClearNotified, ClearLagged, ClearClosed, cancelVars
  <2>3. (\E k \in Key : Accept(k)) => FALSE
    BY <1>4 DEF Accept, cancelVars
  <2>4. (\E d \in Conn : StreamWakes(d)) \/ Notify \/ MonitorEnds
          \/ UNCHANGED vars => FALSE
    BY <1>4 DEF StreamWakes, Notify, MonitorEnds, vars, cancelVars
  <2> QED BY <2>1, <2>2, <2>3, <2>4 DEF Next
<1> QED BY <1>2, <1>3, <1>5

(* A copy is cancelled only by a network change or by a connection of the  *)
(* same pair of addresses.                                                 *)
THEOREM CancelsHaveReasons == Spec => CancelReasons
<1>1. IInv /\ [Next]_vars => [\A c \in Conn : HasReason(c)]_vars
  BY StepHasReason
<1> QED BY <1>1, Invariance, PTL DEF Spec, CancelReasons
=============================================================================
