----------------------------- MODULE TcpHandle ------------------------------
(***************************************************************************)
(* The TCP side of the tunnel, crates/tun/src/tcp.rs, with the futures of  *)
(* cancelable.rs that its copies run in.                                   *)
(*                                                                         *)
(* Each stream from the tunnel gets a task: it dials out, wraps the copy   *)
(* in a Cancelable, puts the CancelHandle into the map under the pair of   *)
(* addresses, copies, and removes the pair.  Dropping a handle cancels:    *)
(* the flag is stored and the waker that Cancelable::poll registered is    *)
(* woken.  A clear task empties the map when the network changes; it is    *)
(* spawned with the first stream and ends when the channel it listens on   *)
(* is closed, which the end of the route monitor does.                     *)
(*                                                                         *)
(* The map's mutex is never held across an await, so a step under it is    *)
(* one action.  The copy itself is CopyBidirectional; here a poll of it is *)
(* Ready or Pending.  Where the task dials (SOCKS5 or directly) is left    *)
(* out, as the map does not depend on it.                                  *)
(***************************************************************************)
EXTENDS Integers

CONSTANTS
  Key,         \* pairs of source and destination address
  MaxStream,   \* bound: streams the tunnel hands over
  MaxNotify    \* bound: network changes

ASSUME BoundsAssumption ==
  /\ MaxStream \in Nat /\ MaxNotify \in Nat
  /\ Key # {}

Conn == 1 .. MaxStream
None == 0

VARIABLES
  accepted,   \* how many streams there have been
  key,        \* connection -> its connects_key
  task,       \* connection -> where its task is
  connects,   \* key -> the connection whose handle is in the map, or None
  cancelled,  \* connection -> the flag of its Cancelable
  waker,      \* connection -> the AtomicWaker holds the task's waker
  woken,      \* connection -> its parked task is scheduled
  clear,      \* the clear task
  unseen,     \* notifications it has not seen; 2: it lags
  notified,   \* how many there have been
  closed      \* the monitor has ended and dropped notify_tx

cancelVars == <<cancelled, waker, woken>>
clearVars == <<clear, unseen, notified, closed>>
vars == <<accepted, key, task, connects, cancelVars, clearVars>>

AnyKey == CHOOSE k \in Key : TRUE

(* The polls of the Cancelable: loading the flag, polling the copy,        *)
(* registering the waker, and parked.                                      *)
Polling == {"Load", "Inner", "Register", "Parked"}

Init ==
  /\ accepted = 0
  /\ key = [c \in Conn |-> AnyKey]
  /\ task = [c \in Conn |-> "New"]
  /\ connects = [k \in Key |-> None]
  /\ cancelled = [c \in Conn |-> FALSE]
  /\ waker = [c \in Conn |-> FALSE]
  /\ woken = [c \in Conn |-> FALSE]
  /\ clear = "New" /\ unseen = 0 /\ notified = 0 /\ closed = FALSE

Moves(c, from, to) ==
  /\ task[c] = from
  /\ task' = [task EXCEPT ![c] = to]
-----------------------------------------------------------------------------
(* CancelHandle::drop for the handles of the connections in S.             *)
FaultFlagOnly(S) == woken
Woken(S) == [c \in Conn |-> woken[c] \/ (c \in S /\ waker[c])]

FaultFlagNotStored(S) == cancelled
Flagged(S) == [c \in Conn |-> cancelled[c] \/ c \in S]

Cancel(S) ==
  /\ cancelled' = Flagged(S)
  /\ woken' = Woken(S)
  /\ waker' = [c \in Conn |-> waker[c] /\ c \notin S]

(* handle_tcp_stream: the first call spawns the clear task, each call the  *)
(* task of its connection.                                                 *)
FaultClearNotSpawned == clear
ClearSpawned == IF clear = "New" THEN "Recv" ELSE clear

Accept(k) ==
  LET c == accepted + 1 IN
  /\ accepted < MaxStream
  /\ accepted' = c
  /\ key' = [key EXCEPT ![c] = k]
  /\ task' = [task EXCEPT ![c] = "Connecting"]
  /\ clear' = ClearSpawned
  /\ UNCHANGED <<connects, cancelVars, unseen, notified, closed>>

Connected(c) ==
  /\ Moves(c, "Connecting", "Insert")
  /\ UNCHANGED <<accepted, key, connects, cancelVars, clearVars>>

(* No socket, an error or the timeout of the connect: the task returns     *)
(* before it has touched the map.                                          *)
ConnectFails(c) ==
  /\ Moves(c, "Connecting", "Done")
  /\ UNCHANGED <<accepted, key, connects, cancelVars, clearVars>>

(* connects_guard.insert: a handle under the same key is dropped.          *)
Replaced(c) == {connects[key[c]]} \ {None}

Insert(c) ==
  /\ Moves(c, "Insert", "Load")
  /\ connects' = [connects EXCEPT ![key[c]] = c]
  /\ Cancel(Replaced(c))
  /\ UNCHANGED <<accepted, key, clearVars>>

(* The copy has ended or was cancelled: connects_guard.remove drops        *)
(* whichever handle is under the key by now.                               *)
FaultEntryKept(c) == connects
WithoutKey(c) == [connects EXCEPT ![key[c]] = None]

(* The handles in the map.                                                 *)
InMap == {connects[k] : k \in Key} \ {None}

FaultRemovesAll(c) ==
  /\ Moves(c, "Remove", "Done")
  /\ connects' = [k \in Key |-> None]
  /\ Cancel(InMap)
  /\ UNCHANGED <<accepted, key, clearVars>>
Remove(c) ==
  /\ Moves(c, "Remove", "Done")
  /\ connects' = WithoutKey(c)
  /\ Cancel(Replaced(c))
  /\ UNCHANGED <<accepted, key, clearVars>>
-----------------------------------------------------------------------------
(* Cancelable::poll.                                                       *)
PollFrame == UNCHANGED <<accepted, key, connects, clearVars>>

Load(c) ==
  /\ Moves(c, "Load", IF cancelled[c] THEN "Remove" ELSE "Inner")
  /\ UNCHANGED cancelVars
  /\ PollFrame

InnerReady(c) ==
  /\ Moves(c, "Inner", "Remove")
  /\ UNCHANGED cancelVars
  /\ PollFrame

InnerPending(c) ==
  /\ Moves(c, "Inner", "Register")
  /\ UNCHANGED cancelVars
  /\ PollFrame

Register(c) ==
  /\ Moves(c, "Register", "Parked")
  /\ waker' = [waker EXCEPT ![c] = TRUE]
  /\ UNCHANGED <<cancelled, woken>>
  /\ PollFrame

(* The runtime polls the task again when something has woken it.           *)
PollAgain(c) ==
  /\ woken[c]
  /\ Moves(c, "Parked", "Load")
  /\ woken' = [woken EXCEPT ![c] = FALSE]
  /\ UNCHANGED <<cancelled, waker>>
  /\ PollFrame

(* A stream of the copy wakes the task (external).                         *)
StreamWakes(c) ==
  /\ task[c] \in {"Register", "Parked"} /\ ~woken[c]
  /\ woken' = [woken EXCEPT ![c] = TRUE]
  /\ UNCHANGED <<task, cancelled, waker>>
  /\ PollFrame
-----------------------------------------------------------------------------
(* The route monitor reports a network change on the broadcast channel.    *)
Notify ==
  /\ ~closed /\ notified < MaxNotify
  /\ notified' = notified + 1
  /\ unseen' = IF unseen = 0 THEN 1 ELSE 2
  /\ UNCHANGED <<accepted, key, task, connects, cancelVars, clear, closed>>

(* The monitor's watcher fails, or the tunnel ends: the only sender of the *)
(* channel is dropped.                                                     *)
MonitorEnds ==
  /\ ~closed
  /\ closed' = TRUE
  /\ UNCHANGED <<accepted, key, task, connects, cancelVars, clear, unseen,
                 notified>>

(* The clear task.  Lagged: the next recv returns the message retained.    *)
ClearNotified ==
  /\ clear = "Recv" /\ unseen = 1
  /\ unseen' = 0
  /\ clear' = "Lock"
  /\ UNCHANGED <<accepted, key, task, connects, cancelVars, notified, closed>>

FaultLaggedIsClosed == "Ended"
AfterLagged == "Recv"

ClearLagged ==
  /\ clear = "Recv" /\ unseen = 2
  /\ unseen' = 1
  /\ clear' = AfterLagged
  /\ UNCHANGED <<accepted, key, task, connects, cancelVars, notified, closed>>

(* Closed: recv says so only when no message is left, and the task returns.*)
ClearClosed ==
  /\ clear = "Recv" /\ unseen = 0 /\ closed
  /\ clear' = "Ended"
  /\ UNCHANGED <<accepted, key, task, connects, cancelVars, unseen, notified,
                 closed>>

(* guard.clear() drops every handle.                                       *)
ClearConnects ==
  /\ clear = "Lock"
  /\ clear' = "Recv"
  /\ connects' = [k \in Key |-> None]
  /\ Cancel(InMap)
  /\ UNCHANGED <<accepted, key, task, unseen, notified, closed>>
-----------------------------------------------------------------------------
Task(c) ==
  \/ Connected(c) \/ ConnectFails(c) \/ Insert(c) \/ Remove(c)
  \/ Load(c) \/ InnerReady(c) \/ InnerPending(c) \/ Register(c) \/ PollAgain(c)

Clear == ClearNotified \/ ClearLagged \/ ClearClosed \/ ClearConnects

Next ==
  \/ \E k \in Key : Accept(k)
  \/ \E c \in Conn : Task(c)
  \/ \E c \in Conn : StreamWakes(c)
  \/ Notify
  \/ MonitorEnds
  \/ Clear

(* A task that is ready or woken is polled, and a connect ends by its      *)
(* timeout; nothing is assumed of the streams or the network.              *)
Fairness ==
  /\ \A c \in Conn : WF_vars(Task(c))
  /\ WF_vars(Clear)

Spec == Init /\ [][Next]_vars /\ Fairness
-----------------------------------------------------------------------------
(* Types; an entry of the map is a connection that has been accepted, and  *)
(* the clear task ends only after the monitor has, with every change that  *)
(* was reported handled: neither Lagged nor a backlog ends it.             *)
TypeOK ==
  /\ accepted \in 0 .. MaxStream
  /\ key \in [Conn -> Key]
  /\ task \in [Conn -> {"New", "Connecting", "Insert", "Remove", "Done"}
                         \cup Polling]
  /\ connects \in [Key -> 0 .. accepted]
  /\ cancelled \in [Conn -> BOOLEAN]
  /\ waker \in [Conn -> BOOLEAN]
  /\ woken \in [Conn -> BOOLEAN]
  /\ clear \in {"New", "Recv", "Lock", "Ended"}
  /\ unseen \in 0 .. 2 /\ notified \in 0 .. MaxNotify
  /\ closed \in BOOLEAN
  /\ clear = "Ended" => closed /\ unseen = 0

(* A copy runs uncancelled exactly as long as its handle is in the map     *)
(* under its own key, whichever task, clear or newer connection of the     *)
(* same pair takes it out: a clear misses no connection that is copying,   *)
(* and no copy runs that a clear could not reach.                          *)
UncancelledIffInMap ==
  \A c \in Conn :
    task[c] \in Polling \cup {"Remove"} =>
      (~cancelled[c] <=> connects[key[c]] = c)

(* No entry outlives its task, whether the copy ended, failed or was       *)
(* cancelled: the map does not grow with dead connections.                 *)
NoEntryOutlivesItsTask ==
  \A k \in Key : connects[k] # None =>
    /\ key[connects[k]] = k
    /\ task[connects[k]] \in Polling \cup {"Remove"}

(* What explains that this step cancels connection c.                      *)
HasReason(c) ==
  (task[c] \in Polling /\ ~cancelled[c] /\ cancelled'[c]) =>
    \/ ClearConnects
    \/ \E d \in Conn \ {c} :
         key[d] = key[c] /\ (Insert(d) \/ (cancelled[d] /\ Remove(d)))

(* A connection that is copying is cancelled only by a network change or   *)
(* by another connection of the same pair of addresses: one that replaces  *)
(* it, or an earlier one that removes the key after it was replaced.       *)
CancelReasons == [][\A c \in Conn : HasReason(c)]_vars

(* The task has parked and registered its waker after the cancellation.    *)
Deaf(c) == task[c] = "Parked" /\ cancelled[c] /\ waker[c] /\ ~woken[c]

(* A cancelled copy comes to its end, unless the cancellation fell into    *)
(* the first poll of the Cancelable, between its load of the flag and its  *)
(* first registration, and the streams are silent.                         *)
CancelledCopyEnds ==
  \A c \in Conn : cancelled[c] ~> (task[c] = "Done" \/ Deaf(c))

(* A network change takes every connection out of the map that is in it    *)
(* when the change is reported, also when the clear task lags.             *)
ClearReachesConnections ==
  \A c \in Conn, k \in Key :
    (unseen > 0 /\ connects[k] = c) ~> connects[k] # c
=============================================================================
