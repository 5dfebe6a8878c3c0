------------------------- MODULE CopyBidirectional --------------------------
(***************************************************************************)
(* The relay of a TCP connection, copy_bidirectional_with_timeout of       *)
(* crates/tun/src/net/copy.rs: one future that copies a to b and b to a,   *)
(* shuts each writer down after its reader's end of file, and gives up     *)
(* when nothing has moved for a while.                                     *)
(*                                                                         *)
(* A poll of the future is a sequence of steps, one per call it makes on a *)
(* stream, and the streams go on in between.  The streams are external: a  *)
(* reader has bytes or reached its end or is Pending, a writer accepts     *)
(* bytes up to Room and flush and shutdown are Pending until what it       *)
(* accepted has left; a call that is Pending leaves a waker and is the     *)
(* only thing that does.  Bytes are numbered in the order they are sent.   *)
(***************************************************************************)
EXTENDS Integers, Sequences

CONSTANTS
  Total,    \* bound: direction -> how many bytes the peer sends
  Size,     \* the size of a CopyBuf
  Room      \* how many unsent bytes a writer holds

Dir == {"ab", "ba"}

ASSUME SizeAssumption ==
  /\ Total \in [Dir -> Nat]
  /\ Size \in Nat \ {0}
  /\ Room \in Nat \ {0}

VARIABLES
  \* the streams, per direction
  produced,  \* bytes the peer has sent
  inbox,     \* of those, bytes not read yet
  eof,       \* the peer has closed
  unsent,    \* bytes the writer accepted that have not left
  written,   \* history: the bytes the writer accepted
  rwake,     \* the reader holds the task's waker
  wwake,     \* the writer does
  fin,       \* shutdown has been asked for and takes its time
  \* CopyBuf and TransferState, per direction
  buf, pos, read_done, need_flush, copied, state, count,
  \* CopyBidirectional
  pc,        \* where the poll is
  amt,       \* a_to_b_amt and b_to_a_amt
  amt_old,   \* their values when the poll began
  ret,       \* what each direction returned in this poll
  sleep,     \* none, created (never polled yet) or polled
  elapsed,   \* its time is over
  notified,  \* the task is scheduled
  moved,     \* history: directions that wrote since the sleep was created
  result

streamVars == <<produced, inbox, eof, unsent, written, rwake, wwake, fin>>
bufVars == <<buf, pos, read_done, need_flush, copied, state, count>>
pollVars == <<pc, amt, amt_old, ret>>
timerVars == <<sleep, elapsed>>
vars == <<streamVars, bufVars, pollVars, timerVars, notified, moved, result>>

Each(v) == [d \in Dir |-> v]
Smaller(m, n) == IF m < n THEN m ELSE n

Init ==
  /\ produced = Each(0) /\ inbox = Each(0) /\ eof = Each(FALSE)
  /\ unsent = Each(0) /\ written = Each(<<>>)
  /\ rwake = Each(FALSE) /\ wwake = Each(FALSE) /\ fin = Each(FALSE)
  /\ buf = Each(<<>>) /\ pos = Each(0)
  /\ read_done = Each(FALSE) /\ need_flush = Each(FALSE)
  /\ copied = Each(0) /\ state = Each("Running") /\ count = Each(0)
  /\ pc = "Parked" /\ amt = Each(0) /\ amt_old = Each(0)
  /\ ret = Each("Pending")
  /\ sleep = "none" /\ elapsed = FALSE
  /\ notified = TRUE
  /\ moved = {}
  /\ result = "none"
-----------------------------------------------------------------------------
(* The streams (external).  They are dropped when the copy ends.           *)
StreamFrame ==
  /\ pc # "Ended"
  /\ UNCHANGED <<bufVars, pollVars, timerVars, moved, result>>

Arrive(d) ==
  /\ produced[d] < Total[d] /\ ~eof[d]
  /\ produced' = [produced EXCEPT ![d] = @ + 1]
  /\ inbox' = [inbox EXCEPT ![d] = @ + 1]
  /\ notified' = (notified \/ rwake[d])
  /\ rwake' = [rwake EXCEPT ![d] = FALSE]
  /\ UNCHANGED <<eof, unsent, written, wwake, fin>>
  /\ StreamFrame

Close(d) ==
  /\ ~eof[d]
  /\ eof' = [eof EXCEPT ![d] = TRUE]
  /\ notified' = (notified \/ rwake[d])
  /\ rwake' = [rwake EXCEPT ![d] = FALSE]
  /\ UNCHANGED <<produced, inbox, unsent, written, wwake, fin>>
  /\ StreamFrame

Drain(d) ==
  /\ unsent[d] > 0
  /\ unsent' = [unsent EXCEPT ![d] = @ - 1]
  /\ notified' = (notified \/ wwake[d])
  /\ wwake' = [wwake EXCEPT ![d] = FALSE]
  /\ UNCHANGED <<produced, inbox, eof, written, rwake, fin>>
  /\ StreamFrame

(* The timer.  Only a Sleep that has been polled holds a waker.            *)
Elapse ==
  /\ pc # "Ended" /\ sleep # "none" /\ ~elapsed
  /\ elapsed' = TRUE
  /\ notified' = (notified \/ sleep = "polled")
  /\ UNCHANGED <<streamVars, bufVars, pollVars, sleep, moved, result>>
-----------------------------------------------------------------------------
(* A poll.                                                                 *)
StartPoll ==
  /\ pc = "Parked" /\ notified
  /\ pc' = "ab"
  /\ notified' = FALSE
  /\ amt_old' = amt
  /\ UNCHANGED <<streamVars, bufVars, amt, ret, timerVars, moved, result>>

(* CopyOneDirection::copy for direction d returns.                         *)
After(d) == IF d = "ab" THEN "ba" ELSE "Decide"

Return(d, r) ==
  /\ pc' = After(d)
  /\ ret' = [ret EXCEPT ![d] = r]

(* poll_copy is Pending: the amount is brought up to date.                 *)
AmountTaken(d) == [amt EXCEPT ![d] = copied[d]]

CopyPending(d) ==
  /\ Return(d, "Pending")
  /\ amt' = AmountTaken(d)

DirFrame == UNCHANGED <<amt_old, timerVars, notified, result>>

Copying(d) == pc = d /\ state[d] = "Running"
BufEmpty(d) == pos[d] = Len(buf[d])

(* poll_read has data: it replaces the buffer's contents.                  *)
PosReset(d) == [pos EXCEPT ![d] = 0]

Read(d) ==
  LET n == Smaller(Size, inbox[d])
      first == produced[d] - inbox[d]
  IN
  /\ Copying(d) /\ BufEmpty(d) /\ ~read_done[d]
  /\ inbox[d] > 0
  /\ buf' = [buf EXCEPT ![d] = [i \in 1 .. n |-> first + i]]
  /\ pos' = PosReset(d)
  /\ inbox' = [inbox EXCEPT ![d] = @ - n]
  /\ UNCHANGED <<produced, eof, unsent, written, rwake, wwake, fin, read_done,
                 need_flush, copied, state, count, pc, amt, ret, moved>>
  /\ DirFrame

ReadEof(d) ==
  /\ Copying(d) /\ BufEmpty(d) /\ ~read_done[d]
  /\ inbox[d] = 0 /\ eof[d]
  /\ read_done' = [read_done EXCEPT ![d] = TRUE]
  /\ UNCHANGED <<streamVars, buf, pos, need_flush, copied, state, count,
                 pc, amt, ret, moved>>
  /\ DirFrame

(* poll_read is Pending; before parking, what was written is flushed.      *)
FaultReaderForgetsWaker(d) == rwake
ReaderRegisters(d) == [rwake EXCEPT ![d] = TRUE]

ReadPending(d) ==
  LET flushing == need_flush[d] /\ unsent[d] > 0 IN
  /\ Copying(d) /\ BufEmpty(d) /\ ~read_done[d]
  /\ inbox[d] = 0 /\ ~eof[d]
  /\ rwake' = ReaderRegisters(d)
  /\ wwake' = [wwake EXCEPT ![d] = @ \/ flushing]
  /\ need_flush' = [need_flush EXCEPT ![d] = flushing]
  /\ CopyPending(d)
  /\ UNCHANGED <<produced, inbox, eof, unsent, written, fin, buf, pos, read_done,
                 copied, state, count, moved>>
  /\ DirFrame

(* poll_write accepts as much as there is room for.                        *)
FaultWholeBuffer(d, n) == Len(buf[d])
FaultPastTheEnd(d, n) == pos[d] + n + 1
PosAfterWrite(d, n) == pos[d] + n

Write(d) ==
  LET n == Smaller(Len(buf[d]) - pos[d], Room - unsent[d]) IN
  /\ Copying(d) /\ ~BufEmpty(d)
  /\ n > 0
  /\ written' = [written EXCEPT ![d] = @ \o SubSeq(buf[d], pos[d] + 1, pos[d] + n)]
  /\ unsent' = [unsent EXCEPT ![d] = @ + n]
  /\ pos' = [pos EXCEPT ![d] = PosAfterWrite(d, n)]
  /\ copied' = [copied EXCEPT ![d] = @ + n]
  /\ need_flush' = [need_flush EXCEPT ![d] = TRUE]
  /\ moved' = moved \cup {d}
  /\ UNCHANGED <<produced, inbox, eof, rwake, wwake, fin, buf, read_done, state,
                 count, pc, amt, ret>>
  /\ DirFrame

FaultWriterForgetsWaker(d) == wwake
WriterRegisters(d) == [wwake EXCEPT ![d] = TRUE]

WritePending(d) ==
  /\ Copying(d) /\ ~BufEmpty(d)
  /\ unsent[d] = Room
  /\ wwake' = WriterRegisters(d)
  /\ CopyPending(d)
  /\ UNCHANGED <<produced, inbox, eof, unsent, written, rwake, fin, bufVars, moved>>
  /\ DirFrame

(* All is written and the reader is at its end: flush, then shut down.     *)
AllWritten(d) == BufEmpty(d) /\ read_done[d]

FaultNoFlush(d) == TRUE
Flushed(d) == unsent[d] = 0

FlushLast(d) ==
  /\ Copying(d) /\ AllWritten(d) /\ Flushed(d)
  /\ state' = [state EXCEPT ![d] = "Shuttingdow"]
  /\ count' = [count EXCEPT ![d] = copied[d]]
  /\ UNCHANGED <<streamVars, buf, pos, read_done, need_flush, copied, pc, amt,
                 ret, moved>>
  /\ DirFrame

FlushLastPending(d) ==
  /\ Copying(d) /\ AllWritten(d) /\ ~Flushed(d)
  /\ wwake' = WriterRegisters(d)
  /\ CopyPending(d)
  /\ UNCHANGED <<produced, inbox, eof, unsent, written, rwake, fin, bufVars, moved>>
  /\ DirFrame

(* poll_shutdown; a stream may take its time, and then pends until it has  *)
(* left.  The amount is not brought up to date here.                       *)
Shutdown(d) ==
  /\ pc = d /\ state[d] = "Shuttingdow"
  /\ unsent[d] = 0
  /\ state' = [state EXCEPT ![d] = "Done"]
  /\ UNCHANGED <<streamVars, buf, pos, read_done, need_flush, copied, count,
                 pc, amt, ret, moved>>
  /\ DirFrame

ShutdownPending(d) ==
  /\ pc = d /\ state[d] = "Shuttingdow"
  /\ ~fin[d] \/ unsent[d] > 0
  /\ fin' = [fin EXCEPT ![d] = TRUE]
  /\ unsent' = IF fin[d] THEN unsent ELSE [unsent EXCEPT ![d] = @ + 1]
  /\ wwake' = WriterRegisters(d)
  /\ Return(d, "Pending")
  /\ UNCHANGED <<produced, inbox, eof, written, rwake, bufVars, amt, moved>>
  /\ DirFrame

DirDone(d) ==
  /\ pc = d /\ state[d] = "Done"
  /\ Return(d, "Ready")
  /\ UNCHANGED <<streamVars, bufVars, amt, moved>>
  /\ DirFrame

(* Any call on a stream may fail, and the copy fails with it.              *)
StreamError(d) ==
  /\ pc = d /\ state[d] # "Done"
  /\ pc' = "Ended"
  /\ result' = "Error"
  /\ UNCHANGED <<streamVars, bufVars, amt, amt_old, ret, timerVars, notified,
                 moved>>
-----------------------------------------------------------------------------
(* The end of CopyBidirectional::copy.                                     *)
BothPending == ret["ab"] = "Pending" /\ ret["ba"] = "Pending"

FaultIdleOneWay == amt_old["ab"] = amt["ab"]
NothingCopied == \A d \in Dir : amt_old[d] = amt[d]

DecideFrame == UNCHANGED <<streamVars, bufVars, amt, amt_old, ret, notified>>

(* Data was copied: no sleep is needed.                                    *)
DropSleep ==
  /\ pc = "Decide" /\ BothPending /\ ~NothingCopied
  /\ sleep' = "none" /\ elapsed' = FALSE
  /\ pc' = "Parked"
  /\ UNCHANGED <<moved, result>>
  /\ DecideFrame

(* Idle for the first time: the sleep is made, but not polled.             *)
MakeSleep ==
  /\ pc = "Decide" /\ BothPending /\ NothingCopied /\ sleep = "none"
  /\ sleep' = "created" /\ elapsed' = FALSE
  /\ moved' = {}
  /\ pc' = "Parked"
  /\ UNCHANGED result
  /\ DecideFrame

(* Idle again: the sleep is polled.                                        *)
PollSleep ==
  /\ pc = "Decide" /\ BothPending /\ NothingCopied /\ sleep # "none"
  /\ ~elapsed
  /\ sleep' = "polled"
  /\ pc' = "Parked"
  /\ UNCHANGED <<elapsed, moved, result>>
  /\ DecideFrame

TimeOut ==
  /\ pc = "Decide" /\ BothPending /\ NothingCopied /\ sleep # "none"
  /\ elapsed
  /\ pc' = "Ended"
  /\ result' = "Timeout"
  /\ UNCHANGED <<timerVars, moved>>
  /\ DecideFrame

FaultEitherReady == \E d \in Dir : ret[d] = "Ready"
BothReady == \A d \in Dir : ret[d] = "Ready"

Finish ==
  /\ pc = "Decide" /\ BothReady
  /\ pc' = "Ended"
  /\ result' = "Ok"
  /\ UNCHANGED <<timerVars, moved>>
  /\ DecideFrame

(* One direction is finished: wait for the other, with no timeout.         *)
HalfClosed ==
  /\ pc = "Decide" /\ ret["ab"] # ret["ba"]
  /\ pc' = "Parked"
  /\ UNCHANGED <<timerVars, moved, result>>
  /\ DecideFrame
-----------------------------------------------------------------------------
Stream == \E d \in Dir : Arrive(d) \/ Close(d) \/ Drain(d)

Direction(d) ==
  \/ Read(d) \/ ReadEof(d) \/ ReadPending(d)
  \/ Write(d) \/ WritePending(d)
  \/ FlushLast(d) \/ FlushLastPending(d)
  \/ Shutdown(d) \/ ShutdownPending(d) \/ DirDone(d)

Decide ==
  \/ DropSleep \/ MakeSleep \/ PollSleep \/ TimeOut \/ Finish \/ HalfClosed

Poll ==
  \/ StartPoll
  \/ \E d \in Dir : Direction(d)
  \/ Decide

Next ==
  \/ Stream
  \/ Elapse
  \/ Poll
  \/ \E d \in Dir : StreamError(d)

(* The task is polled when it is scheduled, the timer runs, and what a     *)
(* writer accepted leaves it, as long as the peer there goes on reading.   *)
(* Nothing is assumed of what the peers send or when they close.           *)
Fairness ==
  /\ WF_vars(Poll)
  /\ WF_vars(Elapse)
  /\ \A d \in Dir : WF_vars(Drain(d))

Spec == Init /\ [][Next]_vars /\ Fairness
-----------------------------------------------------------------------------
(* Types and bounds: pos stays inside the buffer, a writer is given no     *)
(* more than it has room for, and the amounts compared for the idle        *)
(* timeout never run ahead of what was copied.                             *)
TypeOK ==
  /\ \A d \in Dir :
       /\ produced[d] \in 0 .. Total[d] /\ inbox[d] \in 0 .. produced[d]
       /\ unsent[d] \in 0 .. Room
       /\ Len(buf[d]) <= Size /\ pos[d] \in 0 .. Len(buf[d])
       /\ state[d] \in {"Running", "Shuttingdow", "Done"}
       /\ copied[d] \in amt[d] .. Total[d]
       /\ ret[d] \in {"Pending", "Ready"}
  /\ pc \in {"Parked", "ab", "ba", "Decide", "Ended"}
  /\ sleep \in {"none", "created", "polled"}
  /\ elapsed \in BOOLEAN /\ notified \in BOOLEAN
  /\ moved \in SUBSET Dir
  /\ result \in {"none", "Ok", "Error", "Timeout"}

(* What has been written, followed by what is left in the buffer, is what  *)
(* was read, in order: partial writes, refills and wake-ups at any moment  *)
(* lose, repeat and reorder nothing.                                       *)
RelayExact ==
  \A d \in Dir :
    written[d] \o SubSeq(buf[d], pos[d] + 1, Len(buf[d]))
      = [i \in 1 .. produced[d] - inbox[d] |-> i]

(* A writer is shut down only after the peer has closed, every byte it     *)
(* sent has been written and flushed, and then the count that is returned  *)
(* is the number of those bytes.                                           *)
ShutdownAfterAll ==
  \A d \in Dir :
    state[d] # "Running" =>
      /\ eof[d]
      /\ Len(written[d]) = produced[d]
      /\ count[d] = produced[d]
      /\ ~fin[d] => unsent[d] = 0

(* The idle timeout ends a connection only if neither direction has        *)
(* written a byte since the sleep was made; the one exception are last     *)
(* bytes of a direction whose shutdown is pending, as their amount is not  *)
(* compared.                                                               *)
TimeoutOnlyIfIdle ==
  result = "Timeout" => \A d \in moved : state[d] = "Shuttingdow"

(* Seen from the two peers, the relay is a pair of half-closable byte      *)
(* streams: whatever its buffers, partial writes and wake-ups do, each     *)
(* step delivers the next bytes, or ends a stream after its last byte, or  *)
(* ends the connection; and the idle timeout never ends one half-closed.   *)
Streams == INSTANCE ByteStreams WITH
             sent <- produced, closed <- eof, delivered <- written,
             shut <- [d \in Dir |-> state[d] = "Done"]
StreamsSpec == Streams!Spec

(* Bytes that have arrived are relayed to a peer that reads: there is      *)
(* always a waker left for the call that has to go on, however the two     *)
(* directions share polls.                                                 *)
BytesFlow ==
  \A d \in Dir :
    Len(written[d]) < produced[d]
      ~> (Len(written[d]) = produced[d] \/ pc = "Ended")

(* The end of one peer's stream is passed on to the other while the other  *)
(* direction goes on, and the relay ends after both.                       *)
EofPassedOn ==
  /\ \A d \in Dir : eof[d] ~> (state[d] = "Done" \/ pc = "Ended")
  /\ (\A d \in Dir : eof[d]) ~> pc = "Ended"

BothRunning == \A d \in Dir : state[d] = "Running"

(* "Start timeout detection when both upstream and downstream are idle     *)
(* [...] Return timeout error if the operation exceeds the allowed time":  *)
(* once detection has started, data, an end of file or the timeout ends    *)
(* it.  It does not hold: the Sleep is not polled when it is made, so      *)
(* nothing wakes the task when its time is over.                           *)
IdleTimesOut ==
  (sleep # "none" /\ BothRunning)
    ~> (sleep = "none" \/ ~BothRunning \/ pc = "Ended")
=============================================================================
