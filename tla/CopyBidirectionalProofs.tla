---------------------- MODULE CopyBidirectionalProofs -----------------------
(***************************************************************************)
(* Proofs about CopyBidirectional, for any number of bytes, any size of    *)
(* the buffers and any room in the writers.                                *)
(***************************************************************************)
EXTENDS CopyBidirectional, SequenceTheorems, TLAPS

States == {"Running", "Shuttingdow", "Done"}

Typed ==
  /\ produced \in [Dir -> Nat] /\ inbox \in [Dir -> Nat] /\ unsent \in [Dir -> Nat]
  /\ written \in [Dir -> Seq(Nat)] /\ buf \in [Dir -> Seq(Nat)] /\ pos \in [Dir -> Nat]
  /\ copied \in [Dir -> Nat] /\ count \in [Dir -> Nat] /\ amt \in [Dir -> Nat]
  /\ amt_old \in [Dir -> Nat] /\ state \in [Dir -> States]
  /\ ret \in [Dir -> {"Pending", "Ready"}]

(* One-bit variables, and those of the poll.                               *)
Bits ==
  /\ eof \in [Dir -> BOOLEAN] /\ fin \in [Dir -> BOOLEAN]
  /\ read_done \in [Dir -> BOOLEAN]
  /\ elapsed \in BOOLEAN /\ notified \in BOOLEAN
  /\ pc \in {"Parked", "ab", "ba", "Decide", "Ended"}
  /\ sleep \in {"none", "created", "polled"} /\ moved \in SUBSET Dir
  /\ result \in {"none", "Ok", "Error", "Timeout"}

(* A direction's counters stay in their bounds and add up.                 *)
Bounds(d) ==
  /\ inbox[d] <= produced[d] /\ produced[d] <= Total[d] /\ unsent[d] <= Room
  /\ Len(buf[d]) <= Size /\ pos[d] <= Len(buf[d])
  /\ amt_old[d] <= amt[d] /\ amt[d] <= copied[d] /\ copied[d] = Len(written[d])
  /\ Len(written[d]) + (Len(buf[d]) - pos[d]) = produced[d] - inbox[d]

(* The bytes written, and the bytes left in the buffer after them.         *)
Counts(w) == \A i \in 1 .. Len(w) : w[i] = i
Follows(w, b, p) == \A i \in 1 .. Len(b) : i > p => b[i] = Len(w) + (i - p)

Ordered(d) == Counts(written[d]) /\ Follows(written[d], buf[d], pos[d])

(* A direction stops after everything has been read, written and flushed.  *)
Ends(d) ==
  /\ read_done[d] => eof[d] /\ inbox[d] = 0
  /\ state[d] # "Running" =>
       /\ read_done[d] /\ pos[d] = Len(buf[d]) /\ count[d] = copied[d]
       /\ ~fin[d] => unsent[d] = 0

(* d has returned in the poll that is going on, or is being polled.        *)
Polled(d) == pc = "Decide" \/ (d = "ab" /\ pc = "ba")
InPoll(d) == pc = d \/ Polled(d)

(* A direction that wrote since the sleep was made shows it in this poll's *)
(* amounts, unless it or the other one has come to its end.                *)
Idle(d) ==
  /\ (pc # "Ended" /\ sleep # "none" /\ d \in moved /\ state[d] = "Running") =>
       \/ \E e \in Dir : state[e] = "Done"
       \/ InPoll(d) /\ copied[d] > amt_old[d]
  /\ (Polled(d) /\ state[d] = "Running") => amt[d] = copied[d]
  /\ Polled(d) => (ret[d] = "Ready" <=> state[d] = "Done")

IInv ==
  /\ Typed /\ Bits
  /\ \A d \in Dir : Bounds(d) /\ Ordered(d) /\ Ends(d) /\ Idle(d)
  /\ result # "none" => pc = "Ended"
  /\ TimeoutOnlyIfIdle

-----------------------------------------------------------------------------
(* Appending the next n bytes of a buffer to what has been written, as     *)
(* poll_write does, goes on counting.                                      *)
Written(w, b, p, n) == w \o SubSeq(b, p + 1, p + n)

LEMMA AppendBytes ==
  ASSUME NEW w \in Seq(Nat), NEW b \in Seq(Nat), NEW p \in Nat, NEW n \in Nat,
         p + n <= Len(b),
         Counts(w), Follows(w, b, p)
  PROVE  /\ Written(w, b, p, n) \in Seq(Nat)
         /\ Len(Written(w, b, p, n)) = Len(w) + n
         /\ Counts(Written(w, b, p, n))
<1> DEFINE s == SubSeq(b, p + 1, p + n)
           v == w \o s
<1>1. /\ s \in Seq(Nat) /\ Len(s) = n
      /\ \A i \in 1 .. n : s[i] = b[p + i]
  <2>1. \A i \in p + 1 .. p + n : i \in 1 .. Len(b)
    BY LenProperties
  <2>2. \A i \in p + 1 .. p + n : b[i] \in Nat
    BY <2>1, ElementOfSeq
  <2> QED
    BY <2>1, <2>2
<1>2. v \in Seq(Nat) /\ Len(v) = Len(w) + Len(s)
  BY <1>1, ConcatProperties
<1>3. ASSUME NEW i \in 1 .. Len(v)
      PROVE  v[i] = i
  <2>1. CASE i <= Len(w)
    BY <1>1, <1>2, <2>1, LenProperties, ConcatProperties DEF Counts
  <2>2. CASE i > Len(w)
    <3>1. i - Len(w) \in 1 .. n /\ Len(w) \in Nat
      BY <1>1, <1>2, <2>2, LenProperties
    <3>2. v[i] = s[i - Len(w)]
      BY <1>1, <1>2, <2>2, LenProperties, ConcatProperties
    <3>3. p + (i - Len(w)) \in 1 .. Len(b) /\ p + (i - Len(w)) > p
      BY <3>1, LenProperties
    <3> QED
      BY <1>1, <3>1, <3>2, <3>3 DEF Follows
  <2> QED
    BY <1>2, <2>1, <2>2, LenProperties
<1> QED
  BY <1>1, <1>2, <1>3 DEF Written, Counts

(* Smaller is a lower bound of two integers and one of them.               *)
LEMMA SmallerBound ==
  ASSUME NEW m \in Int, NEW n \in Int
  PROVE  Smaller(m, n) \in Int /\ Smaller(m, n) <= m /\ Smaller(m, n) <= n
BY DEF Smaller

(* A direction none of whose variables a step changes keeps its part.      *)
Same(d) ==
  /\ produced'[d] = produced[d] /\ inbox'[d] = inbox[d] /\ unsent'[d] = unsent[d]
  /\ eof'[d] = eof[d] /\ fin'[d] = fin[d] /\ written'[d] = written[d]
  /\ buf'[d] = buf[d] /\ pos'[d] = pos[d] /\ copied'[d] = copied[d]
  /\ count'[d] = count[d] /\ amt'[d] = amt[d] /\ amt_old'[d] = amt_old[d]
  /\ state'[d] = state[d] /\ read_done'[d] = read_done[d]

LEMMA SameKeeps ==
  ASSUME NEW d \in Dir, Bounds(d), Ordered(d), Ends(d), Same(d)
  PROVE  Bounds(d)' /\ Ordered(d)' /\ Ends(d)'
<1>1. Bounds(d)'
  BY DEF Same, Bounds
<1>2. Ordered(d)'
  BY DEF Same, Ordered
<1>3. Ends(d)'
  BY DEF Same, Ends
<1> QED
  BY <1>1, <1>2, <1>3

(* What a step keeps of the bytes, in both directions.                     *)
Data == Typed /\ (\A d \in Dir : Bounds(d) /\ Ordered(d) /\ Ends(d))
BitTypes ==
  /\ eof \in [Dir -> BOOLEAN] /\ fin \in [Dir -> BOOLEAN]
  /\ read_done \in [Dir -> BOOLEAN]

(* The peers and the writers.                                              *)
LEMMA StreamData ==
  ASSUME Data, BitTypes, NEW d \in Dir, Arrive(d) \/ Close(d) \/ Drain(d)
  PROVE  Data'
<1> USE SizeAssumption
<1>0. Typed /\ Bounds(d) /\ Ordered(d) /\ Ends(d)
  BY DEF Data
<1>t. /\ produced[d] \in Nat /\ inbox[d] \in Nat /\ unsent[d] \in Nat
      /\ Total[d] \in Nat /\ pos[d] \in Nat
      /\ Len(written[d]) \in Nat /\ Len(buf[d]) \in Nat
  BY <1>0, LenProperties DEF Typed
<1>m. /\ produced[d] + 1 \in Nat /\ inbox[d] + 1 \in Nat
      /\ unsent[d] > 0 => unsent[d] - 1 \in Nat
  BY <1>t
<1>1. CASE Arrive(d)
  <2>1. /\ produced' = [produced EXCEPT ![d] = produced[d] + 1]
        /\ inbox' = [inbox EXCEPT ![d] = inbox[d] + 1]
        /\ produced[d] < Total[d] /\ ~eof[d]
        /\ UNCHANGED <<eof, unsent, written, fin, buf, pos, read_done, copied, state,
                       count, amt, amt_old, ret>>
    BY <1>1 DEF Arrive, StreamFrame, bufVars, pollVars
  <2>2. Typed' /\ produced'[d] = produced[d] + 1 /\ inbox'[d] = inbox[d] + 1
    BY <1>0, <1>m, <2>1 DEF Typed
  <2>3. ASSUME NEW e \in Dir, e # d PROVE Same(e)
    BY <1>0, <2>1, <2>3 DEF Same, Typed
  <2>4. Bounds(d)'
    BY <1>0, <1>t, <2>1, <2>2 DEF Bounds
  <2>5. Ordered(d)'
    BY <1>0, <2>1 DEF Ordered
  <2>6. Ends(d)'
    BY <1>0, <2>1 DEF Ends
  <2> QED
    BY <2>2, <2>3, <2>4, <2>5, <2>6, SameKeeps DEF Data
<1>2. CASE Close(d)
  <2>1. /\ eof' = [eof EXCEPT ![d] = TRUE]
        /\ UNCHANGED <<produced, inbox, unsent, written, fin, buf, pos, read_done,
                       copied, state, count, amt, amt_old, ret>>
    BY <1>2 DEF Close, StreamFrame, bufVars, pollVars
  <2>2. Typed'
    BY <1>0, <2>1 DEF Typed
  <2>3. ASSUME NEW e \in Dir, e # d PROVE Same(e)
    BY <2>1, <2>3 DEF Same, BitTypes
  <2>4. Bounds(d)'
    BY <1>0, <2>1 DEF Bounds
  <2>5. Ordered(d)'
    BY <1>0, <2>1 DEF Ordered
  <2>6. Ends(d)'
    BY <1>0, <2>1 DEF Ends, BitTypes
  <2> QED
    BY <2>2, <2>3, <2>4, <2>5, <2>6, SameKeeps DEF Data
<1>3. CASE Drain(d)
  <2>1. /\ unsent' = [unsent EXCEPT ![d] = unsent[d] - 1] /\ unsent[d] > 0
        /\ UNCHANGED <<produced, inbox, eof, written, fin, buf, pos, read_done,
                       copied, state, count, amt, amt_old, ret>>
    BY <1>3 DEF Drain, StreamFrame, bufVars, pollVars
  <2>2. Typed' /\ unsent'[d] = unsent[d] - 1
    BY <1>0, <1>m, <2>1 DEF Typed
  <2>3. ASSUME NEW e \in Dir, e # d PROVE Same(e)
    BY <1>0, <2>1, <2>3 DEF Same, Typed
  <2>4. Bounds(d)'
    BY <1>0, <1>t, <2>1, <2>2 DEF Bounds
  <2>5. Ordered(d)'
    BY <1>0, <2>1 DEF Ordered
  <2>6. Ends(d)'
    BY <1>0, <1>t, <2>1, <2>2 DEF Ends
  <2> QED
    BY <2>2, <2>3, <2>4, <2>5, <2>6, SameKeeps DEF Data
<1> QED
  BY <1>1, <1>2, <1>3

LEMMA PartOfSum ==
  ASSUME NEW w \in Nat, NEW b \in Nat, NEW p \in Nat, NEW r \in Nat, NEW i \in Nat,
         NEW t \in Nat, p <= b, w + (b - p) = r - i, r <= t
  PROVE  w <= t
OBVIOUS

LEMMA WholeSum ==
  ASSUME NEW w \in Nat, NEW b \in Nat, NEW r \in Nat, NEW p, NEW i, p = b, i = 0,
         w + (b - p) = r - i
  PROVE  w = r
OBVIOUS

(* poll_read: new data is what follows the bytes already read.             *)
LEMMA ReadData ==
  ASSUME Data, BitTypes, NEW d \in Dir, Read(d)
  PROVE  Data'
<1> USE SizeAssumption
<1> DEFINE n == Smaller(Size, inbox[d])
           first == produced[d] - inbox[d]
           b == [i \in 1 .. n |-> first + i]
<1>0. Typed /\ Bounds(d) /\ Ordered(d) /\ Ends(d)
  BY DEF Data
<1>1. /\ n \in Nat /\ n <= Size /\ n <= inbox[d] /\ first \in Nat
      /\ inbox[d] \in Nat /\ produced[d] \in Nat
  BY <1>0 DEF Typed, Bounds, Smaller
<1>2. b \in Seq(Nat) /\ Len(b) = n /\ (\A i \in 1 .. n : b[i] = first + i)
  BY <1>1
<1>3. /\ Len(written[d]) = first /\ copied[d] = first /\ state[d] = "Running"
      /\ ~read_done[d]
  BY <1>0, <1>1, LenProperties DEF Typed, Bounds, Read, Copying, BufEmpty
<1>4. /\ buf' = [buf EXCEPT ![d] = b] /\ pos' = [pos EXCEPT ![d] = 0]
      /\ inbox' = [inbox EXCEPT ![d] = inbox[d] - n]
      /\ UNCHANGED <<produced, eof, unsent, written, fin, read_done, copied, state,
                     count, amt, amt_old, ret>>
  BY DEF Read, PosReset, DirFrame
<1>f. produced[d] - inbox[d] = first /\ produced[d] - (inbox[d] - n) = first + n
  BY <1>1
<1> HIDE DEF n, first, b
<1>5. Typed' /\ buf'[d] = b /\ pos'[d] = 0 /\ inbox'[d] = inbox[d] - n
  <2>1. inbox[d] - n \in Nat
    BY <1>1
  <2> QED
    BY <1>0, <1>2, <1>4, <2>1 DEF Typed
<1>6. ASSUME NEW e \in Dir, e # d PROVE Same(e)
  BY <1>0, <1>4, <1>6 DEF Same, Typed
<1>7. Bounds(d)'
  <2>1. /\ produced[d] <= Total[d] /\ unsent[d] <= Room
        /\ amt_old[d] <= amt[d] /\ amt[d] <= copied[d] /\ copied[d] = Len(written[d])
    BY <1>0 DEF Bounds
  <2>2. /\ inbox[d] - n <= produced[d] /\ 0 <= n
        /\ first + (n - 0) = produced[d] - (inbox[d] - n)
    BY <1>1, <1>f
  <2> QED
    BY <1>1, <1>2, <1>3, <1>4, <1>5, <2>1, <2>2 DEF Bounds
<1>8. Ordered(d)'
  <2>1. \A i \in 1 .. n : b[i] = first + (i - 0)
    BY <1>1, <1>2
  <2> QED
    BY <1>0, <1>2, <1>3, <1>4, <1>5, <2>1 DEF Ordered, Follows
<1>9. Ends(d)'
  BY <1>3, <1>4 DEF Ends
<1> QED
  BY <1>5, <1>6, <1>7, <1>8, <1>9, SameKeeps DEF Data

(* A write takes at least one byte, and no more than there is or fits.     *)
LEMMA WriteAmount ==
  ASSUME Typed, NEW d \in Dir, Write(d)
  PROVE  \E n \in Nat :
           /\ n = Smaller(Len(buf[d]) - pos[d], Room - unsent[d]) /\ n > 0
           /\ pos[d] + n <= Len(buf[d]) /\ unsent[d] + n <= Room
<1>1. /\ pos[d] \in Nat /\ unsent[d] \in Nat /\ Len(buf[d]) \in Nat /\ Room \in Nat
  BY LenProperties, SizeAssumption DEF Typed
<1>2. Len(buf[d]) - pos[d] \in Int /\ Room - unsent[d] \in Int
  BY <1>1
<1>3. PICK m \in Int :
        /\ m = Smaller(Len(buf[d]) - pos[d], Room - unsent[d])
        /\ m <= Len(buf[d]) - pos[d] /\ m <= Room - unsent[d]
  BY <1>2, SmallerBound, Zenon
<1>4. m > 0
  BY <1>3 DEF Write
<1>5. m \in Nat /\ pos[d] + m <= Len(buf[d]) /\ unsent[d] + m <= Room
  BY <1>1, <1>3, <1>4
<1> QED
  BY <1>3, <1>4, <1>5

(* poll_write: a partial write moves pos by as much as it appends.         *)
LEMMA WriteData ==
  ASSUME Data, BitTypes, NEW d \in Dir, Write(d)
  PROVE  Data'
<1>0. Typed /\ Bounds(d) /\ Ordered(d) /\ Ends(d)
  BY DEF Data
<1>s. written[d] \in Seq(Nat) /\ buf[d] \in Seq(Nat)
  BY <1>0 DEF Typed
<1>t. /\ pos[d] \in Nat /\ unsent[d] \in Nat /\ copied[d] \in Nat
      /\ amt[d] \in Nat /\ amt_old[d] \in Nat /\ produced[d] \in Nat
      /\ inbox[d] \in Nat /\ Len(written[d]) \in Nat /\ Len(buf[d]) \in Nat
      /\ Room \in Nat
  BY <1>0, <1>s, LenProperties, SizeAssumption DEF Typed
<1>1. PICK n \in Nat :
        /\ n = Smaller(Len(buf[d]) - pos[d], Room - unsent[d]) /\ n > 0
        /\ pos[d] + n <= Len(buf[d]) /\ unsent[d] + n <= Room
  BY <1>0, WriteAmount
<1>r. unsent[d] + n <= Room
  BY <1>1
<1>p. pos[d] + n <= Len(buf[d])
  BY <1>1
<1>u. n \in Nat
  BY <1>1
<1>v. pos[d] + n \in Nat /\ unsent[d] + n \in Nat /\ copied[d] + n \in Nat
  <2>1. pos[d] \in Nat /\ unsent[d] \in Nat /\ copied[d] \in Nat
    BY <1>t
  <2>2. \A i \in Nat : i + n \in Nat
    BY <1>u
  <2> QED
    BY <2>1, <2>2, Zenon
<1> DEFINE w == Written(written[d], buf[d], pos[d], n)
<1>2. /\ w \in Seq(Nat) /\ Len(w) = Len(written[d]) + n
      /\ Counts(w)
  <2>1. Counts(written[d]) /\ Follows(written[d], buf[d], pos[d])
    BY <1>0 DEF Ordered
  <2>2. pos[d] \in Nat
    BY <1>t
  <2>3. Written(written[d], buf[d], pos[d], n) \in Seq(Nat)
    BY <1>s, <1>p, <1>u, <2>1, <2>2, AppendBytes, Zenon
  <2>4. Len(Written(written[d], buf[d], pos[d], n)) = Len(written[d]) + n
    BY <1>s, <1>p, <1>u, <2>1, <2>2, AppendBytes, Zenon
  <2>5. Counts(Written(written[d], buf[d], pos[d], n))
    BY <1>s, <1>p, <1>u, <2>1, <2>2, AppendBytes, Zenon
  <2> QED
    BY <2>3, <2>4, <2>5
<1>3. /\ written' = [written EXCEPT ![d] = w] /\ pos' = [pos EXCEPT ![d] = pos[d] + n]
      /\ unsent' = [unsent EXCEPT ![d] = unsent[d] + n]
      /\ copied' = [copied EXCEPT ![d] = copied[d] + n] /\ state[d] = "Running"
      /\ UNCHANGED <<produced, inbox, eof, fin, buf, read_done, state, count, amt,
                     amt_old, ret>>
  BY <1>1 DEF Write, Written, PosAfterWrite, DirFrame, Copying
<1> HIDE DEF w
<1>4. /\ Typed' /\ written'[d] = w /\ pos'[d] = pos[d] + n
      /\ unsent'[d] = unsent[d] + n /\ copied'[d] = copied[d] + n
  BY <1>0, <1>v, <1>2, <1>3 DEF Typed
<1>5. ASSUME NEW e \in Dir, e # d PROVE Same(e)
  BY <1>0, <1>3, <1>5 DEF Same, Typed
<1>6. Bounds(d)'
  <2>1. /\ copied[d] = Len(written[d]) /\ amt[d] <= copied[d]
        /\ Len(written[d]) + (Len(buf[d]) - pos[d]) = produced[d] - inbox[d]
    BY <1>0 DEF Bounds
  <2>2. /\ copied[d] + n = Len(w) /\ amt[d] <= copied[d] + n
        /\ Len(w) + (Len(buf[d]) - (pos[d] + n)) = produced[d] - inbox[d]
    <3>1. Len(w) = Len(written[d]) + n
      BY <1>2
    <3>2. copied[d] + n = Len(w) /\ amt[d] <= copied[d] + n
      BY <1>t, <1>u, <2>1, <3>1
    <3>3. Len(w) + (Len(buf[d]) - (pos[d] + n)) = produced[d] - inbox[d]
      BY <1>t, <1>u, <2>1, <3>1
    <3> QED
      BY <3>2, <3>3
  <2> QED
    BY <1>0, <1>p, <1>r, <1>t, <1>u, <1>3, <1>4, <2>2 DEF Bounds
<1>7. Ordered(d)'
  <2>1. ASSUME NEW i \in 1 .. Len(buf[d]), i > pos[d] + n
        PROVE  buf[d][i] = Len(w) + (i - (pos[d] + n))
    <3>1. i > pos[d] /\ i \in Nat
      BY <1>t, <1>u, <2>1
    <3>2. buf[d][i] = Len(written[d]) + (i - pos[d])
      BY <1>0, <3>1 DEF Ordered, Follows
    <3> QED
      BY <1>t, <1>u, <1>2, <3>1, <3>2
  <2> QED
    BY <1>2, <1>3, <1>4, <2>1 DEF Ordered, Follows
<1>8. Ends(d)'
  <2>1. read_done[d] => eof[d] /\ inbox[d] = 0
    BY <1>0 DEF Ends
  <2> QED
    BY <1>3, <2>1 DEF Ends
<1> QED
  BY <1>4, <1>5, <1>6, <1>7, <1>8, SameKeeps DEF Data

(* Steps that leave the bytes alone: they bring an amount up to date, set  *)
(* amt_old, or end a direction.                                            *)
LEMMA AmountData ==
  ASSUME Data, BitTypes,
         UNCHANGED <<produced, inbox, eof, unsent, written, fin, buf, pos, read_done,
                     copied, state, count>>,
         ret' \in [Dir -> {"Pending", "Ready"}],
         \/ UNCHANGED <<amt, amt_old>>
         \/ amt_old' = amt /\ UNCHANGED amt
         \/ \E d \in Dir : amt' = AmountTaken(d) /\ UNCHANGED amt_old
  PROVE  Data'
<1>1. Typed'
  BY DEF Data, Typed, AmountTaken
<1>2. ASSUME NEW e \in Dir PROVE Bounds(e)' /\ Ordered(e)' /\ Ends(e)'
  <2>0. Bounds(e) /\ Ordered(e) /\ Ends(e) /\ Typed
    BY DEF Data
  <2>1. Ordered(e)'
    BY <2>0 DEF Ordered
  <2>2. Ends(e)'
    BY <2>0 DEF Ends
  <2>3. amt[e] \in Nat /\ amt_old[e] \in Nat /\ copied[e] \in Nat
    BY <2>0 DEF Typed
  <2>4. amt_old[e] <= amt[e] /\ amt[e] <= copied[e]
    BY <2>0 DEF Bounds
  <2>5. amt_old'[e] <= amt'[e] /\ amt'[e] <= copied[e]
    <3>1. CASE UNCHANGED <<amt, amt_old>> \/ (amt_old' = amt /\ UNCHANGED amt)
      BY <2>3, <2>4, <3>1
    <3>2. ASSUME NEW d \in Dir, amt' = AmountTaken(d), UNCHANGED amt_old
          PROVE  amt_old'[e] <= amt'[e] /\ amt'[e] <= copied[e]
      <4>1. amt'[e] = IF e = d THEN copied[e] ELSE amt[e]
        BY <2>0, <3>2 DEF Typed, AmountTaken
      <4> QED
        BY <2>3, <2>4, <3>2, <4>1
    <3> QED
      BY <3>1, <3>2
  <2> QED
    BY <2>0, <2>1, <2>2, <2>5 DEF Bounds
<1> QED
  BY <1>1, <1>2 DEF Data

(* The end of file and the shutdown.                                       *)
LEMMA EndData ==
  ASSUME Data, BitTypes, NEW d \in Dir,
         ReadEof(d) \/ FlushLast(d) \/ Shutdown(d) \/ ShutdownPending(d)
  PROVE  Data'
<1> USE SizeAssumption
<1>0. Typed /\ Bounds(d) /\ Ordered(d) /\ Ends(d)
  BY DEF Data
<1>t. unsent[d] \in Nat /\ Room \in Nat /\ Room > 0 /\ unsent[d] <= Room
  BY <1>0 DEF Typed, Bounds
<1>1. CASE ReadEof(d)
  <2>1. /\ read_done' = [read_done EXCEPT ![d] = TRUE] /\ inbox[d] = 0 /\ eof[d]
        /\ state[d] = "Running"
        /\ UNCHANGED <<produced, inbox, eof, unsent, written, fin, buf, pos, copied,
                       state, count, amt, amt_old, ret>>
    BY <1>1 DEF ReadEof, Copying, DirFrame, streamVars
  <2>2. Typed' /\ Bounds(d)'
    BY <1>0, <2>1 DEF Typed, Bounds
  <2>3. Ordered(d)'
    BY <1>0, <2>1 DEF Ordered
  <2>4. Ends(d)'
    BY <2>1 DEF Ends
  <2>5. ASSUME NEW e \in Dir, e # d PROVE Same(e)
    BY <2>1, <2>5 DEF Same, BitTypes
  <2> QED
    BY <2>2, <2>3, <2>4, <2>5, SameKeeps DEF Data
<1>2. CASE FlushLast(d)
  <2>1. /\ state' = [state EXCEPT ![d] = "Shuttingdow"]
        /\ count' = [count EXCEPT ![d] = copied[d]]
        /\ read_done[d] /\ pos[d] = Len(buf[d]) /\ unsent[d] = 0
        /\ UNCHANGED <<produced, inbox, eof, unsent, written, fin, buf, pos, read_done,
                       copied, amt, amt_old, ret>>
    BY <1>2 DEF FlushLast, AllWritten, BufEmpty, Flushed, DirFrame, streamVars
  <2>2. Typed' /\ state'[d] = "Shuttingdow" /\ count'[d] = copied[d]
    BY <1>0, <2>1 DEF Typed, States
  <2>3. Bounds(d)'
    BY <1>0, <2>1 DEF Bounds
  <2>4. Ordered(d)'
    BY <1>0, <2>1 DEF Ordered
  <2>5. Ends(d)'
    BY <1>0, <2>1, <2>2 DEF Ends
  <2>6. ASSUME NEW e \in Dir, e # d PROVE Same(e)
    BY <1>0, <2>1, <2>6 DEF Same, Typed
  <2> QED
    BY <2>2, <2>3, <2>4, <2>5, <2>6, SameKeeps DEF Data
<1>3. CASE Shutdown(d)
  <2>1. /\ state' = [state EXCEPT ![d] = "Done"] /\ state[d] = "Shuttingdow"
        /\ UNCHANGED <<produced, inbox, eof, unsent, written, fin, buf, pos, read_done,
                       copied, count, amt, amt_old, ret>>
    BY <1>3 DEF Shutdown, DirFrame, streamVars
  <2>2. Typed'
    BY <1>0, <2>1 DEF Typed, States
  <2>3. Bounds(d)'
    BY <1>0, <2>1 DEF Bounds
  <2>4. Ordered(d)'
    BY <1>0, <2>1 DEF Ordered
  <2>5. Ends(d)'
    BY <1>0, <2>1 DEF Ends, Typed
  <2>6. ASSUME NEW e \in Dir, e # d PROVE Same(e)
    BY <1>0, <2>1, <2>6 DEF Same, Typed
  <2> QED
    BY <2>2, <2>3, <2>4, <2>5, <2>6, SameKeeps DEF Data
<1>4. CASE ShutdownPending(d)
  <2>1. /\ fin' = [fin EXCEPT ![d] = TRUE] /\ state[d] = "Shuttingdow"
        /\ unsent' = IF fin[d] THEN unsent ELSE [unsent EXCEPT ![d] = unsent[d] + 1]
        /\ ret' = [ret EXCEPT ![d] = "Pending"]
        /\ UNCHANGED <<produced, inbox, eof, written, buf, pos, read_done, copied,
                       state, count, amt, amt_old>>
    BY <1>4 DEF ShutdownPending, Return, DirFrame, bufVars
  <2>2. /\ unsent'[d] \in Nat /\ unsent'[d] <= Room
        /\ unsent' \in [Dir -> Nat]
    <3>1. CASE fin[d]
      BY <1>0, <1>t, <2>1, <3>1 DEF Typed
    <3>2. CASE ~fin[d]
      <4>1. unsent[d] = 0
        BY <1>0, <2>1, <3>2 DEF Ends
      <4>2. unsent' = [unsent EXCEPT ![d] = 1]
        BY <2>1, <3>2, <4>1
      <4> QED
        BY <1>0, <1>t, <4>2 DEF Typed
    <3> QED
      BY <3>1, <3>2
  <2>3. Typed'
    BY <1>0, <2>1, <2>2 DEF Typed
  <2>4. Bounds(d)'
    BY <1>0, <2>1, <2>2 DEF Bounds
  <2>5. Ordered(d)'
    BY <1>0, <2>1 DEF Ordered
  <2>6. Ends(d)'
    BY <1>0, <2>1 DEF Ends, BitTypes
  <2>7. ASSUME NEW e \in Dir, e # d PROVE Same(e)
    <3>1. fin'[e] = fin[e]
      BY <2>1, <2>7 DEF BitTypes
    <3>2. unsent'[e] = unsent[e]
      BY <1>0, <2>1, <2>7 DEF Typed
    <3> QED
      BY <2>1, <3>1, <3>2 DEF Same
  <2> QED
    BY <2>3, <2>4, <2>5, <2>6, <2>7, SameKeeps DEF Data
<1> QED
  BY <1>1, <1>2, <1>3, <1>4

-----------------------------------------------------------------------------
(* The part of the invariant about the poll and the sleep.                 *)
PollInv ==
  /\ \A d \in Dir : Idle(d)
  /\ result # "none" => pc = "Ended"
  /\ TimeoutOnlyIfIdle

PollTypes ==
  /\ pc \in {"Parked", "ab", "ba", "Decide", "Ended"}
  /\ state \in [Dir -> States] /\ ret \in [Dir -> {"Pending", "Ready"}]
  /\ copied \in [Dir -> Nat] /\ amt \in [Dir -> Nat] /\ amt_old \in [Dir -> Nat]
  /\ \A d \in Dir : amt_old[d] <= amt[d] /\ amt[d] <= copied[d]
  /\ moved \subseteq Dir

LEMMA SamePoll ==
  ASSUME PollInv,
         UNCHANGED <<pc, state, copied, amt, amt_old, ret, sleep, moved, result>>
  PROVE  PollInv'
<1>1. ASSUME NEW d \in Dir PROVE Idle(d)'
  <2>1. Idle(d)
    BY DEF PollInv
  <2> QED
    BY <2>1 DEF Idle, Polled, InPoll
<1> QED
  BY <1>1 DEF PollInv, TimeoutOnlyIfIdle

(* A direction that returns leaves its amount, or its end, for Decide.     *)
LEMMA ReturnPoll ==
  ASSUME PollInv, PollTypes, NEW d \in Dir, pc = d,
         NEW r \in {"Pending", "Ready"}, Return(d, r),
         r = "Ready" <=> state[d] = "Done",
         \/ amt' = AmountTaken(d)
         \/ UNCHANGED amt /\ state[d] # "Running",
         UNCHANGED <<state, copied, amt_old, sleep, moved, result>>
  PROVE  PollInv'
<1>1. /\ pc' = After(d) /\ pc' # "Ended" /\ pc # "Ended" /\ pc # "Decide"
      /\ ret' = [ret EXCEPT ![d] = r]
  BY DEF Return, After, Dir
<1>2. result = "none"
  BY <1>1 DEF PollInv
<1>3. Idle(d)'
  <2>1. /\ ret'[d] = r
        /\ state[d] = "Running" => amt'[d] = copied[d]
    BY <1>1 DEF PollTypes, AmountTaken
  <2>2. InPoll(d)'
    BY <1>1 DEF InPoll, Polled, After, Dir
  <2>3. (sleep # "none" /\ d \in moved /\ state[d] = "Running") =>
          \/ \E e \in Dir : state[e] = "Done"
          \/ copied[d] > amt_old[d]
    BY <1>1 DEF PollInv, Idle
  <2>4. state[d] = "Running" => amt'[d] = copied'[d]
    BY <2>1
  <2>5. ret'[d] = "Ready" <=> state'[d] = "Done"
    BY <2>1
  <2> QED
    BY <2>2, <2>3, <2>4, <2>5 DEF Idle
<1>4. ASSUME NEW e \in Dir, e # d PROVE Idle(e)'
  <2>1. ret'[e] = ret[e] /\ amt'[e] = amt[e]
    BY <1>1, <1>4 DEF PollTypes, AmountTaken
  <2>2. /\ Polled(e)' => Polled(e)
        /\ InPoll(e) => InPoll(e)'
    BY <1>1, <1>4 DEF InPoll, Polled, After, Dir
  <2>3. Idle(e)
    BY DEF PollInv
  <2> QED
    BY <1>1, <2>1, <2>2, <2>3 DEF Idle
<1> QED
  BY <1>2, <1>3, <1>4 DEF PollInv, TimeoutOnlyIfIdle

(* One poll of a direction.                                                *)
LEMMA DirectionPoll ==
  ASSUME PollInv, PollTypes, Typed, NEW d \in Dir, Direction(d)
  PROVE  PollInv'
<1>0. pc = d /\ pc # "Ended" /\ pc # "Decide" /\ ~Polled(d) /\ UNCHANGED <<sleep, result>>
  BY DEF Direction, Read, ReadEof, ReadPending, Write, WritePending, FlushLast,
         FlushLastPending, Shutdown, ShutdownPending, DirDone, Copying, DirFrame,
         timerVars, Dir, Polled
<1>r. result = "none"
  BY <1>0 DEF PollInv
<1>1. CASE Read(d) \/ ReadEof(d)
  BY <1>1, SamePoll DEF Read, ReadEof, DirFrame, timerVars
<1>2. CASE ReadPending(d) \/ WritePending(d) \/ FlushLastPending(d)
  <2>1. /\ Return(d, "Pending") /\ amt' = AmountTaken(d) /\ state[d] # "Done"
        /\ UNCHANGED <<state, copied, amt_old, sleep, moved, result>>
    BY <1>2 DEF ReadPending, WritePending, FlushLastPending, Copying, CopyPending,
                DirFrame, timerVars, bufVars
  <2> QED
    BY <1>0, <2>1, ReturnPoll
<1>3. CASE ShutdownPending(d)
  <2>1. /\ Return(d, "Pending") /\ state[d] = "Shuttingdow"
        /\ UNCHANGED <<amt, state, copied, amt_old, sleep, moved, result>>
    BY <1>3 DEF ShutdownPending, DirFrame, timerVars, bufVars
  <2> QED
    BY <1>0, <2>1, ReturnPoll
<1>4. CASE DirDone(d)
  <2>1. /\ Return(d, "Ready") /\ state[d] = "Done"
        /\ UNCHANGED <<amt, state, copied, amt_old, sleep, moved, result>>
    BY <1>4 DEF DirDone, DirFrame, timerVars, bufVars
  <2> QED
    BY <1>0, <2>1, ReturnPoll
<1>5. CASE Write(d)
  <2>1. PICK n \in Nat : n = Smaller(Len(buf[d]) - pos[d], Room - unsent[d]) /\ n > 0
    BY <1>5, WriteAmount
  <2>2. /\ copied' = [copied EXCEPT ![d] = copied[d] + n] /\ moved' = moved \cup {d}
        /\ UNCHANGED <<pc, state, amt, amt_old, ret>>
    BY <1>5, <2>1 DEF Write, DirFrame
  <2>3. copied'[d] > amt_old[d]
    <3>1. copied'[d] = copied[d] + n
      BY <2>2 DEF PollTypes
    <3>2. /\ copied[d] \in Nat /\ amt[d] \in Nat /\ amt_old[d] \in Nat
          /\ amt_old[d] <= amt[d] /\ amt[d] <= copied[d]
      BY DEF PollTypes
    <3>3. n \in Nat /\ n > 0
      BY <2>1
    <3> QED
      BY <3>1, <3>2, <3>3
  <2>4. Idle(d)'
    BY <1>0, <2>2, <2>3 DEF Idle, InPoll, Polled
  <2>5. ASSUME NEW e \in Dir, e # d PROVE Idle(e)'
    <3>1. Idle(e) /\ copied'[e] = copied[e] /\ (e \in moved' <=> e \in moved)
      BY <2>2, <2>5 DEF PollInv, PollTypes
    <3> QED
      BY <1>0, <2>2, <3>1 DEF Idle, InPoll, Polled
  <2> QED
    BY <1>0, <1>r, <2>4, <2>5 DEF PollInv, TimeoutOnlyIfIdle
<1>6. CASE FlushLast(d) \/ Shutdown(d)
  <2>1. PICK s \in {"Shuttingdow", "Done"} :
          /\ state' = [state EXCEPT ![d] = s]
          /\ UNCHANGED <<pc, copied, amt, amt_old, ret, moved>>
    BY <1>6 DEF FlushLast, Shutdown, DirFrame
  <2>2. state'[d] = s /\ state[d] # "Done"
    BY <1>6, <2>1 DEF PollTypes, FlushLast, Shutdown, Copying
  <2>3. Idle(d)'
    BY <1>0, <2>1, <2>2 DEF Idle, Polled
  <2>4. ASSUME NEW e \in Dir, e # d PROVE Idle(e)'
    <3>1. Idle(e) /\ state'[e] = state[e]
      BY <2>1, <2>4 DEF PollInv, PollTypes
    <3>2. (\E f \in Dir : state[f] = "Done") => \E f \in Dir : state'[f] = "Done"
      BY <2>1, <2>2 DEF PollTypes
    <3> QED
      BY <1>0, <2>1, <3>1, <3>2 DEF Idle, InPoll, Polled
  <2> QED
    BY <1>0, <1>r, <2>3, <2>4 DEF PollInv, TimeoutOnlyIfIdle
<1> QED
  BY <1>1, <1>2, <1>3, <1>4, <1>5, <1>6 DEF Direction

(* Starting a poll, ending one, and an error of a stream.                  *)
LEMMA DecidePoll ==
  ASSUME PollInv, PollTypes, Decide
  PROVE  PollInv'
<1>0. /\ pc = "Decide" /\ pc' \in {"Parked", "Ended"} /\ result = "none"
      /\ UNCHANGED <<state, copied, amt, amt_old, ret>>
  BY DEF PollInv, Decide, DropSleep, MakeSleep, PollSleep, TimeOut, Finish,
         HalfClosed, DecideFrame, bufVars
<1>1. ASSUME NEW d \in Dir PROVE ~Polled(d)'
  BY <1>0 DEF Polled
<1>2. ASSUME NEW d \in Dir
      PROVE  /\ ret[d] = "Ready" <=> state[d] = "Done"
             /\ state[d] = "Running" => amt[d] = copied[d]
             /\ (sleep # "none" /\ d \in moved /\ state[d] = "Running") =>
                  (\E e \in Dir : state[e] = "Done") \/ copied[d] > amt_old[d]
  BY <1>0 DEF PollInv, Idle, Polled
<1>3. CASE DropSleep \/ MakeSleep
  <2>1. /\ sleep' = "none" \/ moved' = {}
        /\ UNCHANGED result
    BY <1>3 DEF DropSleep, MakeSleep
  <2> QED
    BY <1>0, <1>1, <2>1 DEF PollInv, Idle, TimeoutOnlyIfIdle
<1>4. ASSUME BothPending, NothingCopied, sleep # "none", NEW d \in moved, d \in Dir
      PROVE  state[d] = "Shuttingdow"
  <2>1. \A e \in Dir : state[e] # "Done"
    BY <1>2, <1>4 DEF BothPending, Dir
  <2>2. amt_old[d] = amt[d] /\ amt[d] \in Nat
    BY <1>4 DEF NothingCopied, PollTypes
  <2>3. ~(copied[d] > amt_old[d]) \/ amt[d] # copied[d]
    BY <2>2
  <2>4. state[d] # "Running"
    BY <1>2, <1>4, <2>1, <2>3, Zenon
  <2> QED
    BY <1>4, <2>1, <2>4 DEF PollTypes, States
<1>5. CASE PollSleep
  <2>1. UNCHANGED <<moved, result>> /\ BothPending /\ NothingCopied /\ sleep # "none"
    BY <1>5 DEF PollSleep
  <2> QED
    BY <1>0, <1>1, <1>4, <2>1 DEF PollInv, Idle, TimeoutOnlyIfIdle
<1>6. CASE HalfClosed
  <2>1. UNCHANGED <<sleep, moved, result>> /\ ret["ab"] # ret["ba"]
    BY <1>6 DEF HalfClosed, timerVars
  <2>2. \E e \in Dir : state[e] = "Done"
    BY <1>2, <2>1 DEF PollTypes, Dir
  <2> QED
    BY <1>0, <1>1, <2>1, <2>2 DEF PollInv, Idle, TimeoutOnlyIfIdle
<1>7. CASE Finish
  <2>1. pc' = "Ended" /\ result' = "Ok"
    BY <1>7 DEF Finish
  <2> QED
    BY <1>1, <2>1 DEF PollInv, Idle, TimeoutOnlyIfIdle
<1>8. CASE TimeOut
  <2>1. /\ pc' = "Ended" /\ UNCHANGED moved /\ BothPending /\ NothingCopied
        /\ sleep # "none"
    BY <1>8 DEF TimeOut
  <2>2. TimeoutOnlyIfIdle'
    BY <1>0, <1>4, <2>1 DEF TimeoutOnlyIfIdle, PollTypes
  <2> QED
    BY <1>1, <2>1, <2>2 DEF PollInv, Idle
<1> QED
  BY <1>3, <1>5, <1>6, <1>7, <1>8 DEF Decide

(* The flags and the variables of the poll keep their types.               *)
LEMMA BitsKeep ==
  ASSUME Bits, [Next]_vars
  PROVE  Bits'
<1>1. CASE Stream
  <2>1. PICK d \in Dir : Arrive(d) \/ Close(d) \/ Drain(d)
    BY <1>1 DEF Stream
  <2>2. UNCHANGED <<fin, read_done, pc, sleep, elapsed, moved, result>>
    BY <2>1 DEF Arrive, Close, Drain, StreamFrame, bufVars, pollVars, timerVars
  <2>3. eof' \in [Dir -> BOOLEAN]
    BY <2>1 DEF Bits, Arrive, Close, Drain
  <2>4. notified' \in BOOLEAN
    BY <2>1 DEF Arrive, Close, Drain
  <2> QED
    BY <2>2, <2>3, <2>4 DEF Bits
<1>2. CASE Elapse
  BY <1>2 DEF Bits, Elapse, streamVars, bufVars, pollVars
<1>3. CASE StartPoll
  BY <1>3 DEF Bits, StartPoll, streamVars, bufVars, timerVars
<1>4. ASSUME NEW d \in Dir, Direction(d) PROVE Bits'
  <2>1. /\ UNCHANGED <<eof, sleep, elapsed, notified, result>>
        /\ fin' = fin \/ fin' = [fin EXCEPT ![d] = TRUE]
        /\ read_done' = read_done \/ read_done' = [read_done EXCEPT ![d] = TRUE]
        /\ moved' = moved \/ moved' = moved \cup {d}
        /\ pc' = pc \/ pc' = After(d)
    BY <1>4 DEF Direction, Read, ReadEof, ReadPending, Write, WritePending, FlushLast,
         FlushLastPending, Shutdown, ShutdownPending, DirDone, CopyPending, Return,
         DirFrame, timerVars, bufVars, streamVars
  <2> QED
    BY <2>1 DEF Bits, After
<1>5. CASE Decide
  BY <1>5 DEF Bits, Decide, DropSleep, MakeSleep, PollSleep, TimeOut, Finish,
              HalfClosed, DecideFrame, streamVars, bufVars, timerVars
<1>6. ASSUME NEW d \in Dir, StreamError(d) PROVE Bits'
  BY <1>6 DEF Bits, StreamError, streamVars, bufVars, timerVars
<1>7. CASE UNCHANGED vars
  BY <1>7 DEF Bits, vars, streamVars, bufVars, pollVars, timerVars
<1> QED
  BY <1>1, <1>2, <1>3, <1>4, <1>5, <1>6, <1>7 DEF Next, Poll

(* No step disturbs the bytes of either direction.                         *)
LEMMA DataKeeps ==
  ASSUME Data, BitTypes, [Next]_vars
  PROVE  Data'
<1>0. ret \in [Dir -> {"Pending", "Ready"}]
  BY DEF Data, Typed
<1>1. CASE Stream
  BY <1>1, StreamData DEF Stream
<1>2. CASE Elapse \/ StartPoll \/ Decide \/ UNCHANGED vars
  <2>1. /\ UNCHANGED <<produced, inbox, eof, unsent, written, fin, buf, pos, read_done,
                       copied, state, count, ret, amt>>
        /\ amt_old' = amt_old \/ amt_old' = amt
    BY <1>2 DEF Elapse, StartPoll, Decide, DropSleep, MakeSleep, PollSleep, TimeOut,
         Finish, HalfClosed, DecideFrame, vars, streamVars, bufVars, pollVars
  <2> QED
    BY <1>0, <2>1, AmountData
<1>3. ASSUME NEW d \in Dir, StreamError(d) PROVE Data'
  <2>1. UNCHANGED <<produced, inbox, eof, unsent, written, fin, buf, pos, read_done,
                    copied, state, count, ret, amt, amt_old>>
    BY <1>3 DEF StreamError, streamVars, bufVars
  <2> QED
    BY <1>0, <2>1, AmountData
<1>4. ASSUME NEW d \in Dir, Direction(d) PROVE Data'
  <2>1. CASE ReadPending(d) \/ WritePending(d) \/ FlushLastPending(d) \/ DirDone(d)
    <3>1. /\ UNCHANGED <<produced, inbox, eof, unsent, written, fin, buf, pos,
                         read_done, copied, state, count, amt_old>>
          /\ amt' = AmountTaken(d) \/ UNCHANGED amt
          /\ \E r \in {"Pending", "Ready"} : ret' = [ret EXCEPT ![d] = r]
      BY <2>1 DEF ReadPending, WritePending, FlushLastPending, DirDone, CopyPending,
           Return, DirFrame, streamVars, bufVars
    <3>2. ret' \in [Dir -> {"Pending", "Ready"}]
      BY <1>0, <3>1
    <3> QED
      BY <3>1, <3>2, AmountData
  <2> QED
    BY <1>4, <2>1, ReadData, WriteData, EndData DEF Direction
<1> QED
  BY <1>1, <1>2, <1>3, <1>4 DEF Next, Poll

(* No step lets a busy direction be taken for an idle one.                 *)
LEMMA PollKeeps ==
  ASSUME PollInv, PollTypes, Typed, [Next]_vars
  PROVE  PollInv'
<1>1. CASE Stream \/ Elapse \/ UNCHANGED vars
  <2>1. UNCHANGED <<pc, state, copied, amt, amt_old, ret, sleep, moved, result>>
    BY <1>1 DEF Stream, Arrive, Close, Drain, StreamFrame, Elapse, vars, bufVars,
                pollVars, timerVars
  <2> QED
    BY <2>1, SamePoll
<1>2. CASE StartPoll
  <2>1. /\ pc = "Parked" /\ pc' = "ab" /\ amt_old' = amt
        /\ UNCHANGED <<state, copied, amt, ret, sleep, moved, result>>
    BY <1>2 DEF StartPoll, bufVars, timerVars
  <2>2. ASSUME NEW d \in Dir PROVE Idle(d)'
    <3>1. Idle(d) /\ ~InPoll(d) /\ ~Polled(d)'
      BY <2>1 DEF PollInv, InPoll, Polled, Dir
    <3> QED
      BY <2>1, <3>1 DEF Idle
  <2> QED
    BY <2>1, <2>2 DEF PollInv, TimeoutOnlyIfIdle
<1>3. ASSUME NEW d \in Dir, StreamError(d) PROVE PollInv'
  BY <1>3 DEF StreamError, PollInv, Idle, Polled, TimeoutOnlyIfIdle
<1> QED
  BY <1>1, <1>2, <1>3, DirectionPoll, DecidePoll DEF Next, Poll
-----------------------------------------------------------------------------
LEMMA InitInvariant == Init => IInv
<1> SUFFICES ASSUME Init PROVE IInv
  OBVIOUS
<1>1. <<>> \in Seq(Nat) /\ Len(<<>>) = 0
  OBVIOUS
<1>2. Typed
  BY <1>1 DEF Init, Typed, Each, States
<1>3. Bits
  BY DEF Init, Bits, Each
<1>4. ASSUME NEW d \in Dir PROVE Bounds(d) /\ Ordered(d) /\ Ends(d) /\ Idle(d)
  <2>1. Total[d] \in Nat /\ Room \in Nat /\ Size \in Nat
    BY SizeAssumption
  <2>v. /\ produced[d] = 0 /\ inbox[d] = 0 /\ unsent[d] = 0 /\ pos[d] = 0
        /\ copied[d] = 0 /\ amt[d] = 0 /\ amt_old[d] = 0
        /\ written[d] = <<>> /\ buf[d] = <<>>
    BY DEF Init, Each
  <2>l. Len(written[d]) = 0 /\ Len(buf[d]) = 0
    BY <1>1, <2>v, Zenon
  <2>2. Bounds(d)
    BY <2>1, <2>v, <2>l DEF Bounds
  <2>3. Ordered(d)
    <3>1. \A i \in 1 .. 0 : FALSE
      OBVIOUS
    <3> QED
      BY <2>l, <3>1, Zenon DEF Ordered, Counts, Follows
  <2>4. Ends(d) /\ Idle(d)
    BY DEF Init, Ends, Idle, Polled, Each, Dir
  <2> QED
    BY <2>2, <2>3, <2>4
<1> QED
  BY <1>2, <1>3, <1>4 DEF IInv, Init, TimeoutOnlyIfIdle

(* Every step of the relay, of the streams and of the timer keeps the      *)
(* invariant, whatever the interleaving.                                   *)
THEOREM NextInvariant == IInv /\ [Next]_vars => IInv'
<1> SUFFICES ASSUME IInv, [Next]_vars PROVE IInv'
  OBVIOUS
<1>1. Data /\ BitTypes /\ Bits /\ PollInv
  BY DEF IInv, Data, BitTypes, Bits, PollInv
<1>2. PollTypes
  BY DEF IInv, Typed, Bits, Bounds, PollTypes
<1>3. Data' /\ Bits' /\ PollInv'
  BY <1>1, <1>2, DataKeeps, BitsKeep, PollKeeps DEF Data
<1> QED
  BY <1>3 DEF IInv, Data, PollInv

THEOREM Invariance == Spec => []IInv
BY InitInvariant, NextInvariant, PTL DEF Spec

(* TypeOK: pos never leaves the buffer, a writer is given no more than it  *)
(* takes and the amounts never run ahead of what was copied.               *)
THEOREM TypeCorrect == Spec => []TypeOK
<1>1. IInv => TypeOK
  <2> SUFFICES ASSUME IInv PROVE TypeOK
    OBVIOUS
  <2>1. ASSUME NEW d \in Dir
        PROVE  /\ produced[d] \in 0 .. Total[d] /\ inbox[d] \in 0 .. produced[d]
               /\ unsent[d] \in 0 .. Room
               /\ Len(buf[d]) <= Size /\ pos[d] \in 0 .. Len(buf[d])
               /\ state[d] \in States /\ copied[d] \in amt[d] .. Total[d]
               /\ ret[d] \in {"Pending", "Ready"}
    <3>1. /\ produced[d] \in Nat /\ inbox[d] \in Nat /\ unsent[d] \in Nat
          /\ pos[d] \in Nat /\ copied[d] \in Nat /\ amt[d] \in Nat
          /\ Len(buf[d]) \in Nat /\ Len(written[d]) \in Nat
          /\ state[d] \in States /\ ret[d] \in {"Pending", "Ready"}
      BY LenProperties DEF IInv, Typed
    <3>2. Bounds(d)
      BY DEF IInv
    <3>3. Total[d] \in Nat /\ Room \in Nat /\ Size \in Nat
      BY SizeAssumption
    <3>4. copied[d] <= Total[d]
      <4>1. /\ produced[d] <= Total[d] /\ copied[d] = Len(written[d])
            /\ pos[d] <= Len(buf[d])
            /\ Len(written[d]) + (Len(buf[d]) - pos[d]) = produced[d] - inbox[d]
        BY <3>2 DEF Bounds
      <4>2. Len(written[d]) <= Total[d]
        <5>1. \A w, b, p, r, i, t \in Nat :
                (p <= b /\ w + (b - p) = r - i /\ r <= t) => w <= t
          BY PartOfSum
        <5> QED
          BY <3>1, <3>3, <4>1, <5>1, Zenon
      <4> QED
        BY <4>1, <4>2, Zenon
    <3>5. /\ inbox[d] <= produced[d] /\ produced[d] <= Total[d] /\ unsent[d] <= Room
          /\ Len(buf[d]) <= Size /\ pos[d] <= Len(buf[d]) /\ amt[d] <= copied[d]
      BY <3>2 DEF Bounds
    <3> QED
      BY <3>1, <3>3, <3>4, <3>5
  <2> QED
    BY <2>1 DEF IInv, Bits, TypeOK, States
<1> QED
  BY <1>1, Invariance, PTL

(* RelayExact: copy_bidirectional_with_timeout loses, repeats and reorders *)
(* no byte, for any sizes of buffers, writers and data.                    *)
THEOREM NoByteLost == Spec => []RelayExact
<1>1. IInv => RelayExact
  <2> SUFFICES ASSUME IInv, NEW d \in Dir
               PROVE  written[d] \o SubSeq(buf[d], pos[d] + 1, Len(buf[d]))
                        = [i \in 1 .. produced[d] - inbox[d] |-> i]
    BY DEF RelayExact
  <2> DEFINE n == Len(buf[d]) - pos[d]
             v == Written(written[d], buf[d], pos[d], n)
  <2>1. Typed /\ Bounds(d) /\ Ordered(d)
    BY DEF IInv
  <2>2. written[d] \in Seq(Nat) /\ buf[d] \in Seq(Nat) /\ pos[d] \in Nat
    BY <2>1 DEF Typed
  <2>3. Len(buf[d]) \in Nat /\ pos[d] <= Len(buf[d])
    BY <2>1, <2>2, LenProperties DEF Bounds
  <2>4. n \in Nat /\ pos[d] + n = Len(buf[d]) /\ pos[d] + n <= Len(buf[d])
    BY <2>2, <2>3
  <2>5. Counts(written[d]) /\ Follows(written[d], buf[d], pos[d])
    BY <2>1 DEF Ordered
  <2>6. v \in Seq(Nat)
    BY <2>2, <2>4, <2>5, AppendBytes, Zenon
  <2>7. Len(v) = Len(written[d]) + n
    BY <2>2, <2>4, <2>5, AppendBytes, Zenon
  <2>8. Counts(v)
    BY <2>2, <2>4, <2>5, AppendBytes, Zenon
  <2>9. Len(v) = produced[d] - inbox[d]
    BY <2>1, <2>7 DEF Bounds
  <2>10. v = written[d] \o SubSeq(buf[d], pos[d] + 1, Len(buf[d]))
    BY <2>4 DEF Written
  <2> HIDE DEF n, v
  <2>11. v = [i \in 1 .. Len(v) |-> i]
    BY <2>6, <2>8 DEF Counts
  <2> QED
    BY <2>9, <2>10, <2>11
<1> QED
  BY <1>1, Invariance, PTL

(* ShutdownAfterAll: TransferState leaves Running only when the peer has   *)
(* closed and all it sent has been written, counted and flushed.           *)
THEOREM ShutdownComesLast == Spec => []ShutdownAfterAll
<1>1. IInv => ShutdownAfterAll
  <2> SUFFICES ASSUME IInv, NEW d \in Dir, state[d] # "Running"
               PROVE  /\ eof[d] /\ Len(written[d]) = produced[d]
                      /\ count[d] = produced[d] /\ (~fin[d] => unsent[d] = 0)
    BY DEF ShutdownAfterAll
  <2>1. Typed /\ Bounds(d) /\ Ends(d)
    BY DEF IInv
  <2>2. /\ eof[d] /\ inbox[d] = 0 /\ pos[d] = Len(buf[d]) /\ count[d] = copied[d]
        /\ ~fin[d] => unsent[d] = 0
    BY <2>1 DEF Ends
  <2>3. /\ produced[d] \in Nat /\ Len(buf[d]) \in Nat /\ Len(written[d]) \in Nat
    BY <2>1, LenProperties DEF Typed
  <2>4. /\ copied[d] = Len(written[d])
        /\ Len(written[d]) + (Len(buf[d]) - pos[d]) = produced[d] - inbox[d]
    BY <2>1 DEF Bounds
  <2>5. Len(written[d]) = produced[d]
    BY <2>2, <2>3, <2>4, WholeSum, Zenon
  <2> QED
    BY <2>2, <2>4, <2>5, Zenon
<1> QED
  BY <1>1, Invariance, PTL

(* TimeoutOnlyIfIdle: the error of CopyBidirectional::copy is returned     *)
(* only if no running direction has written since the sleep was made.      *)
THEOREM TimeoutNeedsIdle == Spec => []TimeoutOnlyIfIdle
<1>1. IInv => TimeoutOnlyIfIdle
  BY DEF IInv
<1> QED
  BY <1>1, Invariance, PTL

-----------------------------------------------------------------------------
(* CopyBidirectional implements ByteStreams.                               *)

Shuts == [d \in Dir |-> state[d] = "Done"]

(* A step that keeps these is no step of the streams.                      *)
Quiet ==
  /\ UNCHANGED <<produced, eof, written, result>>
  /\ \A d \in Dir : state'[d] = "Done" <=> state[d] = "Done"

LEMMA QuietStutters ==
  ASSUME Quiet
  PROVE  UNCHANGED Streams!vars
<1>1. Shuts' = Shuts
  <2>1. \A d \in Dir : (state'[d] = "Done") = (state[d] = "Done")
    BY Zenon DEF Quiet
  <2> QED BY <2>1, Zenon DEF Shuts
<1> QED BY <1>1, Zenon DEF Quiet, Streams!vars, Shuts

(* While the poll goes on the connection has not ended.                    *)
LEMMA Going ==
  ASSUME IInv, pc # "Ended"
  PROVE  result = "none"
BY DEF IInv

(* The peers and the writers: a byte sent, a side closed, or nothing.      *)
LEMMA StreamSteps ==
  ASSUME IInv, Stream
  PROVE  Streams!Next \/ Quiet
<1>1. PICK d \in Dir : Arrive(d) \/ Close(d) \/ Drain(d)
  BY DEF Stream
<1>2. pc # "Ended" /\ UNCHANGED <<state, result>>
  BY <1>1 DEF Arrive, Close, Drain, StreamFrame, bufVars
<1>3. result = "none"
  BY <1>2, Going
<1>4. UNCHANGED Shuts
  BY <1>2, Zenon DEF Shuts
<1>5. CASE Arrive(d)
  <2>1. Streams!Send(d)
    BY <1>2, <1>4, <1>5 DEF Arrive, Streams!Send, Shuts
  <2> QED BY <1>3, <2>1, Zenon DEF Streams!Next
<1>6. CASE Close(d)
  <2>1. Streams!Close(d)
    BY <1>2, <1>4, <1>6 DEF Close, Streams!Close, Shuts
  <2> QED BY <1>3, <2>1, Zenon DEF Streams!Next
<1>7. CASE Drain(d)
  BY <1>2, <1>7 DEF Drain, Quiet
<1> QED BY <1>1, <1>5, <1>6, <1>7

(* A write delivers the next bytes.                                        *)
LEMMA NextBytes ==
  ASSUME NEW w \in Seq(Nat), NEW b \in Seq(Nat), NEW p \in Nat, NEW n \in Nat,
         p + n <= Len(b), Follows(w, b, p)
  PROVE  SubSeq(b, p + 1, p + n) = [i \in 1 .. n |-> Len(w) + i]
<1> DEFINE s == SubSeq(b, p + 1, p + n)
<1>1. \A i \in p + 1 .. p + n : i \in 1 .. Len(b)
  BY LenProperties
<1>2. s \in Seq(Nat) /\ Len(s) = n /\ \A i \in 1 .. n : s[i] = b[p + i]
  <2>1. \A i \in p + 1 .. p + n : b[i] \in Nat
    BY <1>1, ElementOfSeq
  <2> QED BY <1>1, <2>1
<1>3. ASSUME NEW i \in 1 .. n PROVE s[i] = Len(w) + i
  <2>1. p + i \in 1 .. Len(b) /\ p + i > p /\ (p + i) - p = i
    BY <1>1
  <2>2. b[p + i] = Len(w) + ((p + i) - p)
    BY <2>1 DEF Follows
  <2> QED BY <1>2, <2>1, <2>2
<1> HIDE DEF s
<1>4. s = [i \in 1 .. n |-> s[i]]
  BY <1>2
<1> QED BY <1>3, <1>4 DEF s

LEMMA NotDelivered ==
  ASSUME NEW w \in Nat, NEW b \in Nat, NEW p \in Nat, NEW r \in Nat, NEW i \in Nat,
         NEW n \in Nat, w + (b - p) = r - i, p + n <= b, n > 0
  PROVE  n \in 1 .. r - w
OBVIOUS

LEMMA WriteDelivers ==
  ASSUME IInv, NEW d \in Dir, Write(d)
  PROVE  Streams!Deliver(d)
<1>0. Typed /\ Bounds(d) /\ Ordered(d)
  BY DEF IInv
<1>1. PICK n \in Nat :
        /\ n = Smaller(Len(buf[d]) - pos[d], Room - unsent[d]) /\ n > 0
        /\ pos[d] + n <= Len(buf[d]) /\ unsent[d] + n <= Room
  BY <1>0, WriteAmount
<1>2. /\ written[d] \in Seq(Nat) /\ buf[d] \in Seq(Nat) /\ pos[d] \in Nat
      /\ produced[d] \in Nat /\ inbox[d] \in Nat
  BY <1>0 DEF Typed
<1>3. Len(written[d]) \in Nat /\ Len(buf[d]) \in Nat
  BY <1>2, LenProperties
<1>4. n \in 1 .. produced[d] - Len(written[d])
  <2>1. Len(written[d]) + (Len(buf[d]) - pos[d]) = produced[d] - inbox[d]
    BY <1>0 DEF Bounds
  <2>2. pos[d] + n <= Len(buf[d]) /\ n > 0
    BY <1>1
  <2> QED BY <1>2, <1>3, <2>1, <2>2, NotDelivered, Zenon
<1>5. SubSeq(buf[d], pos[d] + 1, pos[d] + n) = [i \in 1 .. n |-> Len(written[d]) + i]
  <2>1. Follows(written[d], buf[d], pos[d])
    BY <1>0 DEF Ordered
  <2>2. n \in Nat /\ pos[d] + n <= Len(buf[d])
    BY <1>1
  <2> DEFINE w == written[d]
             b == buf[d]
             p == pos[d]
  <2>3. /\ w \in Seq(Nat) /\ b \in Seq(Nat) /\ p \in Nat
        /\ p + n <= Len(b) /\ Follows(w, b, p)
    BY <1>2, <2>1, <2>2
  <2> HIDE DEF w, b, p
  <2>4. SubSeq(b, p + 1, p + n) = [i \in 1 .. n |-> Len(w) + i]
    BY <2>2, <2>3, NextBytes
  <2> QED BY <2>4, Zenon DEF w, b, p
<1>6. written' =
        [written EXCEPT ![d] = @ \o [i \in 1 .. n |-> Len(written[d]) + i]]
  <2>1. written' =
          [written EXCEPT ![d] = @ \o SubSeq(buf[d], pos[d] + 1, pos[d] + n)]
    BY <1>1, Zenon DEF Write
  <2> QED BY <1>5, <2>1, Zenon
<1>7. UNCHANGED <<produced, eof, state, result>> /\ state[d] = "Running"
  BY DEF Write, Copying, DirFrame
<1>8. UNCHANGED Shuts
  BY <1>7, Zenon DEF Shuts
<1>9. ~Shuts[d]
  <2>1. state[d] # "Done"
    BY <1>7
  <2> QED BY <2>1, Zenon DEF Shuts
<1> QED BY <1>4, <1>6, <1>7, <1>8, <1>9, Zenon DEF Streams!Deliver, Shuts

(* poll_shutdown ends a stream after its last byte.                        *)
LEMMA ShutdownShuts ==
  ASSUME IInv, NEW d \in Dir, Shutdown(d)
  PROVE  Streams!Shut(d)
<1>1. state[d] = "Shuttingdow" /\ state' = [state EXCEPT ![d] = "Done"]
  BY DEF Shutdown
<1>2. state \in [Dir -> States]
  BY DEF IInv, Typed
<1>3. state[d] # "Running" /\ state[d] # "Done"
  BY <1>1
<1>4. eof[d] /\ Len(written[d]) = produced[d]
  <2>1. Typed /\ Bounds(d) /\ Ends(d)
    BY DEF IInv
  <2>2. eof[d] /\ inbox[d] = 0 /\ pos[d] = Len(buf[d])
    BY <1>3, <2>1 DEF Ends
  <2>3. produced[d] \in Nat /\ Len(buf[d]) \in Nat /\ Len(written[d]) \in Nat
    BY <2>1, LenProperties DEF Typed
  <2>4. Len(written[d]) + (Len(buf[d]) - pos[d]) = produced[d] - inbox[d]
    BY <2>1 DEF Bounds
  <2> QED BY <2>2, <2>3, <2>4, WholeSum, Zenon
<1>5. UNCHANGED <<produced, eof, written, result>>
  BY DEF Shutdown, streamVars, DirFrame
<1>6. Shuts' = [Shuts EXCEPT ![d] = TRUE]
  <2>1. \A e \in Dir : state'[e] = IF e = d THEN "Done" ELSE state[e]
    BY <1>1, <1>2
  <2>2. \A e \in Dir : (state'[e] = "Done") = IF e = d THEN TRUE ELSE state[e] = "Done"
    BY <2>1, Zenon
  <2> QED BY <2>2, Zenon DEF Shuts
<1>7. ~Shuts[d]
  BY <1>3, Zenon DEF Shuts
<1> QED BY <1>4, <1>5, <1>6, <1>7, Zenon DEF Streams!Shut, Shuts


(* A step of copy for direction d, by the call it makes.                   *)
LEMMA DirectionSteps ==
  ASSUME IInv, NEW d \in Dir, Direction(d)
  PROVE  Streams!Next \/ Quiet
<1>1. CASE Write(d)
  <2>1. pc # "Ended"
    BY <1>1 DEF Write, Copying, Dir
  <2>2. result = "none" /\ Streams!Deliver(d)
    BY <1>1, <2>1, Going, WriteDelivers
  <2> QED BY <2>2, Zenon DEF Streams!Next
<1>2. CASE Shutdown(d)
  <2>1. pc # "Ended"
    BY <1>2 DEF Shutdown, Dir
  <2>2. result = "none" /\ Streams!Shut(d)
    BY <1>2, <2>1, Going, ShutdownShuts
  <2> QED BY <2>2, Zenon DEF Streams!Next
<1>3. CASE FlushLast(d)
  <2>1. /\ state' = [state EXCEPT ![d] = "Shuttingdow"] /\ state[d] = "Running"
        /\ UNCHANGED <<produced, eof, written, result>>
    BY <1>3 DEF FlushLast, Copying, DirFrame, streamVars
  <2>2. state \in [Dir -> States]
    BY DEF IInv, Typed
  <2>3. \A e \in Dir : state'[e] = "Done" <=> state[e] = "Done"
    BY <2>1, <2>2
  <2> QED BY <2>1, <2>3, Zenon DEF Quiet
<1>4. CASE Read(d) \/ ReadEof(d) \/ ReadPending(d)
  <2>1. UNCHANGED <<produced, eof, written, state, result>>
    BY <1>4 DEF Read, ReadEof, ReadPending, DirFrame, streamVars
  <2> QED BY <2>1, Zenon DEF Quiet
<1>5. CASE WritePending(d) \/ FlushLastPending(d)
  <2>1. UNCHANGED <<produced, eof, written, state, result>>
    BY <1>5 DEF WritePending, FlushLastPending, DirFrame, bufVars
  <2> QED BY <2>1, Zenon DEF Quiet
<1>6. CASE ShutdownPending(d) \/ DirDone(d)
  <2>1. UNCHANGED <<produced, eof, written, state, result>>
    BY <1>6 DEF ShutdownPending, DirDone, DirFrame, streamVars, bufVars
  <2> QED BY <2>1, Zenon DEF Quiet
<1> QED BY <1>1, <1>2, <1>3, <1>4, <1>5, <1>6 DEF Direction

(* The three ways the relay ends.                                          *)
LEMMA EndSteps ==
  ASSUME IInv, TimeOut \/ Finish \/ \E d \in Dir : StreamError(d)
  PROVE  Streams!Next
<1>1. UNCHANGED <<produced, eof, written, state>> /\ pc # "Ended"
  BY DEF TimeOut, Finish, StreamError, DecideFrame, streamVars, bufVars, Dir
<1>2. result = "none" /\ UNCHANGED Shuts
  <2>1. UNCHANGED Shuts
    BY <1>1, Zenon DEF Shuts
  <2> QED BY <1>1, <2>1, Going
<1>3. pc = "Decide" => \A d \in Dir : ret[d] = "Ready" <=> Shuts[d]
  <2>1. \A d \in Dir : Idle(d)
    BY DEF IInv
  <2>2. pc = "Decide" => \A d \in Dir : ret[d] = "Ready" <=> state[d] = "Done"
    BY <2>1 DEF Idle, Polled
  <2> QED BY <2>2, Zenon DEF Shuts
<1>4. CASE TimeOut
  <2>1. pc = "Decide" /\ result' = "Timeout" /\ \A d \in Dir : ret[d] # "Ready"
    BY <1>4 DEF TimeOut, BothPending, Dir
  <2>2. \A d \in Dir : ~Shuts[d]
    BY <1>3, <2>1, Zenon
  <2>3. Streams!End("Timeout")
    BY <1>1, <1>2, <2>1, <2>2 DEF Streams!End, Shuts
  <2> QED BY <1>2, <2>3, Zenon DEF Streams!Next
<1>5. CASE Finish
  <2>1. pc = "Decide" /\ result' = "Ok" /\ \A d \in Dir : ret[d] = "Ready"
    BY <1>5 DEF Finish, BothReady
  <2>2. \A d \in Dir : Shuts[d]
    BY <1>3, <2>1, Zenon
  <2>3. Streams!End("Ok")
    BY <1>1, <1>2, <2>1, <2>2 DEF Streams!End, Shuts
  <2> QED BY <1>2, <2>3, Zenon DEF Streams!Next
<1>6. CASE \E d \in Dir : StreamError(d)
  <2>1. PICK d \in Dir : StreamError(d)
    BY <1>6
  <2>2. result' = "Error" /\ state[d] # "Done"
    BY <2>1 DEF StreamError
  <2>3. ~Shuts[d]
    BY <2>2, Zenon DEF Shuts
  <2>4. Streams!End("Error")
    BY <1>1, <1>2, <2>2, <2>3 DEF Streams!End, Shuts
  <2> QED BY <1>2, <2>4, Zenon DEF Streams!Next
<1> QED BY <1>4, <1>5, <1>6

LEMMA StreamsStep ==
  ASSUME IInv, [Next]_vars
  PROVE  [Streams!Next]_Streams!vars
<1>1. Streams!Next \/ Quiet
  <2>1. CASE Stream
    BY <2>1, StreamSteps
  <2>2. CASE \E d \in Dir : Direction(d)
    BY <2>2, DirectionSteps
  <2>3. CASE TimeOut \/ Finish \/ \E d \in Dir : StreamError(d)
    BY <2>3, EndSteps
  <2>4. CASE DropSleep \/ MakeSleep \/ PollSleep \/ HalfClosed
    <3>1. UNCHANGED <<produced, eof, written, state, result>>
      BY <2>4 DEF DropSleep, MakeSleep, PollSleep, HalfClosed, DecideFrame,
         streamVars, bufVars
    <3> QED BY <3>1, Zenon DEF Quiet
  <2>5. CASE Elapse \/ StartPoll \/ UNCHANGED vars
    <3>1. UNCHANGED <<produced, eof, written, state, result>>
      BY <2>5 DEF Elapse, StartPoll, vars, streamVars, bufVars
    <3> QED BY <3>1, Zenon DEF Quiet
  <2> QED BY <2>1, <2>2, <2>3, <2>4, <2>5 DEF Next, Poll, Decide
<1> QED BY <1>1, QuietStutters

(* copy_bidirectional_with_timeout is a pair of byte streams to its two    *)
(* peers, each closed after its last byte and on its own, whatever the     *)
(* sizes of the buffers and however polls and stream events interleave.    *)
THEOREM ImplementsStreams == Spec => StreamsSpec
<1>1. Init => Streams!Init
  <2> SUFFICES ASSUME Init PROVE Streams!Init
    OBVIOUS
  <2>1. /\ produced = [d \in Dir |-> 0] /\ eof = [d \in Dir |-> FALSE]
        /\ written = [d \in Dir |-> <<>>] /\ result = "none"
    BY Zenon DEF Init, Each
  <2>2. \A d \in Dir : (state[d] = "Done") = FALSE
    BY DEF Init, Each
  <2>3. Shuts = [d \in Dir |-> FALSE]
    BY <2>2, Zenon DEF Shuts
  <2> QED BY <2>1, <2>3, Zenon DEF Streams!Init, Shuts
<1>2. IInv /\ [Next]_vars => [Streams!Next]_Streams!vars
  BY StreamsStep
<1>3. Spec => []IInv
  BY Invariance
<1> QED BY <1>1, <1>2, <1>3, PTL DEF Spec, StreamsSpec, Streams!Spec

-----------------------------------------------------------------------------
(* The wakers a parked relay depends on.                                   *)

(* Direction d is finished, or nothing can be read and the reader holds    *)
(* the waker, or its writer has something to send first and holds it.      *)
Waits(d) ==
  \/ state[d] = "Done"
  \/ /\ state[d] = "Running" /\ BufEmpty(d) /\ ~read_done[d]
     /\ inbox[d] = 0 /\ ~eof[d] /\ rwake[d]
  \/ /\ state[d] = "Running" => ~BufEmpty(d) \/ read_done[d]
     /\ unsent[d] > 0 /\ wwake[d]

(* A task that is parked and not scheduled misses nothing: each direction  *)
(* has nothing to do and has left its waker with the stream that will give *)
(* it something to do.  This is what BytesFlow and EofPassedOn rest on.    *)
NoLostWakeup == (pc = "Parked" /\ ~notified) => \A d \in Dir : Waits(d)

(* It holds of a direction as soon as it has returned in a poll.           *)
Owed(d) == (Polled(d) \/ pc = "Parked") => (notified \/ Waits(d))

WakeTypes == rwake \in [Dir -> BOOLEAN] /\ wwake \in [Dir -> BOOLEAN]

WakeInv == IInv /\ WakeTypes /\ \A d \in Dir : Owed(d)

(* What Waits(d) reads of direction d.                                     *)
SameWaits(d) ==
  /\ state'[d] = state[d] /\ buf'[d] = buf[d] /\ pos'[d] = pos[d]
  /\ read_done'[d] = read_done[d] /\ inbox'[d] = inbox[d] /\ eof'[d] = eof[d]
  /\ unsent'[d] = unsent[d] /\ rwake'[d] = rwake[d] /\ wwake'[d] = wwake[d]

LEMMA SameWaitsKeeps ==
  ASSUME NEW d \in Dir, SameWaits(d), notified' = notified, Owed(d),
         (Polled(d)' \/ pc' = "Parked") => (Polled(d) \/ pc = "Parked")
  PROVE  Owed(d)'
<1>1. Waits(d)' = Waits(d)
  BY DEF SameWaits, Waits, BufEmpty
<1> QED BY <1>1 DEF Owed

(* An event of a stream wakes the task or leaves the wait as it was.       *)
LEMMA StreamOwed ==
  ASSUME WakeInv, NEW d \in Dir, Arrive(d) \/ Close(d) \/ Drain(d)
  PROVE  WakeTypes' /\ \A e \in Dir : Owed(e)'
<1>0. /\ WakeTypes /\ Typed /\ Bits /\ \A e \in Dir : Owed(e)
  BY DEF WakeInv, IInv
<1>1. UNCHANGED <<pc, state, buf, pos, read_done>>
  BY DEF Arrive, Close, Drain, StreamFrame, bufVars, pollVars
<1>2. WakeTypes'
  BY <1>0 DEF WakeTypes, Arrive, Close, Drain
<1>3. ASSUME NEW e \in Dir PROVE Polled(e)' = Polled(e)
  BY <1>1 DEF Polled
<1>4. ASSUME NEW e \in Dir, e # d PROVE Owed(e)'
  <2>1. /\ inbox'[e] = inbox[e] /\ unsent'[e] = unsent[e]
    BY <1>0, <1>4 DEF Arrive, Close, Drain, Typed
  <2>2. eof'[e] = eof[e] /\ rwake'[e] = rwake[e] /\ wwake'[e] = wwake[e]
    BY <1>0, <1>4 DEF Arrive, Close, Drain, Bits, WakeTypes
  <2>3. notified => notified'
    BY DEF Arrive, Close, Drain
  <2>4. Waits(e)' = Waits(e)
    BY <1>1, <2>1, <2>2 DEF Waits, BufEmpty
  <2> QED BY <1>0, <1>1, <1>3, <2>3, <2>4 DEF Owed
<1>5. Owed(d)'
  <2>1. notified' = (notified \/ rwake[d]) \/ notified' = (notified \/ wwake[d])
    BY DEF Arrive, Close, Drain
  <2>2. CASE Arrive(d) \/ Close(d)
    <3>1. notified' = (notified \/ rwake[d]) /\ UNCHANGED <<unsent, wwake>>
      BY <2>2 DEF Arrive, Close
    <3>2. (Waits(d) /\ ~rwake[d]) => Waits(d)'
      BY <1>1, <3>1 DEF Waits, BufEmpty
    <3> QED BY <1>0, <1>1, <1>3, <3>1, <3>2 DEF Owed
  <2>3. CASE Drain(d)
    <3>1. notified' = (notified \/ wwake[d]) /\ UNCHANGED <<inbox, eof, rwake>>
      BY <2>3 DEF Drain
    <3>2. (Waits(d) /\ ~wwake[d]) => Waits(d)'
      BY <1>1, <3>1 DEF Waits, BufEmpty
    <3> QED BY <1>0, <1>1, <1>3, <3>1, <3>2 DEF Owed
  <2> QED BY <2>2, <2>3
<1> QED BY <1>2, <1>4, <1>5

(* A direction returns Pending only after it has registered a waker.       *)
LEMMA PendingWaits ==
  ASSUME WakeInv, NEW d \in Dir,
         \/ ReadPending(d) \/ WritePending(d) \/ FlushLastPending(d)
         \/ ShutdownPending(d) \/ DirDone(d)
  PROVE  Waits(d)'
<1>0. WakeTypes /\ unsent \in [Dir -> Nat] /\ Room \in Nat \ {0}
  BY SizeAssumption DEF WakeInv, IInv, Typed
<1>1. CASE ReadPending(d)
  <2>1. /\ rwake' = [rwake EXCEPT ![d] = TRUE]
        /\ UNCHANGED <<inbox, eof, buf, pos, read_done, state>>
        /\ state[d] = "Running" /\ BufEmpty(d) /\ ~read_done[d]
        /\ inbox[d] = 0 /\ ~eof[d]
    BY <1>1 DEF ReadPending, Copying, ReaderRegisters
  <2>2. rwake'[d]
    BY <1>0, <2>1 DEF WakeTypes
  <2> QED BY <2>1, <2>2 DEF Waits, BufEmpty
<1>2. CASE WritePending(d)
  <2>1. /\ wwake' = [wwake EXCEPT ![d] = TRUE]
        /\ UNCHANGED <<unsent, buf, pos, read_done, state>>
        /\ state[d] = "Running" /\ ~BufEmpty(d) /\ unsent[d] = Room
    BY <1>2, Zenon DEF WritePending, Copying, WriterRegisters, bufVars
  <2>2. wwake'[d]
    BY <1>0, <2>1 DEF WakeTypes
  <2>3. unsent'[d] > 0
    BY <1>0, <2>1
  <2> QED BY <2>1, <2>2, <2>3, Zenon DEF Waits, BufEmpty
<1>3. CASE FlushLastPending(d)
  <2>1. /\ wwake' = [wwake EXCEPT ![d] = TRUE]
        /\ UNCHANGED <<unsent, buf, pos, read_done, state>>
        /\ state[d] = "Running" /\ read_done[d] /\ unsent[d] # 0
    BY <1>3, Zenon DEF FlushLastPending, Copying, AllWritten, Flushed,
       WriterRegisters, bufVars
  <2>2. wwake'[d]
    BY <1>0, <2>1 DEF WakeTypes
  <2>3. unsent'[d] > 0
    BY <1>0, <2>1
  <2> QED BY <2>1, <2>2, <2>3, Zenon DEF Waits, BufEmpty
<1>4. CASE ShutdownPending(d)
  <2>1. /\ wwake' = [wwake EXCEPT ![d] = TRUE]
        /\ UNCHANGED state /\ state[d] = "Shuttingdow"
    BY <1>4 DEF ShutdownPending, WriterRegisters, bufVars
  <2>2. unsent'[d] > 0
    BY <1>0, <1>4 DEF ShutdownPending
  <2>3. wwake'[d]
    BY <1>0, <2>1 DEF WakeTypes
  <2> QED BY <2>1, <2>2, <2>3 DEF Waits
<1>5. CASE DirDone(d)
  BY <1>5 DEF DirDone, bufVars, Waits
<1> QED BY <1>1, <1>2, <1>3, <1>4, <1>5

LEMMA DirectionOwed ==
  ASSUME WakeInv, NEW d \in Dir, Direction(d)
  PROVE  WakeTypes' /\ \A e \in Dir : Owed(e)'
<1>0. /\ WakeTypes /\ Typed /\ Bits /\ \A e \in Dir : Owed(e)
  BY DEF WakeInv, IInv
<1>1. pc = d /\ notified' = notified /\ (pc' = pc \/ pc' = After(d))
  BY DEF Direction, Read, ReadEof, ReadPending, Write, WritePending, FlushLast,
     FlushLastPending, Shutdown, ShutdownPending, DirDone, Copying, CopyPending,
     Return, DirFrame
<1>2. WakeTypes'
  <2>1. \/ UNCHANGED <<rwake, wwake>>
        \/ \E b \in BOOLEAN : /\ wwake' = [wwake EXCEPT ![d] = b]
                              /\ \/ rwake' = rwake
                                 \/ rwake' = [rwake EXCEPT ![d] = TRUE]
    <3>1. CASE ReadPending(d)
      <4> DEFINE b == wwake[d] \/ (need_flush[d] /\ unsent[d] > 0)
      <4>1. wwake' = [wwake EXCEPT ![d] = b] /\ rwake' = [rwake EXCEPT ![d] = TRUE]
        BY <3>1 DEF ReadPending, ReaderRegisters
      <4>2. b \in BOOLEAN
        OBVIOUS
      <4> QED BY <4>1, <4>2, Zenon
    <3>2. CASE WritePending(d) \/ FlushLastPending(d) \/ ShutdownPending(d)
      <4>1. wwake' = [wwake EXCEPT ![d] = TRUE] /\ rwake' = rwake
        BY <3>2 DEF WritePending, FlushLastPending, ShutdownPending, WriterRegisters
      <4> QED BY <4>1, Zenon
    <3>3. CASE \/ Read(d) \/ ReadEof(d) \/ Write(d) \/ FlushLast(d) \/ Shutdown(d)
               \/ DirDone(d)
      BY <3>3 DEF Read, ReadEof, Write, FlushLast, Shutdown, DirDone, streamVars
    <3> QED BY <3>1, <3>2, <3>3 DEF Direction
  <2> QED BY <1>0, <2>1 DEF WakeTypes
<1>3. ASSUME NEW e \in Dir, e # d PROVE Owed(e)'
  <2>1. SameWaits(e)
    <3>1. /\ state'[e] = state[e] /\ buf'[e] = buf[e] /\ pos'[e] = pos[e]
          /\ inbox'[e] = inbox[e] /\ unsent'[e] = unsent[e]
      BY <1>0, <1>3 DEF Typed, Direction, Read, ReadEof, ReadPending, Write,
         WritePending, FlushLast, FlushLastPending, Shutdown, ShutdownPending,
         DirDone, streamVars, bufVars, PosReset
    <3>2. /\ read_done'[e] = read_done[e] /\ eof'[e] = eof[e]
          /\ rwake'[e] = rwake[e] /\ wwake'[e] = wwake[e]
      BY <1>0, <1>3 DEF Bits, WakeTypes, Direction, Read, ReadEof, ReadPending,
         Write, WritePending, FlushLast, FlushLastPending, Shutdown,
         ShutdownPending, DirDone, streamVars, bufVars, ReaderRegisters,
         WriterRegisters
    <3> QED BY <3>1, <3>2 DEF SameWaits
  <2>2. (Polled(e)' \/ pc' = "Parked") => (Polled(e) \/ pc = "Parked")
    BY <1>1, <1>3 DEF Polled, After, Dir
  <2> QED BY <1>0, <1>1, <2>1, <2>2, SameWaitsKeeps
<1>4. Owed(d)'
  <2>1. CASE \/ ReadPending(d) \/ WritePending(d) \/ FlushLastPending(d)
             \/ ShutdownPending(d) \/ DirDone(d)
    BY <2>1, PendingWaits DEF Owed
  <2>2. CASE Read(d) \/ ReadEof(d) \/ Write(d) \/ FlushLast(d) \/ Shutdown(d)
    <3>1. pc' = d
      BY <1>1, <2>2 DEF Read, ReadEof, Write, FlushLast, Shutdown
    <3> QED BY <3>1 DEF Owed, Polled, Dir
  <2> QED BY <2>1, <2>2 DEF Direction
<1> QED BY <1>2, <1>3, <1>4

LEMMA WakeStep ==
  ASSUME WakeInv, [Next]_vars
  PROVE  WakeInv'
<1>0. WakeTypes /\ \A e \in Dir : Owed(e)
  BY DEF WakeInv
<1>1. IInv'
  BY NextInvariant DEF WakeInv
<1>2. WakeTypes' /\ \A e \in Dir : Owed(e)'
  <2>1. CASE Stream
    BY <2>1, StreamOwed DEF Stream
  <2>2. CASE \E d \in Dir : Direction(d)
    BY <2>2, DirectionOwed
  <2>3. CASE StartPoll
    <3>1. UNCHANGED <<rwake, wwake>> /\ pc' = "ab"
      BY <2>3 DEF StartPoll, streamVars
    <3> QED BY <1>0, <3>1 DEF WakeTypes, Owed, Polled
  <2>4. CASE Decide
    <3>1. UNCHANGED <<streamVars, bufVars, notified>> /\ pc = "Decide"
      BY <2>4 DEF Decide, DropSleep, MakeSleep, PollSleep, TimeOut, Finish,
         HalfClosed, DecideFrame
    <3>2. \A e \in Dir : SameWaits(e) /\ Polled(e)
      BY <3>1 DEF SameWaits, streamVars, bufVars, Polled
    <3>3. WakeTypes'
      BY <1>0, <3>1 DEF WakeTypes, streamVars
    <3> QED BY <1>0, <3>1, <3>2, <3>3, SameWaitsKeeps
  <2>5. CASE \E d \in Dir : StreamError(d)
    <3>1. UNCHANGED <<rwake, wwake>> /\ pc' = "Ended"
      BY <2>5 DEF StreamError, streamVars
    <3> QED BY <1>0, <3>1 DEF WakeTypes, Owed, Polled
  <2>6. CASE Elapse \/ UNCHANGED vars
    <3>1. UNCHANGED <<streamVars, bufVars, pc>> /\ (notified => notified')
      <4>1. CASE Elapse
        BY <4>1 DEF Elapse, pollVars
      <4>2. CASE UNCHANGED vars
        BY <4>2, Zenon DEF vars, pollVars
      <4> QED BY <2>6, <4>1, <4>2
    <3>2. \A e \in Dir : Waits(e)' = Waits(e) /\ Polled(e)' = Polled(e)
      BY <3>1 DEF Waits, BufEmpty, Polled, streamVars, bufVars
    <3>3. WakeTypes'
      BY <1>0, <3>1 DEF WakeTypes, streamVars
    <3> QED BY <1>0, <3>1, <3>2, <3>3 DEF Owed
  <2> QED BY <2>1, <2>2, <2>3, <2>4, <2>5, <2>6 DEF Next, Poll
<1> QED BY <1>1, <1>2 DEF WakeInv

(* However the events of the streams fall between the calls of a poll, the *)
(* relay is never parked while it could go on, nor waits for an event that *)
(* wakes nobody.                                                           *)
THEOREM WakeupsNeverLost == Spec => []NoLostWakeup
<1>1. Init => WakeInv
  <2>1. Init => IInv
    BY InitInvariant
  <2>2. Init => WakeTypes /\ \A d \in Dir : Owed(d)
    <3>1. Init => notified /\ rwake = Each(FALSE) /\ wwake = Each(FALSE)
      BY DEF Init
    <3>2. Each(FALSE) \in [Dir -> BOOLEAN]
      BY DEF Each
    <3> QED BY <3>1, <3>2 DEF WakeTypes, Owed
  <2> QED BY <2>1, <2>2 DEF WakeInv
<1>2. WakeInv /\ [Next]_vars => WakeInv'
  BY WakeStep
<1>3. WakeInv => NoLostWakeup
  BY DEF WakeInv, Owed, NoLostWakeup
<1> QED BY <1>1, <1>2, <1>3, PTL DEF Spec
=============================================================================
