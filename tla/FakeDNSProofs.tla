--------------------------- MODULE FakeDNSProofs ----------------------------
(***************************************************************************)
(* Proofs about FakeDNS for every range of whole blocks, every set of      *)
(* domains and every rule list.                                            *)
(***************************************************************************)
EXTENDS FakeDNS, FiniteSetTheorems, TLAPS
-----------------------------------------------------------------------------
(* Arithmetic of the low byte.                                             *)

(* n is its quotient times b plus its remainder.                           *)
LEMMA DivisionFacts ==
  ASSUME NEW n \in Nat, NEW b \in Nat, b > 0
  PROVE  /\ n = (b * (n \div b)) + (n % b)
         /\ n % b \in 0 .. b - 1
         /\ n \div b \in Nat
  OBVIOUS

(* Multiplication by b is monotone, one step at a time.                    *)
LEMMA StepMonotone ==
  ASSUME NEW p \in Int, NEW q \in Int, NEW b \in Nat, p >= q + 1
  PROVE  b * p >= (b * q) + b
  OBVIOUS

(* A number has one quotient and one remainder only.                       *)
LEMMA RemainderUnique ==
  ASSUME NEW b \in Nat, b > 0,
         NEW p \in Nat, NEW r \in 0 .. b - 1,
         NEW q \in Nat, NEW s \in 0 .. b - 1,
         (b * p) + r = (b * q) + s
  PROVE  p = q /\ r = s
<1>1. CASE p >= q + 1
  <2>1. b * p >= (b * q) + b
    BY <1>1, StepMonotone
  <2> QED BY <2>1
<1>2. CASE q >= p + 1
  <2>1. b * q >= (b * p) + b
    BY <1>2, StepMonotone
  <2> QED BY <2>1
<1>3. CASE p = q
  BY <1>3
<1> QED BY <1>1, <1>2, <1>3

(* The low byte of the next address is the next low byte, or 0 after the   *)
(* last one.                                                               *)
LEMMA LowByteOfNext ==
  ASSUME NEW n \in Nat
  PROVE  (n + 1) % Base = IF n % Base = Base - 1 THEN 0 ELSE (n % Base) + 1
<1> DEFINE q == n \div Base
           r == n % Base
           q1 == (n + 1) \div Base
           r1 == (n + 1) % Base
<1>0. Base \in Nat /\ Base > 0
  BY RangeAssumption
<1>1. n = (Base * q) + r /\ r \in 0 .. Base - 1 /\ q \in Nat
  BY <1>0, DivisionFacts
<1>2. n + 1 = (Base * q1) + r1 /\ r1 \in 0 .. Base - 1 /\ q1 \in Nat
  BY <1>0, DivisionFacts, n + 1 \in Nat
<1> HIDE DEF q, r, q1, r1
<1>3. CASE r = Base - 1
  <2>1. Base * (q + 1) = (Base * q) + Base
    BY <1>0, <1>1
  <2>2. (Base * (q + 1)) + 0 = (Base * q1) + r1
    BY <1>0, <1>1, <1>2, <1>3, <2>1
  <2>3. r1 = 0
    BY <1>0, <1>1, <1>2, <2>2, RemainderUnique, q + 1 \in Nat, 0 \in 0 .. Base - 1
  <2> QED BY <1>3, <2>3 DEF r, r1
<1>4. CASE r # Base - 1
  <2>1. r + 1 \in 0 .. Base - 1
    BY <1>0, <1>1, <1>4
  <2>2. (Base * q) + (r + 1) = (Base * q1) + r1
    BY <1>0, <1>1, <1>2
  <2>3. r1 = r + 1
    BY <1>0, <1>1, <1>2, <2>1, <2>2, RemainderUnique
  <2> QED BY <1>4, <2>3 DEF r, r1
<1> QED BY <1>3, <1>4

(* In particular the address after one that ends in .0 ends in .1.         *)
LEMMA LowByteAfterZero ==
  ASSUME NEW n \in Nat, n % Base = 0
  PROVE  (n + 1) % Base = 1
<1>1. 0 # Base - 1
  BY RangeAssumption
<1>2. (n + 1) % Base = (n % Base) + 1
  BY <1>1, LowByteOfNext
<1> QED BY <1>2
-----------------------------------------------------------------------------
(* The cursor.                                                             *)

(* The range is at least one block long, and its first address but one is  *)
(* usable.                                                                 *)
LEMMA SecondAddressUsable ==
  /\ NextCursor(fake_ip_start) = fake_ip_start + 1
  /\ fake_ip_start + 1 \in Usable
<1>1. (fake_ip_start + 1) % Base = 1
  BY RangeAssumption, LowByteAfterZero
<1>2. fake_ip_start + 1 # fake_ip_end
  BY <1>1, RangeAssumption
<1>3. ~Reserved(fake_ip_start + 1)
  BY <1>1, RangeAssumption DEF Reserved
<1>4. fake_ip_start + 1 < fake_ip_end
  BY <1>2, RangeAssumption
<1>5. fake_ip_start + 1 \in fake_ip_start .. fake_ip_end - 1
  BY <1>4, RangeAssumption
<1> QED
  BY <1>3, <1>4, <1>5, RangeAssumption DEF NextCursor, Usable

(* The loop of prepare_next_cursor stops at the first attempt that is not  *)
(* reserved.                                                               *)
LEMMA LoopResult ==
  ASSUME NEW c
  PROVE  LET a == Attempts(c)
         IN PrepareNextCursor(c) = IF ~Reserved(a[1]) THEN a[1]
                                   ELSE IF ~Reserved(a[2]) THEN a[2]
                                   ELSE a[3]
<1> DEFINE a == Attempts(c)
           k == IF ~Reserved(a[1]) THEN 1 ELSE IF ~Reserved(a[2]) THEN 2 ELSE 3
<1>1. DOMAIN a = 1 .. 3 /\ Len(a) = 3
  BY DEF Attempts
<1> HIDE DEF a
<1>2. k \in DOMAIN a /\ EndsLoop(a, k)
  BY <1>1 DEF EndsLoop
<1>3. ASSUME NEW i \in DOMAIN a, EndsLoop(a, i)
      PROVE  i = k
  BY <1>1, <1>3 DEF EndsLoop
<1> HIDE DEF k
<1>4. PrepareNextCursor(c) = a[CHOOSE i \in DOMAIN a : EndsLoop(a, i)]
  BY DEF PrepareNextCursor, a
<1>5. (CHOOSE i \in DOMAIN a : EndsLoop(a, i)) = k
  BY <1>2, <1>3
<1> QED BY <1>4, <1>5 DEF a, k

(* From a usable address, three attempts are enough to reach the next      *)
(* usable one: at most the last byte of one block and the first byte of    *)
(* the next lie in between, and after the wrap only the latter.            *)
LEMMA CursorMoves ==
  ASSUME NEW c \in Usable
  PROVE  /\ PrepareNextCursor(c) \in Usable
         /\ \/ c + 1 = fake_ip_end /\ PrepareNextCursor(c) = fake_ip_start + 1
            \/ c % Base # Base - 2 /\ PrepareNextCursor(c) = c + 1
            \/ c % Base = Base - 2 /\ PrepareNextCursor(c) = ((c + 1) + 1) + 1
<1> DEFINE n1 == NextCursor(c)
           n2 == NextCursor(n1)
           n3 == NextCursor(n2)
<1>0. /\ c \in Nat /\ c >= fake_ip_start /\ c < fake_ip_end
      /\ c % Base # 0 /\ c % Base # Base - 1
  BY RangeAssumption DEF Usable, Reserved
<1>1. PrepareNextCursor(c) = IF ~Reserved(n1) THEN n1
                             ELSE IF ~Reserved(n2) THEN n2
                             ELSE n3
  BY LoopResult DEF Attempts
<1>2. CASE c + 1 >= fake_ip_end
  <2>1. n1 = fake_ip_start
    BY <1>2 DEF NextCursor
  <2>2. n2 = fake_ip_start + 1 /\ n2 \in Usable
    BY <2>1, SecondAddressUsable
  <2>3. Reserved(n1)
    BY <2>1, RangeAssumption DEF Reserved
  <2>4. ~Reserved(n2)
    BY <2>2 DEF Usable
  <2>5. c + 1 = fake_ip_end
    BY <1>0, <1>2, RangeAssumption
  <2> QED BY <1>1, <2>2, <2>3, <2>4, <2>5
<1>3. CASE ~(c + 1 >= fake_ip_end)
  <2>1. n1 = c + 1 /\ c + 1 < fake_ip_end /\ c + 1 \in Nat
    BY <1>0, <1>3, RangeAssumption DEF NextCursor
  <2>2. (c + 1) % Base = (c % Base) + 1
    BY <1>0, LowByteOfNext
  <2>3. CASE ~Reserved(c + 1)
    <3>1. c + 1 \in fake_ip_start .. fake_ip_end - 1
      BY <1>0, <2>1, RangeAssumption
    <3>2. PrepareNextCursor(c) = c + 1 /\ c + 1 \in Usable
      BY <1>1, <2>1, <2>3, <3>1 DEF Usable
    <3>3. c % Base # Base - 2
      BY <2>2, <2>3, RangeAssumption DEF Reserved
    <3> QED BY <3>2, <3>3
  <2>4. CASE Reserved(c + 1)
    <3>1. (c + 1) % Base = Base - 1
      <4>1. c % Base \in Nat /\ (c % Base) + 1 # 0
        BY <1>0, RangeAssumption, DivisionFacts
      <4> QED BY <2>2, <2>4, <4>1 DEF Reserved
    <3>2. ((c + 1) + 1) % Base = 0
      BY <2>1, <3>1, LowByteOfNext
    <3>3. (c + 1) + 1 # fake_ip_end
      BY <3>2, RangeAssumption
    <3>4. n2 = (c + 1) + 1 /\ (c + 1) + 1 < fake_ip_end /\ (c + 1) + 1 \in Nat
      BY <1>0, <2>1, <3>3, RangeAssumption DEF NextCursor
    <3>5. Reserved(n2)
      BY <3>2, <3>4 DEF Reserved
    <3>6. (((c + 1) + 1) + 1) % Base = 1
      BY <3>2, <3>4, LowByteAfterZero
    <3>7. ((c + 1) + 1) + 1 # fake_ip_end
      BY <3>6, RangeAssumption
    <3>8. /\ n3 = ((c + 1) + 1) + 1
          /\ n3 \in fake_ip_start .. fake_ip_end - 1
      BY <1>0, <3>4, <3>7, RangeAssumption DEF NextCursor
    <3>9. ~Reserved(n3)
      BY <3>6, <3>8, RangeAssumption DEF Reserved
    <3>10. PrepareNextCursor(c) = n3
      BY <1>1, <2>1, <2>4, <3>5
    <3>11. c % Base = Base - 2
      <4>1. c % Base \in Nat
        BY <1>0, RangeAssumption, DivisionFacts
      <4> QED BY <2>2, <3>1, <4>1, RangeAssumption
    <3> QED BY <3>8, <3>9, <3>10, <3>11 DEF Usable
  <2> QED BY <2>3, <2>4
<1> QED BY <1>2, <1>3

LEMMA CursorStaysUsable ==
  ASSUME NEW c \in Usable
  PROVE  PrepareNextCursor(c) \in Usable
BY CursorMoves

(* FakeDNSInner::new leaves the cursor at the first usable address.        *)
LEMMA FirstCursorUsable == PrepareNextCursor(fake_ip_start) \in Usable
<1>1. Attempts(fake_ip_start)[1] = fake_ip_start + 1
  BY SecondAddressUsable DEF Attempts
<1>2. ~Reserved(fake_ip_start + 1)
  BY SecondAddressUsable DEF Usable
<1>3. PrepareNextCursor(fake_ip_start) = fake_ip_start + 1
  BY <1>1, <1>2, LoopResult
<1> QED BY <1>3, SecondAddressUsable
-----------------------------------------------------------------------------
(* The invariants.                                                         *)

(* What Spec keeps true at every step.  The conjuncts need each other: the *)
(* two maps stay inverse because the cursor is an address and the domain   *)
(* it displaces is bound to it alone; the cursor is usable because it was  *)
(* usable before.                                                          *)
IInv ==
  /\ TypeOK
  /\ MapsInverse
  /\ OnlyUsableLent
  /\ AnswerLeadsBack

(* Usable addresses are addresses, and addresses are integers.             *)
LEMMA UsableIsAddress == Usable \subseteq Address /\ Address \subseteq Int
  BY RangeAssumption DEF Usable, Address

(* FakeDNSInner::new establishes the invariant.                            *)
LEMMA InitInvariant == Init => IInv
<1> SUFFICES ASSUME Init PROVE IInv
  OBVIOUS
<1> USE DEF Init
<1>1. cursor \in Usable
  BY FirstCursorUsable
<1>2. TypeOK
  BY <1>1, UsableIsAddress DEF TypeOK, Reply, Returned
<1>3. MapsInverse
  BY NoneAssumption, UsableIsAddress DEF MapsInverse
<1>4. OnlyUsableLent
  BY <1>1 DEF OnlyUsableLent
<1>5. AnswerLeadsBack
  BY DEF AnswerLeadsBack, Returned
<1> QED BY <1>2, <1>3, <1>4, <1>5 DEF IInv

(* An operation that leaves the table alone and returns no address keeps   *)
(* the invariant.                                                          *)
LEMMA QuietStep ==
  ASSUME IInv,
         UNCHANGED <<ip_2_domain, domain_2_ip, cursor, window>>,
         filter' \in SUBSET Rule,
         reply' \in Reply,
         reply'.kind = "Response" /\ reply'.ip # None
            => ip_2_domain[reply'.ip] = reply'.domain
  PROVE  IInv'
<1>1. TypeOK'
  BY DEF IInv, TypeOK
<1>2. MapsInverse'
  BY DEF IInv, MapsInverse
<1>3. OnlyUsableLent'
  BY DEF IInv, OnlyUsableLent
<1>4. AnswerLeadsBack'
  BY DEF AnswerLeadsBack
<1> QED BY <1>1, <1>2, <1>3, <1>4 DEF IInv

(* alloc_fake_ip keeps the maps inverse although it reuses an address.     *)
LEMMA AllocationKeepsMapsInverse ==
  ASSUME TypeOK, MapsInverse,
         NEW q \in Query, NEW encoded \in BOOLEAN, AnswerFresh(q, encoded)
  PROVE  MapsInverse'
<1> DEFINE new == q.name
           old == ip_2_domain[cursor]
<1>1. new \in Domain /\ cursor \in Address /\ cursor # None
  BY UsableIsAddress, NoneAssumption DEF TypeOK, Query
<1>2. old \in Domain \cup {None}
  BY <1>1 DEF TypeOK
<1>3. domain_2_ip[new] = None
  BY DEF AnswerFresh
<1>4. \A a \in Address : ip_2_domain'[a] = IF a = cursor THEN new ELSE ip_2_domain[a]
  BY <1>1 DEF AnswerFresh, TypeOK
<1>5. \A d \in Domain : domain_2_ip'[d] = IF d = new THEN cursor
                                          ELSE IF d = old THEN None
                                          ELSE domain_2_ip[d]
  BY <1>1, <1>2, NoneAssumption DEF AnswerFresh, TypeOK, Forget
<1> HIDE DEF new, old
<1> SUFFICES ASSUME NEW d \in Domain, NEW a \in Address
             PROVE  domain_2_ip'[d] = a <=> ip_2_domain'[a] = d
  BY DEF MapsInverse
<1>6. domain_2_ip[d] = a <=> ip_2_domain[a] = d
  BY DEF MapsInverse
<1>7. d = old <=> domain_2_ip[d] = cursor
  BY <1>1 DEF MapsInverse, old
<1>8. a # None /\ d # None
  BY NoneAssumption, UsableIsAddress
<1>9. ip_2_domain[a] # new
  BY <1>1, <1>3, <1>8 DEF MapsInverse
<1> QED
  BY <1>1, <1>3, <1>4, <1>5, <1>6, <1>7, <1>8, <1>9

(* alloc_fake_ip, called from process_dns_packet, keeps all of it.         *)
LEMMA AllocationKeepsInvariant ==
  ASSUME IInv,
         NEW q \in Query, NEW encoded \in BOOLEAN, AnswerFresh(q, encoded)
  PROVE  IInv'
<1> USE DEF IInv
<1>1. q.name \in Domain /\ cursor \in Address /\ cursor \in Usable
  BY DEF TypeOK, OnlyUsableLent, Query
<1>2. cursor' \in Usable
  BY <1>1, CursorStaysUsable DEF AnswerFresh
<1>3. TypeOK'
  <2>1. ip_2_domain' \in [Address -> Domain \cup {None}]
    BY <1>1 DEF TypeOK, AnswerFresh
  <2>2. domain_2_ip' \in [Domain -> Address \cup {None}]
    BY <1>1 DEF TypeOK, AnswerFresh, Forget
  <2>3. reply' \in Reply
    BY <1>1 DEF AnswerFresh, Reply, Returned, AnswerSection, LentAddress
  <2>4. window' \in Seq([ip : Address, domain : Domain])
    <3> DEFINE b == [ip |-> cursor, domain |-> q.name]
    <3>1. b \in [ip : Address, domain : Domain]
      BY <1>1
    <3> HIDE DEF b
    <3>2. /\ Append(window, b) \in Seq([ip : Address, domain : Domain])
          /\ Append(window, b) # <<>>
      BY <3>1 DEF TypeOK
    <3>3. Tail(Append(window, b)) \in Seq([ip : Address, domain : Domain])
      BY <3>2
    <3> QED BY <3>2, <3>3 DEF AnswerFresh, Remember, b
  <2> QED BY <1>2, <2>1, <2>2, <2>3, <2>4, UsableIsAddress DEF TypeOK, AnswerFresh
<1>4. MapsInverse'
  BY AllocationKeepsMapsInverse
<1>5. OnlyUsableLent'
  BY <1>1, <1>2 DEF OnlyUsableLent, AnswerFresh, TypeOK
<1>6. AnswerLeadsBack'
  <2> SUFFICES ASSUME reply'.kind = "Response", reply'.ip # None
               PROVE  ip_2_domain'[reply'.ip] = reply'.domain
    BY DEF AnswerLeadsBack
  <2>1. reply' = [kind |-> "Response", domain |-> q.name,
                  ip |-> AnswerSection(q, cursor)]
    BY DEF AnswerFresh, Returned, LentAddress
  <2>2. reply'.ip = cursor /\ reply'.domain = q.name
    BY <2>1 DEF AnswerSection
  <2> QED BY <1>1, <2>2 DEF AnswerFresh, TypeOK
<1> QED BY <1>3, <1>4, <1>5, <1>6

(* Every operation of FakeDNS keeps the invariant.                         *)
LEMMA NextInvariant == IInv /\ [Next]_vars => IInv'
<1> SUFFICES ASSUME IInv, [Next]_vars PROVE IInv'
  OBVIOUS
<1>0. TypeOK
  BY DEF IInv
<1>1. CASE RejectPacket
  <2>1. reply' \in Reply /\ reply'.kind = "Error"
    BY <1>1 DEF RejectPacket, Reply, Returned
  <2> QED BY <1>0, <1>1, <2>1, QuietStep DEF RejectPacket, TypeOK
<1>2. ASSUME NEW q \in Query, PassUpstream(q) PROVE IInv'
  <2>1. reply' \in Reply /\ reply'.kind = "Upstream"
    BY <1>2 DEF PassUpstream, Reply, Returned, Query
  <2> QED BY <1>0, <1>2, <2>1, QuietStep DEF PassUpstream, TypeOK
<1>3. ASSUME NEW q \in Query, NEW encoded \in BOOLEAN, AnswerKnown(q, encoded)
      PROVE  IInv'
  <2>1. q.name \in Domain
    BY DEF Query
  <2>2. domain_2_ip[q.name] \in Address
    BY <1>0, <1>3, <2>1 DEF TypeOK, AnswerKnown
  <2>3. ip_2_domain[domain_2_ip[q.name]] = q.name
    BY <2>1, <2>2 DEF IInv, MapsInverse
  <2>4. reply' \in Reply
    BY <1>3, <2>1, <2>2 DEF AnswerKnown, Reply, Returned, AnswerSection
  <2>5. reply'.kind = "Response" /\ reply'.ip # None
           => reply'.ip = domain_2_ip[q.name] /\ reply'.domain = q.name
    BY <1>3 DEF AnswerKnown, Returned, AnswerSection
  <2> QED BY <1>0, <1>3, <2>3, <2>4, <2>5, QuietStep DEF AnswerKnown, TypeOK
<1>4. ASSUME NEW q \in Query, NEW encoded \in BOOLEAN, AnswerFresh(q, encoded)
      PROVE  IInv'
  BY <1>4, AllocationKeepsInvariant
<1>5. ASSUME NEW a \in Address, QueryDomain(a) PROVE IInv'
  <2>1. reply' \in Reply /\ reply'.kind = "Domain"
    BY <1>0, <1>5 DEF QueryDomain, Reply, Returned, TypeOK
  <2> QED BY <1>0, <1>5, <2>1, QuietStep DEF QueryDomain, TypeOK
<1>6. ASSUME NEW f \in SUBSET Rule, SetFilter(f) PROVE IInv'
  <2>1. reply' \in Reply /\ reply'.kind = "none"
    BY <1>6 DEF SetFilter, Reply, Returned
  <2> QED BY <1>6, <2>1, QuietStep DEF SetFilter
<1>7. ASSUME NEW f \in Rule, AddFilter(f) PROVE IInv'
  <2>1. reply' \in Reply /\ reply'.kind = "none"
    BY <1>7 DEF AddFilter, Reply, Returned
  <2> QED BY <1>0, <1>7, <2>1, QuietStep DEF AddFilter, TypeOK
<1>8. CASE UNCHANGED vars
  <2>1. reply' = reply /\ filter' = filter
    BY <1>8 DEF vars
  <2> QED BY <1>0, <1>8, <2>1, QuietStep DEF vars, IInv, TypeOK, AnswerLeadsBack
<1> QED
  BY <1>1, <1>2, <1>3, <1>4, <1>5, <1>6, <1>7, <1>8 DEF Next, ProcessDnsPacket

(* The invariant holds in every state FakeDNS can be in.                   *)
THEOREM Invariance == Spec => []IInv
  BY InitInvariant, NextInvariant, PTL DEF Spec
-----------------------------------------------------------------------------
(* Type correctness; the unchecked `cursor += 1` stays in the range.       *)
THEOREM TypeCorrect == Spec => []TypeOK
<1>1. IInv => TypeOK
  BY DEF IInv
<1> QED BY <1>1, Invariance, PTL

(* ip_2_domain and domain_2_ip are inverse to each other in every state,   *)
(* however often addresses have been recycled.                             *)
THEOREM MapsAlwaysInverse == Spec => []MapsInverse
<1>1. IInv => MapsInverse
  BY DEF IInv
<1> QED BY <1>1, Invariance, PTL

(* No .0 or .255 address is ever lent.                                     *)
THEOREM OnlyUsableEverLent == Spec => []OnlyUsableLent
<1>1. IInv => OnlyUsableLent
  BY DEF IInv
<1> QED BY <1>1, Invariance, PTL

(* The error of prepare_next_cursor, which would leave alloc_fake_ip half  *)
(* done, is unreachable for every range of whole blocks.                   *)
THEOREM CursorNeverExhausted == Spec => []NeverExhausted
<1>1. IInv => NeverExhausted
  BY CursorStaysUsable DEF IInv, OnlyUsableLent, NeverExhausted, PreparedOk, Usable
<1> QED BY <1>1, Invariance, PTL

(* Every A answer leads back to the domain that was asked for.             *)
THEOREM AnswersLeadBack == Spec => []AnswerLeadsBack
<1>1. IInv => AnswerLeadsBack
  BY DEF IInv
<1> QED BY <1>1, Invariance, PTL

-----------------------------------------------------------------------------
(* The order in which addresses are lent.                                  *)

(* The usable addresses are numbered in the order prepare_next_cursor      *)
(* visits them: Base - 2 in every block, the first one after its .0.       *)
Block(a) == (a - fake_ip_start) \div Base

Rank(a) == ((Base - 2) * Block(a)) + ((a % Base) - 1)

UsableCount == ((Base - 2) * Block(fake_ip_end)) + (Base - 2)

(* An address is its block and its low byte.                               *)
LEMMA BlockFacts ==
  ASSUME NEW a \in Nat, a >= fake_ip_start
  PROVE  /\ a - fake_ip_start = (Base * Block(a)) + (a % Base)
         /\ Block(a) \in Nat
         /\ a % Base \in 0 .. Base - 1
<1> DEFINE o == a - fake_ip_start
           p == fake_ip_start \div Base
           q == Block(a)
           r == o % Base
           q1 == a \div Base
           r1 == a % Base
<1>0. Base \in Nat /\ Base > 0 /\ fake_ip_start \in Nat /\ fake_ip_start % Base = 0
  BY RangeAssumption
<1>1. o \in Nat /\ a = fake_ip_start + o
  BY <1>0
<1>2. o = (Base * q) + r /\ r \in 0 .. Base - 1 /\ q \in Nat
  BY <1>0, <1>1, DivisionFacts DEF Block
<1>3. fake_ip_start = (Base * p) + 0 /\ p \in Nat
  BY <1>0, DivisionFacts
<1>4. a = (Base * q1) + r1 /\ r1 \in 0 .. Base - 1 /\ q1 \in Nat
  BY <1>0, DivisionFacts
<1> HIDE DEF o, p, q, r, q1, r1
<1>5. Base * (p + q) = (Base * p) + (Base * q)
  BY <1>0, <1>2, <1>3
<1>6. (Base * (p + q)) + r = (Base * q1) + r1
  BY <1>0, <1>1, <1>2, <1>3, <1>4, <1>5
<1>7. p + q \in Nat
  BY <1>2, <1>3
<1>8. r = r1
  BY <1>0, <1>2, <1>4, <1>6, <1>7, RemainderUnique
<1> QED BY <1>2, <1>4, <1>8 DEF o, q, r1

(* The block and the low byte of an address, from any way to write its     *)
(* distance from the start.                                                *)
LEMMA BlockUnique ==
  ASSUME NEW a \in Nat, a >= fake_ip_start,
         NEW q \in Nat, NEW r \in 0 .. Base - 1,
         a - fake_ip_start = (Base * q) + r
  PROVE  Block(a) = q /\ a % Base = r
<1>1. Base \in Nat /\ Base > 0
  BY RangeAssumption
<1>2. /\ (Base * Block(a)) + (a % Base) = (Base * q) + r
      /\ Block(a) \in Nat
      /\ a % Base \in 0 .. Base - 1
  BY BlockFacts
<1> QED BY <1>1, <1>2, RemainderUnique

(* The digits of a rank.                                                   *)
LEMMA UsableDigits ==
  ASSUME NEW a \in Usable
  PROVE  /\ a \in Nat /\ a >= fake_ip_start /\ a < fake_ip_end
         /\ a - fake_ip_start = (Base * Block(a)) + (a % Base)
         /\ Block(a) \in Nat
         /\ (a % Base) - 1 \in 0 .. (Base - 2) - 1
         /\ a % Base \in Nat
<1>1. a \in Nat /\ a >= fake_ip_start /\ a < fake_ip_end
  BY RangeAssumption DEF Usable
<1>2. a % Base # 0 /\ a % Base # Base - 1
  BY DEF Usable, Reserved
<1>3. /\ a - fake_ip_start = (Base * Block(a)) + (a % Base)
      /\ Block(a) \in Nat
      /\ a % Base \in 0 .. Base - 1
  BY <1>1, BlockFacts
<1> QED BY <1>1, <1>2, <1>3, RangeAssumption

(* Usable addresses with the same rank are the same.                       *)
LEMMA RankInjective ==
  ASSUME NEW a \in Usable, NEW b \in Usable, Rank(a) = Rank(b)
  PROVE  a = b
<1> DEFINE m == Base - 2
           p == Block(a)
           r == (a % Base) - 1
           q == Block(b)
           s == (b % Base) - 1
<1>1. m \in Nat /\ m > 0
  BY RangeAssumption
<1>2. Block(a) = Block(b) /\ (a % Base) - 1 = (b % Base) - 1
  <2>1. (m * p) + r = (m * q) + s
    BY DEF Rank
  <2>2. p \in Nat /\ q \in Nat /\ r \in 0 .. m - 1 /\ s \in 0 .. m - 1
    BY UsableDigits
  <2> HIDE DEF m, p, r, q, s
  <2>3. p = q /\ r = s
    BY <1>1, <2>1, <2>2, RemainderUnique
  <2> QED BY <2>3 DEF p, q, r, s
<1>3. a % Base = b % Base
  BY <1>2, UsableDigits
<1>4. a - fake_ip_start = b - fake_ip_start
  BY <1>2, <1>3, UsableDigits
<1> QED BY <1>4, UsableDigits, RangeAssumption

(* Multiplication is monotone.                                             *)
LEMMA ProductMonotone ==
  ASSUME NEW b \in Nat, NEW p \in Nat, NEW q \in Nat, p <= q
  PROVE  b * p <= b * q
<1>1. q - p \in Nat /\ q = p + (q - p)
  OBVIOUS
<1> DEFINE d == q - p
<1>2. b * (p + d) = (b * p) + (b * d) /\ b * d \in Nat /\ b * p \in Nat
  BY <1>1
<1> QED BY <1>1, <1>2

(* The last address of the range ends its last block.                      *)
LEMMA LastBlock ==
  /\ fake_ip_end - fake_ip_start = (Base * Block(fake_ip_end)) + (Base - 1)
  /\ Block(fake_ip_end) \in Nat
BY RangeAssumption, BlockFacts

(* Ranks are the numbers below UsableCount.                                *)
LEMMA RankRange ==
  /\ UsableCount \in Nat /\ UsableCount > 0
  /\ \A a \in Usable : Rank(a) \in 0 .. UsableCount - 1
<1> DEFINE m == Base - 2
           last == Block(fake_ip_end)
<1>1. Base \in Nat /\ m \in Nat /\ m > 0 /\ Base = m + 2
  BY RangeAssumption
<1>2. last \in Nat /\ m * last \in Nat
  BY <1>1, LastBlock
<1>3. UsableCount = (m * last) + m
  BY DEF UsableCount
<1>4. UsableCount \in Nat /\ UsableCount > 0
  BY <1>1, <1>2, <1>3
<1>5. ASSUME NEW a \in Usable PROVE Rank(a) \in 0 .. UsableCount - 1
  <2> DEFINE q == Block(a)
             r == a % Base
  <2>1. /\ a - fake_ip_start = (Base * q) + r /\ q \in Nat
        /\ r - 1 \in 0 .. m - 1 /\ r \in Nat
        /\ a \in Nat /\ a < fake_ip_end
    BY UsableDigits
  <2>2. q <= last
    <3> SUFFICES ASSUME q >= last + 1 PROVE FALSE
      BY <1>2, <2>1
    <3>1. Base * q >= (Base * last) + Base
      BY <1>1, <1>2, <2>1, StepMonotone
    <3>2. Base * q \in Nat /\ Base * last \in Nat
      BY <1>1, <1>2, <2>1
    <3>3. a - fake_ip_start < (Base * last) + Base
      BY <1>1, <1>2, <2>1, <3>2, LastBlock, RangeAssumption
    <3> QED BY <1>1, <2>1, <3>1, <3>2, <3>3
  <2>3. m * q <= m * last /\ m * q \in Nat
    BY <1>1, <1>2, <2>1, <2>2, ProductMonotone
  <2>4. Rank(a) = (m * q) + (r - 1)
    BY DEF Rank
  <2> HIDE DEF q, r, m, last
  <2> QED BY <1>1, <1>2, <1>3, <2>1, <2>3, <2>4
<1> QED BY <1>4, <1>5

(* Every number below UsableCount is the rank of a usable address.         *)
LEMMA RankSurjective ==
  ASSUME NEW k \in 0 .. UsableCount - 1
  PROVE  \E a \in Usable : Rank(a) = k
<1> DEFINE m == Base - 2
           last == Block(fake_ip_end)
           q == k \div m
           r == k % m
           a == fake_ip_start + ((Base * q) + (r + 1))
<1>1. Base \in Nat /\ m \in Nat /\ m > 0 /\ Base = m + 2 /\ fake_ip_start \in Nat
  BY RangeAssumption
<1>2. last \in Nat /\ UsableCount = (m * last) + m
  BY LastBlock DEF UsableCount
<1>3. k \in Nat /\ k < (m * last) + m
  BY <1>1, <1>2, RankRange
<1>4. k = (m * q) + r /\ r \in 0 .. m - 1 /\ q \in Nat
  BY <1>1, <1>3, DivisionFacts
<1> HIDE DEF m, last, q, r
<1>5. q <= last
  <2> SUFFICES ASSUME q >= last + 1 PROVE FALSE
    BY <1>2, <1>4
  <2>1. m * q >= (m * last) + m
    BY <1>1, <1>2, <1>4, StepMonotone
  <2>2. m * q \in Nat /\ m * last \in Nat
    BY <1>1, <1>2, <1>4
  <2> QED BY <1>1, <1>3, <1>4, <2>1, <2>2
<1>6. Base * q \in Nat /\ Base * last \in Nat /\ Base * q <= Base * last
  BY <1>1, <1>2, <1>4, <1>5, ProductMonotone
<1>7. /\ a \in Nat /\ a >= fake_ip_start
      /\ a - fake_ip_start = (Base * q) + (r + 1)
      /\ r + 1 \in 0 .. Base - 1
  BY <1>1, <1>4, <1>6
<1>8. a < fake_ip_end
  <2>1. fake_ip_end - fake_ip_start = (Base * last) + (Base - 1)
    BY LastBlock DEF last
  <2> HIDE DEF a
  <2> QED BY <1>1, <1>4, <1>6, <1>7, <2>1, RangeAssumption
<1> HIDE DEF a
<1>9. Block(a) = q /\ a % Base = r + 1
  BY <1>4, <1>7, BlockUnique
<1>10. a \in Usable
  <2>1. r + 1 # 0 /\ r + 1 # Base - 1
    BY <1>1, <1>4
  <2>2. a \in fake_ip_start .. fake_ip_end - 1
    BY <1>7, <1>8, RangeAssumption
  <2> QED BY <1>9, <2>1, <2>2 DEF Usable, Reserved
<1>11. Rank(a) = k
  <2>1. Rank(a) = (m * q) + ((r + 1) - 1)
    BY <1>9 DEF Rank, m
  <2>2. (r + 1) - 1 = r
    BY <1>1, <1>4
  <2> QED BY <1>4, <2>1, <2>2
<1> QED BY <1>10, <1>11

(* So there are UsableCount usable addresses: what the window's length is  *)
(* compared with.                                                          *)
LEMMA CardinalityOfUsable == IsFiniteSet(Usable) /\ Cardinality(Usable) = UsableCount
<1> DEFINE S == 0 .. UsableCount - 1
           f == [a \in Usable |-> Rank(a)]
<1>1. IsFiniteSet(S) /\ Cardinality(S) = UsableCount
  BY RankRange, FS_Interval
<1>2. f \in [Usable -> S]
  BY RankRange
<1>3. \A a, b \in Usable : f[a] = f[b] => a = b
  BY RankInjective
<1>4. \A k \in S : \E a \in Usable : f[a] = k
  BY RankSurjective
<1> HIDE DEF S
<1>5. f \in Injection(Usable, S) /\ f \in Surjection(Usable, S)
  <2> HIDE DEF f
  <2> QED BY <1>2, <1>3, <1>4 DEF Injection, IsInjective, Surjection
<1> HIDE DEF f
<1>6. /\ IsFiniteSet(Usable)
      /\ Cardinality(Usable) = Cardinality(S) <=> f \in Surjection(Usable, S)
  BY <1>1, <1>5, FS_Injection
<1> QED BY <1>1, <1>5, <1>6

(* prepare_next_cursor visits the usable addresses in one cycle.           *)
LEMMA CursorCycles ==
  ASSUME NEW c \in Usable
  PROVE  \/ Rank(PrepareNextCursor(c)) = Rank(c) + 1
         \/ Rank(c) = UsableCount - 1 /\ Rank(PrepareNextCursor(c)) = 0
<1> DEFINE q == Block(c)
           r == c % Base
           m == Base - 2
           d == PrepareNextCursor(c)
<1>1. /\ c - fake_ip_start = (Base * q) + r /\ q \in Nat
      /\ r \in Nat /\ r - 1 \in 0 .. m - 1
      /\ c \in Nat /\ c >= fake_ip_start /\ c < fake_ip_end
  BY UsableDigits
<1>2. Base \in Nat /\ m \in Nat /\ m > 0 /\ Base = m + 2 /\ fake_ip_start \in Nat
  BY RangeAssumption
<1>3. Rank(c) = (m * q) + (r - 1) /\ m * q \in Nat /\ Base * q \in Nat
  BY <1>1, <1>2 DEF Rank
<1> HIDE DEF q, r, d
<1>4. CASE c + 1 = fake_ip_end /\ d = fake_ip_start + 1
  <2>1. Rank(d) = 0
    <3>1. d \in Nat /\ d >= fake_ip_start /\ d - fake_ip_start = (Base * 0) + 1
      BY <1>2, <1>4
    <3>2. 1 \in 0 .. Base - 1
      BY RangeAssumption
    <3>3. Block(d) = 0 /\ d % Base = 1
      BY <3>1, <3>2, BlockUnique
    <3> QED BY <1>2, <3>3 DEF Rank
  <2>2. Rank(c) = UsableCount - 1
    <3> DEFINE last == Block(fake_ip_end)
    <3>1. /\ last \in Nat
          /\ fake_ip_end - fake_ip_start = (Base * last) + (Base - 1)
      BY LastBlock
    <3> HIDE DEF last
    <3>2. c - fake_ip_start = (Base * last) + m
      <4>1. Base * last \in Int
        BY <1>2, <3>1
      <4> QED BY <1>1, <1>2, <1>4, <3>1, <4>1, RangeAssumption
    <3>3. m \in 0 .. Base - 1
      BY <1>2
    <3>4. Block(c) = last /\ c % Base = m
      BY <1>1, <3>1, <3>2, <3>3, BlockUnique
    <3>5. Rank(c) = (m * last) + (m - 1)
      BY <3>4 DEF Rank
    <3>6. m * last \in Nat
      BY <1>2, <3>1
    <3>7. UsableCount = (m * last) + m
      BY DEF UsableCount, last
    <3> HIDE DEF m
    <3> QED BY <1>2, <3>5, <3>6, <3>7
  <2> QED BY <2>1, <2>2 DEF d
<1>5. CASE r # Base - 2 /\ d = c + 1
  <2>1. d \in Nat /\ d >= fake_ip_start /\ d - fake_ip_start = (Base * q) + (r + 1)
    BY <1>1, <1>2, <1>3, <1>5
  <2>2. r + 1 \in 0 .. Base - 1
    BY <1>1, <1>2
  <2>3. Block(d) = q /\ d % Base = r + 1
    BY <1>1, <2>1, <2>2, BlockUnique
  <2>4. Rank(d) = (m * q) + ((r + 1) - 1)
    BY <2>3 DEF Rank
  <2> HIDE DEF m
  <2>5. Rank(d) = Rank(c) + 1
    BY <1>1, <1>3, <2>4
  <2> QED BY <2>5 DEF d
<1>6. CASE r = Base - 2 /\ d = ((c + 1) + 1) + 1
  <2>1. Base * (q + 1) = (Base * q) + Base /\ m * (q + 1) = (m * q) + m
    BY <1>1, <1>2
  <2>2. q + 1 \in Nat /\ 1 \in 0 .. Base - 1
    BY <1>1, <1>2
  <2>3. d \in Nat /\ d >= fake_ip_start /\ d - fake_ip_start = (Base * (q + 1)) + 1
    BY <1>1, <1>2, <1>3, <1>6, <2>1
  <2>4. Block(d) = q + 1 /\ d % Base = 1
    BY <2>2, <2>3, BlockUnique
  <2>5. Rank(d) = (m * (q + 1)) + (1 - 1)
    BY <2>4 DEF Rank
  <2>6. r = m
    BY <1>6
  <2> HIDE DEF m
  <2>7. Rank(d) = Rank(c) + 1
    BY <1>1, <1>2, <1>3, <2>1, <2>5, <2>6
  <2> QED BY <2>7 DEF d
<1> QED BY <1>4, <1>5, <1>6, CursorMoves DEF d, r

-----------------------------------------------------------------------------
(* The ring of ranks.                                                      *)

(* x is g steps behind r on the ring.                                      *)
Behind(x, r, g) == x = r - g \/ x = (r - g) + UsableCount

LEMMA BehindAfterStep ==
  ASSUME NEW x \in 0 .. UsableCount - 1, NEW r \in 0 .. UsableCount - 1,
         NEW s \in 0 .. UsableCount - 1,
         s = r + 1 \/ (r = UsableCount - 1 /\ s = 0),
         NEW g \in 0 .. UsableCount - 1, g = 0 => x = r,
         g # 0 => Behind(x, r, g)
  PROVE  Behind(x, s, g + 1)
<1>1. UsableCount \in Nat
  BY RankRange
<1>2. CASE g = 0
  BY <1>1, <1>2 DEF Behind
<1>3. CASE g # 0
  BY <1>1, <1>3 DEF Behind
<1> QED BY <1>2, <1>3

LEMMA BehindUnique ==
  ASSUME NEW x \in Int, NEW r \in Int,
         NEW g \in 1 .. UsableCount, NEW h \in 1 .. UsableCount,
         Behind(x, r, g), Behind(x, r, h)
  PROVE  g = h
BY RankRange DEF Behind

LEMMA BehindItself ==
  ASSUME NEW x \in 0 .. UsableCount - 1, NEW r \in 0 .. UsableCount - 1,
         NEW g \in 1 .. UsableCount, Behind(x, r, g)
  PROVE  x = r <=> g = UsableCount
BY RankRange DEF Behind

LEMMA BehindExists ==
  ASSUME NEW x \in 0 .. UsableCount - 1, NEW r \in 0 .. UsableCount - 1
  PROVE  \E g \in 1 .. UsableCount : Behind(x, r, g)
<1>1. CASE x < r
  <2>1. r - x \in 1 .. UsableCount /\ x = r - (r - x)
    BY <1>1, RankRange
  <2> QED BY <2>1 DEF Behind
<1>2. CASE ~(x < r)
  <2>1. (r - x) + UsableCount \in 1 .. UsableCount
    BY <1>2, RankRange
  <2>2. x = (r - ((r - x) + UsableCount)) + UsableCount
    BY RankRange
  <2> QED BY <2>1, <2>2 DEF Behind
<1> QED BY <1>1, <1>2
-----------------------------------------------------------------------------
(* The live bindings.                                                      *)

(* The window holds the latest allocations in the order of the cursor: the *)
(* i-th of n is n + 1 - i steps behind the cursor.                         *)
Age(i) == (Len(window) + 1) - i

WindowInOrder ==
  /\ Len(window) <= UsableCount
  /\ \A i \in 1 .. Len(window) :
       window[i].ip \in Usable /\ Behind(Rank(window[i].ip), Rank(cursor), Age(i))

(* The bindings of ip_2_domain are those of the window.                    *)
WindowBound ==
  /\ \A i \in 1 .. Len(window) : ip_2_domain[window[i].ip] = window[i].domain
  /\ \A a \in Address :
       ip_2_domain[a] # None => \E i \in 1 .. Len(window) : window[i].ip = a

OrderInv == IInv /\ WindowInOrder /\ WindowBound

(* While there are addresses left the window grows ...                     *)
LEMMA RememberGrows ==
  ASSUME NEW B, NEW w \in Seq(B), NEW b \in B, Len(w) < UsableCount
  PROVE  /\ Remember(w, b) = Append(w, b)
         /\ Len(Remember(w, b)) = Len(w) + 1
         /\ \A i \in 1 .. Len(w) : Remember(w, b)[i] = w[i]
         /\ Remember(w, b)[Len(w) + 1] = b
<1>1. /\ Len(Append(w, b)) = Len(w) + 1 /\ Len(w) \in Nat
      /\ \A i \in 1 .. Len(w) : Append(w, b)[i] = w[i]
      /\ Append(w, b)[Len(w) + 1] = b
  OBVIOUS
<1>2. ~(Len(w) + 1 > UsableCount)
  BY <1>1, RankRange
<1>3. Remember(w, b) = Append(w, b)
  BY <1>1, <1>2, CardinalityOfUsable DEF Remember
<1> QED BY <1>1, <1>3

(* ... and then the oldest allocation makes room for the new one.          *)
LEMMA RememberSlides ==
  ASSUME NEW B, NEW w \in Seq(B), NEW b \in B, Len(w) = UsableCount
  PROVE  /\ Remember(w, b) = Append(Tail(w), b)
         /\ Len(Remember(w, b)) = Len(w)
         /\ \A i \in 1 .. Len(w) - 1 : Remember(w, b)[i] = w[i + 1]
         /\ Remember(w, b)[Len(w)] = b
<1> DEFINE longer == Append(w, b)
<1>1. Len(w) \in Nat /\ Len(w) > 0 /\ w # <<>>
  BY RankRange
<1>2. /\ longer \in Seq(B) /\ Len(longer) = Len(w) + 1
      /\ \A i \in 1 .. Len(w) : longer[i] = w[i]
      /\ longer[Len(w) + 1] = b
  OBVIOUS
<1>3. Remember(w, b) = Tail(longer)
  BY <1>1, <1>2, CardinalityOfUsable DEF Remember
<1> HIDE DEF longer
<1>4. longer # <<>>
  BY <1>1, <1>2
<1>5. /\ Tail(longer) \in Seq(B) /\ Len(Tail(longer)) = Len(w)
      /\ \A i \in 1 .. Len(w) : Tail(longer)[i] = longer[i + 1]
  BY <1>1, <1>2, <1>4
<1>6. \A i \in 1 .. Len(w) - 1 : Tail(longer)[i] = w[i + 1]
  <2> SUFFICES ASSUME NEW i \in 1 .. Len(w) - 1 PROVE Tail(longer)[i] = w[i + 1]
    OBVIOUS
  <2>1. i \in 1 .. Len(w) /\ i + 1 \in 1 .. Len(w)
    BY <1>1
  <2> QED BY <1>2, <1>5, <2>1
<1>7. Tail(longer)[Len(w)] = b
  BY <1>1, <1>2, <1>5, Len(w) \in 1 .. Len(w)
<1>8. Tail(longer) = Append(Tail(w), b)
  BY <1>1 DEF longer
<1> QED BY <1>3, <1>5, <1>6, <1>7, <1>8

LEMMA InitOrder == Init => OrderInv
<1> SUFFICES ASSUME Init PROVE OrderInv
  OBVIOUS
<1>1. Len(window) = 0
  BY DEF Init
<1>2. \A a \in Address : ip_2_domain[a] = None
  BY DEF Init
<1>3. WindowInOrder
  BY <1>1, RankRange DEF WindowInOrder
<1>4. WindowBound
  BY <1>1, <1>2 DEF WindowBound
<1> QED BY <1>3, <1>4, InitInvariant DEF OrderInv

(* What the invariant says of the window's entries.                        *)
LEMMA WindowFacts ==
  ASSUME OrderInv
  PROVE  /\ window \in Seq([ip : Address, domain : Domain])
         /\ Len(window) \in Nat /\ Len(window) <= UsableCount
         /\ cursor \in Usable /\ Rank(cursor) \in 0 .. UsableCount - 1
         /\ \A i \in 1 .. Len(window) :
              /\ window[i].ip \in Usable /\ window[i].domain \in Domain
              /\ Rank(window[i].ip) \in 0 .. UsableCount - 1
              /\ Age(i) \in 1 .. UsableCount
              /\ Age(i) = UsableCount <=> (i = 1 /\ Len(window) = UsableCount)
              /\ Behind(Rank(window[i].ip), Rank(cursor), Age(i))
<1>1. window \in Seq([ip : Address, domain : Domain]) /\ Len(window) <= UsableCount
  BY DEF OrderInv, IInv, TypeOK, WindowInOrder
<1>2. Len(window) \in Nat
  BY <1>1
<1>3. cursor \in Usable /\ Rank(cursor) \in 0 .. UsableCount - 1
  BY RankRange DEF OrderInv, IInv, OnlyUsableLent
<1>4. ASSUME NEW i \in 1 .. Len(window)
      PROVE  /\ window[i].ip \in Usable /\ window[i].domain \in Domain
             /\ Rank(window[i].ip) \in 0 .. UsableCount - 1
             /\ Age(i) \in 1 .. UsableCount
             /\ Age(i) = UsableCount <=> (i = 1 /\ Len(window) = UsableCount)
             /\ Behind(Rank(window[i].ip), Rank(cursor), Age(i))
  <2>1. /\ window[i].ip \in Usable
        /\ Behind(Rank(window[i].ip), Rank(cursor), Age(i))
    BY DEF OrderInv, WindowInOrder
  <2>2. window[i] \in [ip : Address, domain : Domain]
    <3> DEFINE B == [ip : Address, domain : Domain]
    <3>1. window \in Seq(B)
      BY <1>1
    <3> HIDE DEF B
    <3>2. window[i] \in B
      BY <3>1
    <3> QED BY <3>2 DEF B
  <2>3. Age(i) \in 1 .. UsableCount
    BY <1>1, <1>2, RankRange DEF Age
  <2>4. Age(i) = UsableCount <=> (i = 1 /\ Len(window) = UsableCount)
    BY <1>1, <1>2, RankRange DEF Age
  <2> QED BY <2>1, <2>2, <2>3, <2>4, RankRange
<1> QED BY <1>1, <1>2, <1>3, <1>4

(* The window holds no address twice.                                      *)
LEMMA WindowDistinct ==
  ASSUME OrderInv, NEW i \in 1 .. Len(window), NEW j \in 1 .. Len(window),
         window[i].ip = window[j].ip
  PROVE  i = j
<1>1. Age(i) = Age(j)
  <2> DEFINE x == Rank(window[i].ip)
             r == Rank(cursor)
  <2>1. /\ x \in Int /\ r \in Int /\ Behind(x, r, Age(i)) /\ Behind(x, r, Age(j))
        /\ Age(i) \in 1 .. UsableCount /\ Age(j) \in 1 .. UsableCount
    BY WindowFacts
  <2> HIDE DEF x, r
  <2> QED BY <2>1, BehindUnique
<1> QED BY <1>1, WindowFacts DEF Age

(* The cursor's address is lent to nobody until the window is full, and    *)
(* then it is the address lent first.                                      *)
LEMMA CursorMeetsOldest ==
  ASSUME OrderInv, NEW i \in 1 .. Len(window)
  PROVE  window[i].ip = cursor <=> (i = 1 /\ Len(window) = UsableCount)
<1>1. Rank(window[i].ip) = Rank(cursor) <=> Age(i) = UsableCount
  BY WindowFacts, BehindItself
<1>2. Rank(window[i].ip) = Rank(cursor) <=> window[i].ip = cursor
  BY WindowFacts, RankInjective
<1> QED BY <1>1, <1>2, WindowFacts

(* A full window holds every usable address.                               *)
LEMMA FullWindow ==
  ASSUME OrderInv, Len(window) = UsableCount, NEW a \in Usable
  PROVE  \E i \in 1 .. Len(window) : window[i].ip = a
<1>1. Rank(a) \in 0 .. UsableCount - 1
  BY RankRange
<1>2. PICK g \in 1 .. UsableCount : Behind(Rank(a), Rank(cursor), g)
  BY <1>1, WindowFacts, BehindExists
<1> DEFINE i == (UsableCount + 1) - g
<1>3. i \in 1 .. Len(window) /\ Age(i) = g
  BY RankRange DEF Age
<1> HIDE DEF i
<1>4. Rank(window[i].ip) = Rank(a)
  <2>1. /\ Behind(Rank(window[i].ip), Rank(cursor), g)
        /\ Rank(window[i].ip) \in 0 .. UsableCount - 1
        /\ Rank(cursor) \in 0 .. UsableCount - 1
    BY <1>3, WindowFacts
  <2> QED BY <1>1, <1>2, <2>1, RankRange DEF Behind
<1> QED BY <1>3, <1>4, WindowFacts, RankInjective

(* alloc_fake_ip puts the binding of the cursor at the end of the window,  *)
(* and moves the cursor one step ahead of it.                              *)
LEMMA AllocationKeepsOrder ==
  ASSUME OrderInv,
         NEW q \in Query, NEW encoded \in BOOLEAN, AnswerFresh(q, encoded)
  PROVE  WindowInOrder'
<1> DEFINE B == [ip : Address, domain : Domain]
           b == [ip |-> cursor, domain |-> q.name]
           n == Len(window)
           r == Rank(cursor)
           s == Rank(cursor')
<1>1. window' = Remember(window, b) /\ cursor' = PrepareNextCursor(cursor)
  BY DEF AnswerFresh
<1>2. /\ window \in Seq(B) /\ b \in B /\ b.ip = cursor
      /\ cursor \in Usable /\ r \in 0 .. UsableCount - 1
      /\ n \in Nat /\ n <= UsableCount
  BY WindowFacts, UsableIsAddress DEF Query
<1>3. s \in 0 .. UsableCount - 1
  BY <1>1, <1>2, CursorStaysUsable, RankRange
<1>4. s = r + 1 \/ (r = UsableCount - 1 /\ s = 0)
  BY <1>1, <1>2, CursorCycles
<1>5. UsableCount \in Nat /\ UsableCount > 0
  BY RankRange
<1>6. Behind(r, s, 1)
  <2>1. 0 \in 0 .. UsableCount - 1 /\ 0 + 1 = 1
    BY <1>5
  <2> QED BY <1>2, <1>3, <1>4, <2>1, BehindAfterStep
<1>7. ASSUME NEW i \in 1 .. n, Age(i) # UsableCount
      PROVE  window[i].ip \in Usable /\ Behind(Rank(window[i].ip), s, Age(i) + 1)
  <2>1. /\ window[i].ip \in Usable
        /\ Rank(window[i].ip) \in 0 .. UsableCount - 1
        /\ Age(i) \in 1 .. UsableCount
        /\ Behind(Rank(window[i].ip), r, Age(i))
    BY WindowFacts
  <2>2. Age(i) \in 0 .. UsableCount - 1 /\ Age(i) # 0
    BY <1>5, <1>7, <2>1
  <2> QED BY <1>2, <1>3, <1>4, <2>1, <2>2, BehindAfterStep
<1> HIDE DEF B, b, r, s
<1>8. CASE n < UsableCount
  <2>1. /\ Len(window') = n + 1
        /\ \A i \in 1 .. n : window'[i] = window[i]
        /\ window'[n + 1] = b
    BY <1>1, <1>2, <1>8, RememberGrows
  <2>2. ASSUME NEW i \in 1 .. Len(window')
        PROVE  window'[i].ip \in Usable /\ Behind(Rank(window'[i].ip), s, Age(i)')
    <3>1. Age(i)' = (n + 2) - i
      BY <1>2, <2>1 DEF Age
    <3>2. CASE i = n + 1
      <4>1. Age(i)' = 1
        BY <1>2, <3>1, <3>2
      <4> QED BY <1>2, <1>6, <2>1, <3>2, <4>1 DEF r
    <3>3. CASE i # n + 1
      <4>1. i \in 1 .. n
        BY <1>2, <2>1, <3>3
      <4>2. Age(i)' = Age(i) + 1 /\ Age(i) # UsableCount
        BY <1>2, <1>5, <1>8, <3>1, <4>1 DEF Age
      <4> QED BY <1>7, <2>1, <4>1, <4>2
    <3> QED BY <3>2, <3>3
  <2>3. Len(window') <= UsableCount
    BY <1>2, <1>5, <1>8, <2>1
  <2> QED BY <2>2, <2>3 DEF WindowInOrder, s
<1>9. CASE n = UsableCount
  <2>1. /\ Len(window') = n
        /\ \A i \in 1 .. n - 1 : window'[i] = window[i + 1]
        /\ window'[n] = b
    BY <1>1, <1>2, <1>9, RememberSlides
  <2>2. ASSUME NEW i \in 1 .. Len(window')
        PROVE  window'[i].ip \in Usable /\ Behind(Rank(window'[i].ip), s, Age(i)')
    <3>1. Age(i)' = (n + 1) - i
      BY <1>2, <2>1 DEF Age
    <3>2. CASE i = n
      <4>1. Age(i)' = 1
        BY <1>2, <3>1, <3>2
      <4> QED BY <1>2, <1>6, <2>1, <3>2, <4>1 DEF r
    <3>3. CASE i # n
      <4>1. i \in 1 .. n - 1 /\ i + 1 \in 1 .. n
        BY <1>2, <2>1, <3>3
      <4>2. Age(i)' = Age(i + 1) + 1 /\ Age(i + 1) # UsableCount
        BY <1>2, <1>5, <1>9, <3>1, <4>1 DEF Age
      <4> QED BY <1>7, <2>1, <4>1, <4>2
    <3> QED BY <3>2, <3>3
  <2>3. Len(window') <= UsableCount
    BY <1>9, <1>5, <2>1
  <2> QED BY <2>2, <2>3 DEF WindowInOrder, s
<1> QED BY <1>2, <1>5, <1>8, <1>9

(* The binding alloc_fake_ip overwrites is the one that leaves the window. *)
LEMMA AllocationKeepsBound ==
  ASSUME OrderInv,
         NEW q \in Query, NEW encoded \in BOOLEAN, AnswerFresh(q, encoded)
  PROVE  WindowBound'
<1> DEFINE B == [ip : Address, domain : Domain]
           b == [ip |-> cursor, domain |-> q.name]
           n == Len(window)
<1>1. window' = Remember(window, b)
  BY DEF AnswerFresh
<1>2. /\ window \in Seq(B) /\ b \in B /\ b.ip = cursor /\ b.domain = q.name
      /\ n \in Nat /\ n <= UsableCount
  BY WindowFacts, UsableIsAddress DEF Query
<1>3. \A a \in Address :
         ip_2_domain'[a] = IF a = cursor THEN q.name ELSE ip_2_domain[a]
  BY DEF AnswerFresh, OrderInv, IInv, TypeOK
<1>4. \A i \in 1 .. n : /\ window[i].ip \in Address
                        /\ ip_2_domain[window[i].ip] = window[i].domain
  BY WindowFacts, UsableIsAddress DEF OrderInv, WindowBound
<1>5. \A a \in Address :
         ip_2_domain[a] # None => \E i \in 1 .. n : window[i].ip = a
  BY DEF OrderInv, WindowBound
<1>6. cursor \in Address /\ UsableCount \in Nat /\ UsableCount > 0
  BY WindowFacts, UsableIsAddress, RankRange
<1>7. \A i \in 1 .. n : window[i].ip = cursor <=> (i = 1 /\ n = UsableCount)
  BY CursorMeetsOldest
<1> HIDE DEF B, b
<1>8. CASE n < UsableCount
  <2>1. /\ Len(window') = n + 1
        /\ \A i \in 1 .. n : window'[i] = window[i]
        /\ window'[n + 1] = b
    BY <1>1, <1>2, <1>8, RememberGrows
  <2>2. ASSUME NEW i \in 1 .. Len(window')
        PROVE  ip_2_domain'[window'[i].ip] = window'[i].domain
    <3>1. CASE i = n + 1
      BY <1>2, <1>3, <1>6, <2>1, <3>1
    <3>2. CASE i # n + 1
      <4>1. i \in 1 .. n
        BY <1>2, <2>1, <3>2
      <4>2. window'[i] = window[i] /\ window[i].ip # cursor
        BY <1>7, <1>8, <1>2, <1>6, <2>1, <4>1
      <4> QED BY <1>3, <1>4, <4>1, <4>2
    <3> QED BY <3>1, <3>2
  <2>3. ASSUME NEW a \in Address, ip_2_domain'[a] # None
        PROVE  \E i \in 1 .. Len(window') : window'[i].ip = a
    <3>1. CASE a = cursor
      BY <1>2, <2>1, <3>1, n + 1 \in 1 .. Len(window')
    <3>2. CASE a # cursor
      <4>1. PICK i \in 1 .. n : window[i].ip = a
        BY <1>3, <1>5, <2>3, <3>2
      <4>2. i \in 1 .. Len(window') /\ window'[i].ip = a
        BY <1>2, <2>1, <4>1
      <4> QED BY <4>2
    <3> QED BY <3>1, <3>2
  <2> QED BY <2>2, <2>3 DEF WindowBound
<1>9. CASE n = UsableCount
  <2>1. /\ Len(window') = n
        /\ \A i \in 1 .. n - 1 : window'[i] = window[i + 1]
        /\ window'[n] = b
    BY <1>1, <1>2, <1>9, RememberSlides
  <2>2. ASSUME NEW i \in 1 .. Len(window')
        PROVE  ip_2_domain'[window'[i].ip] = window'[i].domain
    <3>1. CASE i = n
      BY <1>2, <1>3, <1>6, <2>1, <3>1
    <3>2. CASE i # n
      <4>1. i \in 1 .. n - 1 /\ i + 1 \in 1 .. n /\ i + 1 # 1
        BY <1>2, <2>1, <3>2
      <4>2. window'[i] = window[i + 1] /\ window[i + 1].ip # cursor
        BY <1>7, <2>1, <4>1
      <4> QED BY <1>3, <1>4, <4>1, <4>2
    <3> QED BY <3>1, <3>2
  <2>3. ASSUME NEW a \in Address, ip_2_domain'[a] # None
        PROVE  \E i \in 1 .. Len(window') : window'[i].ip = a
    <3>1. CASE a = cursor
      <4>1. n \in 1 .. Len(window')
        BY <1>2, <1>6, <1>9, <2>1
      <4> QED BY <1>2, <2>1, <3>1, <4>1
    <3>2. CASE a # cursor
      <4>1. PICK i \in 1 .. n : window[i].ip = a
        BY <1>3, <1>5, <2>3, <3>2
      <4>2. i # 1
        BY <1>7, <1>9, <3>2, <4>1
      <4>3. i - 1 \in 1 .. n - 1 /\ i - 1 \in 1 .. Len(window') /\ (i - 1) + 1 = i
        BY <1>2, <2>1, <4>2
      <4>4. window'[i - 1].ip = a
        BY <2>1, <4>1, <4>3
      <4> QED BY <4>3, <4>4
    <3> QED BY <3>1, <3>2
  <2> QED BY <2>2, <2>3 DEF WindowBound
<1> QED BY <1>2, <1>6, <1>8, <1>9

(* Every operation but alloc_fake_ip leaves the table and the cursor.      *)
LEMMA OnlyAllocationMoves ==
  ASSUME [Next]_vars
  PROVE  \/ UNCHANGED <<ip_2_domain, domain_2_ip, cursor, window>>
         \/ \E q \in Query, encoded \in BOOLEAN : AnswerFresh(q, encoded)
<1>1. CASE ProcessDnsPacket
  BY <1>1 DEF ProcessDnsPacket, RejectPacket, PassUpstream, AnswerKnown
<1>2. CASE \E a \in Address : QueryDomain(a)
  BY <1>2 DEF QueryDomain
<1>3. CASE (\E f \in SUBSET Rule : SetFilter(f)) \/ (\E f \in Rule : AddFilter(f))
  BY <1>3 DEF SetFilter, AddFilter
<1>4. CASE UNCHANGED vars
  BY <1>4 DEF vars
<1> QED BY <1>1, <1>2, <1>3, <1>4 DEF Next

LEMMA NextOrder == OrderInv /\ [Next]_vars => OrderInv'
<1> SUFFICES ASSUME OrderInv, [Next]_vars PROVE OrderInv'
  OBVIOUS
<1>1. IInv'
  BY NextInvariant DEF OrderInv
<1>2. CASE UNCHANGED <<ip_2_domain, domain_2_ip, cursor, window>>
  <2>1. WindowInOrder' /\ WindowBound'
    BY <1>2, Zenon DEF OrderInv, WindowInOrder, WindowBound, Age
  <2> QED BY <1>1, <2>1 DEF OrderInv
<1>3. CASE \E q \in Query, encoded \in BOOLEAN : AnswerFresh(q, encoded)
  BY <1>1, <1>3, AllocationKeepsOrder, AllocationKeepsBound DEF OrderInv
<1> QED BY <1>2, <1>3, OnlyAllocationMoves

(* The order of the window holds in every state FakeDNS can be in.         *)
THEOREM OrderInvariance == Spec => []OrderInv
  BY InitOrder, NextOrder, PTL DEF Spec

(* The lent addresses are as many as the window's entries.                 *)
LEMMA LentAddresses ==
  ASSUME OrderInv
  PROVE  Cardinality({a \in Address : ip_2_domain[a] # None}) = Len(window)
<1> DEFINE S == 1 .. Len(window)
           T == {a \in Address : ip_2_domain[a] # None}
           f == [i \in S |-> window[i].ip]
<1>1. IsFiniteSet(S) /\ Cardinality(S) = Len(window)
  <2>1. Len(window) \in Nat
    BY WindowFacts
  <2>2. /\ IsFiniteSet(1 .. Len(window))
        /\ Cardinality(1 .. Len(window)) =
             IF 1 > Len(window) THEN 0 ELSE (Len(window) - 1) + 1
    BY <2>1, FS_Interval
  <2> QED BY <2>1, <2>2
<1>2. ASSUME NEW i \in S PROVE window[i].ip \in T
  <2>1. window[i].ip \in Address /\ window[i].domain \in Domain
    BY WindowFacts, UsableIsAddress
  <2>2. ip_2_domain[window[i].ip] = window[i].domain
    BY DEF OrderInv, WindowBound
  <2> QED BY <2>1, <2>2, NoneAssumption
<1>3. f \in [S -> T]
  BY <1>2
<1>4. \A i, j \in S : f[i] = f[j] => i = j
  BY WindowDistinct
<1>5. \A a \in T : \E i \in S : f[i] = a
  BY DEF OrderInv, WindowBound
<1> HIDE DEF S, T, f
<1>6. f \in Injection(S, T) /\ f \in Surjection(S, T)
  BY <1>3, <1>4, <1>5 DEF Injection, IsInjective, Surjection
<1>7. Cardinality(T) = Cardinality(S) <=> f \in Injection(S, T)
  BY <1>1, <1>6, FS_Surjection
<1> QED BY <1>1, <1>6, <1>7 DEF T

(* The bindings in the maps are exactly the latest allocations, as many as *)
(* there are addresses to lend.                                            *)
THEOREM BindingsAreLatest == Spec => []LiveBindings
<1>1. OrderInv => LiveBindings
  <2> SUFFICES ASSUME OrderInv PROVE LiveBindings
    OBVIOUS
  <2>1. DOMAIN window = 1 .. Len(window)
    BY WindowFacts
  <2>2. \A i \in DOMAIN window : ip_2_domain[window[i].ip] = window[i].domain
    BY <2>1 DEF OrderInv, WindowBound
  <2> QED BY <2>2, LentAddresses DEF LiveBindings
<1> QED BY <1>1, OrderInvariance, PTL
-----------------------------------------------------------------------------
(* FakeDNS implements FakeIpPool.                                          *)

(* The window's entries are records of the pool's domains and addresses.   *)
LEMMA PoolBounds ==
  ASSUME OrderInv
  PROVE  /\ Pool!BoundDomains = {window[i].domain : i \in 1 .. Len(window)}
         /\ Pool!BoundAddresses = {window[i].ip : i \in 1 .. Len(window)}
<1>1. DOMAIN window = 1 .. Len(window)
  BY WindowFacts
<1> QED BY <1>1 DEF Pool!BoundDomains, Pool!BoundAddresses

(* A domain that domain_2_ip does not hold is not bound in the pool.       *)
LEMMA UnboundDomain ==
  ASSUME OrderInv, NEW d \in Domain, domain_2_ip[d] = None
  PROVE  d \notin Pool!BoundDomains
<1> SUFFICES ASSUME NEW i \in 1 .. Len(window), window[i].domain = d PROVE FALSE
  BY PoolBounds
<1>1. window[i].ip \in Address /\ window[i].ip # None
  BY WindowFacts, UsableIsAddress, NoneAssumption
<1>2. ip_2_domain[window[i].ip] = d
  BY DEF OrderInv, WindowBound
<1>3. domain_2_ip[d] = window[i].ip
  BY <1>1, <1>2 DEF OrderInv, IInv, MapsInverse
<1> QED BY <1>1, <1>3

(* While an address is free alloc_fake_ip takes a free one ...             *)
LEMMA AllocationBindsFree ==
  ASSUME OrderInv, Len(window) < UsableCount,
         NEW q \in Query, NEW encoded \in BOOLEAN, AnswerFresh(q, encoded)
  PROVE  Pool!BindFree(q.name, cursor)
<1> DEFINE B == [ip : Address, domain : Domain]
           b == [ip |-> cursor, domain |-> q.name]
<1>1. q.name \in Domain /\ domain_2_ip[q.name] = None
  BY DEF Query, AnswerFresh
<1>2. q.name \notin Pool!BoundDomains
  BY <1>1, UnboundDomain
<1>3. cursor \in Usable
  BY WindowFacts
<1>4. cursor \notin Pool!BoundAddresses
  <2>1. \A i \in 1 .. Len(window) : window[i].ip # cursor
    BY CursorMeetsOldest, WindowFacts, RankRange
  <2> QED BY <2>1, PoolBounds
<1>5. window' = Append(window, b)
  <2>1. window \in Seq(B) /\ b \in B /\ window' = Remember(window, b)
    BY <1>1, <1>3, WindowFacts, UsableIsAddress DEF AnswerFresh
  <2> HIDE DEF B, b
  <2> QED BY <2>1, RememberGrows
<1> QED BY <1>2, <1>3, <1>4, <1>5 DEF Pool!BindFree

(* ... and when there is none it takes over the oldest binding's.          *)
LEMMA AllocationBindsOldest ==
  ASSUME OrderInv, Len(window) = UsableCount,
         NEW q \in Query, NEW encoded \in BOOLEAN, AnswerFresh(q, encoded)
  PROVE  Pool!BindOldest(q.name)
<1> DEFINE B == [ip : Address, domain : Domain]
           b == [ip |-> cursor, domain |-> q.name]
<1>1. q.name \in Domain /\ domain_2_ip[q.name] = None
  BY DEF Query, AnswerFresh
<1>2. q.name \notin Pool!BoundDomains
  BY <1>1, UnboundDomain
<1>3. Pool!BoundAddresses = Usable
  <2>1. \A i \in 1 .. Len(window) : window[i].ip \in Usable
    BY WindowFacts
  <2>2. \A a \in Usable : \E i \in 1 .. Len(window) : window[i].ip = a
    BY FullWindow
  <2>3. Pool!BoundAddresses = {window[i].ip : i \in 1 .. Len(window)}
    BY PoolBounds
  <2> QED BY <2>1, <2>2, <2>3
<1>4. Head(window).ip = cursor
  <2>1. 1 \in 1 .. Len(window)
    BY RankRange
  <2>2. window[1].ip = cursor
    BY <2>1, CursorMeetsOldest
  <2> QED BY <2>2
<1>5. window' = Append(Tail(window), b)
  <2>1. window \in Seq(B) /\ b \in B /\ window' = Remember(window, b)
    BY <1>1, WindowFacts, UsableIsAddress DEF AnswerFresh
  <2> HIDE DEF B, b
  <2> QED BY <2>1, RememberSlides
<1> QED BY <1>2, <1>3, <1>4, <1>5 DEF Pool!BindOldest

(* Every step of FakeDNS is a step of the pool or leaves it alone.         *)
LEMMA PoolStep == OrderInv /\ [Next]_vars => [Pool!Next]_window
<1> SUFFICES ASSUME OrderInv, [Next]_vars, window' # window PROVE Pool!Next
  OBVIOUS
<1>1. PICK q \in Query, encoded \in BOOLEAN : AnswerFresh(q, encoded)
  BY OnlyAllocationMoves
<1>2. q.name \in Domain /\ cursor \in Usable
  BY WindowFacts DEF Query
<1>3. CASE Len(window) < UsableCount
  <2>1. Pool!BindFree(q.name, cursor)
    BY <1>1, <1>3, AllocationBindsFree
  <2> QED BY <1>2, <2>1 DEF Pool!Next
<1>4. CASE Len(window) = UsableCount
  <2>1. Pool!BindOldest(q.name)
    BY <1>1, <1>4, AllocationBindsOldest
  <2> QED BY <1>2, <2>1 DEF Pool!Next
<1> QED BY <1>3, <1>4, WindowFacts, RankRange

(* The hash maps and the cursor implement the pool that lends addresses in *)
(* order: alloc_fake_ip takes an address from a domain only when every     *)
(* usable address is lent, and then from the domain that got its first.    *)
THEOREM ImplementsPool == Spec => PoolSpec
<1>1. Init => Pool!Init
  BY DEF Init, Pool!Init
<1>2. OrderInv /\ [Next]_vars => [Pool!Next]_window
  BY PoolStep
<1> QED BY <1>1, <1>2, OrderInvariance, PTL DEF Spec, PoolSpec, Pool!Spec
=============================================================================
