------------------------------ MODULE FakeDNS -------------------------------
(***************************************************************************)
(* The fake-DNS table of crates/tun/src/fakedns.rs.                        *)
(*                                                                         *)
(* A DNS query for a domain accepted by the rule list is answered with an  *)
(* address of a reserved range; a TCP connection to that address is later  *)
(* turned back into the domain by query_domain and handed to the SOCKS5    *)
(* proxy.  The table is the pair of maps ip_2_domain and domain_2_ip and   *)
(* the allocation cursor.  Every operation runs under the RwLock of        *)
(* FakeDNS, so each one is a single action.                                *)
(*                                                                         *)
(* Abstractions.  Names that come off the wire are fully qualified and     *)
(* lose their trailing dot before they become keys; a name is modelled by  *)
(* the key.  "domain.contains(f)" is the relation Contains.  Addresses are *)
(* the u32 values of the code with a low byte of Base values instead of    *)
(* 256; Ipv4Addr::from_bits and to_bits are the identity on them.  Message *)
(* fields that no property tells apart (id, flags, TTL) are left out.      *)
(***************************************************************************)
EXTENDS Integers, Sequences, FiniteSets

CONSTANTS
  Domain,          \* the query names
  Rule,            \* the entries a rule list may hold
  Wildcard,        \* the entry "*"
  Contains,        \* the pairs <<d, f>> such that d.contains(f)
  Base,            \* how many values the low byte of an address has
  fake_ip_start,   \* 192.18.0.0 in the code
  fake_ip_end,     \* 192.18.255.255 in the code
  None             \* the absent value

(* The range is whole blocks of Base addresses, as 192.18.0.0/16 is.       *)
ASSUME RangeAssumption ==
  /\ Base \in Nat /\ Base >= 3
  /\ fake_ip_start \in Nat /\ fake_ip_end \in Nat
  /\ fake_ip_start % Base = 0
  /\ fake_ip_end % Base = Base - 1
  /\ fake_ip_start < fake_ip_end

ASSUME NoneAssumption ==
  /\ None \notin Domain
  /\ None \notin Int

ASSUME RuleAssumption ==
  /\ Wildcard \in Rule
  /\ Contains \in SUBSET (Domain \X Rule)

VARIABLES
  ip_2_domain,     \* address -> domain or None
  domain_2_ip,     \* domain -> address or None
  cursor,          \* the next address to lend
  filter,          \* the entries of the rule list
  reply,           \* what the last operation returned
  window           \* history: the most recent allocations, oldest first

vars == <<ip_2_domain, domain_2_ip, cursor, filter, reply, window>>

Address == fake_ip_start .. fake_ip_end

Query == [class : {"IN", "other"},
          qtype : {"A", "AAAA", "HTTPS", "other"},
          name : Domain]

Reply == [kind : {"none", "Error", "Upstream", "Response", "Domain"},
          domain : Domain \cup {None},
          ip : Address \cup {None}]

Returned(kind, d, a) == [kind |-> kind, domain |-> d, ip |-> a]
-----------------------------------------------------------------------------
(* Faults used to measure the properties: each is what a slip in the       *)
(* definition it replaces would look like.                                 *)
FaultNoWrap(c) == c + 1
FaultEarlyWrap(c) ==
  IF c + 1 >= fake_ip_end - Base THEN fake_ip_start ELSE c + 1
FaultFirstAttempt(a, i) == i = 1
FaultKeepOldName(m, d) == m
-----------------------------------------------------------------------------
(* prepare_next_cursor.  One turn of its loop moves the cursor on by one,  *)
(* wrapping to the start of the range when it reaches the end ...          *)
NextCursor(c) == IF c + 1 >= fake_ip_end THEN fake_ip_start ELSE c + 1

(* ... and goes on while the low byte is 0 or 255.                         *)
Reserved(c) == c % Base \in {0, Base - 1}

(* The loop runs three times at the most.                                  *)
Attempts(c) ==
  LET first == NextCursor(c)
      second == NextCursor(first)
  IN <<first, second, NextCursor(second)>>

(* The attempt that ends the loop; the loop falls through to the error     *)
(* after the last one when there is none.                                  *)
EndsLoop(a, i) ==
  \/ ~Reserved(a[i]) /\ \A j \in 1 .. i - 1 : Reserved(a[j])
  \/ i = Len(a) /\ \A j \in 1 .. i : Reserved(a[j])

PrepareNextCursor(c) ==
  LET a == Attempts(c)
  IN a[CHOOSE i \in DOMAIN a : EndsLoop(a, i)]

(* The loop leaves through the error after the last attempt exactly when   *)
(* that attempt is a reserved address too.                                 *)
PreparedOk(c) == ~Reserved(PrepareNextCursor(c))

Usable == {a \in fake_ip_start .. fake_ip_end - 1 : ~Reserved(a)}

Accept(d) == \E f \in filter : <<d, f>> \in Contains \/ f = Wildcard

(* Only IN queries of the three types for an accepted name are answered.   *)
Faked(q) ==
  /\ q.class = "IN"
  /\ q.qtype \in {"A", "AAAA", "HTTPS"}
  /\ Accept(q.name)

(* The address goes into the answer section of an A query only.            *)
AnswerSection(q, a) == IF q.qtype = "A" THEN a ELSE None

(* domain_2_ip.remove(&d) for the name that ip_2_domain.insert displaced.  *)
Forget(m, d) == IF d = None THEN m ELSE [m EXCEPT ![d] = None]

(* The address alloc_fake_ip returns is the cursor it bound, read before   *)
(* prepare_next_cursor moves it.                                           *)
FaultAddressAfterMove(c) == PrepareNextCursor(c)
LentAddress(c) == c

(* History: keep as many allocations as there are addresses to lend.       *)
Remember(w, b) ==
  LET longer == Append(w, b)
  IN IF Len(longer) > Cardinality(Usable) THEN Tail(longer) ELSE longer
-----------------------------------------------------------------------------
Init ==
  /\ ip_2_domain = [a \in Address |-> None]
  /\ domain_2_ip = [d \in Domain |-> None]
  /\ cursor = PrepareNextCursor(fake_ip_start)
  /\ filter = {}
  /\ reply = Returned("none", None, None)
  /\ window = <<>>

(* process_dns_packet on bytes that do not parse or hold no question.      *)
RejectPacket ==
  /\ reply' = Returned("Error", None, None)
  /\ UNCHANGED <<ip_2_domain, domain_2_ip, cursor, filter, window>>

(* process_dns_packet on a question that is not for the fake table.        *)
PassUpstream(q) ==
  /\ ~Faked(q)
  /\ reply' = Returned("Upstream", q.name, None)
  /\ UNCHANGED <<ip_2_domain, domain_2_ip, cursor, filter, window>>

(* process_dns_packet, the domain already has an address; encoded says     *)
(* whether resp.to_vec() succeeds.                                         *)
AnswerKnown(q, encoded) ==
  /\ Faked(q)
  /\ domain_2_ip[q.name] # None
  /\ reply' = IF encoded
              THEN Returned("Response", q.name,
                            AnswerSection(q, domain_2_ip[q.name]))
              ELSE Returned("Error", None, None)
  /\ UNCHANGED <<ip_2_domain, domain_2_ip, cursor, filter, window>>

(* process_dns_packet with alloc_fake_ip.  Both maps change before         *)
(* prepare_next_cursor can fail, and stay changed when it does.            *)
AnswerFresh(q, encoded) ==
  /\ Faked(q)
  /\ domain_2_ip[q.name] = None
  /\ ip_2_domain' = [ip_2_domain EXCEPT ![cursor] = q.name]
  /\ domain_2_ip' =
       [Forget(domain_2_ip, ip_2_domain[cursor]) EXCEPT ![q.name] = cursor]
  /\ cursor' = PrepareNextCursor(cursor)
  /\ reply' = IF PreparedOk(cursor) /\ encoded
              THEN Returned("Response", q.name,
                            AnswerSection(q, LentAddress(cursor)))
              ELSE Returned("Error", None, None)
  /\ window' = Remember(window, [ip |-> cursor, domain |-> q.name])
  /\ UNCHANGED filter

(* query_domain, the lookup a TCP connection makes before it dials out.    *)
QueryDomain(a) ==
  /\ reply' = Returned("Domain", ip_2_domain[a], a)
  /\ UNCHANGED <<ip_2_domain, domain_2_ip, cursor, filter, window>>

SetFilter(f) ==
  /\ filter' = f
  /\ reply' = Returned("none", None, None)
  /\ UNCHANGED <<ip_2_domain, domain_2_ip, cursor, window>>

AddFilter(f) ==
  /\ filter' = filter \cup {f}
  /\ reply' = Returned("none", None, None)
  /\ UNCHANGED <<ip_2_domain, domain_2_ip, cursor, window>>

ProcessDnsPacket ==
  \/ RejectPacket
  \/ \E q \in Query : PassUpstream(q)
  \/ \E q \in Query, encoded \in BOOLEAN : AnswerKnown(q, encoded)
  \/ \E q \in Query, encoded \in BOOLEAN : AnswerFresh(q, encoded)

Next ==
  \/ ProcessDnsPacket
  \/ \E a \in Address : QueryDomain(a)
  \/ \E f \in SUBSET Rule : SetFilter(f)
  \/ \E f \in Rule : AddFilter(f)

Spec == Init /\ [][Next]_vars
-----------------------------------------------------------------------------
(* Every variable has its type; in particular the cursor, which the code   *)
(* increments with no overflow check, never leaves the fake range.         *)
TypeOK ==
  /\ ip_2_domain \in [Address -> Domain \cup {None}]
  /\ domain_2_ip \in [Domain -> Address \cup {None}]
  /\ cursor \in Address
  /\ filter \in SUBSET Rule
  /\ reply \in Reply
  /\ window \in Seq([ip : Address, domain : Domain])

(* ip_2_domain and domain_2_ip are inverse to each other: what a TCP       *)
(* connection looks up is the domain whose query was given that address,   *)
(* and no two domains share one, although alloc_fake_ip maintains the two  *)
(* maps by separate inserts and removes and reuses addresses.              *)
MapsInverse ==
  \A d \in Domain, a \in Address :
    domain_2_ip[d] = a <=> ip_2_domain[a] = d

(* No address ending in .0 or .255 is ever lent, and the cursor stays      *)
(* strictly below fake_ip_end: prepare_next_cursor steps over the block    *)
(* boundaries and over the wrap at the end of the range.                   *)
OnlyUsableLent ==
  /\ cursor \in Usable
  /\ \A a \in Address : ip_2_domain[a] # None => a \in Usable

(* prepare_next_cursor never reports "can't prepare the next cursor" from  *)
(* a cursor it can be called with: three attempts reach a usable address   *)
(* also across a block boundary and across the wrap, so alloc_fake_ip      *)
(* never fails after it has already changed both maps.                     *)
NeverExhausted == PreparedOk(cursor)

(* An A answer carries an address that, at the moment it is given, leads   *)
(* back to the domain that was asked for.                                  *)
AnswerLeadsBack ==
  (reply.kind = "Response" /\ reply.ip # None)
     => ip_2_domain[reply.ip] = reply.domain

(* The two maps and the cursor implement the pool that lends addresses in  *)
(* order: an address is taken from a domain only when every usable address *)
(* is lent, and then from the domain that has had its address longest.     *)
Pool == INSTANCE FakeIpPool WITH Address <- Usable, order <- window
PoolSpec == Pool!Spec

(* The bindings in the maps are exactly those the pool says are live.      *)
LiveBindings ==
  /\ \A i \in DOMAIN window :
        ip_2_domain[window[i].ip] = window[i].domain
  /\ Cardinality({a \in Address : ip_2_domain[a] # None}) = Len(window)
=============================================================================
