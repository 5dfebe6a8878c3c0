----------------------------- MODULE FakeIpPool -----------------------------
(***************************************************************************)
(* What the fake-DNS table promises to the rest of rtun, with no cursor    *)
(* and no hash maps: a pool of addresses lent to domains in order of       *)
(* arrival.  A domain keeps the address it was given until the pool is     *)
(* full AND its binding is the oldest one; no younger binding is ever      *)
(* taken away first.                                                       *)
(***************************************************************************)
EXTENDS Naturals, Sequences, FiniteSets

CONSTANTS Domain,     \* the names that may be resolved
          Address     \* the addresses of the pool

VARIABLE order        \* the live bindings, oldest first

Binding == [ip : Address, domain : Domain]

BoundDomains == {order[i].domain : i \in DOMAIN order}
BoundAddresses == {order[i].ip : i \in DOMAIN order}

Init == order = <<>>

\* While an address is free, a new domain takes a free one.
BindFree(d, a) ==
  /\ d \notin BoundDomains
  /\ a \in Address \ BoundAddresses
  /\ order' = Append(order, [ip |-> a, domain |-> d])

\* When none is free, it takes over the address of the oldest binding.
BindOldest(d) ==
  /\ d \notin BoundDomains
  /\ BoundAddresses = Address
  /\ order' = Append(Tail(order), [ip |-> Head(order).ip, domain |-> d])

Next ==
  \E d \in Domain : (\E a \in Address : BindFree(d, a)) \/ BindOldest(d)

Spec == Init /\ [][Next]_order
=============================================================================
