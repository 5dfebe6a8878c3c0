------------------------------ MODULE MCSocks5 ------------------------------
(* An address of each kind, names of no byte, of the most that the length  *)
(* byte can count and of one more, and ports at both ends.                 *)
EXTENDS Socks5

Ones(n) == [i \in 1 .. n |-> 1]

MCTarget ==
  [atyp : {IPV4}, host : {Ones(4)}, port : {0, Base * Base - 1}]
  \cup [atyp : {IPV6}, host : {Ones(16)}, port : {Base + 1}]
  \cup [atyp : {DOMAIN_NAME}, host : {Ones(n) : n \in {0, 1, Base - 1, Base}},
        port : {Base + 2}]
=============================================================================
