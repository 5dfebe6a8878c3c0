----------------------------- MODULE MCDnsProxy -----------------------------
(* Three queries over two slots and two ids: the slots are used round-     *)
(* robin, an id is used twice and an upstream can be cleared and restarted.*)
EXTENDS DnsProxy
=============================================================================
