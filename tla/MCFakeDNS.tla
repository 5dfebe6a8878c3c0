----------------------------- MODULE MCFakeDNS ------------------------------
(* Two blocks of four addresses, four of them usable, and five domains, so *)
(* that the range fills up, wraps and recycles addresses.                  *)
EXTENDS FakeDNS

CONSTANTS d1, d2, d3, d4, d5, google, star

MCDomain == {d1, d2, d3, d4, d5}
MCContains == {<<d, google>> : d \in MCDomain \ {d5}}
=============================================================================
