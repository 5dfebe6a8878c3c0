---------------------------- MODULE MCTunRoutes -----------------------------
(* Two networks behind different interfaces: the host loses its network    *)
(* and comes back to it, or moves to the other interface.                  *)
EXTENDS TunRoutes

CONSTANTS home, phone, eth, wlan

MCIfaceOf == [n \in Net |-> IF n = home THEN eth ELSE wlan]
=============================================================================
