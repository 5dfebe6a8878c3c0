---------------------------- MODULE MCUdpHandle -----------------------------
(* Two packets, from one source or from two, a channel for one packet and  *)
(* two notifications: the channel fills, the mutex is contended, a source  *)
(* comes back after its session is gone, and clear_fut lags.               *)
EXTENDS UdpHandle
CONSTANTS s1, s2, a, b
=============================================================================
