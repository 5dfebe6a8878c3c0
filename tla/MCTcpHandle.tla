---------------------------- MODULE MCTcpHandle -----------------------------
(* Two streams, of one pair of addresses or of two, so that a pair comes   *)
(* back while its first connection is still there, and two network         *)
(* changes, so that the clear task lags.                                   *)
EXTENDS TcpHandle
CONSTANTS k1, k2
=============================================================================
