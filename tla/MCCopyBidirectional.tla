------------------------ MODULE MCCopyBidirectional -------------------------
(* Two bytes one way and one the other, through buffers of two bytes and   *)
(* writers with room for one: buffers are refilled and writes are partial. *)
EXTENDS CopyBidirectional

MCTotal == [ab |-> 2, ba |-> 1]
MCTotalIdle == [ab |-> 1, ba |-> 0]
=============================================================================
