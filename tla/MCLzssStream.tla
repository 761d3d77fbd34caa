---------------------------- MODULE MCLzssStream ----------------------------
EXTENDS LzssStream

(* Pairs of both lengths, at a position behind, at one ahead of and at the *)
(* first symbols; both bytes of a position are used.                       *)
SomePairs == [position : {1, 6}, length : {0, 1}]
=============================================================================
