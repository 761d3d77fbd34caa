--------------------------- MODULE MCLzssCompress ---------------------------
EXTENDS LzssCompress

(* Two bytes, one of them the one that the window holds at the start.      *)
Bytes == {0, 1}
=============================================================================
