------------------------- MODULE MCDecodeAttention --------------------------
(* Pages of two tokens, up to three live rows in a bucket of four.          *)
EXTENDS DecodeAttention

MCSettings == {AutoMode, 0, 3}
=============================================================================
