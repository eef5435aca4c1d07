------------------------ MODULE MCPrefillAttention --------------------------
(* Fresh prompts, queries after a prefix and decode rows, three at a time.  *)
EXTENDS PrefillAttention
=============================================================================
