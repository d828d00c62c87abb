--------------------------- MODULE MCGeminiCalls ---------------------------
(* Small instances of GeminiCalls. *)
EXTENDS GeminiCalls
=============================================================================
