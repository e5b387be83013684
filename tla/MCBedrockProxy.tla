--------------------------- MODULE MCBedrockProxy ---------------------------
(***************************************************************************)
(* BedrockProxy for TLC: the environments the runs choose from.            *)
(***************************************************************************)
EXTENDS BedrockProxy

Calm == {}

Harsh == {"crash", "lost", "stop"}
==============================================================================
