--------------------------- MODULE MCRouterSocket ---------------------------
(***************************************************************************)
(* Constants of the RouterSocket's model-checking runs.                    *)
(***************************************************************************)
EXTENDS RouterSocket

CONSTANTS owner, user

MCThreads == {owner, user}
BothTimeouts == {"finite", "infinite"}
=============================================================================
