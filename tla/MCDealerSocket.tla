--------------------------- MODULE MCDealerSocket ---------------------------
(***************************************************************************)
(* Constants of the DealerSocket's model-checking runs.                    *)
(***************************************************************************)
EXTENDS DealerSocket

CONSTANTS owner, user

MCThreads == {owner, user}
Finite == {"finite"}
Infinite == {"infinite"}
=============================================================================
