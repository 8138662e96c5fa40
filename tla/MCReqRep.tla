------------------------------ MODULE MCReqRep ------------------------------
(***************************************************************************)
(* Constants of the model-checking runs of ReplierSocket and               *)
(* RequesterSocket.                                                        *)
(***************************************************************************)
EXTENDS ReqRep

CONSTANTS background, caller, c1, c2

TwoClients == {c1, c2}
BackgroundAndCaller == {background, caller}
=============================================================================
