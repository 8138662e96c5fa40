------------------------------ MODULE MCPubSub ------------------------------
(***************************************************************************)
(* Constants of the PubSub model-checking run: a topic, a topic that it is *)
(* a prefix of, and a payload that looks like the first.                   *)
(***************************************************************************)
EXTENDS PubSub

MCTopics == {<<>>, <<"a">>, <<"a", "b">>}
MCPayloads == {<<"a">>}
=============================================================================
