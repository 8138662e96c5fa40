------------------------------ MODULE MCLegacy ------------------------------
(***************************************************************************)
(* Constants of the older wrapper's model-checking run.                    *)
(***************************************************************************)
EXTENDS Legacy

CONSTANTS background, caller, c, t

OneClient == {c}
OneTester == {t}
BackgroundAndCaller == {background, caller}

MCTopics == {<<>>, <<"a">>, <<"a", "b">>}
MCPayloads == {<<"a">>}
MCTesterTopic == <<"a">>
=============================================================================
