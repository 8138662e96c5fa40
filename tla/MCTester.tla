------------------------------ MODULE MCTester ------------------------------
(***************************************************************************)
(* Constants of the tester's model-checking runs: names and identities     *)
(* that are key words, or hold a colon, a quote or a backslash.            *)
(***************************************************************************)
EXTENDS Tester

OneTester == {<<"t">>}
MCTargets == {<<"t">>}

MCChars == {Quote, Backslash, ":", "t", "a", "cmd", "name", "identity", "target", "data",
            "register", "unregister", "list", "stats"}

Values == {<<"t">>, <<"name">>, <<"identity">>, <<Quote, "name", Quote, ":">>, <<Backslash>>}

MCCalls ==
  {[cmd |-> <<"register">>, name |-> n, identity |-> d] : n \in Values, d \in Values}
    \cup {[cmd |-> <<"register">>, name |-> n] : n \in Values}
    \cup {[cmd |-> <<"register">>, identity |-> d] : d \in Values}
    \cup {[cmd |-> <<"unregister">>, name |-> n] : n \in Values}
    \cup {[cmd |-> c] : c \in {<<"unregister">>, <<"list">>, <<"stats">>, Empty, <<"a", Quote>>}}

Addressed == {<<"t">>, <<Quote, "name", Quote, ":">>}

MCPosts ==
  {[target |-> n, data |-> <<"target">>] : n \in Addressed}
    \cup {[data |-> <<"target">>]}

(* Sorted, as jsoncpp writes them, and as in the README and the tests.     *)
MCKeyOrders ==
  {<<"cmd", "data", "identity", "name", "target">>, <<"cmd", "name", "identity", "target", "data">>}
=============================================================================
