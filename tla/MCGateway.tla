----------------------------- MODULE MCGateway -----------------------------
(***************************************************************************)
(* Constants of the gateway's model-checking runs.                         *)
(***************************************************************************)
EXTENDS Gateway, TLC

CONSTANTS n1, d1, d2, c1

MCNames == {n1}
MCIds == {d1, d2}

Register(n, d) == [cmd |-> "register", name |-> n, identity |-> d]
Unregister(n)  == [cmd |-> "unregister", name |-> n, identity |-> Empty]
Plain(cmd)     == [cmd |-> cmd, name |-> Empty, identity |-> Empty]

(* Every branch of HandleRepRequest: both identities, a missing name and a *)
(* missing identity, the queries, an unknown command.                      *)
AllCalls ==
  {Register(n1, d1), Register(n1, d2), Register(n1, Empty), Unregister(n1),
   Plain("unregister"), Plain("list"), Plain("stats"), Plain("other")}

OneClient == {c1}

(* A single peer, which registers itself and writes to itself: a Start,    *)
(* its loops and its connections without a second peer beside it.          *)
OneId == {d1}
OwnRegister == {Register(n1, d1), Register(n1, Empty)}

(* AllCalls names both identities alike.                                   *)
MCSymmetry == Permutations(MCIds)
=============================================================================
