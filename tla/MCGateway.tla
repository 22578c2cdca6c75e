------------------------------ MODULE MCGateway ------------------------------
(* Three calls of one turn, which may be exchanged, and a dearer call of    *)
(* another. A turn may make two calls. Twenty-four hours are two ticks of   *)
(* the clock.                                                               *)
EXTENDS AiGateway, TLC

CONSTANTS c1, c2, c3, other, global, turn, next

MCCalls == {c1, c2, c3, other}
MCAccountsOf == [c \in Calls |-> {global, IF c = other THEN next ELSE turn}]
MCLimit == [a \in Accounts |-> 4]
MCWorst == [c \in Calls |-> IF c = other THEN 3 ELSE 2]
Alike == Permutations({c1, c2, c3})
=============================================================================
