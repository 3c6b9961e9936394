------------------------- MODULE MCClientRegistration -------------------------
(* Values of the constants of ClientRegistration for TLC: two instances of one *)
(* service, one of which moves between two brokers, and an instance of another *)
(* service that uses the same name of a queue.                                 *)
EXTENDS ClientRegistration

CONSTANTS a1, a2, b, sa, sb, c1, c2

ServiceOf == [i \in Instance |-> IF i = b THEN sb ELSE sa]
BrokersOf == [i \in Instance |-> CASE i = a1 -> {c1, c2} [] i = a2 -> {c1} [] i = b -> {c2}]
=============================================================================
