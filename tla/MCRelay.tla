------------------------------ MODULE MCRelay ------------------------------
(* Instances of Relay for TLC. *)
EXTENDS Relay

MixedSizes == {2, 3}

\* Words to write; Relay does not tell the two sides apart.
FiveEach == [s \in Side |-> 5]
SixEach == [s \in Side |-> 6]
FiveAndThree == [client |-> 5, server |-> 3]

AllWays == {"edit", "resize", "send"}
NoWays == {}
SendOnly == {"send"}
=============================================================================
