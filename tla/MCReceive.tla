------------------------------ MODULE MCReceive ------------------------------
(* Instances of Receive for TLC.                                             *)
EXTENDS Receive

AllStreams == UNION {[1..n -> {"a", "b"}] : n \in {4, 5, 6}} \cup {<<"a", "r", "b", "a", "r">>}
SomePatterns == {<<"a", "a", "b">>, <<"a", "b", "a", "a">>}

===============================================================================
