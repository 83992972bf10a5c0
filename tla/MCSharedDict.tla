---------------------------- MODULE MCSharedDict ----------------------------
(* Instances of SharedDict for TLC.  A short string has the length of a      *)
(* number, so that the memory of one is used again for the other; a long     *)
(* one takes more than what goes with one number.  No action reads call, so  *)
(* the states that differ in it only are one.                                *)
EXTENDS SharedDict, TLC

SomeScalars == {[type |-> "number", data |-> <<0>>, len |-> 1],
                [type |-> "number", data |-> <<1>>, len |-> 1],
                [type |-> "string", data |-> <<2>>, len |-> 1],
                [type |-> "string", data |-> <<3>>, len |-> 2]}
Symmetric == Permutations(Key) \cup Permutations(Process)
Zone == <<now, entries, lru, used, pushing>>

===============================================================================
