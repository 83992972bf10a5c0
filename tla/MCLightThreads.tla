--------------------------- MODULE MCLightThreads ---------------------------
(* Instances of LightThreads for TLC. *)
EXTENDS LightThreads, TLC

\* Contexts other than the entry thread's are interchangeable.
Symm == Permutations(Co \ {Entry})
=============================================================================
