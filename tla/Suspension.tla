------------------------------ MODULE Suspension ------------------------------
(***************************************************************************)
(* What every call that waits promises, whatever it waits for: at each     *)
(* slot at most one coroutine waits; what happens there resumes this one   *)
(* and no other, once; a coroutine that is killed is resumed by nothing,   *)
(* and the slot is free again; when the request has ended nobody waits.    *)
(* A flush is the exception: there any number of coroutines wait.          *)
(***************************************************************************)
EXTENDS FiniteSets

CONSTANTS Coroutine, Slot, Ready, Dead,
          Shared      \* the slots at which any number may wait

VARIABLES at, waiters

Init == /\ at = [c \in Coroutine |-> Ready]
        /\ waiters = [s \in Slot |-> {}]

Begin(c, s) == /\ at[c] = Ready
               /\ s \in Shared \/ waiters[s] = {}
               /\ at' = [at EXCEPT ![c] = s]
               /\ waiters' = [waiters EXCEPT ![s] = @ \cup {c}]

End(c, s) == /\ c \in waiters[s]
             /\ at' = [at EXCEPT ![c] = Ready]
             /\ waiters' = [waiters EXCEPT ![s] = @ \ {c}]

Kill(c, s) == /\ c \in waiters[s]
              /\ at' = [at EXCEPT ![c] = Dead]
              /\ waiters' = [waiters EXCEPT ![s] = @ \ {c}]

Finish == /\ at' = [c \in Coroutine |-> Dead]
          /\ waiters' = [s \in Slot |-> {}]

Next == \/ \E c \in Coroutine, s \in Slot : Begin(c, s) \/ End(c, s) \/ Kill(c, s)
        \/ Finish

Spec == Init /\ [][Next]_<<at, waiters>>

===============================================================================
