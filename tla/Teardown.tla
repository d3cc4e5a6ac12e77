------------------------------ MODULE Teardown ------------------------------
(***************************************************************************)
(* What the gate is for: a resource that is freed without a reference      *)
(* count of its own (the SPIFFS control block) is torn down only while no  *)
(* task is inside it.  Tasks come and go as they like, also while the      *)
(* resource is down: a call on an unmounted path merely fails.  The        *)
(* promise can be lost, once, by whoever takes the resource away before it *)
(* has first been brought up in full; only a restart gives it back.        *)
(***************************************************************************)
CONSTANT Task

VARIABLES
  up,      \* the resource exists
  inside,  \* the tasks in the middle of a call on it
  lost     \* the promise is lost until the restart

vars == <<up, inside, lost>>

Init == up = FALSE /\ inside = {} /\ lost = FALSE

Enter(t) == inside' = inside \cup {t} /\ UNCHANGED <<up, lost>>

Leave(t) == inside' = inside \ {t} /\ UNCHANGED <<up, lost>>

\* The task that brings the resource up goes on to use it.
BringUp(t) == ~up /\ up' = TRUE /\ inside' = inside \cup {t} /\ UNCHANGED lost

TearDown == /\ up /\ (inside = {} \/ lost)
            /\ up' = FALSE
            /\ UNCHANGED <<inside, lost>>

Lose == lost' = TRUE /\ UNCHANGED <<up, inside>>

\* The chip restarts: nothing is torn down under anybody, nobody is left.
Restart == up' = FALSE /\ inside' = {} /\ lost' = FALSE

Next == \/ \E t \in Task : Enter(t) \/ Leave(t) \/ BringUp(t)
        \/ TearDown \/ Lose
        \/ Restart

Spec == Init /\ [][Next]_vars
=============================================================================
