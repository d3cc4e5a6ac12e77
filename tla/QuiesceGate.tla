---------------------------- MODULE QuiesceGate ----------------------------
(***************************************************************************)
(* The quiesce gate of main/hr_quiesce.c: a count of the users of a        *)
(* resource and a flag saying that it is about to be torn down.  Both are  *)
(* C11 atomics, so each operator below is one indivisible access; the task *)
(* that calls hr_quiesce_enter or hr_quiesce_idle performs two of them, in *)
(* the order its own module gives, with anything in between.               *)
(***************************************************************************)
EXTENDS Integers

VARIABLES
  users,    \* hr_quiesce_t.users
  closing   \* hr_quiesce_t.closing

gateVars == <<users, closing>>

GateInit == users = 0 /\ closing = FALSE

\* First half of hr_quiesce_enter: count first, look at the flag second.
CountIn == users' = users + 1 /\ UNCHANGED closing

\* hr_quiesce_leave, and the way back out of a refused hr_quiesce_enter.
CountOut == users' = users - 1 /\ UNCHANGED closing

\* hr_quiesce_close.
Close == closing' = TRUE /\ UNCHANGED users

\* hr_quiesce_reopen: the count is left alone.
Reopen == closing' = FALSE /\ UNCHANGED users
=============================================================================
