----------------------------- MODULE FileFetch -----------------------------
(***************************************************************************)
(* What the transfer of one of the dryer's files promises the browser:     *)
(* what it has been given is the beginning of the file it asked for, in    *)
(* order, with nothing missing or twice; and the transfer is called whole  *)
(* only when all that was promised at its start has come off the dryer.    *)
(* The files only ever grow, also during a transfer, so the beginning of a *)
(* file stays what it is, and what was promised may be less than it has by *)
(* then.                                                                   *)
(***************************************************************************)
EXTENDS Integers, Sequences

CONSTANTS
  Files,     \* the dryer's files
  NoFile     \* nothing is being fetched

VARIABLES
  length,    \* how long each of the files is by now
  file,      \* the file of the latest transfer
  promised,  \* how much of it a whole transfer brings, at least
  fetched,   \* how much of it has come off the dryer
  given,     \* what the browser has been given
  verdict    \* "none", "fetching", "whole" or "failed"

vars == <<length, file, promised, fetched, given, verdict>>

LengthOf(f) == IF f \in Files THEN length[f] ELSE 0
Content(f)  == [i \in 1..LengthOf(f) |-> <<f, i - 1>>]

Init == /\ length \in [Files -> Nat]
        /\ file = NoFile /\ promised = 0
        /\ fetched = 0 /\ given = <<>> /\ verdict = "none"

Grow(f) == /\ length' = [length EXCEPT ![f] = @ + 1]
           /\ UNCHANGED <<file, promised, fetched, given, verdict>>

(* A file the dryer does not have may be asked for as well.                *)
Start == /\ verdict # "fetching"
         /\ file' # NoFile
         /\ promised' \in 0..LengthOf(file')
         /\ fetched' = 0 /\ given' = <<>>
         /\ verdict' \in {"fetching", "failed"}
         /\ UNCHANGED length

(* The client turns to something else, a listing.                          *)
Leave == /\ verdict # "fetching"
         /\ file' = NoFile /\ promised' = 0 /\ fetched' = 0 /\ given' = <<>>
         /\ verdict' = "none"
         /\ UNCHANGED length

Arrive == /\ verdict = "fetching"
          /\ file \in Files
          /\ fetched' \in fetched..length[file]
          /\ verdict' \in {"fetching", "failed"} \cup
                          (IF fetched' >= promised THEN {"whole"} ELSE {})
          /\ UNCHANGED <<length, file, promised, given>>

Fail == /\ verdict' = "failed"
        /\ UNCHANGED <<length, file, promised, fetched, given>>

(* The browser takes some of what has arrived and it does not have yet.    *)
(* Taking is also what resumes a paused transfer, whose request may fail.  *)
Give == /\ \E n \in Len(given)..fetched : given' = SubSeq(Content(file), 1, n)
        /\ verdict' \in {verdict} \cup
                        (IF verdict = "fetching" THEN {"failed"} ELSE {})
        /\ UNCHANGED <<length, file, promised, fetched>>

Next == \/ \E f \in Files : Grow(f)
        \/ Start \/ Leave \/ Arrive \/ Fail \/ Give

Spec == Init /\ [][Next]_vars
=============================================================================
