------------------------------- MODULE MCLink -------------------------------
(* Two of the five frames of the handshake, UNIQUE after another one, since *)
(* the others are alike, and one verb to ask again; the queue holds one     *)
(* frame, so that what the host has not read in time is refused.            *)
EXTENDS Link

MCHello == <<"STATE", "UNIQUE">>
MCReask == <<"FDNAME">>
=============================================================================
