------------------------------- MODULE MCWifi -------------------------------
(* Times in polls: a rejoin after two, doubling once to the cap; the window *)
(* is longer than an episode, shorter than the back-off's last wait.        *)
EXTENDS Wifi
=============================================================================
