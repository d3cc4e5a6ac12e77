---------------------------- MODULE MCCaptureFs ----------------------------
(***************************************************************************)
(* The tasks of the firmware: the main loop reads the logbook under the    *)
(* gate and saves the trend under the lock, the HTTP task does both, the   *)
(* frame writer only locks.                                                *)
(***************************************************************************)
EXTENDS CaptureFs

CONSTANTS Main, Writer

MCGated   == {Main, Httpd}
MCLocking == {Main, Writer, Httpd}
=============================================================================
