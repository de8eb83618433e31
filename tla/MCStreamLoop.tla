---------------------------- MODULE MCStreamLoop ----------------------------
(***************************************************************************)
(* A small instance of StreamLoop for TLC (stream_loop.cfg). The unit of   *)
(* time is 15 seconds. The handler may be busy for longer than the time    *)
(* between two heartbeats, so that several are due at once.                *)
(***************************************************************************)
EXTENDS StreamLoop
=============================================================================
