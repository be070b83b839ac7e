--------------------------- MODULE MCSingleFlight ---------------------------
(***************************************************************************)
(* Three callers and two keys: one can start a flight, one join it and one *)
(* arrive while it is being cancelled or after it ended, or work on the    *)
(* other key.                                                              *)
(***************************************************************************)
EXTENDS SingleFlight
=============================================================================
