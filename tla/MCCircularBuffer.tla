-------------------------- MODULE MCCircularBuffer --------------------------
(***************************************************************************)
(* Instance of CircularBuffer for TLC.  Four cells let head and tail take  *)
(* every relative position, wrapped or not, at every fill level, and       *)
(* requests go up to one more than fits.                                   *)
(***************************************************************************)
EXTENDS CircularBuffer
=============================================================================
