------------------------- MODULE MCProtocolHandler -------------------------
(***************************************************************************)
(* ProtocolHandler on small instances.  The configurations choose the      *)
(* constants; see the README for what each of them is for.                 *)
(***************************************************************************)
EXTENDS ProtocolHandler
=============================================================================
