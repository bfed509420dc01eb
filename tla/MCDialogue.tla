----------------------------- MODULE MCDialogue -----------------------------
(***************************************************************************)
(* Dialogue on a small instance.                                           *)
(***************************************************************************)
EXTENDS Dialogue
=============================================================================
