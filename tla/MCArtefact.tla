----------------------------- MODULE MCArtefact -----------------------------
(* Three storage locations (so a move can target an owner while a third     *)
(* value lives), two temporary names (one can be reused while the other is  *)
(* held) and one named file.                                                *)
EXTENDS Artefact
=============================================================================
