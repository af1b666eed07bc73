----------------------------- MODULE MCProgram ------------------------------
(* Model-checking instances of Program.                                     *)
EXTENDS Program

BothOpenings == {"connecting", "listening"}
=============================================================================
