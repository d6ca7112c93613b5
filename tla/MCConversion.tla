---------------------------- MODULE MCConversion ----------------------------
(* Conversion with every combination of files and options.                 *)
EXTENDS Conversion

MCInputs == Input
=============================================================================
