---------------------------- MODULE MCSignoffGate ----------------------------
(* Instance of SignoffGate for TLC.                                         *)
EXTENDS SignoffGate

=============================================================================
