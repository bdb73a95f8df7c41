-------------------------- MODULE MCIncidentRuntime --------------------------
(***************************************************************************)
(* Instances of IncidentRuntime for TLC.  The environments are model       *)
(* values and interchangeable; safety runs use their symmetry.             *)
(***************************************************************************)
EXTENDS IncidentRuntime, TLC

Symmetry == Permutations(Workers)
=============================================================================
