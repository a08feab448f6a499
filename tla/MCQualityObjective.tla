-------------------------- MODULE MCQualityObjective --------------------------
(* An objective with a coverage run as its signal, and a run after it. *)
EXTENDS QualityObjective

CONSTANTS u1, h1, h2, g1, g2
=============================================================================
