--------------------------- MODULE MCControlPlane ---------------------------
(* ControlPlane for TLC: every constant is given by the configuration.     *)
EXTENDS ControlPlane
=============================================================================
