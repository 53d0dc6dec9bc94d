------------------------------- MODULE MCEngine -------------------------------
(* Engine on small pipelines for TLC.                                       *)
EXTENDS Engine
===============================================================================
