------------------------------ MODULE MCFastCall ------------------------------
(* FastCall on small rings for TLC.                                         *)
EXTENDS FastCall
===============================================================================
