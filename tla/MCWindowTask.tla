----------------------------- MODULE MCWindowTask -----------------------------
(* WindowTask on short streams for TLC.                                     *)
EXTENDS WindowTask
===============================================================================
