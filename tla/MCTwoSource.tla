------------------------------ MODULE MCTwoSource ------------------------------
(* TwoSourceEngine on small streams for TLC.                                *)
EXTENDS TwoSourceEngine
===============================================================================
