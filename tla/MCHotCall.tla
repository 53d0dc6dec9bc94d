------------------------------- MODULE MCHotCall ------------------------------
(* HotCall with a few requesters for TLC.                                   *)
EXTENDS HotCall
===============================================================================
