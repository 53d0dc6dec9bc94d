------------------------------ MODULE MCJoinTask ------------------------------
(* JoinTask with short streams for TLC.                                     *)
EXTENDS JoinTask, TLC

(* Keys are only compared with each other.                                  *)
Symmetry == Permutations(Key)
===============================================================================
