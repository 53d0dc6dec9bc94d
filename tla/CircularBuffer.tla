---------------------------- MODULE CircularBuffer ----------------------------
(***************************************************************************)
(* The index arithmetic of circular_buffer.cpp: a ring of MaxLen slots with *)
(* a head (next slot to write, moved by the pushing thread only) and a tail *)
(* (oldest datum, moved by the polling thread only).  One slot always stays *)
(* free, so that head = tail means empty and nothing else.                  *)
(*                                                                          *)
(* The operators are pure; FastCall.tla owns the variables.                 *)
(***************************************************************************)
EXTENDS Integers

CONSTANT MaxLen   \* circular_buffer.maxlen (MAX_BUFFER_SIZE in the engines)

ASSUME MaxLenAssumption == MaxLen \in Nat \ {0}

Index == 0 .. MaxLen - 1

(* Mutation: an index that does not wrap around.                            *)
NextIndexNoWrap(i) == i + 1

NextIndex(i) == IF i + 1 >= MaxLen THEN 0 ELSE i + 1

IsFull(head, tail) == NextIndex(head) = tail

IsEmpty(head, tail) == head = tail

(* Number of slots from tail up to, not including, head: the data held.     *)
Held(head, tail) == IF head >= tail THEN head - tail ELSE head - tail + MaxLen

(* The k-th slot after i, for k smaller than MaxLen.                        *)
Ahead(i, k) == IF i + k >= MaxLen THEN i + k - MaxLen ELSE i + k
===============================================================================
