---------------------------- MODULE StreamChannel -----------------------------
(***************************************************************************)
(* What one FastCall channel promises to the two threads that share it,     *)
(* whatever the ring underneath: a bounded FIFO queue between one sender    *)
(* and one receiver.                                                        *)
(*                                                                          *)
(*   - a datum is handed to the receiver once, in the order of sending, and *)
(*     stays in the queue while the receiver's callback works on it;        *)
(*   - the receiver is told to stop only after the sender has ended, and    *)
(*     the end of the stream (the NULL callback) is the last thing it sees. *)
(*                                                                          *)
(* The promise says nothing of data still queued when the receiver ends:    *)
(* the code can leave some (NothingLeftBehind in FastCall.tla).             *)
(***************************************************************************)
EXTENDS Integers, Sequences

CONSTANTS Item,       \* the data that can be sent
          Capacity    \* how many the channel holds at most, a natural number

VARIABLES queue,      \* data sent and not yet released by the receiver
          inHand,     \* is the receiver's callback working on Head(queue)?
          delivered,  \* every datum given to the receiver's callback, in order
          sender,     \* "open", or "closed" once the sending thread has ended
          receiver    \* "polling", "stopping" (told to stop) or "ended"

vars == <<queue, inHand, delivered, sender, receiver>>

Init ==
  /\ queue = <<>>
  /\ inHand = FALSE
  /\ delivered = <<>>
  /\ sender = "open"
  /\ receiver = "polling"

Send(d) ==
  /\ sender = "open"
  /\ Len(queue) < Capacity
  /\ queue' = Append(queue, d)
  /\ UNCHANGED <<inHand, delivered, sender, receiver>>

CloseSender ==
  /\ sender = "open"
  /\ sender' = "closed"
  /\ UNCHANGED <<queue, inHand, delivered, receiver>>

Receive ==
  /\ receiver # "ended"
  /\ ~inHand
  /\ queue # <<>>
  /\ inHand' = TRUE
  /\ delivered' = Append(delivered, Head(queue))
  /\ UNCHANGED <<queue, sender, receiver>>

Release ==
  /\ inHand
  /\ inHand' = FALSE
  /\ queue' = Tail(queue)
  /\ UNCHANGED <<delivered, sender, receiver>>

Stop ==
  /\ receiver = "polling"
  /\ sender = "closed"
  /\ receiver' = "stopping"
  /\ UNCHANGED <<queue, inHand, delivered, sender>>

End ==
  /\ receiver = "stopping"
  /\ ~inHand
  /\ receiver' = "ended"
  /\ UNCHANGED <<queue, inHand, delivered, sender>>

Next ==
  \/ \E d \in Item : Send(d)
  \/ CloseSender
  \/ Receive
  \/ Release
  \/ Stop
  \/ End

Spec == Init /\ [][Next]_vars
===============================================================================
