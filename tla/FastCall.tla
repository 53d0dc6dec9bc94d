------------------------------- MODULE FastCall -------------------------------
(***************************************************************************)
(* One FastCall channel (fast_call.h, fast_call_enclave.h, Enclave.cpp) and *)
(* the three threads around it:                                             *)
(*                                                                          *)
(*   producer   calls FastCall_request for one datum after the other, then  *)
(*              ends (a source thread, or a responder thread that emits);   *)
(*   consumer   runs FastCall_wait (or one of its variants with             *)
(*              decryption), calling the callback on each datum in place;   *)
(*   main       joins the producer and then clears keepPolling.             *)
(*                                                                          *)
(* Nothing is locked: head is written by the producer alone, tail by the    *)
(* consumer alone.  Each action below is one access of a thread to shared   *)
(* memory, in program order (both are volatile, and the push and pop are    *)
(* calls the compiler does not see through).  The memcpy of a datum is two  *)
(* steps, between which the slot holds no whole datum.                      *)
(*                                                                          *)
(* The k-th datum the producer requests is the number k; NoDatum stands for *)
(* uninitialised memory and for a copy under way.                           *)
(***************************************************************************)
EXTENDS CircularBuffer, Sequences

CONSTANTS MaxRequests,  \* bound: the producer requests at most so many data
          MaxRetries    \* MAX_RETRIES of FastCall_request (10000)

ASSUME FastCallAssumption == MaxRequests \in Nat /\ MaxRetries \in Nat

NoDatum == 0
Datum   == 1 .. MaxRequests

VARIABLES
  \* circular_buffer
  head, tail, slot, poppedCount,
  \* FastCallStruct
  keepPolling,
  \* the producer's control state, the datum it requests, its numRetries
  pState, request, numRetries,
  \* the consumer's control state
  cState,
  \* history: pushed data, data given up, data the callback has read
  accepted, dropped, received

producerVars == <<pState, request, numRetries, accepted, dropped>>
consumerVars == <<cState, poppedCount, received>>
vars == <<head, tail, slot, keepPolling, producerVars, consumerVars>>

Init ==
  /\ head = 0
  /\ tail = 0
  /\ slot = [i \in Index |-> NoDatum]
  /\ poppedCount = 0
  /\ keepPolling = TRUE
  /\ pState = "idle"
  /\ request = 0
  /\ numRetries = 0
  /\ cState = "poll"
  /\ accepted = <<>>
  /\ dropped = {}
  /\ received = <<>>
-------------------------------------------------------------------------------
(* The producer.                                                            *)

(* The thread calls FastCall_request for its next datum.                    *)
Request ==
  /\ pState = "idle"
  /\ request < MaxRequests
  /\ request' = request + 1
  /\ numRetries' = 0
  /\ pState' = "push"
  /\ UNCHANGED <<head, tail, slot, keepPolling, accepted, dropped, consumerVars>>

(* circular_buffer_push finds the ring full: retry, or return -1 when the   *)
(* retries are used up.  No caller looks at the -1: the datum is gone.      *)
PushFull ==
  /\ pState = "push"
  /\ IsFull(head, tail)
  /\ numRetries' = numRetries + 1
  /\ IF numRetries' > MaxRetries
     THEN pState' = "idle" /\ dropped' = dropped \cup {request}
     ELSE UNCHANGED <<pState, dropped>>
  /\ UNCHANGED <<head, tail, slot, keepPolling, request, accepted, consumerVars>>

(* Mutation: a push that takes the last free slot too.                      *)
PushBeginOverrun ==
  /\ pState = "push"
  /\ slot' = [slot EXCEPT ![head] = NoDatum]
  /\ pState' = "copy"
  /\ UNCHANGED <<head, tail, keepPolling, request, numRetries, accepted, dropped,
                 consumerVars>>

(* The ring has a free slot: the memcpy into slot head begins ...           *)
PushBegin ==
  /\ pState = "push"
  /\ ~IsFull(head, tail)
  /\ slot' = [slot EXCEPT ![head] = NoDatum]
  /\ pState' = "copy"
  /\ UNCHANGED <<head, tail, keepPolling, request, numRetries, accepted, dropped,
                 consumerVars>>

(* ... and is complete.                                                     *)
PushCopied ==
  /\ pState = "copy"
  /\ slot' = [slot EXCEPT ![head] = request]
  /\ pState' = "publish"
  /\ UNCHANGED <<head, tail, keepPolling, request, numRetries, accepted, dropped,
                 consumerVars>>

(* head = next: from here on the consumer sees the datum.                   *)
Publish ==
  /\ pState = "publish"
  /\ head' = NextIndex(head)
  /\ accepted' = Append(accepted, request)
  /\ pState' = "idle"
  /\ UNCHANGED <<tail, slot, keepPolling, request, numRetries, dropped, consumerVars>>

(* The thread returns between two requests (a stream may be of any length). *)
ProducerEnds ==
  /\ pState = "idle"
  /\ pState' = "ended"
  /\ UNCHANGED <<head, tail, slot, keepPolling, request, numRetries, accepted, dropped,
                 consumerVars>>

(* One FastCall_request under way.                                          *)
FastCall_request == PushFull \/ PushBegin \/ PushCopied \/ Publish

Producer == Request \/ FastCall_request \/ ProducerEnds
-------------------------------------------------------------------------------
(* The consumer.                                                            *)

(* circular_buffer_pop finds no datum.                                      *)
PopEmpty ==
  /\ cState = "poll"
  /\ IsEmpty(head, tail)
  /\ cState' = "checkFlag"
  /\ UNCHANGED <<head, tail, slot, keepPolling, poppedCount, received, producerVars>>

(* circular_buffer_pop returns a pointer to slot tail; tail stays.          *)
PopDatum ==
  /\ cState = "poll"
  /\ ~IsEmpty(head, tail)
  /\ cState' = "callback"
  /\ UNCHANGED <<head, tail, slot, keepPolling, poppedCount, received, producerVars>>

(* The callback (or the decryption before it) reads the datum in its slot.  *)
Callback ==
  /\ cState = "callback"
  /\ received' = Append(received, slot[tail])
  /\ cState' = "advance"
  /\ UNCHANGED <<head, tail, slot, keepPolling, poppedCount, producerVars>>

(* Mutation: the advance skips everything pushed meanwhile.                 *)
AdvanceToHead ==
  /\ cState = "advance"
  /\ tail' = head
  /\ cState' = "count"
  /\ UNCHANGED <<head, slot, keepPolling, poppedCount, received, producerVars>>

(* After the callback: the slot is given back to the producer.              *)
Advance ==
  /\ cState = "advance"
  /\ tail' = NextIndex(tail)
  /\ cState' = "count"
  /\ UNCHANGED <<head, slot, keepPolling, poppedCount, received, producerVars>>

(* popped_count += 1 under lock_count.                                      *)
CountPopped ==
  /\ cState = "count"
  /\ poppedCount' = poppedCount + 1
  /\ cState' = "poll"
  /\ UNCHANGED <<head, tail, slot, keepPolling, received, producerVars>>

(* Mutation: the responder gives up at the first empty ring.                *)
CheckFlagImpatient ==
  /\ cState = "checkFlag"
  /\ cState' = "flush"
  /\ UNCHANGED <<head, tail, slot, keepPolling, poppedCount, received, producerVars>>

(* Mutation: the flag is not looked at.                                     *)
CheckFlagIgnored ==
  /\ cState = "checkFlag"
  /\ cState' = "poll"
  /\ UNCHANGED <<head, tail, slot, keepPolling, poppedCount, received, producerVars>>

(* keepPolling is read after, not together with, the empty pop.             *)
CheckFlag ==
  /\ cState = "checkFlag"
  /\ cState' = IF keepPolling THEN "poll" ELSE "flush"
  /\ UNCHANGED <<head, tail, slot, keepPolling, poppedCount, received, producerVars>>

(* callback(NULL), the end of the stream; then the thread returns.          *)
Flush ==
  /\ cState = "flush"
  /\ cState' = "ended"
  /\ UNCHANGED <<head, tail, slot, keepPolling, poppedCount, received, producerVars>>

FastCall_wait ==
  \/ PopEmpty \/ PopDatum \/ Callback \/ Advance \/ CountPopped \/ CheckFlag \/ Flush
-------------------------------------------------------------------------------
(* Mutation: the responder is stopped without joining the producer.         *)
StopFastCallResponderEarly ==
  /\ keepPolling
  /\ keepPolling' = FALSE
  /\ UNCHANGED <<head, tail, slot, producerVars, consumerVars>>

(* Main: pthread_join of the producer has returned; StopFastCallResponder.  *)
StopFastCallResponder ==
  /\ pState = "ended"
  /\ keepPolling
  /\ keepPolling' = FALSE
  /\ UNCHANGED <<head, tail, slot, producerVars, consumerVars>>

(* Main's pthread_join of the consumer returns: nothing is left to happen.  *)
Joined ==
  /\ cState = "ended"
  /\ UNCHANGED vars

Next == Producer \/ FastCall_wait \/ StopFastCallResponder \/ Joined

(* A thread that can run runs eventually: the operating system's scheduler. *)
(* When the producer makes its next request, or ends, is its own affair.    *)
Fairness ==
  /\ WF_vars(FastCall_request)
  /\ WF_vars(FastCall_wait)
  /\ WF_vars(StopFastCallResponder)

Spec == Init /\ [][Next]_vars

FairSpec == Spec /\ Fairness
-------------------------------------------------------------------------------
(* Data in the ring, oldest first.                                          *)
Contents == [k \in 1 .. Held(head, tail) |-> slot[Ahead(tail, k - 1)]]

(* How many data have been released: a callback that has read its datum     *)
(* but not advanced still holds it.                                         *)
Released == IF cState = "advance" THEN Len(received) - 1 ELSE Len(received)

TypeOK ==
  /\ head \in Index
  /\ tail \in Index
  /\ slot \in [Index -> Datum \cup {NoDatum}]
  /\ poppedCount \in Nat
  /\ keepPolling \in BOOLEAN
  /\ pState \in {"idle", "push", "copy", "publish", "ended"}
  /\ request \in 0 .. MaxRequests
  /\ numRetries \in Nat
  /\ cState \in {"poll", "callback", "advance", "count", "checkFlag", "flush", "ended"}
  /\ accepted \in Seq(Datum)
  /\ dropped \in SUBSET Datum
  /\ received \in Seq(Datum)

(* The slot the producer copies into is never the one the consumer's        *)
(* callback works on, although the pop hands out a pointer into the ring    *)
(* and no lock is held.                                                     *)
NoSlotShared ==
  ~ (pState \in {"copy", "publish"} /\ cState \in {"callback", "advance"} /\ head = tail)

(* First in, first out, without loss, duplicate or torn datum on the way:   *)
(* what the callback has read is the beginning of what was pushed, and the  *)
(* ring holds the rest.                                                     *)
Fifo ==
  /\ Len(accepted) = Released + Held(head, tail)
  /\ \A k \in 1 .. Len(received) : received[k] = accepted[k]
  /\ \A k \in 1 .. Held(head, tail) : slot[Ahead(tail, k - 1)] = accepted[Released + k]

(* What holds along the way and makes Fifo inductive: a push under way has   *)
(* its free slot, and a copied datum is in it; a callback under way has its *)
(* datum.                                                                   *)
PushInProgress ==
  /\ pState \in {"push", "copy", "publish"} => request \in Datum
  /\ pState \in {"copy", "publish"} => ~IsFull(head, tail)
  /\ pState = "publish" => slot[head] = request

PopInProgress ==
  /\ cState \in {"callback", "advance"} => ~IsEmpty(head, tail)
  /\ cState = "advance" => received # <<>>

(* The order of the shutdown: producer joined, flag cleared, flag seen.     *)
ShutdownOrder ==
  /\ ~keepPolling => pState = "ended"
  /\ cState \in {"flush", "ended"} => ~keepPolling

IInv == TypeOK /\ Fifo /\ PushInProgress /\ PopInProgress /\ ShutdownOrder

(* Once the callback has been told the end of the stream the channel is     *)
(* dead: no push and no pop will ever move it again.  It needs main to join *)
(* the producer before it stops the responder.                              *)
QuietAfterEnd ==
  [][cState = "ended" => UNCHANGED <<head, tail, slot, accepted, received>>]_vars

(* Once the producer has ended, the responder thread returns too: the join  *)
(* main waits in returns.                                                   *)
ResponderReturns == (pState = "ended") ~> (cState = "ended")

(* A datum that was pushed reaches the callback even if nothing follows it, *)
(* unless main stops the responder first.                                   *)
Delivery ==
  \A k \in 1 .. MaxRequests :
    Len(accepted) >= k ~> (Len(received) >= k \/ ~keepPolling)

(* The promise made in StreamChannel.tla.                                   *)
Channel == INSTANCE StreamChannel WITH
  Item      <- Datum,
  Capacity  <- MaxLen - 1,
  queue     <- Contents,
  inHand    <- cState = "advance",
  delivered <- received,
  sender    <- IF pState = "ended" THEN "closed" ELSE "open",
  receiver  <- IF cState = "ended" THEN "ended"
               ELSE IF keepPolling THEN "polling" ELSE "stopping"

ImplementsChannel == Channel!Spec

(* Everything pushed has been through the callback when the responder ends. *)
(* This is what the results of a query rely on; the code does not do it.    *)
NothingLeftBehind == cState = "ended" => received = accepted
===============================================================================
