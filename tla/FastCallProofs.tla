---------------------------- MODULE FastCallProofs ----------------------------
(***************************************************************************)
(* Proofs about FastCall for every ring length, number of requests and      *)
(* number of retries.                                                       *)
(***************************************************************************)
EXTENDS FastCall, SequenceTheorems, TLAPS

(* The indices stay in the ring.                                            *)
LEMMA IndexArithmetic ==
  ASSUME NEW h \in Index, NEW t \in Index
  PROVE  /\ NextIndex(h) \in Index
         /\ Held(h, t) \in 0 .. MaxLen - 1
         /\ Held(h, t) = 0 <=> h = t
         /\ ~IsFull(h, t) => Held(NextIndex(h), t) = Held(h, t) + 1
         /\ h # t => Held(h, NextIndex(t)) = Held(h, t) - 1
         /\ Ahead(t, 0) = t
         /\ Ahead(t, Held(h, t)) = h
         /\ \A k \in 0 .. Held(h, t) : Ahead(t, k) \in Index
  BY MaxLenAssumption DEF Index, NextIndex, Held, IsFull, Ahead

(* Slots held are not the slot of the next push, and advancing the tail     *)
(* renumbers them by one.                                                   *)
LEMMA SlotArithmetic ==
  ASSUME NEW h \in Index, NEW t \in Index, NEW k \in 1 .. Held(h, t)
  PROVE  /\ Ahead(t, k - 1) # h
         /\ h # t => Ahead(NextIndex(t), k - 1) = Ahead(t, k)
                     \/ k = Held(h, t)
  BY MaxLenAssumption DEF Index, NextIndex, Held, Ahead
-------------------------------------------------------------------------------
(* The empty ring of a fresh channel satisfies the invariant.               *)
LEMMA InitIInv == Init => IInv
<1> SUFFICES ASSUME Init PROVE IInv
  OBVIOUS
<1>1. /\ 0 \in Index
      /\ Held(0, 0) = 0
  BY MaxLenAssumption DEF Index, Held
<1>2. TypeOK
  BY <1>1, FastCallAssumption DEF Init, TypeOK, Index, Datum, NoDatum
<1>3. Fifo
  BY <1>1 DEF Init, Fifo, Released
<1>4. PushInProgress /\ PopInProgress /\ ShutdownOrder
  BY DEF Init, PushInProgress, PopInProgress, ShutdownOrder
<1> QED
  BY <1>2, <1>3, <1>4 DEF IInv

(* Types do not depend on the rest, but for the data a callback reads.      *)
LEMMA StepTypeOK == IInv /\ [Next]_vars => TypeOK'
<1>0. SUFFICES ASSUME IInv, [Next]_vars PROVE TypeOK'
  OBVIOUS
<1>a. TypeOK /\ Fifo /\ PushInProgress /\ PopInProgress
  BY <1>0 DEF IInv
<1> USE DEF TypeOK, producerVars, consumerVars
<1>1. CASE Request
  BY <1>a, <1>1, FastCallAssumption DEF Request
<1>2. CASE PushFull
  BY <1>a, <1>2 DEF PushFull, PushInProgress
<1>3. CASE PushBegin
  BY <1>a, <1>3 DEF PushBegin
<1>4. CASE PushCopied
  BY <1>a, <1>4 DEF PushCopied, PushInProgress
<1>5. CASE Publish
  BY <1>a, <1>5, IndexArithmetic DEF Publish, PushInProgress
<1>6. CASE ProducerEnds
  BY <1>a, <1>6 DEF ProducerEnds
<1>7. CASE PopEmpty
  BY <1>a, <1>7 DEF PopEmpty
<1>8. CASE PopDatum
  BY <1>a, <1>8 DEF PopDatum
<1>9. CASE Callback
  <2>1. head \in Index /\ tail \in Index /\ head # tail
    BY <1>9, <1>a DEF Callback, PopInProgress, IsEmpty
  <2>2. Held(head, tail) \in Nat /\ Held(head, tail) >= 1 /\ Ahead(tail, 0) = tail
    BY <2>1, IndexArithmetic, MaxLenAssumption
  <2>3. Released = Len(received)
    BY <1>9 DEF Callback, Released
  <2>4. slot[tail] = accepted[Len(received) + 1]
    BY <1>a, <2>2, <2>3 DEF Fifo
  <2>5. accepted[Len(received) + 1] \in Datum
    BY <1>a, <2>2, <2>3 DEF Fifo
  <2> QED
    BY <1>9, <1>a, <2>4, <2>5 DEF Callback
<1>10. CASE Advance
  BY <1>a, <1>10, IndexArithmetic DEF Advance
<1>11. CASE CountPopped
  BY <1>a, <1>11 DEF CountPopped
<1>12. CASE CheckFlag
  BY <1>a, <1>12 DEF CheckFlag
<1>13. CASE Flush
  BY <1>a, <1>13 DEF Flush
<1>14. CASE StopFastCallResponder
  BY <1>a, <1>14 DEF StopFastCallResponder
<1>15. CASE UNCHANGED vars
  BY <1>a, <1>15 DEF vars
<1> QED
  BY <1>0, <1>1, <1>2, <1>3, <1>4, <1>5, <1>6, <1>7, <1>8, <1>9, <1>10, <1>11, <1>12,
     <1>13, <1>14, <1>15
     DEF Next, Producer, FastCall_request, FastCall_wait, Joined

(* Main clears the flag after the producer's end, the consumer ends after   *)
(* the flag.                                                                *)
LEMMA StepShutdownOrder == IInv /\ [Next]_vars => ShutdownOrder'
<1>0. SUFFICES ASSUME IInv, [Next]_vars PROVE ShutdownOrder'
  OBVIOUS
<1>a. TypeOK /\ ShutdownOrder
  BY <1>0 DEF IInv
<1>1. CASE Request \/ FastCall_request
  BY <1>a, <1>1 DEF ShutdownOrder, Request, FastCall_request, PushFull, PushBegin,
                    PushCopied, Publish, consumerVars
<1>2. CASE ProducerEnds \/ StopFastCallResponder
  BY <1>a, <1>2 DEF ShutdownOrder, ProducerEnds, StopFastCallResponder, producerVars,
                    consumerVars
<1>3. CASE FastCall_wait
  BY <1>a, <1>3 DEF ShutdownOrder, TypeOK, FastCall_wait, PopEmpty, PopDatum, Callback,
                    Advance, CountPopped, CheckFlag, Flush, producerVars
<1>4. CASE UNCHANGED vars
  BY <1>a, <1>4 DEF ShutdownOrder, vars, producerVars, consumerVars
<1> QED
  BY <1>0, <1>1, <1>2, <1>3, <1>4 DEF Next, Producer, Joined

(* No push makes the ring look empty under a callback.                      *)
LEMMA StepPopInProgress == IInv /\ [Next]_vars => PopInProgress'
<1>0. SUFFICES ASSUME IInv, [Next]_vars PROVE PopInProgress'
  OBVIOUS
<1>a. TypeOK /\ PushInProgress /\ PopInProgress
  BY <1>0 DEF IInv
<1> USE DEF PopInProgress, IsEmpty
<1>1. CASE Request \/ PushFull \/ PushBegin \/ PushCopied \/ ProducerEnds
  BY <1>a, <1>1 DEF Request, PushFull, PushBegin, PushCopied, ProducerEnds, consumerVars
<1>2. CASE Publish
  (* head moves, but not onto tail: the ring was not full.                  *)
  BY <1>a, <1>2 DEF Publish, PushInProgress, IsFull, consumerVars
<1>3. CASE PopEmpty \/ PopDatum \/ CountPopped \/ CheckFlag \/ Flush \/ Advance
  BY <1>a, <1>3 DEF PopEmpty, PopDatum, CountPopped, CheckFlag, Flush, Advance
<1>4. CASE Callback
  <2>1. received' # <<>>
    BY <1>a, <1>4 DEF Callback, TypeOK
  <2> QED
    BY <1>a, <1>4, <2>1 DEF Callback
<1>5. CASE StopFastCallResponder \/ UNCHANGED vars
  BY <1>a, <1>5 DEF StopFastCallResponder, vars, consumerVars
<1> QED
  BY <1>0, <1>1, <1>2, <1>3, <1>4, <1>5
     DEF Next, Producer, FastCall_request, FastCall_wait, Joined

(* No pop takes the free slot from a push that has found it.                *)
LEMMA StepPushInProgress == IInv /\ [Next]_vars => PushInProgress'
<1>0. SUFFICES ASSUME IInv, [Next]_vars PROVE PushInProgress'
  OBVIOUS
<1>a. TypeOK /\ PushInProgress /\ PopInProgress
  BY <1>0 DEF IInv
<1> USE DEF PushInProgress, IsFull
<1>1. CASE Request
  BY <1>a, <1>1, FastCallAssumption DEF Request, TypeOK, Datum
<1>2. CASE PushFull
  BY <1>a, <1>2 DEF PushFull
<1>3. CASE PushBegin
  BY <1>a, <1>3 DEF PushBegin
<1>4. CASE PushCopied
  BY <1>a, <1>4 DEF PushCopied, TypeOK
<1>5. CASE Publish \/ ProducerEnds
  BY <1>a, <1>5 DEF Publish, ProducerEnds
<1>6. CASE PopEmpty \/ PopDatum \/ Callback \/ CountPopped \/ CheckFlag \/ Flush
  BY <1>a, <1>6 DEF PopEmpty, PopDatum, Callback, CountPopped, CheckFlag, Flush,
                    producerVars
<1>7. CASE Advance
  (* tail moves on, and can only reach head, never the slot after it.       *)
  <2>1. head \in Index /\ tail \in Index /\ head # tail /\ tail' = NextIndex(tail)
    BY <1>a, <1>7 DEF Advance, TypeOK, PopInProgress, IsEmpty
  <2>2. NextIndex(head) # NextIndex(tail)
    BY <2>1, MaxLenAssumption DEF NextIndex, Index
  <2> QED
    BY <1>a, <1>7, <2>1, <2>2 DEF Advance, producerVars
<1>8. CASE StopFastCallResponder \/ UNCHANGED vars
  BY <1>a, <1>8 DEF StopFastCallResponder, vars, producerVars
<1> QED
  BY <1>0, <1>1, <1>2, <1>3, <1>4, <1>5, <1>6, <1>7, <1>8
     DEF Next, Producer, FastCall_request, FastCall_wait, Joined

(* Each push and each release keeps history, ring and callbacks in step.    *)
LEMMA StepFifo == IInv /\ [Next]_vars => Fifo'
<1>0. SUFFICES ASSUME IInv, [Next]_vars PROVE Fifo'
  OBVIOUS
<1>a. TypeOK /\ Fifo /\ PushInProgress /\ PopInProgress
  BY <1>0 DEF IInv
<1>b. received \in Seq(Datum) /\ accepted \in Seq(Datum)
  BY <1>a DEF TypeOK
<1>i. head \in Index /\ tail \in Index
  BY <1>a DEF TypeOK
<1>c. Held(head, tail) \in Nat /\ Held(head, tail) < MaxLen
  BY <1>i, IndexArithmetic, MaxLenAssumption
<1>h. Len(received) <= Len(accepted)
  <2>1. cState = "advance" => Held(head, tail) # 0
    BY <1>a, <1>i, IndexArithmetic DEF PopInProgress, IsEmpty
  <2>2. Len(accepted) = Released + Held(head, tail) /\ Len(received) \in Nat
    BY <1>a, <1>b DEF Fifo
  <2> QED
    BY <1>c, <2>1, <2>2 DEF Released
<1>1. CASE Request \/ PushFull \/ ProducerEnds
  BY <1>a, <1>1 DEF Fifo, Released, Request, PushFull, ProducerEnds, consumerVars
<1>2. CASE PushBegin \/ PushCopied
  (* Only slot head changes, which holds no datum yet.                      *)
  <2>1. /\ UNCHANGED <<head, tail, accepted, received, cState>>
        /\ \A i \in Index \ {head} : slot'[i] = slot[i]
    BY <1>a, <1>2 DEF PushBegin, PushCopied, TypeOK, consumerVars
  <2>2. \A k \in 1 .. Held(head, tail) : slot'[Ahead(tail, k - 1)] = slot[Ahead(tail, k - 1)]
    <3> TAKE k \in 1 .. Held(head, tail)
    <3>1. Ahead(tail, k - 1) # head
      BY <1>i, SlotArithmetic
    <3>2. k - 1 \in 0 .. Held(head, tail)
      BY <1>c
    <3>3. Ahead(tail, k - 1) \in Index
      BY <1>i, <3>2, IndexArithmetic
    <3> QED
      BY <2>1, <3>1, <3>3
  <2> QED
    BY <1>a, <2>1, <2>2 DEF Fifo, Released
<1>3. CASE Publish
  <2>1. /\ head' = NextIndex(head)
        /\ accepted' = Append(accepted, request)
        /\ UNCHANGED <<tail, slot, received, cState>>
        /\ request \in Datum
        /\ slot[head] = request
        /\ ~IsFull(head, tail)
    BY <1>a, <1>3 DEF Publish, PushInProgress, consumerVars
  <2>2. Held(head', tail') = Held(head, tail) + 1
    BY <1>i, <2>1, IndexArithmetic
  <2>3. Released \in Nat /\ Released' = Released
    BY <1>a, <1>b, <2>1 DEF Released, PopInProgress
  <2>4. Len(accepted') = Released' + Held(head', tail')
    <3>1. Len(accepted') = Len(accepted) + 1
      BY <1>b, <2>1
    <3> QED
      BY <1>a, <1>c, <2>2, <2>3, <3>1 DEF Fifo
  <2>5. \A k \in 1 .. Len(received') : received'[k] = accepted'[k]
    BY <1>a, <1>b, <1>h, <2>1 DEF Fifo
  <2>6. ASSUME NEW k \in 1 .. Held(head', tail')
        PROVE  slot'[Ahead(tail', k - 1)] = accepted'[Released' + k]
    <3>1. CASE k <= Held(head, tail)
      <4>1. k \in 1 .. Held(head, tail)
        BY <1>c, <2>2, <3>1
      <4>2. slot[Ahead(tail, k - 1)] = accepted[Released + k]
        BY <1>a, <4>1 DEF Fifo
      <4>3. Released + k \in 1 .. Len(accepted)
        BY <1>a, <1>c, <2>3, <4>1 DEF Fifo
      <4>4. accepted'[Released + k] = accepted[Released + k]
        BY <1>b, <2>1, <4>3
      <4> QED
        BY <2>1, <2>3, <4>2, <4>4
    <3>2. CASE k = Held(head, tail) + 1
      <4>1. Ahead(tail, k - 1) = head
        <5>1. k - 1 = Held(head, tail)
          BY <1>c, <3>2
        <5> QED
          BY <1>i, <5>1, IndexArithmetic
      <4>2. Released + k = Len(accepted) + 1
        BY <1>a, <1>c, <2>3, <3>2 DEF Fifo
      <4>3. accepted'[Released + k] = request
        BY <1>b, <2>1, <4>2
      <4> QED
        BY <2>1, <2>3, <4>1, <4>3
    <3> QED
      BY <1>c, <2>2, <3>1, <3>2
  <2> QED
    BY <2>4, <2>5, <2>6 DEF Fifo
<1>4. CASE PopEmpty \/ PopDatum \/ CountPopped \/ CheckFlag \/ Flush
  BY <1>a, <1>4 DEF Fifo, Released, PopEmpty, PopDatum, CountPopped, CheckFlag, Flush,
                    producerVars
<1>5. CASE Callback
  <2>1. /\ cState = "callback" /\ cState' = "advance"
        /\ received' = Append(received, slot[tail])
        /\ UNCHANGED <<head, tail, slot, accepted>>
    BY <1>5 DEF Callback, producerVars
  <2>2. Held(head, tail) >= 1 /\ Ahead(tail, 0) = tail
    <3>1. head # tail
      BY <1>a, <2>1 DEF PopInProgress, IsEmpty
    <3>2. Held(head, tail) # 0 /\ Ahead(tail, 0) = tail
      BY <1>i, <3>1, IndexArithmetic
    <3> QED
      BY <1>c, <3>2
  <2>3. slot[tail] = accepted[Len(received) + 1]
    BY <1>a, <1>c, <2>1, <2>2 DEF Fifo, Released
  <2>4. slot[tail] \in Datum
    BY <1>a, <1>b, <1>c, <2>1, <2>2, <2>3 DEF Fifo, Released
  <2>5. Released = Len(received) /\ Released' = Len(received)
    BY <1>b, <2>1, <2>4 DEF Released
  <2>6. \A k \in 1 .. Len(received') : received'[k] = accepted'[k]
    BY <1>a, <1>b, <2>1, <2>3, <2>4 DEF Fifo
  <2> QED
    BY <1>a, <2>1, <2>5, <2>6 DEF Fifo
<1>6. CASE Advance
  <2>1. /\ cState = "advance" /\ cState' = "count"
        /\ tail' = NextIndex(tail)
        /\ UNCHANGED <<head, slot, received, accepted>>
        /\ head # tail
        /\ received # <<>>
    BY <1>a, <1>6 DEF Advance, producerVars, PopInProgress, IsEmpty
  <2>2. Held(head', tail') = Held(head, tail) - 1
    BY <1>i, <2>1, IndexArithmetic
  <2>3. Released = Len(received) - 1 /\ Released' = Len(received) /\ Len(received) \in Nat
    BY <1>b, <2>1 DEF Released
  <2>4. Len(accepted') = Released' + Held(head', tail')
    BY <1>a, <1>c, <2>1, <2>2, <2>3 DEF Fifo
  <2>5. ASSUME NEW k \in 1 .. Held(head', tail')
        PROVE  slot'[Ahead(tail', k - 1)] = accepted'[Released' + k]
    <3>1. k \in 1 .. Held(head, tail) /\ k + 1 \in 1 .. Held(head, tail) /\ k # Held(head, tail)
      BY <1>c, <2>2
    <3>2. Ahead(tail', k - 1) = Ahead(tail, (k + 1) - 1)
      BY <1>i, <2>1, <3>1, SlotArithmetic
    <3>3. slot[Ahead(tail, (k + 1) - 1)] = accepted[Released + (k + 1)]
      BY <1>a, <3>1 DEF Fifo
    <3>4. Released + (k + 1) = Released' + k
      BY <2>3, <3>1
    <3> QED
      BY <2>1, <3>2, <3>3, <3>4
  <2> QED
    BY <1>a, <2>1, <2>4, <2>5 DEF Fifo
<1>7. CASE StopFastCallResponder \/ UNCHANGED vars
  BY <1>a, <1>7 DEF Fifo, Released, StopFastCallResponder, vars, producerVars, consumerVars
<1> QED
  BY <1>0, <1>1, <1>2, <1>3, <1>4, <1>5, <1>6, <1>7
     DEF Next, Producer, FastCall_request, FastCall_wait, Joined

(* IInv is inductive and holds of every reachable state, for every size of  *)
(* the ring and every length of the stream.                                 *)
THEOREM Invariance == Spec => []IInv
<1>1. Init => IInv
  BY InitIInv
<1>2. IInv /\ [Next]_vars => IInv'
  BY StepTypeOK, StepFifo, StepPushInProgress, StepPopInProgress, StepShutdownOrder DEF IInv
<1> QED
  BY <1>1, <1>2, PTL DEF Spec
-------------------------------------------------------------------------------
(* Indices, slots and histories stay in range; in particular a callback     *)
(* never reads a slot that holds no whole datum.                            *)
THEOREM TypeCorrect == Spec => []TypeOK
<1>1. IInv => TypeOK
  BY DEF IInv
<1> QED
  BY <1>1, Invariance, PTL

(* The callback's slot and the slot of the memcpy are different.            *)
THEOREM SlotExclusion == Spec => []NoSlotShared
<1>1. IInv => NoSlotShared
  BY DEF IInv, PopInProgress, IsEmpty, NoSlotShared
<1> QED
  BY <1>1, Invariance, PTL

(* The callback reads what was pushed, in order, once.                      *)
THEOREM FifoOrder == Spec => []Fifo
<1>1. IInv => Fifo
  BY DEF IInv
<1> QED
  BY <1>1, Invariance, PTL

(* Nothing moves once the responder has ended.                              *)
THEOREM ChannelQuiet == Spec => QuietAfterEnd
<1>1. IInv /\ [Next]_vars => [cState = "ended" => UNCHANGED <<head, tail, slot, accepted, received>>]_vars
  <2> SUFFICES ASSUME ShutdownOrder, Next, cState = "ended"
               PROVE  UNCHANGED <<head, tail, slot, accepted, received>>
    BY DEF IInv
  <2>1. pState = "ended"
    BY DEF ShutdownOrder
  <2>2. ~ Producer
    BY <2>1 DEF Producer, FastCall_request, Request, PushFull, PushBegin, PushCopied,
                Publish, ProducerEnds
  <2>3. ~ FastCall_wait
    BY DEF FastCall_wait, PopEmpty, PopDatum, Callback, Advance, CountPopped, CheckFlag,
           Flush
  <2>4. CASE StopFastCallResponder
    BY <2>4 DEF StopFastCallResponder, producerVars, consumerVars
  <2>5. CASE Joined
    BY <2>5 DEF Joined, vars, producerVars, consumerVars
  <2> QED
    BY <2>2, <2>3, <2>4, <2>5 DEF Next
<1> QED
  BY <1>1, Invariance, PTL DEF Spec, QuietAfterEnd
-------------------------------------------------------------------------------
(* Lemmas for the refinement: what a push and a release do to Contents.     *)
LEMMA ContentsType ==
  ASSUME IInv
  PROVE  /\ Contents \in Seq(Datum)
         /\ Len(Contents) = Held(head, tail)
         /\ Held(head, tail) \in 0 .. MaxLen - 1
<1>1. Held(head, tail) \in 0 .. MaxLen - 1
  BY IndexArithmetic DEF IInv, TypeOK
<1>2. Held(head, tail) \in Nat
  BY <1>1, MaxLenAssumption
<1>3. ASSUME NEW k \in 1 .. Held(head, tail)
      PROVE  slot[Ahead(tail, k - 1)] \in Datum
  <2>1. slot[Ahead(tail, k - 1)] = accepted[Released + k]
    BY DEF IInv, Fifo
  <2>2. Released + k \in 1 .. Len(accepted)
    <3>1. Released \in Nat
      BY DEF IInv, TypeOK, PopInProgress, Released
    <3>2. Len(accepted) = Released + Held(head, tail)
      BY DEF IInv, Fifo
    <3> QED
      BY <1>2, <3>1, <3>2
  <2>3. accepted \in Seq(Datum)
    BY DEF IInv, TypeOK
  <2> QED
    BY <2>1, <2>2, <2>3
<1>4. Contents \in [1 .. Held(head, tail) -> Datum]
  BY <1>3 DEF Contents
<1> QED
  BY <1>1, <1>2, <1>4

(* A publish appends the requested datum to Contents.                       *)
LEMMA PublishAppends ==
  ASSUME IInv, Publish
  PROVE  /\ Contents' = Append(Contents, request)
         /\ Len(Contents) < MaxLen - 1
         /\ request \in Datum
<1>0. /\ head \in Index /\ tail \in Index
      /\ head' = NextIndex(head) /\ UNCHANGED <<tail, slot>>
      /\ slot[head] = request /\ request \in Datum /\ ~IsFull(head, tail)
  BY DEF Publish, IInv, TypeOK, PushInProgress
<1> DEFINE n == Held(head, tail)
<1>1. Contents \in Seq(Datum) /\ Len(Contents) = n /\ n \in Nat
  BY ContentsType, MaxLenAssumption
<1>2. Held(head', tail') = n + 1
  BY <1>0, IndexArithmetic
<1>3. n < MaxLen - 1
  <2>1. head' \in Index /\ tail' \in Index
    BY <1>0, IndexArithmetic
  <2>2. Held(head', tail') \in 0 .. MaxLen - 1
    BY <2>1, IndexArithmetic
  <2> QED
    BY <1>1, <1>2, <2>2, MaxLenAssumption
<1>4. Contents' = [k \in 1 .. n + 1 |-> slot[Ahead(tail, k - 1)]]
  BY <1>0, <1>2 DEF Contents
<1>5. \A k \in 1 .. n : Contents[k] = slot[Ahead(tail, k - 1)]
  BY DEF Contents
<1>6. slot[Ahead(tail, (n + 1) - 1)] = request
  <2>1. (n + 1) - 1 = n
    BY <1>1
  <2> QED
    BY <1>0, <2>1, IndexArithmetic
<1> HIDE DEF n
<1>7. Append(Contents, request) = [k \in 1 .. n + 1 |-> slot[Ahead(tail, k - 1)]]
  <2>1. /\ Append(Contents, request) \in Seq(Datum)
        /\ Len(Append(Contents, request)) = n + 1
    BY <1>0, <1>1
  <2>2. ASSUME NEW k \in 1 .. n + 1
        PROVE  Append(Contents, request)[k] = slot[Ahead(tail, k - 1)]
    BY <1>0, <1>1, <1>5, <1>6
  <2>3. Append(Contents, request) \in [1 .. n + 1 -> Datum]
    BY <2>1, LenProperties
  <2> QED
    BY <2>2, <2>3
<1> QED
  BY <1>0, <1>1, <1>3, <1>4, <1>7

(* An advance removes the oldest datum from Contents.                       *)
LEMMA AdvanceRemoves ==
  ASSUME IInv, Advance
  PROVE  Contents' = Tail(Contents)
<1>0. /\ head \in Index /\ tail \in Index /\ head # tail
      /\ tail' = NextIndex(tail) /\ UNCHANGED <<head, slot>>
  BY DEF Advance, IInv, TypeOK, PopInProgress, IsEmpty
<1> DEFINE n == Held(head, tail)
<1>1. Contents \in Seq(Datum) /\ Len(Contents) = n /\ n \in Nat
  BY ContentsType, MaxLenAssumption
<1>2. Held(head', tail') = n - 1 /\ n # 0
  BY <1>0, IndexArithmetic
<1>3. Contents' = [k \in 1 .. n - 1 |-> slot[Ahead(tail', k - 1)]]
  BY <1>0, <1>2 DEF Contents
<1>4. ASSUME NEW k \in 1 .. n - 1
      PROVE  slot[Ahead(tail', k - 1)] = Contents[k + 1]
  <2>1. k \in 1 .. n /\ k + 1 \in 1 .. n /\ k # n
    BY <1>1
  <2>2. Ahead(tail', k - 1) = Ahead(tail, (k + 1) - 1)
    <3>1. Ahead(NextIndex(tail), k - 1) = Ahead(tail, k)
      BY <1>0, <2>1, SlotArithmetic
    <3>2. (k + 1) - 1 = k
      BY <2>1
    <3> QED
      BY <1>0, <3>1, <3>2
  <2>3. Contents[k + 1] = slot[Ahead(tail, (k + 1) - 1)]
    BY <2>1 DEF Contents
  <2> QED
    BY <2>2, <2>3
<1> HIDE DEF n
<1>5. Tail(Contents) = [k \in 1 .. n - 1 |-> Contents[k + 1]]
  <2>1. Tail(Contents) \in Seq(Datum) /\ Len(Tail(Contents)) = n - 1
    BY <1>1, <1>2
  <2>2. ASSUME NEW k \in 1 .. n - 1
        PROVE  Tail(Contents)[k] = Contents[k + 1]
    BY <1>1, <1>2
  <2>3. Tail(Contents) \in [1 .. n - 1 -> Datum]
    BY <2>1, LenProperties
  <2> QED
    BY <2>2, <2>3
<1> QED
  BY <1>3, <1>4, <1>5

(* A step that moves no index and copies into the free slot only leaves     *)
(* Contents alone.                                                          *)
LEMMA ContentsUnchanged ==
  ASSUME IInv, UNCHANGED <<head, tail>>, slot' = slot \/ PushBegin \/ PushCopied
  PROVE  Contents' = Contents
<1>1. head \in Index /\ tail \in Index
  BY DEF IInv, TypeOK
<1>2. \A i \in Index \ {head} : slot'[i] = slot[i]
  BY DEF PushBegin, PushCopied, IInv, TypeOK
<1>3. ASSUME NEW k \in 1 .. Held(head, tail)
      PROVE  slot'[Ahead(tail, k - 1)] = slot[Ahead(tail, k - 1)]
  <2>1. Ahead(tail, k - 1) # head
    BY <1>1, SlotArithmetic
  <2>2. k - 1 \in 0 .. Held(head, tail)
    BY ContentsType, MaxLenAssumption
  <2> QED
    BY <1>1, <1>2, <2>1, <2>2, IndexArithmetic
<1> QED
  BY <1>3 DEF Contents

(* Every step of FastCall is a step of StreamChannel or leaves it alone.    *)
LEMMA StepRefines == IInv /\ [Next]_vars => [Channel!Next]_Channel!vars
<1>0. SUFFICES ASSUME IInv, [Next]_vars PROVE [Channel!Next]_Channel!vars
  OBVIOUS
<1> USE DEF Channel!Next, Channel!vars, producerVars, consumerVars
<1>1. CASE Request \/ PushFull
  <2>1. UNCHANGED <<head, tail, slot, keepPolling, cState, received>>
        /\ pState # "ended" /\ pState' # "ended"
    BY <1>1 DEF Request, PushFull
  <2> QED
    BY <2>1, <1>0, ContentsUnchanged
<1>2. CASE PushBegin \/ PushCopied
  <2>1. UNCHANGED <<head, tail, keepPolling, cState, received>>
        /\ pState # "ended" /\ pState' # "ended"
    BY <1>2 DEF PushBegin, PushCopied
  <2> QED
    BY <1>2, <2>1, <1>0, ContentsUnchanged
<1>3. CASE Publish
  <2>1. UNCHANGED <<keepPolling, cState, received>> /\ pState # "ended" /\ pState' # "ended"
    BY <1>3 DEF Publish
  <2>2. Channel!Send(request) /\ request \in Datum
    BY <1>0, <1>3, <2>1, PublishAppends DEF Channel!Send
  <2> QED
    BY <2>2
<1>4. CASE ProducerEnds
  <2>1. UNCHANGED <<head, tail, slot, keepPolling, cState, received>>
        /\ pState # "ended" /\ pState' = "ended"
    BY <1>4 DEF ProducerEnds
  <2>2. Contents' = Contents
    BY <1>0, <2>1, ContentsUnchanged
  <2>3. Channel!CloseSender
    BY <2>1, <2>2 DEF Channel!CloseSender
  <2> QED
    BY <2>3
<1>5. CASE PopEmpty \/ PopDatum \/ CountPopped \/ CheckFlag
  <2>1. /\ UNCHANGED <<head, tail, slot, keepPolling, received, pState>>
        /\ cState \notin {"advance", "ended"} /\ cState' \notin {"advance", "ended"}
    BY <1>5 DEF PopEmpty, PopDatum, CountPopped, CheckFlag
  <2> QED
    BY <1>0, <2>1, ContentsUnchanged
<1>6. CASE Callback
  <2>1. /\ UNCHANGED <<head, tail, slot, keepPolling, pState>>
        /\ cState = "callback" /\ cState' = "advance"
        /\ received' = Append(received, slot[tail])
    BY <1>6 DEF Callback
  <2>2. Contents' = Contents
    BY <1>0, <2>1, ContentsUnchanged
  <2>3. Contents # <<>> /\ Head(Contents) = slot[tail]
    <3>1. head \in Index /\ tail \in Index /\ head # tail
      BY <1>0, <2>1 DEF IInv, TypeOK, PopInProgress, IsEmpty
    <3>2. Held(head, tail) # 0 /\ Ahead(tail, 0) = tail
      BY <3>1, IndexArithmetic
    <3>3. Contents \in Seq(Datum) /\ Len(Contents) = Held(head, tail) /\ Held(head, tail) \in Nat
      BY <1>0, ContentsType, MaxLenAssumption
    <3>4. Contents[1] = slot[Ahead(tail, 1 - 1)]
      BY <3>2, <3>3 DEF Contents
    <3>5. Contents # <<>>
      BY <3>2, <3>3
    <3> QED
      BY <3>2, <3>4, <3>5
  <2>4. Channel!Receive
    BY <2>1, <2>2, <2>3 DEF Channel!Receive
  <2> QED
    BY <2>4
<1>7. CASE Advance
  <2>1. /\ UNCHANGED <<keepPolling, received, pState>>
        /\ cState = "advance" /\ cState' = "count"
    BY <1>7 DEF Advance
  <2>2. Channel!Release
    BY <1>0, <1>7, <2>1, AdvanceRemoves DEF Channel!Release
  <2> QED
    BY <2>2
<1>8. CASE Flush
  <2>1. /\ UNCHANGED <<head, tail, slot, keepPolling, received, pState>>
        /\ cState = "flush" /\ cState' = "ended" /\ ~keepPolling
    BY <1>0, <1>8 DEF Flush, IInv, ShutdownOrder
  <2>2. Contents' = Contents
    BY <1>0, <2>1, ContentsUnchanged
  <2>3. Channel!End
    BY <2>1, <2>2 DEF Channel!End
  <2> QED
    BY <2>3
<1>9. CASE StopFastCallResponder
  <2>1. /\ UNCHANGED <<head, tail, slot, cState, received, pState>>
        /\ pState = "ended" /\ keepPolling /\ ~keepPolling'
    BY <1>0, <1>9 DEF StopFastCallResponder, IInv, TypeOK
  <2>2. cState # "ended"
    BY <1>0, <2>1 DEF IInv, ShutdownOrder
  <2>3. Contents' = Contents
    BY <1>0, <2>1, ContentsUnchanged
  <2>4. Channel!Stop
    BY <2>1, <2>2, <2>3 DEF Channel!Stop
  <2> QED
    BY <2>4
<1>10. CASE UNCHANGED vars
  <2>1. UNCHANGED <<head, tail, slot, keepPolling, cState, received, pState>>
    BY <1>10 DEF vars
  <2> QED
    BY <1>0, <2>1, ContentsUnchanged
<1> QED
  BY <1>0, <1>1, <1>2, <1>3, <1>4, <1>5, <1>6, <1>7, <1>8, <1>9, <1>10
     DEF Next, Producer, FastCall_request, FastCall_wait, Joined

(* An empty ring is an empty channel.                                       *)
LEMMA InitRefines == Init => Channel!Init
<1> SUFFICES ASSUME Init PROVE Channel!Init
  OBVIOUS
<1>1. Held(head, tail) = 0
  BY DEF Init, Held
<1>2. Contents = <<>>
  BY <1>1 DEF Contents
<1> QED
  BY <1>2 DEF Init, Channel!Init

(* The ring with its two indices and one flag implements the bounded FIFO   *)
(* channel.                                                                 *)
THEOREM ChannelImplemented == Spec => ImplementsChannel
  BY InitRefines, StepRefines, Invariance, PTL DEF Spec, ImplementsChannel, Channel!Spec
===============================================================================
