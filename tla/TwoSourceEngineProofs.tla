------------------------- MODULE TwoSourceEngineProofs ------------------------
(***************************************************************************)
(* Proofs about TwoSourceEngine.tla, for rings of any size, streams of any  *)
(* length and callbacks that emit any number of data.                       *)
(***************************************************************************)
EXTENDS TwoSourceEngine, SequenceTheorems, TLAPS

(* The constants and rings as the proofs use them.                          *)
LEMMA ConstantTypes == Capacity \in Nat /\ MaxRecords \in Nat /\ MaxEmit \in Nat
BY TwoSourceAssumption

(* The two input rings and the output ring, and what each carries.          *)
LEMMA Rings ==
  /\ Ring = {1, 2, 3} /\ In = {1, 2} /\ Out = 3
  /\ \A r \in In : r \in Ring /\ r # Out /\ Datum(r) = 1 .. MaxRecords
BY DEF Ring, In, Out, Datum

(* The engine before start() creates the enclave.                           *)
LEMMA InitIInv == Init => IInv
<1> SUFFICES ASSUME Init PROVE IInv
  OBVIOUS
<1> USE ConstantTypes
<1>1. TypeOK
  <2>1. /\ DOMAIN ring = Ring /\ DOMAIN delivered = Ring
        /\ \A r \in Ring : ring[r] \in Seq(Datum(r)) /\ delivered[r] \in Seq(Datum(r))
    BY DEF Init
  <2>2. /\ keepPolling \in [Ring -> BOOLEAN]
        /\ sState \in [In -> {"none", "running", "ended"}]
        /\ record \in [In -> 0 .. MaxRecords]
    BY DEF Init
  <2>3. rState = "none" /\ popped = {} /\ keep = FALSE /\ sink = "none" /\ pc = "create"
        /\ enclave = "none" /\ lost = FALSE
    BY DEF Init
  <2>4. out \in 0 .. MaxEmit
    BY DEF Init
  <2> QED
    BY <2>1, <2>2, <2>3, <2>4 DEF TypeOK
<1>2. MainOrder /\ FlagSeen /\ InHand
  BY Rings DEF Init, MainOrder, FlagSeen, InHand
<1>3. InputOrder
  BY Rings DEF Init, InputOrder, RecordsAscend, Held
<1>4. OutputOrder
  BY Rings DEF Init, OutputOrder, ResultsAscend
<1> QED
  BY <1>1, <1>2, <1>3, <1>4 DEF IInv
-------------------------------------------------------------------------------
(* What can happen to a ring: it stays, takes a datum, or loses its head.   *)
LEMMA RequestRings ==
  ASSUME TypeOK, NEW r \in Ring, NEW d, Request(r, d)
  PROVE  /\ DOMAIN ring' = Ring
         /\ \A q \in Ring \ {r} : ring'[q] = ring[q]
         /\ \/ ring'[r] = ring[r]
            \/ Len(ring[r]) < Capacity /\ ring'[r] = Append(ring[r], d)
BY DEF TypeOK, Request

(* The tail of a ring that was popped moves on.                             *)
LEMMA AdvanceRings ==
  ASSUME TypeOK, NEW r \in In,
         ring' = IF r \in popped THEN [ring EXCEPT ![r] = Tail(@)] ELSE ring
  PROVE  /\ DOMAIN ring' = Ring
         /\ \A q \in Ring \ {r} : ring'[q] = ring[q]
         /\ ring'[r] = IF r \in popped THEN Tail(ring[r]) ELSE ring[r]
BY Rings DEF TypeOK

(* The results of the callback are numbered by what it has been given.      *)
LEMMA ResultTyped ==
  ASSUME IInv
  PROVE  /\ \A r \in In : Len(delivered[r]) \in 0 .. MaxRecords
         /\ <<Len(delivered[1]), Len(delivered[2])>> \in Datum(Out)
<1> USE ConstantTypes
<1>1. ASSUME NEW r \in In PROVE Len(delivered[r]) \in 0 .. MaxRecords
  <2> DEFINE L == Len(delivered[r])
             K == Len(ring[r])
             R == record[r]
  <2>1. L \in Nat /\ K \in Nat /\ R \in 0 .. MaxRecords
    BY Rings DEF IInv, TypeOK
  <2>2. Held(r) => L + K <= R + 1
    BY DEF IInv, InputOrder, RecordsAscend
  <2>3. Held(r) => K > 0
    BY Rings DEF IInv, TypeOK, InHand, Held
  <2>4. ~Held(r) => L + K <= R + 0
    BY DEF IInv, InputOrder, RecordsAscend
  <2> HIDE DEF L, K, R
  <2>5. L \in 0 .. MaxRecords
    BY <2>1, <2>2, <2>3, <2>4
  <2> QED
    BY <2>5 DEF L
<1> QED
  BY <1>1, Rings DEF Datum
-------------------------------------------------------------------------------
(* The types of the contents and histories of the rings.                    *)
SequenceTypes ==
  /\ DOMAIN ring = Ring /\ DOMAIN delivered = Ring
  /\ \A r \in Ring : ring[r] \in Seq(Datum(r)) /\ delivered[r] \in Seq(Datum(r))

(* Requests, pops and callbacks keep them.                                  *)
LEMMA StepSequenceTypes == IInv /\ [Next]_vars => SequenceTypes'
<1>0. SUFFICES ASSUME IInv, [Next]_vars PROVE SequenceTypes'
  OBVIOUS
<1>t. TypeOK /\ SequenceTypes /\ InHand
  BY <1>0 DEF IInv, TypeOK, SequenceTypes
<1>r. ASSUME NEW r \in Ring, NEW d \in Datum(r), Request(r, d), UNCHANGED delivered
      PROVE  SequenceTypes'
  <2>1. Append(ring[r], d) \in Seq(Datum(r))
    BY <1>t, <1>r DEF SequenceTypes
  <2> QED
    BY <1>t, <1>r, <2>1, RequestRings DEF SequenceTypes
<1>1. ASSUME NEW r \in In, EmitRecord(r) PROVE SequenceTypes'
  <2>1. record[r] + 1 \in 1 .. MaxRecords
    BY <1>t, <1>1, ConstantTypes DEF TypeOK, EmitRecord
  <2>2. r \in Ring /\ record[r] + 1 \in Datum(r)
    BY <2>1, Rings
  <2> QED
    BY <1>1, <1>r, <2>2 DEF EmitRecord
<1>2. CASE Callback
  <2>1. CASE popped = {}
    BY <1>t, <1>2, <2>1 DEF Callback, SequenceTypes
  <2>2. CASE popped # {}
    <3>1. ring' = ring /\ rState = "callback"
      BY <1>2 DEF Callback
    <3>2. delivered' = [r \in Ring |-> IF r \in popped THEN Append(delivered[r], Head(ring[r]))
                                                       ELSE delivered[r]]
      BY <1>2, <2>2 DEF Callback
    <3>3. ASSUME NEW r \in Ring, r \in popped
          PROVE  Append(delivered[r], Head(ring[r])) \in Seq(Datum(r))
      BY <1>t, <3>1, <3>3 DEF InHand, SequenceTypes
    <3> QED
      BY <1>t, <3>1, <3>2, <3>3 DEF SequenceTypes
  <2> QED
    BY <2>1, <2>2
<1>3. CASE Emit
  BY <1>0, <1>3, <1>r, ResultTyped, Rings DEF Emit, Ring
<1>4. CASE Advance
  <2>1. PICK r \in In :
          /\ ring' = IF r \in popped THEN [ring EXCEPT ![r] = Tail(@)] ELSE ring
          /\ r \in popped => ring[r] # <<>>
          /\ delivered' = delivered
    BY <1>t, <1>4, Rings DEF Advance, InHand
  <2>2. ASSUME ring[r] # <<>> PROVE Tail(ring[r]) \in Seq(Datum(r))
    BY <1>t, <2>2, Rings DEF SequenceTypes
  <2> QED
    BY <1>t, <2>1, <2>2, AdvanceRings DEF SequenceTypes
<1>5. CASE SinkPop
  <2>1. ring' = ring
    BY <1>5 DEF SinkPop
  <2>2. CASE ring[Out] = <<>>
    BY <1>t, <1>5, <2>1, <2>2 DEF SinkPop, SequenceTypes
  <2>3. CASE ring[Out] # <<>>
    <3>1. Append(delivered[Out], Head(ring[Out])) \in Seq(Datum(Out))
      BY <1>t, <2>3, Rings DEF SequenceTypes
    <3> QED
      BY <1>t, <1>5, <2>1, <2>3, <3>1, Rings DEF SinkPop, SequenceTypes
  <2> QED
    BY <2>2, <2>3
<1>6. CASE SinkAdvance
  <2>1. Tail(ring[Out]) \in Seq(Datum(Out))
    BY <1>t, <1>6, Rings DEF SinkAdvance, InHand, SequenceTypes
  <2> QED
    BY <1>t, <1>6, <2>1 DEF SinkAdvance, SequenceTypes
<1>7. ASSUME UNCHANGED <<ring, delivered>> PROVE SequenceTypes'
  BY <1>t, <1>7 DEF SequenceTypes
<1>8. ASSUME NEW r \in In, SourceEnds(r) \/ Pop(r) \/ ReadFlag(r) \/ SpawnSource(r) \/ JoinSource(r)
                           \/ StopFastCallResponder(r)
      PROVE  UNCHANGED <<ring, delivered>>
  BY <1>8 DEF SourceEnds, Pop, ReadFlag, SpawnSource, JoinSource, StopFastCallResponder
<1>9. ASSUME \/ ECallFails \/ Check \/ ResponderEnds \/ SinkCheckFlag \/ InitializeEnclaves
             \/ SpawnConsumers \/ JoinResponderStopSink \/ JoinSink \/ DestroyEnclaves
             \/ UNCHANGED vars
      PROVE  UNCHANGED <<ring, delivered>>
  BY <1>9 DEF ECallFails, Check, ResponderEnds, SinkCheckFlag, InitializeEnclaves, SpawnConsumers,
     JoinResponderStopSink, JoinSink, DestroyEnclaves, vars
<1> QED
  BY <1>0, <1>1, <1>2, <1>3, <1>4, <1>5, <1>6, <1>7, <1>8, <1>9
     DEF Next, Source, Join, Sink, Main, Returned

(* The rest of TypeOK: what the threads and main keep.                      *)
LEMMA StepTypeOK == IInv /\ [Next]_vars => TypeOK'
<1>0. SUFFICES ASSUME IInv, [Next]_vars PROVE TypeOK'
  OBVIOUS
<1>s. SequenceTypes'
  BY <1>0, StepSequenceTypes
<1>t. TypeOK
  BY <1>0 DEF IInv
<1> DEFINE SourceTypes == /\ sState \in [In -> {"none", "running", "ended"}]
                          /\ record \in [In -> 0 .. MaxRecords]
           JoinTypes   == /\ rState \in {"none", "pop1", "pop2", "flag1", "flag2", "callback", "emit",
                                          "advance2", "check", "flush", "ended"}
                          /\ popped \in SUBSET In
                          /\ keep \in BOOLEAN
                          /\ out \in 0 .. MaxEmit
                          /\ lost \in BOOLEAN
           SinkTypes   == sink \in {"none", "poll", "callback", "checkFlag", "ended"}
           MainTypes   == /\ keepPolling \in [Ring -> BOOLEAN]
                          /\ pc \in {"create", "spawnResponder", "spawnSink", "spawnSource1",
                                      "spawnSource2", "join1", "join2", "stop1", "stop2",
                                      "joinResponder", "joinSink", "destroy", "done"}
                          /\ enclave \in {"none", "created", "destroyed"}
<1>p. SourceTypes /\ JoinTypes /\ SinkTypes /\ MainTypes
  BY <1>t DEF TypeOK
<1>q. ASSUME SourceTypes', JoinTypes', SinkTypes', MainTypes' PROVE TypeOK'
  BY <1>s, <1>q, Zenon DEF TypeOK, SequenceTypes
<1>1. ASSUME NEW r \in In, Source(r) PROVE TypeOK'
  <2>1. SourceTypes'
    BY <1>1, <1>p, ConstantTypes DEF Source, EmitRecord, SourceEnds
  <2>2. UNCHANGED <<responderVars, sink, mainVars>>
    BY <1>1 DEF Source, EmitRecord, SourceEnds
  <2> QED
    BY <1>p, <1>q, <2>1, <2>2 DEF responderVars, mainVars
<1>2. CASE Join
  <2>1. JoinTypes'
    <3>f. CASE ECallFails
      <4>1. 0 \in 0 .. MaxEmit /\ {r \in In : Held(r)} \in SUBSET In
        BY ConstantTypes
      <4> QED
        BY <3>f, <4>1 DEF ECallFails
    <3>1. CASE ResponderEnds \/ Advance
      BY <3>1, <1>p DEF ResponderEnds, Advance
    <3>2. ASSUME NEW r \in In, Pop(r) \/ ReadFlag(r) PROVE JoinTypes'
      BY <3>2, <1>p, Rings DEF Pop, ReadFlag, MainTypes
    <3>3. CASE Callback \/ Check
      BY <3>3, <1>p DEF Callback, Check
    <3>4. CASE Emit
      BY <3>4, <1>p, ConstantTypes DEF Emit
    <3> QED
      BY <1>2, <3>f, <3>1, <3>2, <3>3, <3>4 DEF Join
  <2>2. UNCHANGED <<sink, sourceVars, mainVars>>
    BY <1>2 DEF Join, ECallFails, Pop, ReadFlag, Callback, Emit, Advance, Check, ResponderEnds
  <2> QED
    BY <1>p, <1>q, <2>1, <2>2 DEF sourceVars, mainVars
<1>3. CASE Sink
  BY <1>3, <1>p, <1>q DEF Sink, SinkPop, SinkAdvance, SinkCheckFlag, sourceVars, responderVars, mainVars
<1>4. CASE InitializeEnclaves \/ JoinResponderStopSink \/ JoinSink \/ DestroyEnclaves
  <2>1. MainTypes'
    BY <1>4, <1>p DEF InitializeEnclaves, JoinResponderStopSink, JoinSink, DestroyEnclaves
  <2>2. UNCHANGED <<sourceVars, responderVars, sink>>
    BY <1>4 DEF InitializeEnclaves, JoinResponderStopSink, JoinSink, DestroyEnclaves
  <2> QED
    BY <1>p, <1>q, <2>1, <2>2 DEF sourceVars, responderVars
<1>5. CASE SpawnConsumers
  BY <1>5, <1>p, <1>q DEF SpawnConsumers, sourceVars, responderVars
<1>6. ASSUME NEW r \in In, SpawnSource(r) \/ JoinSource(r) \/ StopFastCallResponder(r) PROVE TypeOK'
  <2>1. SourceTypes' /\ MainTypes'
    BY <1>6, <1>p DEF SpawnSource, JoinSource, StopFastCallResponder, sourceVars
  <2>2. UNCHANGED <<responderVars, sink>>
    BY <1>6 DEF SpawnSource, JoinSource, StopFastCallResponder
  <2> QED
    BY <1>p, <1>q, <2>1, <2>2 DEF responderVars
<1>7. CASE UNCHANGED vars
  BY <1>7, <1>p, <1>q DEF vars, sourceVars, responderVars, mainVars
<1> QED
  BY <1>0, <1>1, <1>2, <1>3, <1>4, <1>5, <1>6, <1>7 DEF Next, Main, Returned
-------------------------------------------------------------------------------
(* Main's place in start() tells the state of threads, flags and enclave.   *)
LEMMA StepMainOrder == IInv /\ [Next]_vars => MainOrder'
<1>0. SUFFICES ASSUME TypeOK, MainOrder, InHand, [Next]_vars PROVE MainOrder'
  BY DEF IInv
<1>t. /\ sState \in [In -> {"none", "running", "ended"}]
      /\ keepPolling \in [Ring -> BOOLEAN]
  BY <1>0 DEF TypeOK
<1>1. ASSUME NEW r \in In, Source(r) PROVE MainOrder'
  <2>1. sState[r] = "running" /\ sState'[r] \in {"running", "ended"}
    BY <1>1, <1>t DEF Source, EmitRecord, SourceEnds
  <2>2. \A q \in In \ {r} : sState'[q] = sState[q]
    BY <1>1, <1>t DEF Source, EmitRecord, SourceEnds
  <2>3. UNCHANGED <<pc, enclave, keepPolling, rState, sink>>
    BY <1>1 DEF Source, EmitRecord, SourceEnds, mainVars, responderVars
  <2> QED
    BY <1>0, <2>1, <2>2, <2>3, Rings DEF MainOrder
<1>2. CASE Join
  <2>1. UNCHANGED <<pc, enclave, keepPolling, sink, sState>>
    BY <1>2 DEF Join, ECallFails, Pop, ReadFlag, Callback, Emit, Advance, Check, ResponderEnds,
       mainVars, sourceVars
  <2>2. rState \notin {"none", "ended"} /\ rState' # "none"
    BY <1>2, Rings DEF Join, ECallFails, Pop, ReadFlag, Callback, Emit, Advance, Check, ResponderEnds
  <2> QED
    BY <1>0, <2>1, <2>2 DEF MainOrder
<1>3. CASE Sink
  <2>1. UNCHANGED <<pc, enclave, keepPolling, rState, sState>>
    BY <1>3 DEF Sink, SinkPop, SinkAdvance, SinkCheckFlag, mainVars, sourceVars, responderVars
  <2>2. sink \notin {"none", "ended"} /\ sink' # "none"
    BY <1>3 DEF Sink, SinkPop, SinkAdvance, SinkCheckFlag
  <2> QED
    BY <1>0, <2>1, <2>2 DEF MainOrder
<1>4. CASE InitializeEnclaves
  BY <1>0, <1>4 DEF InitializeEnclaves, MainOrder, sourceVars, responderVars
<1>5. CASE SpawnConsumers
  BY <1>0, <1>5 DEF SpawnConsumers, MainOrder, sourceVars, responderVars
<1>6. ASSUME NEW r \in In, SpawnSource(r) PROVE MainOrder'
  <2>1. CASE r = 1
    BY <1>0, <1>6, <1>t, <2>1, Rings DEF SpawnSource, MainOrder, responderVars
  <2>2. CASE r = 2
    BY <1>0, <1>6, <1>t, <2>2, Rings DEF SpawnSource, MainOrder, responderVars
  <2> QED
    BY <2>1, <2>2, Rings
<1>7. ASSUME NEW r \in In, JoinSource(r) PROVE MainOrder'
  BY <1>0, <1>7, Rings DEF JoinSource, MainOrder, sourceVars, responderVars
<1>8. ASSUME NEW r \in In, StopFastCallResponder(r) PROVE MainOrder'
  <2>1. CASE r = 1
    BY <1>0, <1>8, <1>t, <2>1, Rings DEF StopFastCallResponder, MainOrder, sourceVars, responderVars
  <2>2. CASE r = 2
    BY <1>0, <1>8, <1>t, <2>2, Rings DEF StopFastCallResponder, MainOrder, sourceVars, responderVars
  <2> QED
    BY <2>1, <2>2, Rings
<1>9. CASE JoinResponderStopSink
  BY <1>0, <1>9, <1>t, Rings DEF JoinResponderStopSink, MainOrder, sourceVars, responderVars
<1>10. CASE JoinSink
  BY <1>0, <1>10 DEF JoinSink, MainOrder, sourceVars, responderVars
<1>11. CASE DestroyEnclaves
  BY <1>0, <1>11 DEF DestroyEnclaves, MainOrder, sourceVars, responderVars
<1>12. CASE UNCHANGED vars
  BY <1>0, <1>12 DEF MainOrder, vars, mainVars, sourceVars, responderVars
<1> QED
  BY <1>0, <1>1, <1>2, <1>3, <1>4, <1>5, <1>6, <1>7, <1>8, <1>9, <1>10, <1>11, <1>12
     DEF Next, Main, Returned

(* The responder leaves its round, and the sink ends, on flags it has seen. *)
LEMMA StepFlagSeen == IInv /\ [Next]_vars => FlagSeen'
<1>0. SUFFICES ASSUME TypeOK, MainOrder, FlagSeen, InHand, [Next]_vars PROVE FlagSeen'
  BY DEF IInv
<1>t. keepPolling \in [Ring -> BOOLEAN] /\ keep \in BOOLEAN
  BY <1>0 DEF TypeOK
<1>1. ASSUME NEW r \in In, Source(r) PROVE FlagSeen'
  BY <1>0, <1>1 DEF Source, EmitRecord, SourceEnds, FlagSeen, mainVars, responderVars
<1>2. CASE ECallFails \/ ResponderEnds \/ Check
  BY <1>0, <1>2 DEF ECallFails, ResponderEnds, Check, FlagSeen, mainVars
<1>3. ASSUME NEW r \in In, enclave = "created", Pop(r) PROVE FlagSeen'
  BY <1>0, <1>3, Rings DEF Pop, FlagSeen, mainVars
<1>4. ASSUME NEW r \in In, enclave = "created", ReadFlag(r) PROVE FlagSeen'
  <2>1. CASE r = 1
    BY <1>0, <1>4, <2>1 DEF ReadFlag, FlagSeen, mainVars
  <2>2. CASE r = 2
    BY <1>0, <1>4, <2>2 DEF ReadFlag, FlagSeen, mainVars
  <2> QED
    BY <2>1, <2>2, Rings
<1>5. CASE Callback \/ Emit \/ Advance
  BY <1>0, <1>5 DEF Callback, Emit, Advance, FlagSeen, mainVars
<1>6. CASE Sink
  BY <1>0, <1>6 DEF Sink, SinkPop, SinkAdvance, SinkCheckFlag, FlagSeen, mainVars, responderVars
<1>7. CASE InitializeEnclaves \/ SpawnConsumers \/ JoinSink \/ DestroyEnclaves
  BY <1>0, <1>7 DEF InitializeEnclaves, SpawnConsumers, JoinSink, DestroyEnclaves, FlagSeen, MainOrder,
     responderVars
<1>8. ASSUME NEW r \in In, SpawnSource(r) \/ JoinSource(r) PROVE FlagSeen'
  BY <1>0, <1>8 DEF SpawnSource, JoinSource, FlagSeen, responderVars
<1>9. ASSUME NEW r \in In, StopFastCallResponder(r) PROVE FlagSeen'
  <2>1. \A q \in Ring : keepPolling'[q] => keepPolling[q]
    BY <1>9, <1>t DEF StopFastCallResponder
  <2> QED
    BY <1>0, <1>9, <2>1, Rings DEF StopFastCallResponder, FlagSeen, responderVars
<1>10. CASE JoinResponderStopSink
  <2>1. \A q \in Ring : keepPolling'[q] => keepPolling[q]
    BY <1>10, <1>t DEF JoinResponderStopSink
  <2> QED
    BY <1>0, <1>10, <2>1, Rings DEF JoinResponderStopSink, FlagSeen, responderVars
<1>11. CASE UNCHANGED vars
  BY <1>0, <1>11 DEF FlagSeen, vars, mainVars, responderVars
<1> QED
  BY <1>0, <1>1, <1>2, <1>3, <1>4, <1>5, <1>6, <1>7, <1>8, <1>9, <1>10, <1>11
     DEF Next, Join, Main, Returned

(* A ring in hand stays so until its tail moves on.                         *)
LEMMA StepInHand == IInv /\ [Next]_vars => InHand'
<1>0. SUFFICES ASSUME TypeOK, MainOrder, InHand, [Next]_vars PROVE InHand'
  BY DEF IInv
<1>t. popped \in SUBSET In
  BY <1>0 DEF TypeOK
<1>r. ASSUME NEW r \in Ring, NEW d, Request(r, d), UNCHANGED <<rState, popped, lost, sink>>
      PROVE  InHand'
  <2>1. \A q \in Ring : ring[q] # <<>> => ring'[q] # <<>>
    BY <1>0, <1>r, RequestRings DEF TypeOK
  <2> QED
    BY <1>0, <1>r, <1>t, <2>1, Rings DEF InHand
<1>1. ASSUME NEW r \in In, Source(r) PROVE InHand'
  <2>1. CASE EmitRecord(r)
    BY <2>1, <1>r, Rings DEF EmitRecord, responderVars
  <2>2. CASE SourceEnds(r)
    BY <1>0, <2>2 DEF SourceEnds, InHand, responderVars
  <2> QED
    BY <1>1, <2>1, <2>2 DEF Source
<1>2. ASSUME NEW r \in In, Pop(r) PROVE InHand'
  BY <1>0, <1>2, Rings DEF Pop, InHand
<1>3. ASSUME NEW r \in In, ReadFlag(r) PROVE InHand'
  BY <1>0, <1>3, Rings DEF ReadFlag, InHand
<1>4. CASE Callback \/ Check \/ ResponderEnds
  BY <1>0, <1>4 DEF Callback, Check, ResponderEnds, InHand
<1>f. CASE ECallFails
  BY <1>0, <1>f DEF ECallFails, Held, InHand
<1>5. CASE Emit
  BY <1>5, <1>r, Rings DEF Emit
<1>6. CASE Advance
  <2>1. CASE rState = "emit"
    <3>1. ring' = (IF 1 \in popped THEN [ring EXCEPT ![1] = Tail(@)] ELSE ring)
          /\ rState' = "advance2" /\ UNCHANGED <<popped, sink>>
      BY <1>6, <2>1 DEF Advance
    <3>2. \A q \in Ring \ {1} : ring'[q] = ring[q]
      BY <1>0, <3>1, AdvanceRings, Rings
    <3> QED
      BY <1>0, <1>t, <2>1, <3>1, <3>2, Rings DEF InHand
  <2>2. CASE rState = "advance2"
    <3>1. ring' = (IF 2 \in popped THEN [ring EXCEPT ![2] = Tail(@)] ELSE ring)
          /\ rState' = "check" /\ UNCHANGED <<popped, sink>>
      BY <1>6, <2>2 DEF Advance
    <3>2. \A q \in Ring \ {2} : ring'[q] = ring[q]
      BY <1>0, <3>1, AdvanceRings, Rings
    <3> QED
      BY <1>0, <3>1, <3>2, Rings DEF InHand
  <2> QED
    BY <1>6, <2>1, <2>2 DEF Advance
<1>7. CASE SinkPop \/ SinkCheckFlag
  BY <1>0, <1>7 DEF SinkPop, SinkCheckFlag, InHand, responderVars
<1>8. CASE SinkAdvance
  <2>1. \A q \in In : ring'[q] = ring[q]
    BY <1>0, <1>8, Rings DEF SinkAdvance, TypeOK
  <2> QED
    BY <1>0, <1>8, <1>t, <2>1 DEF SinkAdvance, InHand, responderVars
<1>9. ASSUME NEW r \in In, SpawnSource(r) \/ JoinSource(r) \/ StopFastCallResponder(r) PROVE InHand'
  BY <1>0, <1>9 DEF SpawnSource, JoinSource, StopFastCallResponder, InHand, responderVars
<1>10. CASE \/ InitializeEnclaves \/ SpawnConsumers \/ JoinResponderStopSink \/ JoinSink
            \/ DestroyEnclaves \/ UNCHANGED vars
  <2>1. CASE SpawnConsumers
    BY <1>0, <2>1 DEF SpawnConsumers, MainOrder, InHand, responderVars
  <2>2. CASE ~SpawnConsumers
    BY <1>0, <1>10, <2>2 DEF InitializeEnclaves, JoinResponderStopSink, JoinSink, DestroyEnclaves,
       InHand, vars, responderVars
  <2> QED
    BY <2>1, <2>2
<1> QED
  BY <1>0, <1>f, <1>1, <1>2, <1>3, <1>4, <1>5, <1>6, <1>7, <1>8, <1>9, <1>10
     DEF Next, Join, Sink, Main, Returned
-------------------------------------------------------------------------------
(* Sending the next record keeps the records in order, or giving it up, ... *)
LEMMA AscendSent ==
  ASSUME NEW given \in Seq(Nat), NEW queue \in Seq(Nat), NEW last \in Nat, NEW held \in BOOLEAN,
         RecordsAscend(given, queue, last, held)
  PROVE  /\ RecordsAscend(given, queue, last + 1, held)
         /\ RecordsAscend(given, Append(queue, last + 1), last + 1, held)
<1>1. /\ Len(given) \in Nat /\ Len(queue) \in Nat
      /\ \A k \in 1 .. Len(given) : given[k] \in Nat /\ given[k] <= last
      /\ \A k \in 1 .. Len(queue) : queue[k] \in Nat /\ queue[k] <= last
  BY DEF RecordsAscend
<1> DEFINE new == Append(queue, last + 1)
           inHand == IF held THEN 1 ELSE 0
<1>2. /\ Len(new) = Len(queue) + 1
      /\ new[Len(queue) + 1] = last + 1
      /\ \A k \in 1 .. Len(queue) : new[k] = queue[k]
  OBVIOUS
<1>3. \A k \in 1 .. Len(new) : k \in 1 .. Len(queue) \/ k = Len(queue) + 1
  BY <1>1, <1>2
<1>4. Len(given) + Len(queue) <= last + inHand /\ inHand \in Nat
  BY DEF RecordsAscend
<1> HIDE DEF new, inHand
<1>5. ASSUME NEW k \in 1 .. Len(new) PROVE new[k] \in Nat /\ new[k] <= last + 1
  BY <1>1, <1>2, <1>3
<1>6. ASSUME NEW j \in 1 .. Len(new), NEW k \in 1 .. Len(new), j < k PROVE new[j] < new[k]
  <2>1. j \in 1 .. Len(queue)
    BY <1>1, <1>2, <1>6
  <2>2. CASE k \in 1 .. Len(queue)
    BY <1>2, <1>6, <2>1, <2>2 DEF RecordsAscend
  <2>3. CASE k = Len(queue) + 1
    <3>1. new[j] \in Nat /\ new[j] <= last /\ new[k] = last + 1
      BY <1>1, <1>2, <2>1, <2>3
    <3> QED
      BY <3>1
  <2> QED
    BY <1>3, <2>2, <2>3
<1>7. ASSUME NEW j \in 1 .. Len(given), NEW k \in 1 .. Len(new), k > 1 \/ ~held
      PROVE  given[j] < new[k]
  <2>1. CASE k \in 1 .. Len(queue)
    BY <1>2, <1>7, <2>1 DEF RecordsAscend
  <2>2. CASE k = Len(queue) + 1
    <3>1. given[j] \in Nat /\ given[j] <= last /\ new[k] = last + 1
      BY <1>1, <1>2, <2>2
    <3> QED
      BY <3>1
  <2> QED
    BY <1>3, <2>1, <2>2
<1>8. Len(given) + Len(new) <= last + 1 + inHand /\ Len(given) + Len(queue) <= last + 1 + inHand
  BY <1>1, <1>2, <1>4
<1>9. /\ \A k \in 1 .. Len(given) : given[k] <= last + 1
      /\ \A k \in 1 .. Len(queue) : queue[k] <= last + 1
  BY <1>1
<1>10. RecordsAscend(given, queue, last + 1, held)
  BY <1>8, <1>9 DEF RecordsAscend, inHand
<1>11. RecordsAscend(given, new, last + 1, held)
  BY <1>5, <1>6, <1>7, <1>8, <1>9 DEF RecordsAscend, inHand
<1> QED
  BY <1>10, <1>11 DEF new

(* ... giving the join the first one of the ring, ...                       *)
LEMMA AscendReceived ==
  ASSUME NEW given \in Seq(Nat), NEW queue \in Seq(Nat), NEW last \in Nat,
         RecordsAscend(given, queue, last, FALSE), queue # <<>>
  PROVE  RecordsAscend(Append(given, Head(queue)), queue, last, TRUE)
<1>1. /\ Len(given) \in Nat /\ Len(queue) \in Nat /\ 1 \in 1 .. Len(queue)
      /\ \A k \in 1 .. Len(given) : given[k] \in Nat
      /\ \A k \in 1 .. Len(queue) : queue[k] \in Nat
  OBVIOUS
<1> DEFINE new == Append(given, Head(queue))
<1>2. /\ Len(new) = Len(given) + 1
      /\ new[Len(given) + 1] = queue[1]
      /\ \A k \in 1 .. Len(given) : new[k] = given[k]
  BY <1>1
<1>3. \A k \in 1 .. Len(new) : k \in 1 .. Len(given) \/ k = Len(given) + 1
  BY <1>1, <1>2
<1> HIDE DEF new
<1>4. ASSUME NEW j \in 1 .. Len(new), NEW k \in 1 .. Len(new), j < k PROVE new[j] < new[k]
  <2>1. j \in 1 .. Len(given)
    BY <1>1, <1>2, <1>4
  <2>2. CASE k \in 1 .. Len(given)
    BY <1>2, <1>4, <2>1, <2>2 DEF RecordsAscend
  <2>3. CASE k = Len(given) + 1
    <3>1. given[j] < queue[1]
      BY <1>1, <2>1 DEF RecordsAscend
    <3> QED
      BY <1>2, <2>1, <2>3, <3>1
  <2> QED
    BY <1>3, <2>2, <2>3
<1>5. \A j \in 1 .. Len(new) : new[j] <= last
  BY <1>1, <1>2, <1>3 DEF RecordsAscend
<1>6. \A j \in 1 .. Len(new), k \in 1 .. Len(queue) : k > 1 => new[j] < queue[k]
  BY <1>1, <1>2, <1>3 DEF RecordsAscend
<1>7. Len(new) + Len(queue) <= last + 1
  <2>1. Len(given) + Len(queue) <= last + 0
    BY DEF RecordsAscend
  <2> QED
    BY <1>1, <1>2, <2>1
<1>8. RecordsAscend(new, queue, last, TRUE)
  BY <1>4, <1>5, <1>6, <1>7 DEF RecordsAscend
<1> QED
  BY <1>8 DEF new

(* ... and taking it from the ring then.                                    *)
LEMMA AscendReleased ==
  ASSUME NEW given \in Seq(Nat), NEW queue \in Seq(Nat), NEW last \in Nat,
         RecordsAscend(given, queue, last, TRUE), queue # <<>>
  PROVE  RecordsAscend(given, Tail(queue), last, FALSE)
<1> DEFINE new == Tail(queue)
<1>1. /\ Len(given) \in Nat /\ Len(queue) \in Nat
      /\ Len(new) = Len(queue) - 1
      /\ \A k \in 1 .. Len(new) : new[k] = queue[k + 1]
  OBVIOUS
<1>2. \A k \in 1 .. Len(new) : k + 1 \in 1 .. Len(queue) /\ k + 1 > 1
  BY <1>1
<1> HIDE DEF new
<1>3. ASSUME NEW j \in 1 .. Len(new), NEW k \in 1 .. Len(new), j < k PROVE new[j] < new[k]
  <2>1. j + 1 \in 1 .. Len(queue) /\ k + 1 \in 1 .. Len(queue) /\ j + 1 < k + 1
    BY <1>1, <1>2, <1>3
  <2>2. queue[j + 1] < queue[k + 1]
    BY <2>1 DEF RecordsAscend
  <2> QED
    BY <1>1, <2>2
<1>4. \A k \in 1 .. Len(new) : new[k] <= last
  BY <1>1, <1>2 DEF RecordsAscend
<1>5. \A j \in 1 .. Len(given), k \in 1 .. Len(new) : given[j] < new[k]
  BY <1>1, <1>2 DEF RecordsAscend
<1>6. Len(given) + Len(new) <= last + 0
  <2>1. Len(given) + Len(queue) <= last + 1
    BY DEF RecordsAscend
  <2> QED
    BY <1>1, <2>1
<1>7. RecordsAscend(given, new, last, FALSE)
  BY <1>3, <1>4, <1>5, <1>6 DEF RecordsAscend
<1> QED
  BY <1>7 DEF new
-------------------------------------------------------------------------------
(* Results stay in order when one that carries the present numbers is sent, *)
LEMMA ResultsSent ==
  ASSUME NEW S, NEW r, \A d \in S : d[r] \in Nat,
         NEW given \in Seq(S), NEW queue \in Seq(S), NEW now \in Nat,
         ResultsAscend(given, queue, r, now),
         NEW d \in S, d[r] = now
  PROVE  ResultsAscend(given, Append(queue, d), r, now)
<1>1. /\ Len(given) \in Nat /\ Len(queue) \in Nat
      /\ \A k \in 1 .. Len(given) : given[k][r] \in Nat /\ given[k][r] <= now
      /\ \A k \in 1 .. Len(queue) : queue[k][r] \in Nat /\ queue[k][r] <= now
  BY DEF ResultsAscend
<1> DEFINE new == Append(queue, d)
<1>2. /\ Len(new) = Len(queue) + 1
      /\ new[Len(queue) + 1] = d
      /\ \A k \in 1 .. Len(queue) : new[k] = queue[k]
  OBVIOUS
<1>3. \A k \in 1 .. Len(new) : k \in 1 .. Len(queue) \/ k = Len(queue) + 1
  BY <1>1, <1>2
<1> HIDE DEF new
<1>4. ASSUME NEW k \in 1 .. Len(new) PROVE new[k][r] \in Nat /\ new[k][r] <= now
  BY <1>1, <1>2, <1>3
<1>5. ASSUME NEW j \in 1 .. Len(new), NEW k \in 1 .. Len(new), j < k PROVE new[j][r] <= new[k][r]
  <2>1. CASE k \in 1 .. Len(queue)
    <3>1. j \in 1 .. Len(queue)
      BY <1>1, <1>2, <1>5
    <3>2. queue[j][r] <= queue[k][r]
      BY <1>5, <2>1, <3>1 DEF ResultsAscend
    <3> QED
      BY <1>2, <2>1, <3>1, <3>2
  <2>2. CASE k = Len(queue) + 1
    <3>1. new[k][r] = now /\ new[j][r] <= now
      BY <1>2, <1>4, <2>2
    <3> QED
      BY <3>1
  <2> QED
    BY <1>3, <2>1, <2>2
<1>6. ASSUME NEW j \in 1 .. Len(given), NEW k \in 1 .. Len(new) PROVE given[j][r] <= new[k][r]
  <2>1. CASE k \in 1 .. Len(queue)
    <3>1. given[j][r] <= queue[k][r]
      BY <2>1 DEF ResultsAscend
    <3> QED
      BY <1>2, <2>1, <3>1
  <2>2. CASE k = Len(queue) + 1
    <3>1. new[k][r] = now /\ given[j][r] <= now
      BY <1>1, <1>2, <2>2
    <3> QED
      BY <3>1
  <2> QED
    BY <1>3, <2>1, <2>2
<1>7. ResultsAscend(given, new, r, now)
  <2>1. \A j, k \in 1 .. Len(given) : j < k => given[j][r] <= given[k][r]
    BY DEF ResultsAscend
  <2>2. \A j \in 1 .. Len(given) : given[j][r] <= now
    BY <1>1
  <2> QED
    BY <1>4, <1>5, <1>6, <2>1, <2>2, Zenon DEF ResultsAscend
<1> QED
  BY <1>7 DEF new

(* ... when the first one of the ring is given to the sink, ...             *)
LEMMA ResultsReceived ==
  ASSUME NEW S, NEW r, \A d \in S : d[r] \in Nat,
         NEW given \in Seq(S), NEW queue \in Seq(S), NEW now \in Nat,
         ResultsAscend(given, queue, r, now), queue # <<>>
  PROVE  ResultsAscend(Append(given, Head(queue)), queue, r, now)
<1>1. /\ Len(given) \in Nat /\ Len(queue) \in Nat /\ 1 \in 1 .. Len(queue)
      /\ \A k \in 1 .. Len(given) : given[k] \in S /\ given[k][r] \in Nat
      /\ \A k \in 1 .. Len(queue) : queue[k] \in S /\ queue[k][r] \in Nat
  OBVIOUS
<1> DEFINE new == Append(given, Head(queue))
<1>2. /\ Len(new) = Len(given) + 1
      /\ new[Len(given) + 1] = queue[1]
      /\ \A k \in 1 .. Len(given) : new[k] = given[k]
  BY <1>1
<1>3. \A k \in 1 .. Len(new) : k \in 1 .. Len(given) \/ k = Len(given) + 1
  BY <1>1, <1>2
<1> HIDE DEF new
<1>4. ASSUME NEW j \in 1 .. Len(new), NEW k \in 1 .. Len(new), j < k PROVE new[j][r] <= new[k][r]
  <2>1. j \in 1 .. Len(given)
    BY <1>1, <1>2, <1>4
  <2>2. CASE k \in 1 .. Len(given)
    <3>1. given[j][r] <= given[k][r]
      BY <1>4, <2>1, <2>2 DEF ResultsAscend
    <3> QED
      BY <1>2, <2>1, <2>2, <3>1
  <2>3. CASE k = Len(given) + 1
    <3>1. given[j][r] <= queue[1][r]
      BY <1>1, <2>1 DEF ResultsAscend
    <3> QED
      BY <1>2, <2>1, <2>3, <3>1
  <2> QED
    BY <1>3, <2>2, <2>3
<1>5. ASSUME NEW j \in 1 .. Len(new) PROVE new[j][r] <= now
  <2>1. CASE j \in 1 .. Len(given)
    <3>1. given[j][r] <= now
      BY <2>1 DEF ResultsAscend
    <3> QED
      BY <1>2, <2>1, <3>1
  <2>2. CASE j = Len(given) + 1
    <3>1. queue[1][r] <= now
      BY <1>1 DEF ResultsAscend
    <3> QED
      BY <1>2, <2>2, <3>1
  <2> QED
    BY <1>3, <2>1, <2>2
<1>6. ASSUME NEW j \in 1 .. Len(new), NEW k \in 1 .. Len(queue) PROVE new[j][r] <= queue[k][r]
  <2>1. CASE j \in 1 .. Len(given)
    <3>1. given[j][r] <= queue[k][r]
      BY <2>1 DEF ResultsAscend
    <3> QED
      BY <1>2, <2>1, <3>1
  <2>2. CASE j = Len(given) + 1
    <3>1. CASE k = 1
      BY <1>1, <1>2, <2>2, <3>1
    <3>2. CASE k # 1
      <4>1. 1 < k
        BY <1>1, <3>2
      <4>2. queue[1][r] <= queue[k][r]
        BY <1>1, <4>1 DEF ResultsAscend
      <4> QED
        BY <1>2, <2>2, <4>2
    <3> QED
      BY <3>1, <3>2
  <2> QED
    BY <1>3, <2>1, <2>2
<1>7. ResultsAscend(new, queue, r, now)
  <2>1. /\ \A j, k \in 1 .. Len(queue) : j < k => queue[j][r] <= queue[k][r]
        /\ \A k \in 1 .. Len(queue) : queue[k][r] <= now
    BY DEF ResultsAscend
  <2> QED
    BY <1>4, <1>5, <1>6, <2>1, Zenon DEF ResultsAscend
<1> QED
  BY <1>7 DEF new

(* ... when it is taken from the ring, ...                                  *)
LEMMA ResultsReleased ==
  ASSUME NEW S, NEW r,
         NEW given \in Seq(S), NEW queue \in Seq(S), NEW now \in Nat,
         ResultsAscend(given, queue, r, now), queue # <<>>
  PROVE  ResultsAscend(given, Tail(queue), r, now)
<1> DEFINE new == Tail(queue)
<1>1. /\ Len(given) \in Nat /\ Len(queue) \in Nat
      /\ Len(new) = Len(queue) - 1
      /\ \A k \in 1 .. Len(new) : new[k] = queue[k + 1]
  OBVIOUS
<1>2. \A k \in 1 .. Len(new) : k + 1 \in 1 .. Len(queue)
  BY <1>1
<1> HIDE DEF new
<1>3. ASSUME NEW j \in 1 .. Len(new), NEW k \in 1 .. Len(new), j < k PROVE new[j][r] <= new[k][r]
  <2>1. j + 1 \in 1 .. Len(queue) /\ k + 1 \in 1 .. Len(queue) /\ j + 1 < k + 1
    BY <1>1, <1>2, <1>3
  <2>2. queue[j + 1][r] <= queue[k + 1][r]
    BY <2>1 DEF ResultsAscend
  <2> QED
    BY <1>1, <2>2
<1>4. ASSUME NEW k \in 1 .. Len(new) PROVE new[k][r] <= now
  <2>1. queue[k + 1][r] <= now
    BY <1>2 DEF ResultsAscend
  <2> QED
    BY <1>1, <2>1
<1>5. ASSUME NEW j \in 1 .. Len(given), NEW k \in 1 .. Len(new) PROVE given[j][r] <= new[k][r]
  <2>1. given[j][r] <= queue[k + 1][r]
    BY <1>2 DEF ResultsAscend
  <2> QED
    BY <1>1, <2>1
<1>6. ResultsAscend(given, new, r, now)
  <2>1. /\ \A j, k \in 1 .. Len(given) : j < k => given[j][r] <= given[k][r]
        /\ \A j \in 1 .. Len(given) : given[j][r] <= now
    BY DEF ResultsAscend
  <2> QED
    BY <1>3, <1>4, <1>5, <2>1, Zenon DEF ResultsAscend
<1> QED
  BY <1>6 DEF new

(* ... and when the join is given more.                                     *)
LEMMA ResultsLater ==
  ASSUME NEW S, NEW r, \A d \in S : d[r] \in Nat,
         NEW given \in Seq(S), NEW queue \in Seq(S), NEW now \in Nat,
         ResultsAscend(given, queue, r, now), NEW later \in Nat, now <= later
  PROVE  ResultsAscend(given, queue, r, later)
<1>1. /\ \A k \in 1 .. Len(given) : given[k][r] \in Nat /\ given[k][r] <= now
      /\ \A k \in 1 .. Len(queue) : queue[k][r] \in Nat /\ queue[k][r] <= now
  BY DEF ResultsAscend
<1>2. /\ \A k \in 1 .. Len(given) : given[k][r] <= later
      /\ \A k \in 1 .. Len(queue) : queue[k][r] <= later
  BY <1>1
<1> QED
  BY <1>2 DEF ResultsAscend
-------------------------------------------------------------------------------
(* What a step can do to an input ring: nothing, a request of the source,   *)
(* the callback that takes its datum in hand, the tail that moves on.       *)
Untouched(r) == /\ ring'[r] = ring[r] /\ delivered'[r] = delivered[r] /\ record'[r] = record[r]
                /\ Held(r)' <=> Held(r)
Requested(r) == /\ sState[r] = "running" /\ record[r] < MaxRecords
                /\ \/ ring'[r] = ring[r]
                   \/ Len(ring[r]) < Capacity /\ ring'[r] = Append(ring[r], record[r] + 1)
                /\ delivered'[r] = delivered[r] /\ record'[r] = record[r] + 1
                /\ Held(r)' <=> Held(r)
Taken(r)     == /\ rState = "callback"
                /\ ~Held(r) /\ Held(r)' /\ ring[r] # <<>>
                /\ delivered'[r] = Append(delivered[r], Head(ring[r]))
                /\ ring'[r] = ring[r] /\ record'[r] = record[r]
Passed(r)    == /\ Held(r) /\ ~Held(r)' /\ ring[r] # <<>>
                /\ ring'[r] = Tail(ring[r])
                /\ delivered'[r] = delivered[r] /\ record'[r] = record[r]

(* There is no other.                                                       *)
LEMMA InputEffects ==
  ASSUME IInv, [Next]_vars, NEW r \in In
  PROVE  Untouched(r) \/ Requested(r) \/ Taken(r) \/ Passed(r)
<1>t. /\ TypeOK /\ InHand /\ MainOrder
      /\ DOMAIN ring = Ring /\ DOMAIN delivered = Ring /\ record \in [In -> 0 .. MaxRecords]
      /\ popped \in SUBSET In
      /\ r \in Ring /\ r # Out
  BY Rings DEF IInv, TypeOK
<1>1. ASSUME NEW s \in In, EmitRecord(s) PROVE Untouched(r) \/ Requested(r)
  <2>1. /\ s \in Ring /\ Request(s, record[s] + 1) /\ UNCHANGED <<rState, popped, delivered>>
        /\ sState[s] = "running" /\ record[s] < MaxRecords
        /\ record' = [record EXCEPT ![s] = @ + 1]
    BY <1>1, Rings DEF EmitRecord, responderVars
  <2>2. CASE s = r
    BY <1>t, <2>1, <2>2, RequestRings DEF Requested, Held
  <2>3. CASE s # r
    BY <1>t, <2>1, <2>3, RequestRings DEF Untouched, Held
  <2> QED
    BY <2>2, <2>3
<1>2. CASE Callback
  <2>1. rState = "callback" /\ UNCHANGED <<ring, popped, record>>
    BY <1>2 DEF Callback, sourceVars
  <2>2. CASE popped = {}
    BY <1>2, <2>1, <2>2 DEF Callback, Untouched, Held
  <2>3. CASE popped # {}
    <3>1. /\ rState' = "emit"
          /\ delivered' = [q \in Ring |-> IF q \in popped THEN Append(delivered[q], Head(ring[q]))
                                                          ELSE delivered[q]]
      BY <1>2, <2>3 DEF Callback
    <3>2. CASE r \in popped
      BY <1>t, <2>1, <3>1, <3>2 DEF Taken, Held, InHand
    <3>3. CASE r \notin popped
      BY <1>t, <2>1, <3>1, <3>3 DEF Untouched, Held
    <3> QED
      BY <3>2, <3>3
  <2> QED
    BY <2>2, <2>3
<1>3. CASE Emit
  <2>1. /\ Out \in Ring /\ Request(Out, <<Len(delivered[1]), Len(delivered[2])>>)
        /\ UNCHANGED <<rState, popped, record, delivered>>
    BY <1>3, Rings DEF Emit, sourceVars
  <2>2. ring'[r] = ring[r]
    BY <1>t, <2>1, RequestRings
  <2> QED
    BY <2>1, <2>2 DEF Untouched, Held
<1>4. CASE Advance
  <2>1. UNCHANGED <<popped, record, delivered>>
    BY <1>4 DEF Advance, sourceVars
  <2>2. CASE rState = "emit"
    <3>1. /\ ring' = (IF 1 \in popped THEN [ring EXCEPT ![1] = Tail(@)] ELSE ring)
          /\ rState' = "advance2"
      BY <1>4, <2>2 DEF Advance
    <3>2. CASE r = 1 /\ 1 \in popped
      BY <1>t, <2>1, <2>2, <3>1, <3>2 DEF Passed, Held, InHand
    <3>3. CASE ~(r = 1 /\ 1 \in popped)
      BY <1>t, <2>1, <2>2, <3>1, <3>3, Rings DEF Untouched, Held
    <3> QED
      BY <3>2, <3>3
  <2>3. CASE rState = "advance2"
    <3>1. /\ ring' = (IF 2 \in popped THEN [ring EXCEPT ![2] = Tail(@)] ELSE ring)
          /\ rState' = "check"
      BY <1>4, <2>3 DEF Advance
    <3>2. CASE r = 2 /\ 2 \in popped
      BY <1>t, <2>1, <2>3, <3>1, <3>2 DEF Passed, Held, InHand
    <3>3. CASE ~(r = 2 /\ 2 \in popped)
      BY <1>t, <2>1, <2>3, <3>1, <3>3, Rings DEF Untouched, Held
    <3> QED
      BY <3>2, <3>3
  <2> QED
    BY <1>4, <2>2, <2>3 DEF Advance
<1>5. CASE SinkPop \/ SinkAdvance \/ SinkCheckFlag
  <2>1. UNCHANGED <<rState, popped, record>>
    BY <1>5 DEF SinkPop, SinkAdvance, SinkCheckFlag, sourceVars, responderVars
  <2>2. ring'[r] = ring[r] /\ delivered'[r] = delivered[r]
    BY <1>t, <1>5 DEF SinkPop, SinkAdvance, SinkCheckFlag
  <2> QED
    BY <2>1, <2>2 DEF Untouched, Held
<1>6. ASSUME NEW s \in In, Pop(s) \/ ReadFlag(s) PROVE Untouched(r)
  <2>1. UNCHANGED <<ring, record, delivered>> /\ ~Held(r) /\ ~Held(r)'
    BY <1>6 DEF Pop, ReadFlag, Held, sourceVars
  <2> QED
    BY <2>1 DEF Untouched
<1>7. CASE Check \/ ResponderEnds \/ SpawnConsumers
  <2>1. UNCHANGED <<ring, record, delivered>>
    BY <1>7 DEF Check, ResponderEnds, SpawnConsumers, sourceVars
  <2>2. CASE SpawnConsumers /\ pc = "spawnSink"
    BY <2>1, <2>2 DEF SpawnConsumers, Untouched, Held, responderVars
  <2>3. CASE ~(SpawnConsumers /\ pc = "spawnSink")
    <3>1. ~Held(r) /\ ~Held(r)'
      BY <1>t, <1>7, <2>3 DEF Check, ResponderEnds, SpawnConsumers, InHand, MainOrder, Held
    <3> QED
      BY <2>1, <3>1 DEF Untouched
  <2> QED
    BY <2>2, <2>3
<1>f. CASE ECallFails
  <2>1. UNCHANGED <<ring, record, delivered>> /\ popped' = {s \in In : Held(s)} /\ rState' = "ended"
    BY <1>f DEF ECallFails, sourceVars
  <2>2. Held(r)' <=> Held(r)
    BY <2>1 DEF Held
  <2> QED
    BY <2>1, <2>2 DEF Untouched
<1>8. ASSUME NEW s \in In, SourceEnds(s) \/ SpawnSource(s) \/ JoinSource(s) \/ StopFastCallResponder(s)
      PROVE  Untouched(r)
  BY <1>8 DEF SourceEnds, SpawnSource, JoinSource, StopFastCallResponder, Untouched, Held, responderVars,
     sourceVars
<1>9. CASE InitializeEnclaves \/ JoinResponderStopSink \/ JoinSink \/ DestroyEnclaves \/ UNCHANGED vars
  BY <1>9 DEF InitializeEnclaves, JoinResponderStopSink, JoinSink, DestroyEnclaves, Untouched, Held, vars,
     responderVars, sourceVars
<1> QED
  BY <1>1, <1>2, <1>3, <1>4, <1>5, <1>6, <1>7, <1>8, <1>9, <1>f
     DEF Next, Source, Join, Sink, Main, Returned

(* Records stay in order.                                                   *)
LEMMA StepInputOrder == IInv /\ [Next]_vars => InputOrder'
<1> SUFFICES ASSUME IInv, [Next]_vars, NEW r \in In
             PROVE  RecordsAscend(delivered[r], ring[r], record[r], Held(r))'
  BY DEF InputOrder
<1>1. /\ delivered[r] \in Seq(Nat) /\ ring[r] \in Seq(Nat) /\ record[r] \in Nat
      /\ Held(r) \in BOOLEAN
  <2>1. delivered[r] \in Seq(1 .. MaxRecords) /\ ring[r] \in Seq(1 .. MaxRecords)
    BY Rings DEF IInv, TypeOK
  <2>2. record[r] \in Nat /\ Held(r) \in BOOLEAN
    BY ConstantTypes DEF IInv, TypeOK, Held
  <2>3. 1 .. MaxRecords \subseteq Nat
    OBVIOUS
  <2> QED
    BY <2>1, <2>2, <2>3, SeqMonotonic
<1>2. RecordsAscend(delivered[r], ring[r], record[r], Held(r))
  BY DEF IInv, InputOrder
<1>3. CASE Untouched(r)
  <2>1. RecordsAscend(delivered[r], ring[r], record[r], Held(r)')
    BY <1>2, <1>3 DEF Untouched, RecordsAscend
  <2> QED
    BY <1>3, <2>1 DEF Untouched
<1>4. CASE Requested(r)
  <2>1. /\ RecordsAscend(delivered[r], ring[r], record[r] + 1, Held(r))
        /\ RecordsAscend(delivered[r], Append(ring[r], record[r] + 1), record[r] + 1, Held(r))
    BY <1>1, <1>2, AscendSent
  <2>2. RecordsAscend(delivered'[r], ring'[r], record'[r], Held(r))
    BY <1>4, <2>1 DEF Requested
  <2> QED
    BY <1>4, <2>2 DEF Requested, RecordsAscend
<1>5. CASE Taken(r)
  <2>1. RecordsAscend(delivered[r], ring[r], record[r], FALSE)
    BY <1>2, <1>5 DEF Taken, RecordsAscend
  <2>2. RecordsAscend(Append(delivered[r], Head(ring[r])), ring[r], record[r], TRUE)
    BY <1>1, <1>5, <2>1, AscendReceived DEF Taken
  <2>3. RecordsAscend(delivered'[r], ring'[r], record'[r], TRUE)
    BY <1>5, <2>2 DEF Taken
  <2> QED
    BY <1>5, <2>3 DEF Taken, RecordsAscend
<1>6. CASE Passed(r)
  <2>1. RecordsAscend(delivered[r], ring[r], record[r], TRUE)
    BY <1>2, <1>6 DEF Passed, RecordsAscend
  <2>2. RecordsAscend(delivered[r], Tail(ring[r]), record[r], FALSE)
    BY <1>1, <1>6, <2>1, AscendReleased DEF Passed
  <2>3. RecordsAscend(delivered'[r], ring'[r], record'[r], FALSE)
    BY <1>6, <2>2 DEF Passed
  <2> QED
    BY <1>6, <2>3 DEF Passed, RecordsAscend
<1> QED
  BY <1>3, <1>4, <1>5, <1>6, InputEffects
-------------------------------------------------------------------------------
(* What a step can do to the output ring: nothing, while the join may be    *)
(* given more; a request of the callback; the sink's pop and its advance.   *)
Result == <<Len(delivered[1]), Len(delivered[2])>>

OutUntouched == /\ ring'[Out] = ring[Out] /\ delivered'[Out] = delivered[Out]
                /\ \A r \in In : \/ delivered'[r] = delivered[r]
                                 \/ delivered'[r] = Append(delivered[r], Head(ring[r]))
                /\ sink' = "callback" <=> sink = "callback"
OutRequested == /\ ring'[Out] = ring[Out]
                     \/ (Len(ring[Out]) < Capacity /\ ring'[Out] = Append(ring[Out], Result))
                /\ UNCHANGED <<delivered, sink>> /\ rState \in {"emit", "flush"} /\ rState' = rState
OutTaken     == /\ sink = "poll" /\ sink' = "callback" /\ ring[Out] # <<>>
                /\ delivered' = [delivered EXCEPT ![Out] = Append(@, Head(ring[Out]))]
                /\ UNCHANGED <<ring, rState>>
OutPassed    == /\ sink = "callback" /\ sink' = "poll" /\ ring[Out] # <<>>
                /\ ring'[Out] = Tail(ring[Out])
                /\ UNCHANGED <<delivered, rState>>

(* There is no other.                                                       *)
LEMMA OutputEffects ==
  ASSUME IInv, [Next]_vars
  PROVE  OutUntouched \/ OutRequested \/ OutTaken \/ OutPassed
<1>t. /\ TypeOK /\ InHand /\ MainOrder
      /\ DOMAIN ring = Ring /\ DOMAIN delivered = Ring
      /\ Out \in Ring /\ \A r \in In : r \in Ring /\ r # Out
      /\ popped \in SUBSET In
  BY Rings DEF IInv, TypeOK
<1>1. ASSUME NEW s \in In, EmitRecord(s) PROVE OutUntouched
  <2>1. s \in Ring /\ Request(s, record[s] + 1) /\ UNCHANGED <<delivered, sink>>
    BY <1>1, Rings DEF EmitRecord
  <2>2. ring'[Out] = ring[Out]
    BY <1>t, <2>1, RequestRings
  <2> QED
    BY <2>1, <2>2 DEF OutUntouched
<1>2. CASE Callback
  <2>1. UNCHANGED <<ring, sink>>
    BY <1>2 DEF Callback
  <2>2. CASE popped = {}
    BY <1>2, <2>1, <2>2 DEF Callback, OutUntouched
  <2>3. CASE popped # {}
    <3>1. delivered' = [q \in Ring |-> IF q \in popped THEN Append(delivered[q], Head(ring[q]))
                                                       ELSE delivered[q]]
      BY <1>2, <2>3 DEF Callback
    <3> QED
      BY <1>t, <2>1, <3>1 DEF OutUntouched
  <2> QED
    BY <2>2, <2>3
<1>3. CASE Emit
  <2>1. /\ Request(Out, Result) /\ rState \in {"emit", "flush"}
        /\ UNCHANGED <<delivered, sink, rState>>
    BY <1>3 DEF Emit, Result
  <2> QED
    BY <1>t, <2>1, RequestRings DEF OutRequested
<1>4. CASE Advance
  <2>1. /\ UNCHANGED <<delivered, sink>>
        /\ \/ ring' = (IF 1 \in popped THEN [ring EXCEPT ![1] = Tail(@)] ELSE ring)
           \/ ring' = (IF 2 \in popped THEN [ring EXCEPT ![2] = Tail(@)] ELSE ring)
    BY <1>4 DEF Advance
  <2>2. ring'[Out] = ring[Out]
    BY <1>t, <2>1, Rings
  <2> QED
    BY <2>1, <2>2 DEF OutUntouched
<1>5. CASE SinkPop
  <2>1. sink = "poll" /\ UNCHANGED <<ring, rState>>
    BY <1>5 DEF SinkPop, responderVars
  <2>2. CASE ring[Out] = <<>>
    BY <1>5, <2>1, <2>2 DEF SinkPop, OutUntouched
  <2>3. CASE ring[Out] # <<>>
    BY <1>5, <2>1, <2>3 DEF SinkPop, OutTaken
  <2> QED
    BY <2>2, <2>3
<1>6. CASE SinkAdvance
  BY <1>t, <1>6 DEF SinkAdvance, InHand, OutPassed, responderVars
<1>7. CASE SinkCheckFlag \/ SpawnConsumers
  BY <1>t, <1>7 DEF SinkCheckFlag, SpawnConsumers, OutUntouched, MainOrder
<1>8. ASSUME NEW s \in In, SourceEnds(s) \/ Pop(s) \/ ReadFlag(s) \/ SpawnSource(s) \/ JoinSource(s)
                            \/ StopFastCallResponder(s)
      PROVE  OutUntouched
  BY <1>8 DEF SourceEnds, Pop, ReadFlag, SpawnSource, JoinSource, StopFastCallResponder, OutUntouched
<1>9. CASE \/ ECallFails \/ Check \/ ResponderEnds \/ InitializeEnclaves \/ JoinResponderStopSink
           \/ JoinSink \/ DestroyEnclaves \/ UNCHANGED vars
  BY <1>9 DEF ECallFails, Check, ResponderEnds, InitializeEnclaves, JoinResponderStopSink, JoinSink,
     DestroyEnclaves, OutUntouched, vars
<1> QED
  BY <1>1, <1>2, <1>3, <1>4, <1>5, <1>6, <1>7, <1>8, <1>9 DEF Next, Source, Join, Sink, Main, Returned

(* Results stay in order, too.                                              *)
LEMMA StepOutputOrder == IInv /\ [Next]_vars => OutputOrder'
<1> SUFFICES ASSUME IInv, [Next]_vars, NEW r \in In
             PROVE  ResultsAscend(delivered[Out], ring[Out], r, Len(delivered[r]))'
  BY DEF OutputOrder
<1> DEFINE S == Datum(Out)
           now == Len(delivered[r])
<1>1. \A d \in S : d[r] \in Nat
  BY Rings DEF Datum
<1>2. delivered[Out] \in Seq(S) /\ ring[Out] \in Seq(S) /\ now \in Nat
  BY Rings DEF IInv, TypeOK
<1>3. ResultsAscend(delivered[Out], ring[Out], r, now)
  BY DEF IInv, OutputOrder
<1>4. Result \in S /\ Result[r] = now
  BY ResultTyped, Rings DEF Result
<1>d. DOMAIN delivered = Ring /\ Out \in Ring /\ r \in Ring /\ r # Out
  BY Rings DEF IInv, TypeOK
<1> HIDE DEF S
<1>5. CASE OutUntouched
  <2>1. Len(delivered'[r]) \in Nat /\ now <= Len(delivered'[r])
    <3>1. delivered[r] \in Seq(Datum(r))
      BY Rings DEF IInv, TypeOK
    <3>2. Len(Append(delivered[r], Head(ring[r]))) = now + 1
      BY <3>1
    <3> QED
      BY <1>2, <1>5, <3>2 DEF OutUntouched
  <2>2. ResultsAscend(delivered[Out], ring[Out], r, Len(delivered'[r]))
    BY <1>1, <1>2, <1>3, <2>1, ResultsLater
  <2> QED
    BY <1>5, <2>2 DEF OutUntouched
<1>6. CASE OutRequested
  <2>1. ResultsAscend(delivered[Out], Append(ring[Out], Result), r, now)
    BY <1>1, <1>2, <1>3, <1>4, ResultsSent
  <2> QED
    BY <1>3, <1>6, <2>1 DEF OutRequested
<1>7. CASE OutTaken
  <2>1. ResultsAscend(Append(delivered[Out], Head(ring[Out])), ring[Out], r, now)
    BY <1>1, <1>2, <1>3, <1>7, ResultsReceived DEF OutTaken
  <2>2. /\ delivered'[Out] = Append(delivered[Out], Head(ring[Out]))
        /\ delivered'[r] = delivered[r] /\ ring' = ring
    BY <1>7, <1>d DEF OutTaken
  <2> QED
    BY <2>1, <2>2
<1>8. CASE OutPassed
  <2>1. ResultsAscend(delivered[Out], Tail(ring[Out]), r, now)
    BY <1>2, <1>3, <1>8, ResultsReleased DEF OutPassed
  <2> QED
    BY <1>8, <2>1 DEF OutPassed
<1> QED
  BY <1>5, <1>6, <1>7, <1>8, OutputEffects
-------------------------------------------------------------------------------
(* Each step of start() and its threads keeps the invariant.                *)
LEMMA StepIInv == IInv /\ [Next]_vars => IInv'
BY StepTypeOK, StepMainOrder, StepFlagSeen, StepInHand, StepInputOrder, StepOutputOrder DEF IInv

(* The inductive invariant holds for rings and streams of any size.         *)
THEOREM Invariance == Spec => []IInv
BY InitIInv, StepIInv, PTL DEF Spec

(* Type correctness.                                                        *)
THEOREM TypeCorrect == Spec => []TypeOK
<1>1. IInv => TypeOK
  BY DEF IInv
<1> QED
  BY <1>1, Invariance, PTL

(* The join sees the records of either source in the order they were        *)
(* emitted, and no result goes back behind an earlier one.                  *)
THEOREM OrderKept == Spec => []InOrder
<1>1. IInv => InOrder
  <2> SUFFICES ASSUME IInv PROVE InOrder
    OBVIOUS
  <2>1. \A r \in Ring : Len(delivered[r]) \in Nat
    BY DEF IInv, TypeOK
  <2>2. ASSUME NEW r \in In, NEW j \in 1 .. Len(delivered[r]) - 1
        PROVE  delivered[r][j] < delivered[r][j + 1]
    <3>1. j \in 1 .. Len(delivered[r]) /\ j + 1 \in 1 .. Len(delivered[r]) /\ j < j + 1
      BY <2>1, Rings
    <3> QED
      BY <3>1 DEF IInv, InputOrder, RecordsAscend
  <2>3. ASSUME NEW j \in 1 .. Len(delivered[Out]) - 1, NEW r \in In
        PROVE  delivered[Out][j][r] <= delivered[Out][j + 1][r]
    <3>1. j \in 1 .. Len(delivered[Out]) /\ j + 1 \in 1 .. Len(delivered[Out]) /\ j < j + 1
      BY <2>1, Rings
    <3> QED
      BY <3>1 DEF IInv, OutputOrder, ResultsAscend
  <2> QED
    BY <2>2, <2>3 DEF InOrder
<1> QED
  BY <1>1, Invariance, PTL

(* start() returns with no thread running and no enclave left, also when it *)
(* could not create the enclave.                                            *)
THEOREM CleanReturn == Spec => []NothingOutlivesStart
<1>1. IInv => NothingOutlivesStart
  BY Rings DEF IInv, MainOrder, NothingOutlivesStart
<1> QED
  BY <1>1, Invariance, PTL

(* The join is flushed after the end of both sources, and nothing reaches   *)
(* it or its rings after that.                                              *)
THEOREM FlushIsLast == Spec => FlushOnceBothEnded
<1>1. IInv /\ [Next]_vars =>
        [~lost /\ rState \in {"flush", "ended"} =>
           \A r \in In : sState[r] = "ended" /\ delivered'[r] = delivered[r] /\ ring'[r] = ring[r]]_vars
  <2> SUFFICES ASSUME IInv, [Next]_vars, ~lost, rState \in {"flush", "ended"}, NEW r \in In
               PROVE  sState[r] = "ended" /\ delivered'[r] = delivered[r] /\ ring'[r] = ring[r]
    OBVIOUS
  <2>1. sState[r] = "ended"
    BY Rings DEF IInv, FlagSeen, MainOrder, TypeOK
  <2>t. rState # "none" /\ pc # "spawnResponder" /\ popped = {}
    BY DEF IInv, MainOrder, InHand
  <2>2. ~Held(r)
    BY <2>t DEF Held
  <2>3. ~Held(r)'
    <3>1. CASE Join
      BY <2>t, <3>1 DEF Join, ECallFails, Pop, ReadFlag, Callback, Emit, Advance, Check,
                        ResponderEnds, Held
    <3>2. CASE ~Join
      <4>1. UNCHANGED <<rState, popped>>
        BY <2>t, <3>2 DEF Next, Source, EmitRecord, SourceEnds, Sink, SinkPop, SinkAdvance,
             SinkCheckFlag, Main, InitializeEnclaves, SpawnConsumers, SpawnSource, JoinSource,
             StopFastCallResponder, JoinResponderStopSink, JoinSink, DestroyEnclaves, Returned,
             vars, responderVars
      <4> QED
        BY <2>t, <4>1 DEF Held
    <3> QED
      BY <3>1, <3>2
  <2> QED
    BY <2>1, <2>2, <2>3, InputEffects DEF Untouched, Requested, Taken, Passed
<1> QED
  BY <1>1, Invariance, PTL DEF Spec, FlushOnceBothEnded
-------------------------------------------------------------------------------
(* What a step can do to the threads of an input ring: nothing, or one of   *)
(* them ends, or main stops the ring; the data stay where they are then.    *)
InputGoesOn(r) == /\ (sState'[r] = "ended") = (sState[r] = "ended")
                  /\ (rState' = "ended") = (rState = "ended")
                  /\ keepPolling'[r] = keepPolling[r]
InputCloses(r) == /\ sState[r] # "ended" /\ sState'[r] = "ended"
                  /\ rState' = rState /\ keepPolling'[r] = keepPolling[r]
InputStops(r)  == /\ keepPolling[r] /\ ~keepPolling'[r]
                  /\ sState[r] = "ended" /\ sState'[r] = "ended"
                  /\ (rState' = "ended") = (rState = "ended")
InputEnds(r)   == /\ rState # "ended" /\ rState' = "ended" /\ ~keepPolling[r]
                  /\ sState'[r] = sState[r] /\ keepPolling'[r] = keepPolling[r]
                  /\ ~Held(r) /\ ~Held(r)'
InputRests(r)  == /\ ring'[r] = ring[r] /\ delivered'[r] = delivered[r]
                  /\ Held(r)' = Held(r)

(* There is no other, but the loss of the ECALL.                            *)
LEMMA InputThreads ==
  ASSUME IInv, [Next]_vars, lost' = lost, NEW r \in In
  PROVE  \/ InputGoesOn(r)
         \/ InputRests(r) /\ (InputCloses(r) \/ InputStops(r) \/ InputEnds(r))
<1>t. /\ MainOrder /\ FlagSeen /\ InHand
      /\ sState \in [In -> {"none", "running", "ended"}]
      /\ keepPolling \in [Ring -> BOOLEAN] /\ r \in Ring /\ r # Out /\ (r = 1 \/ r = 2)
  BY Rings DEF IInv, TypeOK
<1>1. ASSUME NEW s \in In, EmitRecord(s) \/ Pop(s) \/ ReadFlag(s) \/ JoinSource(s)
      PROVE  InputGoesOn(r)
  BY <1>1 DEF EmitRecord, Pop, ReadFlag, JoinSource, InputGoesOn, sourceVars, responderVars, mainVars
<1>2. ASSUME NEW s \in In, SourceEnds(s)
      PROVE  InputGoesOn(r) \/ (InputRests(r) /\ InputCloses(r))
  BY <1>t, <1>2 DEF SourceEnds, InputGoesOn, InputCloses, InputRests, Held, responderVars, mainVars
<1>3. ASSUME NEW s \in In, SpawnSource(s) PROVE InputGoesOn(r)
  BY <1>t, <1>3, Rings DEF SpawnSource, MainOrder, InputGoesOn, responderVars
<1>4. ASSUME NEW s \in In, StopFastCallResponder(s)
      PROVE  InputGoesOn(r) \/ (InputRests(r) /\ InputStops(r))
  <2>1. /\ keepPolling' = [keepPolling EXCEPT ![s] = FALSE]
        /\ UNCHANGED <<ring, delivered, sState, rState, popped>>
        /\ s \in Ring
    BY <1>4, Rings DEF StopFastCallResponder, sourceVars, responderVars
  <2>2. CASE s # r
    BY <1>t, <2>1, <2>2 DEF InputGoesOn
  <2>3. CASE s = r
    <3>1. keepPolling[r] /\ ~keepPolling'[r] /\ sState[r] = "ended"
      BY <1>t, <1>4, <2>1, <2>3 DEF StopFastCallResponder, MainOrder
    <3> QED
      BY <2>1, <3>1 DEF InputRests, InputStops, Held
  <2> QED
    BY <2>2, <2>3
<1>5. CASE ResponderEnds
  BY <1>t, <1>5 DEF ResponderEnds, FlagSeen, InHand, InputRests, InputEnds, Held, sourceVars, mainVars
<1>6. CASE Callback \/ Emit \/ Advance \/ Check \/ Sink
  BY <1>6 DEF Callback, Emit, Advance, Check, Sink, SinkPop, SinkAdvance, SinkCheckFlag, InputGoesOn,
     sourceVars, responderVars, mainVars
<1>f. ASSUME ECallFails PROVE FALSE
  BY <1>t, <1>f DEF ECallFails, FlagSeen
<1>7. CASE SpawnConsumers
  BY <1>t, <1>7 DEF SpawnConsumers, MainOrder, InputGoesOn, sourceVars, responderVars
<1>8. CASE JoinResponderStopSink
  BY <1>t, <1>8, Rings DEF JoinResponderStopSink, InputGoesOn, sourceVars, responderVars
<1>9. CASE InitializeEnclaves \/ JoinSink \/ DestroyEnclaves \/ UNCHANGED vars
  BY <1>9 DEF InitializeEnclaves, JoinSink, DestroyEnclaves, InputGoesOn, vars, sourceVars,
     responderVars, mainVars
<1> QED
  BY <1>1, <1>2, <1>3, <1>4, <1>5, <1>6, <1>7, <1>8, <1>9, <1>f DEF Next, Source, Join, Main, Returned

(* Every step is a step of each input's channel, or leaves it alone.        *)
LEMMA StepInput ==
  ASSUME IInv, [Next]_vars, lost' = lost, NEW r \in In
  PROVE  InputStep(r)
<1>t. /\ Datum(r) = 1 .. MaxRecords /\ record[r] \in 0 .. MaxRecords /\ MaxRecords \in Nat
      /\ keepPolling \in [Ring -> BOOLEAN] /\ r \in Ring /\ InHand
  BY Rings, ConstantTypes DEF IInv, TypeOK
<1>1. CASE InputRests(r) /\ InputCloses(r)
  <2>1. InputChannel(r)!CloseSender
    BY <1>1 DEF InputRests, InputCloses, InputChannel!CloseSender
  <2> QED
    BY <2>1 DEF InputStep, InputChannel!Next
<1>2. CASE InputRests(r) /\ InputStops(r)
  <2>1. CASE rState = "ended"
    <3>1. UNCHANGED InputChannel(r)!vars
      BY <1>2, <2>1 DEF InputRests, InputStops, InputChannel!vars
    <3> QED
      BY <3>1 DEF InputStep
  <2>2. CASE rState # "ended"
    <3>1. InputChannel(r)!Stop
      BY <1>2, <2>2 DEF InputRests, InputStops, InputChannel!Stop
    <3> QED
      BY <3>1 DEF InputStep, InputChannel!Next
  <2> QED
    BY <2>1, <2>2
<1>3. CASE InputRests(r) /\ InputEnds(r)
  <2>1. InputChannel(r)!End
    BY <1>3 DEF InputRests, InputEnds, InputChannel!End
  <2> QED
    BY <2>1 DEF InputStep, InputChannel!Next
<1>4. CASE InputGoesOn(r) /\ Untouched(r)
  <2>1. UNCHANGED InputChannel(r)!vars
    <3>1. Held(r)' = Held(r)
      BY <1>4 DEF Untouched, Held
    <3> QED
      BY <1>4, <3>1 DEF InputGoesOn, Untouched, InputChannel!vars
  <2> QED
    BY <2>1 DEF InputStep
<1>5. CASE InputGoesOn(r) /\ Requested(r)
  <2>1. Held(r)' = Held(r)
    BY <1>5 DEF Requested, Held
  <2>2. CASE ring'[r] = ring[r]
    <3>1. UNCHANGED InputChannel(r)!vars
      BY <1>5, <2>1, <2>2 DEF InputGoesOn, Requested, InputChannel!vars
    <3> QED
      BY <3>1 DEF InputStep
  <2>3. CASE Len(ring[r]) < Capacity /\ ring'[r] = Append(ring[r], record[r] + 1)
    <3>1. InputChannel(r)!Send(record[r] + 1)
      BY <1>5, <2>1, <2>3 DEF InputGoesOn, Requested, InputChannel!Send
    <3>2. record[r] + 1 \in Datum(r)
      BY <1>t, <1>5 DEF Requested
    <3> QED
      BY <3>1, <3>2 DEF InputStep, InputChannel!Next
  <2> QED
    BY <1>5, <2>2, <2>3 DEF Requested
<1>6. CASE InputGoesOn(r) /\ Taken(r)
  <2>1. InputChannel(r)!Receive
    <3>1. rState' # "ended" /\ Held(r)' = TRUE
      BY <1>6 DEF InputGoesOn, Taken
    <3> QED
      BY <1>6, <3>1 DEF InputGoesOn, Taken, InputChannel!Receive
  <2> QED
    BY <2>1 DEF InputStep, InputChannel!Next
<1>7. CASE InputGoesOn(r) /\ Passed(r)
  <2>1. InputChannel(r)!Release
    <3>1. Held(r)' = FALSE
      BY <1>7 DEF Passed, Held
    <3> QED
      BY <1>7, <3>1 DEF InputGoesOn, Passed, InputChannel!Release
  <2> QED
    BY <2>1 DEF InputStep, InputChannel!Next
<1> QED
  BY <1>1, <1>2, <1>3, <1>4, <1>5, <1>6, <1>7, InputThreads, InputEffects
-------------------------------------------------------------------------------
(* The same of the output ring's threads: the join sends, the sink receives.*)
OutputGoesOn == /\ (rState' = "ended") = (rState = "ended")
                /\ (sink' = "ended") = (sink = "ended")
                /\ keepPolling'[Out] = keepPolling[Out]
OutputCloses == /\ rState # "ended" /\ rState' = "ended"
                /\ sink' = sink /\ keepPolling' = keepPolling
OutputStops  == /\ keepPolling[Out] /\ ~keepPolling'[Out]
                /\ rState = "ended" /\ rState' = "ended"
                /\ sink # "ended" /\ sink' = sink
OutputEnds   == /\ sink = "checkFlag" /\ sink' = "ended" /\ ~keepPolling[Out]
                /\ rState' = rState /\ keepPolling' = keepPolling
OutputRests  == /\ ring'[Out] = ring[Out] /\ delivered'[Out] = delivered[Out]
                /\ (sink' = "callback") = (sink = "callback")

(* There is no other, whatever becomes of the enclave.                      *)
LEMMA OutputThreads ==
  ASSUME IInv, [Next]_vars
  PROVE  \/ OutputGoesOn
         \/ OutputRests /\ (OutputCloses \/ OutputStops \/ OutputEnds)
<1>t. /\ MainOrder /\ FlagSeen
      /\ keepPolling \in [Ring -> BOOLEAN] /\ Out \in Ring /\ \A r \in In : r # Out
  BY Rings DEF IInv, TypeOK
<1>1. ASSUME NEW s \in In, Source(s) \/ Pop(s) \/ ReadFlag(s) \/ SpawnSource(s) \/ JoinSource(s)
      PROVE  OutputGoesOn
  BY <1>1 DEF Source, EmitRecord, SourceEnds, Pop, ReadFlag, SpawnSource, JoinSource, OutputGoesOn,
     responderVars, mainVars
<1>2. ASSUME NEW s \in In, StopFastCallResponder(s) PROVE OutputGoesOn
  BY <1>t, <1>2 DEF StopFastCallResponder, OutputGoesOn, responderVars
<1>3. CASE Callback \/ Emit \/ Advance \/ Check \/ SinkPop \/ SinkAdvance
  BY <1>3 DEF Callback, Emit, Advance, Check, SinkPop, SinkAdvance, OutputGoesOn, responderVars,
     mainVars
<1>4. CASE ECallFails \/ ResponderEnds
  BY <1>4 DEF ECallFails, ResponderEnds, OutputRests, OutputCloses, mainVars
<1>5. CASE SinkCheckFlag
  BY <1>5 DEF SinkCheckFlag, OutputRests, OutputEnds, OutputGoesOn, responderVars, mainVars
<1>6. CASE SpawnConsumers
  BY <1>t, <1>6 DEF SpawnConsumers, MainOrder, OutputGoesOn, responderVars
<1>7. CASE JoinResponderStopSink
  <2>1. keepPolling[Out] /\ sink # "ended"
    BY <1>t, <1>7 DEF JoinResponderStopSink, MainOrder, FlagSeen
  <2> QED
    BY <1>t, <1>7, <2>1 DEF JoinResponderStopSink, OutputRests, OutputStops, responderVars
<1>8. CASE InitializeEnclaves \/ JoinSink \/ DestroyEnclaves \/ UNCHANGED vars
  BY <1>8 DEF InitializeEnclaves, JoinSink, DestroyEnclaves, OutputGoesOn, vars, responderVars,
     mainVars
<1> QED
  BY <1>1, <1>2, <1>3, <1>4, <1>5, <1>6, <1>7, <1>8 DEF Next, Join, Sink, Main, Returned

(* Every step is a step of the output's channel, or leaves it alone.        *)
LEMMA StepOutput ==
  ASSUME IInv, [Next]_vars
  PROVE  OutputStep
<1>1. CASE OutputRests /\ OutputCloses
  <2>1. OutputChannel!CloseSender
    BY <1>1 DEF OutputRests, OutputCloses, OutputChannel!CloseSender
  <2> QED
    BY <2>1 DEF OutputStep, OutputChannel!Next
<1>2. CASE OutputRests /\ OutputStops
  <2>1. OutputChannel!Stop
    BY <1>2 DEF OutputRests, OutputStops, OutputChannel!Stop
  <2> QED
    BY <2>1 DEF OutputStep, OutputChannel!Next
<1>3. CASE OutputRests /\ OutputEnds
  <2>1. OutputChannel!End
    BY <1>3 DEF OutputRests, OutputEnds, OutputChannel!End
  <2> QED
    BY <2>1 DEF OutputStep, OutputChannel!Next
<1>4. CASE OutputGoesOn /\ OutUntouched
  <2>1. UNCHANGED OutputChannel!vars
    BY <1>4 DEF OutputGoesOn, OutUntouched, OutputChannel!vars
  <2> QED
    BY <2>1 DEF OutputStep
<1>5. CASE OutputGoesOn /\ OutRequested
  <2>1. CASE ring'[Out] = ring[Out]
    <3>1. UNCHANGED OutputChannel!vars
      BY <1>5, <2>1 DEF OutputGoesOn, OutRequested, OutputChannel!vars
    <3> QED
      BY <3>1 DEF OutputStep
  <2>2. CASE Len(ring[Out]) < Capacity /\ ring'[Out] = Append(ring[Out], Result)
    <3>1. OutputChannel!Send(Result)
      BY <1>5, <2>2 DEF OutputGoesOn, OutRequested, OutputChannel!Send
    <3>2. Result \in Datum(Out)
      BY ResultTyped DEF Result
    <3> QED
      BY <3>1, <3>2 DEF OutputStep, OutputChannel!Next
  <2> QED
    BY <1>5, <2>1, <2>2 DEF OutRequested
<1>6. CASE OutputGoesOn /\ OutTaken
  <2>0. delivered'[Out] = Append(delivered[Out], Head(ring[Out]))
    BY <1>6, Rings DEF OutTaken, IInv, TypeOK
  <2>1. OutputChannel!Receive
    BY <1>6, <2>0 DEF OutputGoesOn, OutTaken, OutputChannel!Receive
  <2> QED
    BY <2>1 DEF OutputStep, OutputChannel!Next
<1>7. CASE OutputGoesOn /\ OutPassed
  <2>1. OutputChannel!Release
    BY <1>7 DEF OutputGoesOn, OutPassed, OutputChannel!Release
  <2> QED
    BY <2>1 DEF OutputStep, OutputChannel!Next
<1> QED
  BY <1>1, <1>2, <1>3, <1>4, <1>5, <1>6, <1>7, OutputThreads, OutputEffects

(* The three rings are StreamChannels, rings 1 and 2 with the one join for  *)
(* their receiver, and start() stops them in the order the channels ask for.*)
THEOREM TwoSourceUsesChannels == Spec => RingsAreChannels
<1>1. Init => \A r \in In : InputChannel(r)!Init
  BY Rings DEF Init, Held, InputChannel!Init
<1>2. Init => OutputChannel!Init
  BY Rings DEF Init, OutputChannel!Init
<1>3. IInv /\ [Next]_vars =>
        [(\A r \in In : lost' # lost \/ InputStep(r)) /\ OutputStep]_vars
  BY StepInput, StepOutput
<1> QED
  BY <1>1, <1>2, <1>3, Invariance, PTL DEF Spec, RingsAreChannels
===============================================================================
