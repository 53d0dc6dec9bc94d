----------------------------- MODULE EngineProofs -----------------------------
(***************************************************************************)
(* Proofs about Engine.tla, for pipelines of any length, rings of any size  *)
(* and callbacks that emit any number of data.                              *)
(***************************************************************************)
EXTENDS Engine, TLAPS

(* The engine before start() creates its first enclave.                     *)
LEMMA InitIInv == Init => IInv
<1> SUFFICES ASSUME Init PROVE IInv
  OBVIOUS
<1>1. TypeOK
  BY EngineAssumption DEF Init, TypeOK, Ring, Stage, Origin, EndOfStream
<1>2. MainOrder
  BY EngineAssumption DEF Init, MainOrder, Ring, Stage
<1>3. StopFollowsProducer /\ FlagSeen /\ InHand /\ PipelineOrder
  BY EngineAssumption DEF Init, StopFollowsProducer, FlagSeen, InHand, PipelineOrder, Ordered
<1> QED
  BY <1>1, <1>2, <1>3 DEF IInv

(* The constants as the arithmetic of the proofs uses them.                 *)
LEMMA ConstantTypes ==
  /\ NStages \in Nat /\ NStages > 0
  /\ Capacity \in Nat /\ MaxRecords \in Nat /\ MaxEmit \in Nat
  /\ EndOfStream \in Origin
  /\ \A r \in Ring : Emissions(r) \subseteq 0 .. MaxEmit
  /\ \A r \in Stage : r \in Ring /\ r + 1 \in Ring
BY EngineAssumption DEF Origin, EndOfStream, Ring, Stage, Emissions

(* Thread numbers are ring numbers or -1, and each occurs once.             *)
LEMMA SpawnOrderOnce ==
  /\ \A k \in 0 .. NStages + 1 : SpawnOrder[k] = -1 \/ SpawnOrder[k] \in Ring
  /\ \A j, k \in 0 .. NStages + 1 : SpawnOrder[j] = SpawnOrder[k] => j = k
BY EngineAssumption DEF SpawnOrder, Ring

(* Requests, pops and the control states keep the types.                    *)
LEMMA StepTypeOK == IInv /\ [Next]_vars => TypeOK'
<1>0. SUFFICES ASSUME TypeOK, MainOrder, InHand, [Next]_vars PROVE TypeOK'
  BY DEF IInv
<1> USE ConstantTypes
<1>r. ASSUME NEW r \in Ring, NEW d \in Origin, Request(r, d)
      PROVE  ring' \in [Ring -> Seq(Origin)]
  <2>1. Append(ring[r], d) \in Seq(Origin)
    BY <1>0, <1>r DEF TypeOK
  <2> QED
    BY <1>0, <1>r, <2>1 DEF TypeOK, Request
<1>1. CASE Source
  <2>1. CASE EmitRecord
    <3>1. record + 1 \in Origin /\ record' \in 0 .. MaxRecords /\ 0 \in Ring
      BY <1>0, <2>1 DEF TypeOK, EmitRecord, Origin, EndOfStream, Ring
    <3>2. Request(0, record + 1)
      BY <2>1 DEF EmitRecord
    <3>3. ring' \in [Ring -> Seq(Origin)]
      BY <3>1, <3>2, <1>r
    <3> QED
      BY <1>0, <2>1, <3>1, <3>3 DEF TypeOK, EmitRecord, consumerVars, mainVars
  <2>2. CASE SourceEnds
    BY <1>0, <2>2 DEF TypeOK, SourceEnds, consumerVars, mainVars
  <2> QED
    BY <1>1, <2>1, <2>2 DEF Source
<1>2. ASSUME NEW r \in Ring, ResponderThread(r) PROVE TypeOK'
  <2>1. CASE PopEmpty(r) \/ ConsumerEnds(r)
    BY <1>0, <2>1 DEF TypeOK, PopEmpty, ConsumerEnds, sourceVars, mainVars
  <2>2. CASE PopDatum(r)
    <3>1. Head(ring[r]) \in Origin
      BY <1>0, <2>2 DEF TypeOK, PopDatum
    <3>2. delivered' \in [Ring -> Seq(Origin)]
      BY <1>0, <2>2, <3>1 DEF TypeOK, PopDatum
    <3>3. out' \in [Ring -> 0 .. MaxEmit]
      BY <1>0, <2>2 DEF TypeOK, PopDatum
    <3> QED
      BY <1>0, <2>2, <3>2, <3>3 DEF TypeOK, PopDatum, sourceVars, mainVars
  <2>3. CASE Emit(r)
    <3>1. PICK d \in Origin : Request(r + 1, d)
      <4>1. cState[r] = "callback" => Head(ring[r]) \in Origin
        BY <1>0 DEF TypeOK, InHand
      <4> QED
        BY <2>3, <4>1 DEF Emit
    <3>2. ring' \in [Ring -> Seq(Origin)]
      BY <2>3, <3>1, <1>r DEF Emit
    <3>3. out' \in [Ring -> 0 .. MaxEmit]
      BY <1>0, <2>3 DEF TypeOK, Emit
    <3> QED
      BY <1>0, <2>3, <3>2, <3>3 DEF TypeOK, Emit, sourceVars, mainVars
  <2>4. CASE Advance(r)
    <3>1. Tail(ring[r]) \in Seq(Origin)
      BY <1>0, <2>4 DEF TypeOK, InHand, Advance
    <3> QED
      BY <1>0, <2>4, <3>1 DEF TypeOK, Advance, sourceVars, mainVars
  <2>5. CASE CheckFlag(r)
    <3>1. out' \in [Ring -> 0 .. MaxEmit]
      BY <1>0, <2>5 DEF TypeOK, CheckFlag
    <3>2. cState' \in [Ring -> {"none", "poll", "callback", "checkFlag", "flush", "ended"}]
      BY <1>0, <2>5 DEF TypeOK, CheckFlag
    <3> QED
      BY <1>0, <2>5, <3>1, <3>2 DEF TypeOK, CheckFlag, sourceVars, mainVars
  <2>6. CASE ECallFails(r)
    BY <1>0, <2>6 DEF TypeOK, ECallFails, sourceVars, mainVars
  <2> QED
    BY <1>2, <2>1, <2>2, <2>3, <2>4, <2>5, <2>6 DEF ResponderThread
<1>3. CASE Main
  <2>1. CASE InitializeEnclaves
    <3>1. enclave' \in [Stage -> {"none", "created", "destroyed"}]
      BY <1>0, <2>1 DEF TypeOK, InitializeEnclaves
    <3>2. i' \in 0 .. NStages + 1
      BY <1>0, <2>1 DEF TypeOK, InitializeEnclaves
    <3>3. pc' \in {"create", "spawn", "destroy"}
      BY <2>1 DEF InitializeEnclaves
    <3> QED
      BY <1>0, <2>1, <3>1, <3>2, <3>3 DEF TypeOK, InitializeEnclaves, sourceVars, consumerVars
  <2>2. CASE Spawn
    <3>1. cState' \in [Ring -> {"none", "poll", "callback", "checkFlag", "flush", "ended"}]
      BY <1>0, <2>2 DEF TypeOK, Spawn
    <3>2. sState' \in {"none", "running", "ended"}
      BY <1>0, <2>2 DEF TypeOK, Spawn
    <3>3. i' \in 0 .. NStages + 1 /\ pc' \in {"spawn", "joinSource"}
      BY <1>0, <2>2 DEF TypeOK, Spawn
    <3> QED
      BY <1>0, <2>2, <3>1, <3>2, <3>3 DEF TypeOK, Spawn
  <2>3. CASE JoinSource
    BY <1>0, <2>3 DEF TypeOK, JoinSource, sourceVars, consumerVars
  <2>4. CASE StopFastCallResponder
    BY <1>0, <2>4 DEF TypeOK, StopFastCallResponder, sourceVars, consumerVars
  <2>5. CASE JoinResponder
    BY <1>0, <2>5 DEF TypeOK, JoinResponder, sourceVars, consumerVars
  <2>6. CASE DestroyEnclaves
    <3>1. enclave' \in [Stage -> {"none", "created", "destroyed"}]
      BY <1>0, <2>6 DEF TypeOK, DestroyEnclaves
    <3>2. i' \in 0 .. NStages + 1 /\ pc' \in {"destroy", "done"}
      BY <1>0, <2>6 DEF TypeOK, DestroyEnclaves
    <3> QED
      BY <1>0, <2>6, <3>1, <3>2 DEF TypeOK, DestroyEnclaves, sourceVars, consumerVars
  <2> QED
    BY <1>3, <2>1, <2>2, <2>3, <2>4, <2>5, <2>6 DEF Main
<1>4. CASE UNCHANGED vars
  BY <1>0, <1>4 DEF TypeOK, vars, sourceVars, consumerVars, mainVars
<1> QED
  BY <1>0, <1>1, <1>2, <1>3, <1>4 DEF Next, Returned

(* What every step of consumer r has in common: r runs, and nothing but its *)
(* own control state, the two rings it touches and its history changes.     *)
LEMMA ConsumerStep ==
  ASSUME TypeOK, NEW r \in Ring, ResponderThread(r)
  PROVE  /\ cState[r] \notin {"none", "ended"}
         /\ cState'[r] # "none"
         /\ \A q \in Ring \ {r} : cState'[q] = cState[q]
         /\ UNCHANGED mainVars
         /\ UNCHANGED sourceVars
<1>1. cState \in [Ring -> {"none", "poll", "callback", "checkFlag", "flush", "ended"}]
  BY DEF TypeOK
<1>2. CASE PopEmpty(r) \/ PopDatum(r) \/ Emit(r)
  BY <1>1, <1>2 DEF PopEmpty, PopDatum, Emit
<1>3. CASE Advance(r) \/ CheckFlag(r)
  BY <1>1, <1>3 DEF Advance, CheckFlag
<1>4. CASE ConsumerEnds(r) \/ ECallFails(r)
  BY <1>1, <1>4 DEF ConsumerEnds, ECallFails
<1> QED
  BY <1>2, <1>3, <1>4 DEF ResponderThread

(* Main's place in start() tells the state of threads, flags and enclaves.  *)
LEMMA StepMainOrder == IInv /\ [Next]_vars => MainOrder'
<1>0. SUFFICES ASSUME TypeOK, MainOrder, [Next]_vars PROVE MainOrder'
  BY DEF IInv
<1> USE ConstantTypes
<1>1. CASE Source
  <2>1. sState = "running" /\ sState' \in {"running", "ended"}
    BY <1>1 DEF Source, EmitRecord, SourceEnds
  <2>2. UNCHANGED <<pc, i, enclave, keepPolling, cState>>
    BY <1>1 DEF Source, EmitRecord, SourceEnds, mainVars, consumerVars
  <2> QED
    BY <1>0, <2>1, <2>2 DEF MainOrder
<1>2. ASSUME NEW r \in Ring, ResponderThread(r) PROVE MainOrder'
  <2>1. /\ cState[r] \notin {"none", "ended"}
        /\ cState'[r] # "none"
        /\ \A q \in Ring \ {r} : cState'[q] = cState[q]
    BY <1>0, <1>2, ConsumerStep
  <2>2. UNCHANGED <<pc, i, enclave, keepPolling, sState>>
    BY <1>0, <1>2, ConsumerStep DEF mainVars, sourceVars
  <2>3. pc \notin {"create", "destroy", "done"}
    BY <1>0, <2>1 DEF MainOrder
  <2>4. pc = "spawn" =>
          \A k \in i .. NStages + 1 :
            IF SpawnOrder[k] = -1 THEN sState = "none" ELSE cState'[SpawnOrder[k]] = "none"
    <3> SUFFICES ASSUME pc = "spawn", NEW k \in i .. NStages + 1, SpawnOrder[k] # -1
                 PROVE  cState'[SpawnOrder[k]] = "none"
      BY <1>0 DEF MainOrder
    <3>1. k \in 0 .. NStages + 1
      BY <1>0 DEF TypeOK
    <3>2. SpawnOrder[k] \in Ring /\ cState[SpawnOrder[k]] = "none"
      BY <1>0, <3>1, SpawnOrderOnce DEF MainOrder
    <3> QED
      BY <2>1, <3>2
  <2>5. pc \in {"stop", "join"} => \A q \in Ring : q < i => cState'[q] = "ended"
    BY <1>0, <2>1 DEF MainOrder
  <2> QED
    BY <1>0, <2>2, <2>3, <2>4, <2>5 DEF MainOrder
<1>3. CASE InitializeEnclaves
  <2>1. pc = "create" /\ UNCHANGED <<keepPolling, sState, cState>>
    BY <1>3 DEF InitializeEnclaves, sourceVars, consumerVars
  <2>2. i \in Stage /\ enclave \in [Stage -> {"none", "created", "destroyed"}]
    BY <1>0, <2>1 DEF MainOrder, TypeOK
  <2>3. CASE pc' = "create"
    BY <1>0, <1>3, <2>1, <2>2, <2>3 DEF InitializeEnclaves, MainOrder, Stage
  <2>4. CASE pc' = "spawn"
    <3>1. \A s \in Stage : enclave'[s] = "created"
      BY <1>0, <1>3, <2>1, <2>2, <2>4 DEF InitializeEnclaves, MainOrder, Stage
    <3>2. \A k \in i' .. NStages + 1 :
            IF SpawnOrder[k] = -1 THEN sState' = "none" ELSE cState'[SpawnOrder[k]] = "none"
      <4>1. i' = 0
        BY <1>3, <2>1, <2>4 DEF InitializeEnclaves
      <4> QED
        BY <1>0, <2>1, <4>1, SpawnOrderOnce DEF MainOrder
    <3> QED
      BY <1>0, <2>1, <2>4, <3>1, <3>2 DEF MainOrder
  <2>5. CASE pc' = "destroy"
    <3>1. i' = 0 /\ enclave' = enclave
      BY <1>3, <2>1, <2>5 DEF InitializeEnclaves
    <3> QED
      BY <1>0, <2>1, <2>2, <2>5, <3>1 DEF MainOrder, Stage
  <2> QED
    BY <1>3, <2>1, <2>3, <2>4, <2>5 DEF InitializeEnclaves
<1>4. CASE Spawn
  <2>1. pc = "spawn" /\ i \in 0 .. NStages + 1 /\ UNCHANGED <<enclave, keepPolling>>
    BY <1>0, <1>4 DEF Spawn, TypeOK
  <2>2. cState \in [Ring -> {"none", "poll", "callback", "checkFlag", "flush", "ended"}]
    BY <1>0 DEF TypeOK
  <2>3. CASE pc' = "spawn"
    <3>1. i' = i + 1
      BY <1>4, <2>1, <2>3 DEF Spawn
    <3>2. ASSUME NEW k \in i' .. NStages + 1
          PROVE  IF SpawnOrder[k] = -1 THEN sState' = "none" ELSE cState'[SpawnOrder[k]] = "none"
      <4>1. k \in 0 .. NStages + 1 /\ k \in i .. NStages + 1 /\ k # i
        BY <2>1, <3>1, <3>2
      <4>2. SpawnOrder[k] # SpawnOrder[i]
        BY <2>1, <4>1, SpawnOrderOnce
      <4>3. IF SpawnOrder[k] = -1 THEN sState = "none" ELSE cState[SpawnOrder[k]] = "none"
        BY <1>0, <2>1, <4>1 DEF MainOrder
      <4>4. SpawnOrder[k] = -1 \/ SpawnOrder[k] \in Ring
        BY <4>1, SpawnOrderOnce
      <4> QED
        BY <1>4, <2>2, <4>2, <4>3, <4>4 DEF Spawn
    <3> QED
      BY <1>0, <2>1, <2>3, <3>2 DEF MainOrder
  <2>4. CASE pc' = "joinSource"
    <3>1. i' = 0
      BY <1>4, <2>1, <2>4 DEF Spawn
    <3> QED
      BY <1>0, <2>1, <2>4, <3>1 DEF MainOrder
  <2> QED
    BY <1>4, <2>1, <2>3, <2>4 DEF Spawn
<1>5. CASE JoinSource
  <2>1. pc = "joinSource" /\ pc' = "stop" /\ sState = "ended"
        /\ UNCHANGED <<i, enclave, keepPolling, sState, cState>>
    BY <1>5 DEF JoinSource, sourceVars, consumerVars
  <2>2. i = 0
    BY <1>0, <2>1 DEF MainOrder
  <2> QED
    BY <1>0, <2>1, <2>2 DEF MainOrder, Ring
<1>6. CASE StopFastCallResponder
  <2>1. pc = "stop" /\ pc' = "join" /\ keepPolling' = [keepPolling EXCEPT ![i] = FALSE]
        /\ UNCHANGED <<i, enclave, sState, cState>>
    BY <1>6 DEF StopFastCallResponder, sourceVars, consumerVars
  <2>2. i \in Ring /\ ~keepPolling'[i]
    BY <1>0, <2>1 DEF MainOrder, TypeOK
  <2> QED
    BY <1>0, <2>1, <2>2 DEF MainOrder
<1>7. CASE JoinResponder
  <2>1. /\ pc = "join" /\ cState[i] = "ended"
        /\ UNCHANGED <<enclave, keepPolling, sState, cState>>
        /\ IF i < NStages THEN i' = i + 1 /\ pc' = "stop" ELSE i' = 0 /\ pc' = "destroy"
    BY <1>7 DEF JoinResponder, sourceVars, consumerVars
  <2>2. i \in Ring /\ \A q \in Ring : q <= i => cState[q] = "ended"
    BY <1>0, <2>1 DEF MainOrder, Ring
  <2>3. CASE i < NStages
    BY <1>0, <2>1, <2>2, <2>3 DEF MainOrder, Ring
  <2>4. CASE ~(i < NStages)
    <3>1. \A q \in Ring : cState[q] = "ended"
      BY <2>2, <2>4 DEF Ring
    <3> QED
      BY <1>0, <2>1, <2>4, <3>1 DEF MainOrder, Stage
  <2> QED
    BY <2>3, <2>4
<1>8. CASE DestroyEnclaves
  <2>1. pc = "destroy" /\ UNCHANGED <<keepPolling, sState, cState>>
    BY <1>8 DEF DestroyEnclaves, sourceVars, consumerVars
  <2>2. i \in Stage /\ enclave \in [Stage -> {"none", "created", "destroyed"}]
    BY <1>0, <2>1 DEF MainOrder, TypeOK
  <2>3. \A s \in Stage : s <= i => enclave'[s] # "created"
    BY <1>0, <1>8, <2>1, <2>2 DEF DestroyEnclaves, MainOrder, Stage
  <2>4. \A s \in Stage : s > i => enclave'[s] = enclave[s]
    BY <1>8, <2>1, <2>2 DEF DestroyEnclaves, Stage
  <2>5. CASE enclave[i] = "created" /\ i + 1 < NStages
    BY <1>0, <1>8, <2>1, <2>2, <2>3, <2>4, <2>5 DEF DestroyEnclaves, MainOrder, Stage
  <2>6. CASE ~(enclave[i] = "created" /\ i + 1 < NStages)
    <3>1. pc' = "done"
      BY <1>8, <2>6 DEF DestroyEnclaves
    <3>2. \A s \in Stage : enclave'[s] # "created"
      BY <1>0, <2>1, <2>2, <2>3, <2>4, <2>6 DEF MainOrder, Stage
    <3> QED
      BY <1>0, <2>1, <3>1, <3>2 DEF MainOrder
  <2> QED
    BY <2>5, <2>6
<1>9. CASE UNCHANGED vars
  BY <1>0, <1>9 DEF MainOrder, vars, sourceVars, consumerVars, mainVars
<1> QED
  BY <1>0, <1>1, <1>2, <1>3, <1>4, <1>5, <1>6, <1>7, <1>8, <1>9 DEF Next, Main, Returned

(* Flags go down after the producer's end, consumers end after their flags. *)
LEMMA StepFlags == IInv /\ [Next]_vars => StopFollowsProducer' /\ FlagSeen'
<1>0. SUFFICES ASSUME TypeOK, MainOrder, StopFollowsProducer, FlagSeen, [Next]_vars
               PROVE  StopFollowsProducer' /\ FlagSeen'
  BY DEF IInv
<1> USE ConstantTypes
<1>t. /\ cState \in [Ring -> {"none", "poll", "callback", "checkFlag", "flush", "ended"}]
      /\ keepPolling \in [Ring -> BOOLEAN]
  BY <1>0 DEF TypeOK
<1>p. \A r \in Ring : r = 0 \/ r - 1 \in Ring
  BY DEF Ring
<1>1. CASE Source
  <2>1. sState = "running" /\ sState' \in {"running", "ended"}
    BY <1>1 DEF Source, EmitRecord, SourceEnds
  <2>2. UNCHANGED <<keepPolling, cState, failed>>
    BY <1>1 DEF Source, EmitRecord, SourceEnds, mainVars, consumerVars
  <2> QED
    BY <1>0, <2>1, <2>2 DEF StopFollowsProducer, FlagSeen, ProducerEnded
<1>2. ASSUME NEW r \in Ring, ResponderThread(r) PROVE StopFollowsProducer' /\ FlagSeen'
  <2>1. /\ cState[r] \notin {"none", "ended"}
        /\ \A q \in Ring \ {r} : cState'[q] = cState[q]
        /\ UNCHANGED <<keepPolling, sState>>
    BY <1>0, <1>2, ConsumerStep DEF mainVars, sourceVars
  <2>2. StopFollowsProducer'
    BY <1>0, <1>p, <2>1 DEF StopFollowsProducer, ProducerEnded
  <2>3. failed' \in {failed, failed \cup {r}}
    BY <1>2 DEF ResponderThread, PopEmpty, PopDatum, Emit, Advance, CheckFlag, ConsumerEnds,
                ECallFails
  <2>4. cState'[r] = "flush" => ~keepPolling[r]
    BY <1>0, <1>2, <1>t DEF FlagSeen, ResponderThread, PopEmpty, PopDatum, Emit, Advance,
                CheckFlag, ConsumerEnds, ECallFails
  <2>5. cState'[r] = "ended" => (~keepPolling[r] \/ r \in failed')
    BY <1>0, <1>2, <1>t DEF FlagSeen, ResponderThread, PopEmpty, PopDatum, Emit, Advance,
                CheckFlag, ConsumerEnds, ECallFails
  <2>6. FlagSeen'
    BY <1>0, <2>1, <2>3, <2>4, <2>5 DEF FlagSeen
  <2> QED
    BY <2>2, <2>6
<1>3. CASE Spawn
  <2>1. pc = "spawn" /\ UNCHANGED <<keepPolling, failed>>
    BY <1>3 DEF Spawn
  <2>2. \A r \in Ring : keepPolling'[r]
    BY <1>0, <2>1 DEF MainOrder
  <2>3. \A r \in Ring : cState'[r] \in {"poll", cState[r]}
    BY <1>3, <1>t DEF Spawn
  <2> QED
    BY <1>0, <2>1, <2>2, <2>3 DEF StopFollowsProducer, FlagSeen
<1>4. CASE StopFastCallResponder
  <2>1. /\ pc = "stop"
        /\ keepPolling' = [keepPolling EXCEPT ![i] = FALSE]
        /\ UNCHANGED <<sState, cState, failed>>
    BY <1>4 DEF StopFastCallResponder, sourceVars, consumerVars
  <2>2. i \in Ring /\ sState = "ended" /\ \A r \in Ring : r < i => cState[r] = "ended"
    BY <1>0, <2>1 DEF MainOrder
  <2>3. ProducerEnded(i)
    BY <1>p, <2>2 DEF ProducerEnded, Ring
  <2>4. StopFollowsProducer'
    BY <1>0, <1>t, <2>1, <2>2, <2>3 DEF StopFollowsProducer, ProducerEnded
  <2>5. FlagSeen'
    BY <1>0, <1>t, <2>1, <2>2 DEF FlagSeen
  <2> QED
    BY <2>4, <2>5
<1>5. CASE InitializeEnclaves \/ JoinSource \/ JoinResponder \/ DestroyEnclaves \/ UNCHANGED vars
  <2>1. UNCHANGED <<keepPolling, sState, cState, failed>>
    BY <1>5 DEF InitializeEnclaves, JoinSource, JoinResponder, DestroyEnclaves, vars,
                sourceVars, consumerVars, mainVars
  <2> QED
    BY <1>0, <2>1 DEF StopFollowsProducer, FlagSeen, ProducerEnded
<1> QED
  BY <1>0, <1>1, <1>2, <1>3, <1>4, <1>5 DEF Next, Main, Returned

(* What a request does to the rings.                                        *)
LEMMA RequestRings ==
  ASSUME TypeOK, NEW r \in Ring, NEW d \in Origin, Request(r, d)
  PROVE  /\ \A q \in Ring \ {r} : ring'[q] = ring[q]
         /\ \/ ring'[r] = ring[r]
            \/ Len(ring[r]) < Capacity /\ ring'[r] = Append(ring[r], d)
BY DEF TypeOK, Request

(* A datum pushed at the end is not before any other.                       *)
LEMMA OrderedPush ==
  ASSUME NEW past \in Seq(Origin), NEW queue \in Seq(Origin), NEW next \in Nat,
         NEW d \in Origin, NEW next2 \in Nat,
         Ordered(past, queue, next), next <= d, d <= next2
  PROVE  Ordered(past, Append(queue, d), next2)
<1>1. /\ Origin \subseteq Nat
      /\ Len(past) \in Nat /\ Len(queue) \in Nat
      /\ \A k \in 1 .. Len(past) : past[k] \in Nat
      /\ \A k \in 1 .. Len(queue) : queue[k] \in Nat
  BY EngineAssumption DEF Origin, EndOfStream
<1> DEFINE new == Append(queue, d)
<1>2. /\ Len(new) = Len(queue) + 1
      /\ new[Len(queue) + 1] = d
      /\ \A k \in 1 .. Len(queue) : new[k] = queue[k]
  OBVIOUS
<1>3. \A k \in 1 .. Len(new) : k \in 1 .. Len(queue) \/ k = Len(queue) + 1
  BY <1>1, <1>2
<1> HIDE DEF new
<1>4. \A k \in 1 .. Len(new) : new[k] \in Nat /\ new[k] <= d
  <2>1. \A k \in 1 .. Len(queue) : queue[k] <= d
    BY <1>1 DEF Ordered
  <2> QED
    BY <1>1, <1>2, <1>3, <2>1
<1>5. \A j, k \in 1 .. Len(new) : j <= k => new[j] <= new[k]
  <2> SUFFICES ASSUME NEW j \in 1 .. Len(new), NEW k \in 1 .. Len(new), j <= k
               PROVE  new[j] <= new[k]
    OBVIOUS
  <2>1. CASE k = Len(queue) + 1
    BY <1>2, <1>4, <2>1
  <2>2. CASE k \in 1 .. Len(queue)
    <3>1. j \in 1 .. Len(queue)
      BY <1>1, <1>2, <2>2
    <3> QED
      BY <1>2, <2>2, <3>1 DEF Ordered
  <2> QED
    BY <1>3, <2>1, <2>2
<1>6. \A j \in 1 .. Len(past), k \in 1 .. Len(new) : past[j] <= new[k]
  BY <1>1, <1>2, <1>3 DEF Ordered
<1>7. \A k \in 1 .. Len(new) : new[k] <= next2
  BY <1>1, <1>4
<1>8. \A k \in 1 .. Len(past) : past[k] <= next2
  BY <1>1 DEF Ordered
<1>9. Ordered(past, new, next2)
  BY <1>5, <1>6, <1>7, <1>8, <1>1 DEF Ordered
<1> QED
  BY <1>9 DEF new

(* Delivering the oldest datum, which stays in the ring, keeps the order.   *)
LEMMA OrderedPop ==
  ASSUME NEW past \in Seq(Origin), NEW queue \in Seq(Origin), NEW next \in Nat,
         Ordered(past, queue, next), queue # <<>>
  PROVE  /\ Ordered(Append(past, queue[1]), queue, next)
         /\ \A k \in 1 .. Len(past) : past[k] <= queue[1]
<1>1. /\ Len(past) \in Nat /\ Len(queue) \in Nat /\ 1 \in 1 .. Len(queue)
      /\ \A k \in 1 .. Len(past) : past[k] \in Nat
      /\ \A k \in 1 .. Len(queue) : queue[k] \in Nat
  BY EngineAssumption DEF Origin, EndOfStream
<1> DEFINE new == Append(past, queue[1])
<1>2. /\ Len(new) = Len(past) + 1
      /\ new[Len(past) + 1] = queue[1]
      /\ \A k \in 1 .. Len(past) : new[k] = past[k]
  BY <1>1
<1>3. \A k \in 1 .. Len(new) : k \in 1 .. Len(past) \/ k = Len(past) + 1
  BY <1>1, <1>2
<1> HIDE DEF new
<1>4. \A j, k \in 1 .. Len(new) : j <= k => new[j] <= new[k]
  BY <1>1, <1>2, <1>3 DEF Ordered
<1>5. \A j \in 1 .. Len(new), k \in 1 .. Len(queue) : new[j] <= queue[k]
  BY <1>1, <1>2, <1>3 DEF Ordered
<1>6. \A k \in 1 .. Len(new) : new[k] <= next
  BY <1>1, <1>2, <1>3 DEF Ordered
<1>7. Ordered(new, queue, next)
  BY <1>4, <1>5, <1>6 DEF Ordered
<1> QED
  BY <1>1, <1>7 DEF new, Ordered

(* Releasing the oldest datum keeps the order.                              *)
LEMMA OrderedAdvance ==
  ASSUME NEW past \in Seq(Origin), NEW queue \in Seq(Origin), NEW next \in Nat,
         Ordered(past, queue, next), queue # <<>>
  PROVE  Ordered(past, Tail(queue), next)
<1> DEFINE new == Tail(queue)
<1>1. /\ Len(queue) \in Nat
      /\ Len(new) = Len(queue) - 1
      /\ \A k \in 1 .. Len(new) : new[k] = queue[k + 1]
  OBVIOUS
<1>2. \A k \in 1 .. Len(new) : k + 1 \in 1 .. Len(queue)
  BY <1>1
<1> HIDE DEF new
<1>3. \A j, k \in 1 .. Len(new) : j <= k => new[j] <= new[k]
  <2> SUFFICES ASSUME NEW j \in 1 .. Len(new), NEW k \in 1 .. Len(new), j <= k
               PROVE  new[j] <= new[k]
    OBVIOUS
  <2>1. j + 1 \in 1 .. Len(queue) /\ k + 1 \in 1 .. Len(queue) /\ j + 1 <= k + 1
    BY <1>1, <1>2
  <2>2. queue[j + 1] <= queue[k + 1]
    BY <2>1 DEF Ordered
  <2> QED
    BY <1>1, <2>2
<1>4. \A j \in 1 .. Len(past), k \in 1 .. Len(new) : past[j] <= new[k]
  BY <1>1, <1>2 DEF Ordered
<1>5. \A k \in 1 .. Len(new) : new[k] <= next
  BY <1>1, <1>2 DEF Ordered
<1>6. Ordered(past, new, next)
  BY <1>3, <1>4, <1>5 DEF Ordered
<1> QED
  BY <1>6 DEF new

(* Later data to come do not disturb the order.                             *)
LEMMA OrderedLater ==
  ASSUME NEW past \in Seq(Origin), NEW queue \in Seq(Origin), NEW next \in Nat,
         NEW next2 \in Nat, Ordered(past, queue, next), next <= next2
  PROVE  Ordered(past, queue, next2)
BY EngineAssumption DEF Ordered, Origin, EndOfStream

(* The origin of what a stage emits, and that it is the latest of its ring. *)
LEMMA EmitRequest ==
  ASSUME TypeOK, InHand, NEW r \in Ring, Emit(r)
  PROVE  /\ r \in Stage /\ r + 1 \in Ring \ {r}
         /\ Latest(r + 1) \in Origin
         /\ Request(r + 1, Latest(r + 1))
<1>1. r \in Stage /\ r + 1 \in Ring /\ r + 1 # r /\ r + 1 # 0 /\ (r + 1) - 1 = r
  BY ConstantTypes DEF Emit, Stage, Ring
<1>2. CASE cState[r] = "flush"
  BY <1>1, <1>2, ConstantTypes DEF Emit, Latest
<1>3. CASE cState[r] = "callback"
  <2>1. ring[r] \in Seq(Origin) /\ delivered[r] \in Seq(Origin)
    BY DEF TypeOK
  <2>2. ring[r] # <<>> /\ delivered[r] # <<>> /\ delivered[r][Len(delivered[r])] = ring[r][1]
    BY <1>3 DEF InHand
  <2>3. Head(ring[r]) = ring[r][1] /\ Head(ring[r]) \in Origin
    BY <2>1, <2>2
  <2>4. Latest(r + 1) = Head(ring[r])
    BY <1>1, <1>3, <2>2, <2>3 DEF Latest
  <2> QED
    BY <1>1, <1>3, <2>3, <2>4 DEF Emit
<1> QED
  BY <1>2, <1>3 DEF Emit

(* The last element of a sequence is the one appended to it.                *)
LEMMA AppendLast ==
  ASSUME NEW S, NEW q \in Seq(S), NEW e \in S
  PROVE  Append(q, e) # <<>> /\ Append(q, e)[Len(Append(q, e))] = e
OBVIOUS

(* Pushes leave the datum in hand where it is.                              *)
LEMMA StepInHand == IInv /\ [Next]_vars => InHand'
<1>0. SUFFICES ASSUME TypeOK, MainOrder, InHand, [Next]_vars PROVE InHand'
  BY DEF IInv
<1>t. /\ cState \in [Ring -> {"none", "poll", "callback", "checkFlag", "flush", "ended"}]
      /\ ring \in [Ring -> Seq(Origin)]
      /\ delivered \in [Ring -> Seq(Origin)]
  BY <1>0 DEF TypeOK
<1>r. ASSUME NEW r \in Ring, NEW d \in Origin, Request(r, d), UNCHANGED <<cState, delivered>>
      PROVE  InHand'
  <2>1. /\ \A q \in Ring \ {r} : ring'[q] = ring[q]
        /\ ring'[r] = ring[r] \/ ring'[r] = Append(ring[r], d)
    BY <1>0, <1>r, RequestRings
  <2>2. ring[r] # <<>> => ring'[r] # <<>> /\ ring'[r][1] = ring[r][1]
    BY <1>t, <2>1
  <2> QED
    BY <1>0, <1>r, <2>1, <2>2 DEF InHand
<1>1. CASE Source
  <2>1. CASE EmitRecord
    <3>1. record + 1 \in Origin /\ 0 \in Ring
      BY <1>0, <2>1, ConstantTypes DEF TypeOK, EmitRecord, Origin, EndOfStream, Ring
    <3>2. Request(0, record + 1) /\ UNCHANGED <<cState, delivered>>
      BY <2>1 DEF EmitRecord, consumerVars
    <3> QED
      BY <3>1, <3>2, <1>r
  <2>2. CASE SourceEnds
    BY <1>0, <2>2 DEF InHand, SourceEnds, consumerVars
  <2> QED
    BY <1>1, <2>1, <2>2 DEF Source
<1>2. ASSUME NEW r \in Ring, ResponderThread(r) PROVE InHand'
  <2>1. CASE PopDatum(r)
    <3>1. /\ ring[r] # <<>> /\ UNCHANGED ring
          /\ cState' = [cState EXCEPT ![r] = "callback"]
          /\ delivered' = [delivered EXCEPT ![r] = Append(@, Head(ring[r]))]
      BY <2>1 DEF PopDatum
    <3>2. \A q \in Ring \ {r} : cState'[q] = cState[q] /\ delivered'[q] = delivered[q]
      BY <1>t, <3>1
    <3>3. delivered'[r] = Append(delivered[r], ring[r][1])
      BY <1>t, <3>1
    <3>4. ring[r][1] \in Origin
      BY <1>t, <3>1
    <3>5. delivered'[r] # <<>> /\ delivered'[r][Len(delivered'[r])] = ring[r][1]
      <4>1. delivered[r] \in Seq(Origin)
        BY <1>t
      <4> QED
        BY <3>3, <3>4, <4>1, AppendLast
    <3> QED
      BY <1>0, <3>1, <3>2, <3>5 DEF InHand
  <2>2. CASE Emit(r)
    <3>1. r + 1 \in Ring /\ Latest(r + 1) \in Origin /\ Request(r + 1, Latest(r + 1))
      BY <1>0, <2>2, EmitRequest
    <3>2. UNCHANGED <<cState, delivered>>
      BY <2>2 DEF Emit
    <3> QED
      BY <3>1, <3>2, <1>r
  <2>3. CASE Advance(r)
    <3>1. /\ cState'[r] # "callback" /\ UNCHANGED delivered
          /\ \A q \in Ring \ {r} : cState'[q] = cState[q] /\ ring'[q] = ring[q]
      BY <1>t, <2>3 DEF Advance
    <3> QED
      BY <1>0, <3>1 DEF InHand
  <2>4. CASE PopEmpty(r) \/ CheckFlag(r) \/ ConsumerEnds(r) \/ ECallFails(r)
    <3>1. /\ cState'[r] # "callback" /\ UNCHANGED <<ring, delivered>>
          /\ \A q \in Ring \ {r} : cState'[q] = cState[q]
      BY <1>t, <2>4 DEF PopEmpty, CheckFlag, ConsumerEnds, ECallFails
    <3> QED
      BY <1>0, <3>1 DEF InHand
  <2> QED
    BY <1>2, <2>1, <2>2, <2>3, <2>4 DEF ResponderThread
<1>3. CASE Spawn
  <2>1. /\ UNCHANGED <<ring, delivered>>
        /\ \A q \in Ring : cState'[q] \in {"poll", cState[q]}
    BY <1>t, <1>3 DEF Spawn
  <2> QED
    BY <1>0, <2>1 DEF InHand
<1>4. CASE InitializeEnclaves \/ JoinSource \/ StopFastCallResponder \/ JoinResponder
           \/ DestroyEnclaves \/ UNCHANGED vars
  <2>1. UNCHANGED <<ring, cState, delivered>>
    BY <1>4 DEF InitializeEnclaves, JoinSource, StopFastCallResponder, JoinResponder,
                DestroyEnclaves, vars, consumerVars
  <2> QED
    BY <1>0, <2>1 DEF InHand
<1> QED
  BY <1>0, <1>1, <1>2, <1>3, <1>4 DEF Next, Main, Returned

(* Latest is an origin, or 0 before the first.                              *)
LEMMA LatestType == TypeOK => \A r \in Ring : Latest(r) \in 0 .. EndOfStream
<1> SUFFICES ASSUME TypeOK, NEW r \in Ring PROVE Latest(r) \in 0 .. EndOfStream
  OBVIOUS
<1>1. CASE r = 0
  BY <1>1, EngineAssumption DEF TypeOK, Latest, EndOfStream
<1>2. CASE r # 0
  <2>1. r - 1 \in Ring
    BY <1>2, EngineAssumption DEF Ring
  <2>2. delivered[r - 1] \in Seq(Origin)
    BY <2>1 DEF TypeOK
  <2>3. delivered[r - 1] # <<>> => delivered[r - 1][Len(delivered[r - 1])] \in Origin
    BY <2>2
  <2> QED
    BY <1>2, <2>3, EngineAssumption DEF Latest, Origin, EndOfStream
<1> QED
  BY <1>1, <1>2

(* The same after a step.                                                   *)
LEMMA LatestTypeNext == TypeOK' => (\A r \in Ring : Latest(r) \in 0 .. EndOfStream)'
BY LatestType, PTL

(* A step that moves no data and takes nothing back from what is to come    *)
(* keeps the order.                                                         *)
LEMMA OrderKept ==
  ASSUME TypeOK, TypeOK', PipelineOrder, UNCHANGED <<ring, delivered>>,
         \A q \in Ring : Latest(q) <= Latest(q)',
         \A q \in Ring : cState'[q] = "none" => cState[q] = "none"
  PROVE  PipelineOrder'
<1>1. \A q \in Ring : Latest(q) \in Nat /\ Latest(q)' \in Nat
  <2>1. \A q \in Ring : Latest(q) \in 0 .. EndOfStream
    BY LatestType
  <2>2. (\A q \in Ring : Latest(q) \in 0 .. EndOfStream)'
    BY LatestTypeNext
  <2> QED
    BY <2>1, <2>2, EngineAssumption DEF EndOfStream
<1>2. \A q \in Ring : delivered[q] \in Seq(Origin) /\ ring[q] \in Seq(Origin)
  BY DEF TypeOK
<1>3. ASSUME NEW q \in Ring PROVE Ordered(delivered[q], ring[q], Latest(q)')
  BY <1>1, <1>2, OrderedLater DEF PipelineOrder
<1> QED
  BY <1>3 DEF PipelineOrder

(* A push of a datum no older than any before it keeps the order.           *)
LEMMA OrderPushed ==
  ASSUME TypeOK, TypeOK', PipelineOrder, UNCHANGED <<cState, delivered>>,
         NEW r \in Ring, NEW d \in Origin, Request(r, d),
         Latest(r) <= d, d <= Latest(r)',
         \A q \in Ring \ {r} : Latest(q)' = Latest(q)
  PROVE  PipelineOrder'
<1>1. \A q \in Ring : Latest(q) \in Nat /\ Latest(q)' \in Nat
  <2>1. \A q \in Ring : Latest(q) \in 0 .. EndOfStream
    BY LatestType
  <2>2. (\A q \in Ring : Latest(q) \in 0 .. EndOfStream)'
    BY LatestTypeNext
  <2> QED
    BY <2>1, <2>2, EngineAssumption DEF EndOfStream
<1>2. \A q \in Ring : delivered[q] \in Seq(Origin) /\ ring[q] \in Seq(Origin)
  BY DEF TypeOK
<1>3. /\ \A q \in Ring \ {r} : ring'[q] = ring[q]
      /\ ring'[r] = ring[r] \/ ring'[r] = Append(ring[r], d)
  BY RequestRings
<1>4. Ordered(delivered[r], ring[r], Latest(r)) /\ Latest(r) <= Latest(r)'
  BY <1>1 DEF PipelineOrder, Origin, EndOfStream
<1>5. Ordered(delivered[r], ring[r], Latest(r)')
  BY <1>1, <1>2, <1>4, OrderedLater
<1>6. Ordered(delivered[r], Append(ring[r], d), Latest(r)')
  BY <1>1, <1>2, <1>4, OrderedPush
<1>7. Ordered(delivered[r], ring'[r], Latest(r)')
  BY <1>3, <1>5, <1>6
<1>8. \A q \in Ring : Ordered(delivered[q], ring'[q], Latest(q)')
  BY <1>3, <1>7 DEF PipelineOrder
<1> QED
  BY <1>8 DEF PipelineOrder

(* The end of every ring is where the next datum belongs.                   *)
LEMMA StepPipelineOrder == IInv /\ [Next]_vars => PipelineOrder'
<1>0. SUFFICES ASSUME TypeOK, TypeOK', MainOrder, InHand, PipelineOrder, [Next]_vars
               PROVE  PipelineOrder'
  BY StepTypeOK DEF IInv
<1>t. /\ cState \in [Ring -> {"none", "poll", "callback", "checkFlag", "flush", "ended"}]
      /\ ring \in [Ring -> Seq(Origin)]
      /\ delivered \in [Ring -> Seq(Origin)]
      /\ record \in 0 .. MaxRecords
  BY <1>0 DEF TypeOK
<1>l. \A q \in Ring : Latest(q) \in 0 .. EndOfStream /\ EndOfStream \in Nat
  BY <1>0, LatestType, EngineAssumption DEF EndOfStream
<1>p. \A q \in Ring : q = 0 \/ q - 1 \in Ring
  BY EngineAssumption DEF Ring
<1>s. ASSUME UNCHANGED <<record, delivered, cState>>
      PROVE  \A q \in Ring : Latest(q)' = Latest(q)
  BY <1>s DEF Latest
<1>1. CASE EmitRecord
  <2>1. /\ 0 \in Ring /\ record + 1 \in Origin /\ Request(0, record + 1)
        /\ record' = record + 1 /\ UNCHANGED <<cState, delivered>>
    BY <1>1, <1>t, ConstantTypes DEF EmitRecord, consumerVars, Ring, Origin, EndOfStream
  <2>2. /\ Latest(0) <= record + 1 /\ record + 1 <= Latest(0)'
        /\ \A q \in Ring \ {0} : Latest(q)' = Latest(q)
    BY <1>t, <2>1 DEF Latest
  <2> QED
    BY <1>0, <2>1, <2>2, OrderPushed
<1>2. ASSUME NEW r \in Ring, Emit(r) PROVE PipelineOrder'
  <2>1. r + 1 \in Ring /\ Latest(r + 1) \in Origin /\ Request(r + 1, Latest(r + 1))
    BY <1>0, <1>2, EmitRequest
  <2>2. UNCHANGED <<record, cState, delivered>>
    BY <1>2 DEF Emit, sourceVars
  <2>3. \A q \in Ring : Latest(q)' = Latest(q) /\ Latest(q) <= Latest(q)
    BY <1>l, <1>s, <2>2
  <2> QED
    BY <1>0, <2>1, <2>2, <2>3, OrderPushed
<1>3. ASSUME NEW r \in Ring, PopDatum(r) PROVE PipelineOrder'
  <2>1. /\ cState[r] = "poll" /\ ring[r] # <<>> /\ UNCHANGED <<ring, record>>
        /\ cState' = [cState EXCEPT ![r] = "callback"]
        /\ delivered' = [delivered EXCEPT ![r] = Append(@, Head(ring[r]))]
    BY <1>3 DEF PopDatum, sourceVars
  <2>2. /\ \A q \in Ring \ {r} : cState'[q] = cState[q] /\ delivered'[q] = delivered[q]
        /\ cState'[r] = "callback"
        /\ delivered'[r] = Append(delivered[r], ring[r][1])
        /\ delivered[r] \in Seq(Origin) /\ ring[r] \in Seq(Origin) /\ ring[r][1] \in Origin
    BY <1>t, <2>1
  <2>3. /\ Ordered(Append(delivered[r], ring[r][1]), ring[r], Latest(r))
        /\ \A k \in 1 .. Len(delivered[r]) : delivered[r][k] <= ring[r][1]
    BY <1>0, <1>l, <2>1, <2>2, OrderedPop DEF PipelineOrder
  <2>4. delivered'[r] # <<>> /\ delivered'[r][Len(delivered'[r])] = ring[r][1]
    BY <2>2, AppendLast
  <2>5. ASSUME NEW q \in Ring PROVE Latest(q) <= Latest(q)'
    <3>1. CASE q = 0 \/ q - 1 # r
      BY <1>l, <1>p, <2>1, <2>2, <3>1 DEF Latest
    <3>2. CASE q # 0 /\ q - 1 = r
      <4>1. Latest(q)' = ring[r][1]
        BY <2>2, <2>4, <3>2 DEF Latest
      <4>2. Latest(q) = IF delivered[r] = <<>> THEN 0 ELSE delivered[r][Len(delivered[r])]
        BY <2>1, <3>2 DEF Latest
      <4>3. delivered[r] # <<>> => Len(delivered[r]) \in 1 .. Len(delivered[r])
        BY <2>2
      <4>4. ring[r][1] >= 0
        BY <2>2 DEF Origin
      <4> QED
        BY <2>3, <4>1, <4>2, <4>3, <4>4
    <3> QED
      BY <3>1, <3>2
  <2>6. Latest(r)' = Latest(r)
    BY <1>p, <2>1, <2>2 DEF Latest, Ring
  <2>7. \A q \in Ring : Latest(q)' \in Nat /\ Latest(q) \in Nat
    <3>1. (\A q \in Ring : Latest(q) \in 0 .. EndOfStream)'
      BY <1>0, LatestTypeNext
    <3> QED
      BY <1>l, <3>1, EngineAssumption DEF EndOfStream
  <2>8. ASSUME NEW q \in Ring \ {r} PROVE Ordered(delivered[q], ring[q], Latest(q)')
    BY <1>0, <1>t, <2>5, <2>7, OrderedLater DEF PipelineOrder
  <2> QED
    BY <1>0, <2>1, <2>2, <2>3, <2>6, <2>8 DEF PipelineOrder
<1>4. ASSUME NEW r \in Ring, Advance(r) PROVE PipelineOrder'
  <2>1. /\ cState[r] = "callback" /\ UNCHANGED <<delivered, record>>
        /\ ring' = [ring EXCEPT ![r] = Tail(@)]
        /\ cState' = [cState EXCEPT ![r] = "poll"]
    BY <1>4 DEF Advance, sourceVars
  <2>2. /\ \A q \in Ring \ {r} : cState'[q] = cState[q] /\ ring'[q] = ring[q]
        /\ cState'[r] = "poll" /\ ring'[r] = Tail(ring[r])
    BY <1>t, <2>1
  <2>3. \A q \in Ring : Latest(q)' = Latest(q)
    BY <1>p, <2>1, <2>2 DEF Latest
  <2>4. Ordered(delivered[r], Tail(ring[r]), Latest(r))
    <3>1. ring[r] # <<>>
      BY <1>0, <2>1 DEF InHand
    <3>2. delivered[r] \in Seq(Origin) /\ ring[r] \in Seq(Origin) /\ Latest(r) \in Nat
      BY <1>t, <1>l
    <3> QED
      BY <1>0, <3>1, <3>2, OrderedAdvance DEF PipelineOrder
  <2> QED
    BY <1>0, <2>1, <2>2, <2>3, <2>4 DEF PipelineOrder
<1>5. ASSUME NEW r \in Ring,
             PopEmpty(r) \/ CheckFlag(r) \/ ConsumerEnds(r) \/ ECallFails(r)
      PROVE  PipelineOrder'
  <2>1. /\ UNCHANGED <<ring, delivered, record>>
        /\ cState[r] # "none" /\ cState'[r] # "none"
        /\ cState[r] = "flush" => cState'[r] \in {"flush", "ended"}
        /\ cState[r] # "ended"
        /\ \A q \in Ring \ {r} : cState'[q] = cState[q]
    BY <1>5, <1>t DEF PopEmpty, CheckFlag, ConsumerEnds, ECallFails, sourceVars
  <2>2. ASSUME NEW q \in Ring PROVE Latest(q) <= Latest(q)'
    BY <1>l, <1>p, <2>1 DEF Latest
  <2> QED
    BY <1>0, <2>1, <2>2, OrderKept
<1>6. CASE Spawn
  <2>1. /\ pc = "spawn" /\ i \in 0 .. NStages + 1 /\ UNCHANGED <<ring, delivered, record>>
    BY <1>0, <1>6 DEF Spawn, TypeOK
  <2>2. \A q \in Ring :
          cState'[q] = cState[q] \/ (cState[q] = "none" /\ cState'[q] = "poll")
    <3>1. SpawnOrder[i] # -1 => cState[SpawnOrder[i]] = "none"
      BY <1>0, <2>1 DEF MainOrder
    <3> QED
      BY <1>6, <1>t, <3>1 DEF Spawn
  <2>3. \A q \in Ring : Latest(q)' = Latest(q)
    BY <1>p, <2>1, <2>2 DEF Latest
  <2>4. \A q \in Ring : Latest(q) <= Latest(q)'
    BY <1>l, <2>3
  <2> QED
    BY <1>0, <2>1, <2>2, <2>4, OrderKept
<1>7. CASE SourceEnds \/ InitializeEnclaves \/ JoinSource \/ StopFastCallResponder
           \/ JoinResponder \/ DestroyEnclaves \/ UNCHANGED vars
  <2>1. UNCHANGED <<ring, cState, delivered, record>>
    BY <1>7 DEF SourceEnds, InitializeEnclaves, JoinSource, StopFastCallResponder,
                JoinResponder, DestroyEnclaves, vars, sourceVars, consumerVars
  <2>2. \A q \in Ring : Latest(q) <= Latest(q)'
    BY <1>l, <1>s, <2>1
  <2> QED
    BY <1>0, <2>1, <2>2, OrderKept
<1> QED
  BY <1>0, <1>1, <1>2, <1>3, <1>4, <1>5, <1>6, <1>7
     DEF Next, Source, ResponderThread, Main, Returned
-------------------------------------------------------------------------------
(* IInv is inductive, and holds of every reachable state.                   *)
THEOREM Invariance == Spec => []IInv
<1>1. Init => IInv
  BY InitIInv
<1>2. IInv /\ [Next]_vars => IInv'
  BY StepTypeOK, StepMainOrder, StepFlags, StepInHand, StepPipelineOrder DEF IInv
<1> QED
  BY <1>1, <1>2, PTL DEF Spec

(* Every variable of the engine stays in its range.                         *)
THEOREM TypeCorrect == Spec => []TypeOK
<1>1. IInv => TypeOK
  BY DEF IInv
<1> QED
  BY <1>1, Invariance, PTL

(* No responder is stopped while its producer can push.                     *)
THEOREM StopOrder == Spec => []StopFollowsProducer
<1>1. IInv => StopFollowsProducer
  BY DEF IInv
<1> QED
  BY <1>1, Invariance, PTL

(* No stage runs outside a living enclave.                                  *)
THEOREM EnclavesOutliveResponders == Spec => []EnclaveAlive
<1>1. IInv => EnclaveAlive
  <2> SUFFICES ASSUME TypeOK, MainOrder, NEW s \in Stage, cState[s] \notin {"none", "ended"}
               PROVE  enclave[s] = "created"
    BY DEF IInv, EnclaveAlive
  <2>1. s \in Ring
    BY ConstantTypes
  <2>2. pc \notin {"create", "destroy", "done"}
    BY <2>1 DEF MainOrder
  <2> QED
    BY <2>2 DEF MainOrder, TypeOK
<1> QED
  BY <1>1, Invariance, PTL

(* start() leaves no thread and no enclave behind.                          *)
THEOREM CleanReturn == Spec => []NothingOutlivesStart
<1>1. IInv => NothingOutlivesStart
  BY DEF IInv, MainOrder, NothingOutlivesStart
<1> QED
  BY <1>1, Invariance, PTL

(* Every consumer, the sink too, is given data in the order of the source.  *)
THEOREM OrderKeptEndToEnd == Spec => []InOrder
<1>1. IInv => InOrder
  <2> SUFFICES ASSUME TypeOK, PipelineOrder, NEW r \in Ring,
                      NEW k \in 1 .. Len(delivered[r]) - 1
               PROVE  delivered[r][k] <= delivered[r][k + 1]
    BY DEF IInv, InOrder
  <2>1. Len(delivered[r]) \in Nat
    BY DEF TypeOK
  <2>2. k \in 1 .. Len(delivered[r]) /\ k + 1 \in 1 .. Len(delivered[r]) /\ k <= k + 1
    BY <2>1
  <2> QED
    BY <2>2 DEF PipelineOrder, Ordered
<1> QED
  BY <1>1, Invariance, PTL

(* A consumer past its flag has a producer that has ended.                  *)
LEMMA EndedProducer ==
  ASSUME IInv, NEW r \in Ring, r \notin failed, cState[r] \in {"flush", "ended"}
  PROVE  ProducerEnded(r)
BY DEF IInv, FlagSeen, StopFollowsProducer

(* A producer that can push has not ended.                                  *)
LEMMA RequestOpen ==
  ASSUME TypeOK, NEW r \in Ring, NEW s \in Ring, Emit(s), r = s + 1
  PROVE  ~ProducerEnded(r)
<1>1. r - 1 = s /\ r # 0
  BY DEF Ring
<1> QED
  BY <1>1 DEF Emit, ProducerEnded

(* After the flush no ring grows and no consumer is given anything more.    *)
THEOREM FlushIsLast == Spec => EndIsLast
<1>1. IInv /\ [Next]_vars =>
        [\A r \in Ring :
           cState[r] \in {"flush", "ended"} /\ r \notin failed' =>
             /\ cState'[r] \in {"flush", "ended"}
             /\ delivered'[r] = delivered[r]
             /\ Len(ring'[r]) <= Len(ring[r])]_vars
  <2>0. SUFFICES ASSUME IInv, Next, NEW r \in Ring, r \notin failed',
                        cState[r] \in {"flush", "ended"}
                 PROVE  /\ cState'[r] \in {"flush", "ended"}
                        /\ delivered'[r] = delivered[r]
                        /\ Len(ring'[r]) <= Len(ring[r])
    OBVIOUS
  <2>t. /\ TypeOK /\ InHand /\ Len(ring[r]) \in Nat
        /\ ring \in [Ring -> Seq(Origin)] /\ delivered \in [Ring -> Seq(Origin)]
    BY <2>0 DEF IInv, TypeOK
  <2>e. r \notin failed => ProducerEnded(r)
    BY <2>0, EndedProducer
  <2>1. ASSUME EmitRecord
        PROVE  delivered'[r] = delivered[r] /\ Len(ring'[r]) <= Len(ring[r])
    <3>1. UNCHANGED <<delivered, failed>> /\ sState = "running" /\ Request(0, record + 1)
      BY <2>1 DEF EmitRecord, consumerVars
    <3>2. r # 0
      BY <2>0, <2>e, <3>1 DEF ProducerEnded
    <3>3. ring'[r] = ring[r]
      BY <2>t, <3>1, <3>2 DEF Request
    <3> QED
      BY <2>t, <3>1, <3>3
  <2>2. ASSUME NEW s \in Ring, Emit(s)
        PROVE  delivered'[r] = delivered[r] /\ Len(ring'[r]) <= Len(ring[r])
    <3>1. UNCHANGED <<delivered, failed>>
      BY <2>2 DEF Emit
    <3>2. s + 1 \in Ring /\ Latest(s + 1) \in Origin /\ Request(s + 1, Latest(s + 1))
      BY <2>t, <2>2, EmitRequest
    <3>3. r # s + 1
      BY <2>0, <2>t, <2>e, <2>2, <3>1, RequestOpen
    <3>4. ring'[r] = ring[r]
      BY <2>t, <3>2, <3>3, RequestRings
    <3> QED
      BY <2>t, <3>1, <3>4
  <2>3. ASSUME NEW s \in Ring, PopDatum(s) \/ Advance(s)
        PROVE  delivered'[r] = delivered[r] /\ Len(ring'[r]) <= Len(ring[r])
    <3>1. r # s
      BY <2>0, <2>3 DEF PopDatum, Advance
    <3>2. delivered'[r] = delivered[r] /\ ring'[r] = ring[r]
      BY <2>t, <2>3, <3>1 DEF PopDatum, Advance
    <3> QED
      BY <2>t, <3>2
  <2>4. ASSUME NEW s \in Ring,
               PopEmpty(s) \/ CheckFlag(s) \/ ConsumerEnds(s) \/ ECallFails(s)
        PROVE  delivered'[r] = delivered[r] /\ Len(ring'[r]) <= Len(ring[r])
    BY <2>t, <2>4 DEF PopEmpty, CheckFlag, ConsumerEnds, ECallFails
  <2>5. ASSUME SourceEnds \/ Main \/ Returned
        PROVE  delivered'[r] = delivered[r] /\ Len(ring'[r]) <= Len(ring[r])
    BY <2>t, <2>5 DEF SourceEnds, Main, InitializeEnclaves, Spawn, JoinSource,
       StopFastCallResponder, JoinResponder, DestroyEnclaves, Returned, vars, consumerVars
  <2>6. delivered'[r] = delivered[r] /\ Len(ring'[r]) <= Len(ring[r])
    BY <2>0, <2>1, <2>2, <2>3, <2>4, <2>5 DEF Next, Source, ResponderThread
  <2>7. ASSUME NEW s \in Ring, ResponderThread(s)
        PROVE  cState'[r] \in {"flush", "ended"}
    <3>1. CASE s = r
      BY <2>0, <2>7, <3>1 DEF ResponderThread, PopEmpty, PopDatum, Emit, Advance, CheckFlag,
         ConsumerEnds, ECallFails, IInv, TypeOK
    <3>2. CASE s # r
      BY <2>0, <2>7, <3>2 DEF ResponderThread, PopEmpty, PopDatum, Emit, Advance, CheckFlag,
         ConsumerEnds, ECallFails, IInv, TypeOK
    <3> QED
      BY <3>1, <3>2
  <2>8. ASSUME Spawn
        PROVE  cState'[r] \in {"flush", "ended"}
    <3>1. pc = "spawn" /\ i \in 0 .. NStages + 1 /\ NStages \in Nat /\ i \in i .. NStages + 1
      BY <2>0, <2>8, EngineAssumption DEF IInv, TypeOK, Spawn
    <3>2. SpawnOrder[i] # -1 => cState[SpawnOrder[i]] = "none"
      BY <2>0, <3>1 DEF IInv, MainOrder
    <3>3. SpawnOrder[i] # r
      BY <2>0, <3>2 DEF Ring
    <3> QED
      BY <2>0, <2>8, <3>3 DEF Spawn, IInv, TypeOK
  <2>9. ASSUME Source \/ Returned \/ (Main /\ ~Spawn)
        PROVE  cState'[r] \in {"flush", "ended"}
    BY <2>0, <2>9 DEF Source, EmitRecord, SourceEnds, Returned, vars, consumerVars, Main,
       InitializeEnclaves, JoinSource, StopFastCallResponder, JoinResponder, DestroyEnclaves
  <2> QED
    BY <2>0, <2>6, <2>7, <2>8, <2>9 DEF Next
<1> QED
  BY <1>1, Invariance, PTL DEF Spec, EndIsLast
-------------------------------------------------------------------------------
(* A ring whose contents, history, ends and flag stay is left alone.        *)
LEMMA ChannelAlone ==
  ASSUME NEW r \in Ring, ring'[r] = ring[r], delivered'[r] = delivered[r],
         keepPolling'[r] = keepPolling[r],
         ProducerEnded(r)' = ProducerEnded(r),
         (cState'[r] = "callback") = (cState[r] = "callback"),
         (cState'[r] = "ended") = (cState[r] = "ended")
  PROVE  UNCHANGED Channel(r)!vars
BY DEF Channel!vars

(* A ring whose producer ends, and nothing else, closes its sender.         *)
LEMMA ChannelCloses ==
  ASSUME NEW r \in Ring, ring'[r] = ring[r], delivered'[r] = delivered[r],
         keepPolling'[r] = keepPolling[r],
         ~ProducerEnded(r), ProducerEnded(r)',
         cState'[r] = cState[r]
  PROVE  Channel(r)!CloseSender
BY DEF Channel!CloseSender

(* A push into a ring sends, or is given up.                                *)
LEMMA ChannelSends ==
  ASSUME TypeOK, NEW r \in Ring, NEW d \in Origin, Request(r, d),
         UNCHANGED <<delivered, keepPolling, cState, sState>>,
         ~ProducerEnded(r)
  PROVE  [Channel(r)!Next]_(Channel(r)!vars)
<1>1. ProducerEnded(r)' = ProducerEnded(r)
  BY DEF ProducerEnded
<1>2. CASE ring'[r] = ring[r]
  BY <1>1, <1>2, ChannelAlone
<1>3. CASE Len(ring[r]) < Capacity /\ ring'[r] = Append(ring[r], d)
  <2>1. Channel(r)!Send(d)
    BY <1>1, <1>3 DEF Channel!Send
  <2> QED
    BY <2>1 DEF Channel!Next
<1> QED
  BY <1>2, <1>3, RequestRings

(* Every step of the engine is a step of each channel, or leaves it alone.  *)
LEMMA StepChannels ==
  IInv /\ [Next]_vars =>
    \A r \in Ring : r \in failed' \/ [Channel(r)!Next]_(Channel(r)!vars)
<1>0. SUFFICES ASSUME IInv, [Next]_vars, NEW r \in Ring, r \notin failed'
               PROVE  [Channel(r)!Next]_(Channel(r)!vars)
  OBVIOUS
<1>t. /\ TypeOK /\ InHand /\ MainOrder /\ FlagSeen
      /\ cState \in [Ring -> {"none", "poll", "callback", "checkFlag", "flush", "ended"}]
      /\ ring \in [Ring -> Seq(Origin)] /\ delivered \in [Ring -> Seq(Origin)]
      /\ keepPolling \in [Ring -> BOOLEAN]
  BY <1>0 DEF IInv, TypeOK
<1>p. r = 0 \/ (r # 0 /\ r - 1 \in Ring /\ r - 1 # r)
  BY EngineAssumption DEF Ring
<1>1. CASE EmitRecord
  <2>1. /\ 0 \in Ring /\ record + 1 \in Origin /\ Request(0, record + 1)
        /\ sState = "running"
        /\ UNCHANGED <<cState, delivered, keepPolling, sState>>
    BY <1>t, <1>1, ConstantTypes
       DEF EmitRecord, consumerVars, mainVars, TypeOK, Ring, Origin, EndOfStream
  <2>2. CASE r = 0
    BY <1>t, <2>1, <2>2, ChannelSends DEF ProducerEnded
  <2>3. CASE r # 0
    <3>1. ring'[r] = ring[r]
      BY <1>t, <2>1, <2>3, RequestRings
    <3> QED
      BY <2>1, <3>1, ChannelAlone DEF ProducerEnded
  <2> QED
    BY <2>2, <2>3
<1>2. CASE SourceEnds
  <2>1. /\ sState = "running" /\ sState' = "ended"
        /\ UNCHANGED <<ring, cState, delivered, keepPolling>>
    BY <1>2 DEF SourceEnds, consumerVars, mainVars
  <2>2. CASE r = 0
    <3>1. Channel(r)!CloseSender
      BY <2>1, <2>2, ChannelCloses DEF ProducerEnded
    <3> QED
      BY <3>1 DEF Channel!Next
  <2>3. CASE r # 0
    BY <2>1, <2>3, ChannelAlone DEF ProducerEnded
  <2> QED
    BY <2>2, <2>3
<1>3. ASSUME NEW s \in Ring, PopEmpty(s) \/ CheckFlag(s)
      PROVE  [Channel(r)!Next]_(Channel(r)!vars)
  <2>1. /\ UNCHANGED <<ring, delivered, keepPolling, sState>>
        /\ \A q \in Ring : cState'[q] = cState[q]
             \/ {cState[q], cState'[q]} \subseteq {"poll", "checkFlag", "flush"}
    BY <1>t, <1>3 DEF PopEmpty, CheckFlag, sourceVars, mainVars
  <2> QED
    BY <1>p, <2>1, ChannelAlone DEF ProducerEnded
<1>4. ASSUME NEW s \in Ring, PopDatum(s) PROVE [Channel(r)!Next]_(Channel(r)!vars)
  <2>1. /\ cState[s] = "poll" /\ ring[s] # <<>>
        /\ UNCHANGED <<ring, keepPolling, sState>>
        /\ cState' = [cState EXCEPT ![s] = "callback"]
        /\ delivered' = [delivered EXCEPT ![s] = Append(@, Head(ring[s]))]
    BY <1>4 DEF PopDatum, sourceVars, mainVars
  <2>2. ProducerEnded(r)' = ProducerEnded(r)
    BY <1>t, <1>p, <2>1 DEF ProducerEnded
  <2>3. CASE r = s
    <3>1. Channel(r)!Receive
      BY <1>t, <2>1, <2>2, <2>3 DEF Channel!Receive
    <3> QED
      BY <3>1 DEF Channel!Next
  <2>4. CASE r # s
    BY <1>t, <2>1, <2>2, <2>4, ChannelAlone
  <2> QED
    BY <2>3, <2>4
<1>5. ASSUME NEW s \in Ring, Emit(s) PROVE [Channel(r)!Next]_(Channel(r)!vars)
  <2>1. UNCHANGED <<cState, delivered, keepPolling, sState>>
    BY <1>5 DEF Emit, sourceVars, mainVars
  <2>2. s + 1 \in Ring /\ Latest(s + 1) \in Origin /\ Request(s + 1, Latest(s + 1))
    BY <1>t, <1>5, EmitRequest
  <2>3. CASE r = s + 1
    <3>1. ~ProducerEnded(r)
      BY <1>t, <1>5, <2>3, RequestOpen
    <3> QED
      BY <1>t, <2>1, <2>2, <2>3, <3>1, ChannelSends
  <2>4. CASE r # s + 1
    <3>1. ring'[r] = ring[r]
      BY <1>t, <2>2, <2>4, RequestRings
    <3> QED
      BY <2>1, <3>1, ChannelAlone DEF ProducerEnded
  <2> QED
    BY <2>3, <2>4
<1>6. ASSUME NEW s \in Ring, Advance(s) PROVE [Channel(r)!Next]_(Channel(r)!vars)
  <2>1. /\ cState[s] = "callback" /\ UNCHANGED <<delivered, keepPolling, sState>>
        /\ ring' = [ring EXCEPT ![s] = Tail(@)]
        /\ cState' = [cState EXCEPT ![s] = "poll"]
    BY <1>6 DEF Advance, sourceVars, mainVars
  <2>2. ProducerEnded(r)' = ProducerEnded(r)
    BY <1>t, <1>p, <2>1 DEF ProducerEnded
  <2>3. CASE r = s
    <3>1. Channel(r)!Release
      BY <1>t, <2>1, <2>2, <2>3 DEF Channel!Release
    <3> QED
      BY <3>1 DEF Channel!Next
  <2>4. CASE r # s
    BY <1>t, <2>1, <2>2, <2>4, ChannelAlone
  <2> QED
    BY <2>3, <2>4
<1>7. ASSUME NEW s \in Ring, ConsumerEnds(s) \/ ECallFails(s)
      PROVE  [Channel(r)!Next]_(Channel(r)!vars)
  <2>1. /\ cState[s] # "ended" /\ cState' = [cState EXCEPT ![s] = "ended"]
        /\ UNCHANGED <<ring, delivered, keepPolling, sState>>
    BY <1>7 DEF ConsumerEnds, ECallFails, sourceVars, mainVars
  <2>2. CASE r = s
    <3>1. cState[r] = "flush" /\ ~keepPolling[r]
      BY <1>0, <1>7, <1>t, <2>2 DEF ConsumerEnds, ECallFails, FlagSeen
    <3>2. ProducerEnded(r)' = ProducerEnded(r)
      BY <1>p, <1>t, <2>1, <2>2 DEF ProducerEnded
    <3>3. Channel(r)!End
      BY <1>t, <2>1, <2>2, <3>1, <3>2 DEF Channel!End
    <3> QED
      BY <3>3 DEF Channel!Next
  <2>3. CASE r # s /\ r # 0 /\ r - 1 = s
    <3>1. Channel(r)!CloseSender
      BY <1>t, <2>1, <2>3, ChannelCloses DEF ProducerEnded
    <3> QED
      BY <3>1 DEF Channel!Next
  <2>4. CASE r # s /\ (r = 0 \/ r - 1 # s)
    <3>1. ProducerEnded(r)' = ProducerEnded(r)
      BY <1>p, <1>t, <2>1, <2>4 DEF ProducerEnded
    <3> QED
      BY <1>t, <2>1, <2>4, <3>1, ChannelAlone
  <2> QED
    BY <1>p, <2>2, <2>3, <2>4
<1>8. CASE Spawn
  <2>1. pc = "spawn" /\ i \in 0 .. NStages + 1 /\ UNCHANGED <<ring, delivered, keepPolling>>
    BY <1>t, <1>8 DEF Spawn, TypeOK
  <2>2. \A q \in Ring :
          cState'[q] = cState[q] \/ (cState[q] = "none" /\ cState'[q] = "poll")
    <3>1. SpawnOrder[i] # -1 => cState[SpawnOrder[i]] = "none"
      BY <1>t, <2>1 DEF MainOrder
    <3> QED
      BY <1>8, <1>t, <3>1 DEF Spawn
  <2>3. sState' = sState \/ (sState = "none" /\ sState' = "running")
    BY <1>8, <1>t, <2>1 DEF Spawn, MainOrder
  <2> QED
    BY <1>p, <2>1, <2>2, <2>3, ChannelAlone DEF ProducerEnded
<1>9. CASE StopFastCallResponder
  <2>1. /\ pc = "stop" /\ keepPolling' = [keepPolling EXCEPT ![i] = FALSE]
        /\ UNCHANGED <<ring, cState, delivered, failed, sState>>
    BY <1>9 DEF StopFastCallResponder, sourceVars, consumerVars
  <2>2. CASE r = i /\ keepPolling[i]
    <3>1. cState[r] # "ended"
      BY <1>0, <1>t, <2>1, <2>2 DEF FlagSeen
    <3>2. ProducerEnded(r)
      BY <1>t, <1>p, <2>1, <2>2, EngineAssumption DEF MainOrder, ProducerEnded, Ring
    <3>3. ProducerEnded(r)'
      BY <2>1, <3>2 DEF ProducerEnded
    <3>4. Channel(r)!Stop
      BY <1>t, <2>1, <2>2, <3>1, <3>2, <3>3 DEF Channel!Stop
    <3> QED
      BY <3>4 DEF Channel!Next
  <2>3. CASE ~(r = i /\ keepPolling[i])
    <3>1. keepPolling'[r] = keepPolling[r]
      BY <1>t, <2>1, <2>3
    <3> QED
      BY <2>1, <3>1, ChannelAlone DEF ProducerEnded
  <2> QED
    BY <2>2, <2>3
<1>10. CASE InitializeEnclaves \/ JoinSource \/ JoinResponder \/ DestroyEnclaves
            \/ UNCHANGED vars
  <2>1. UNCHANGED <<ring, cState, delivered, keepPolling, sState>>
    BY <1>10 DEF InitializeEnclaves, JoinSource, JoinResponder, DestroyEnclaves, vars,
                 sourceVars, consumerVars, mainVars
  <2> QED
    BY <2>1, ChannelAlone DEF ProducerEnded
<1> QED
  BY <1>0, <1>1, <1>2, <1>3, <1>4, <1>5, <1>6, <1>7, <1>8, <1>9, <1>10
     DEF Next, Source, ResponderThread, Main, Returned

(* Each ring of a pipeline of any length is a StreamChannel: the engine     *)
(* starts, stops and joins its threads in the order the channel asks for.   *)
THEOREM EngineUsesChannels == Spec => RingsAreChannels
<1>1. Init => \A r \in Ring : Channel(r)!Init
  <2> SUFFICES ASSUME Init, NEW r \in Ring PROVE Channel(r)!Init
    OBVIOUS
  <2>1. ~ProducerEnded(r)
    BY EngineAssumption DEF Init, ProducerEnded, Ring
  <2> QED
    BY <2>1 DEF Init, Channel!Init
<1>2. IInv /\ [Next]_vars =>
        [\A r \in Ring : r \in failed' \/ [Channel(r)!Next]_(Channel(r)!vars)]_vars
  BY StepChannels
<1> QED
  BY <1>1, <1>2, Invariance, PTL DEF Spec, RingsAreChannels
===============================================================================
