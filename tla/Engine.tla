-------------------------------- MODULE Engine --------------------------------
(***************************************************************************)
(* SimpleEngine::start (and the start of the engines derived from it): a    *)
(* pipeline of enclaves, one thread each, between a source thread and a     *)
(* sink thread.                                                             *)
(*                                                                          *)
(*   source -> ring 0 -> stage 0 -> ring 1 -> ... -> ring NStages -> sink   *)
(*                                                                          *)
(* Ring r is polled by consumer r: an enclave's responder for r < NStages,  *)
(* the sink for r = NStages.  A ring is taken at the level StreamChannel    *)
(* promises and FastCall is proved to keep: a datum is pushed and popped in *)
(* one step each, and stays in the ring until the callback has returned.    *)
(* Main creates the enclaves, starts the threads, then stops and joins them *)
(* ring by ring, and destroys the enclaves.                                 *)
(*                                                                          *)
(* A datum is known by its origin, the number of the source record whose    *)
(* callback produced it (directly or through other stages); EndOfStream is  *)
(* the origin of what a stage emits when it is flushed with NULL.           *)
(***************************************************************************)
EXTENDS Integers, Sequences

CONSTANTS NStages,      \* number of tasks added to the engine
          Capacity,     \* data a ring can hold: MAX_BUFFER_SIZE - 1
          MaxRecords,   \* bound: the source emits at most so many records
          MaxEmit,      \* bound: a callback emits at most so many data
          SourceAt,     \* how many threads are created before the source's
          CreateMayFail,\* can initialize_enclave fail?
          ECallMayFail  \* can an enclave be lost, or its ECALL refused?

ASSUME EngineAssumption ==
  /\ NStages \in Nat \ {0}
  /\ Capacity \in Nat
  /\ MaxRecords \in Nat
  /\ MaxEmit \in Nat
  /\ SourceAt \in 0 .. NStages + 1
  /\ {CreateMayFail, ECallMayFail} \subseteq BOOLEAN

Stage == 0 .. NStages - 1
Ring  == 0 .. NStages

EndOfStream == MaxRecords + 1
Origin      == 1 .. EndOfStream

VARIABLES
  \* fastCallDataList_[r]: the data of its buffer, its keepPolling
  ring, keepPolling,
  \* the source's thread, and the record it emits or has emitted last
  sState, record,
  \* consumer r: control state, data its callback has still to emit
  cState, out,
  \* main: where it is in start(), its loop index; the enclaves
  pc, i, enclave,
  \* history: what each consumer's callback was given; stages whose ECALL failed
  delivered, failed

sourceVars   == <<sState, record>>
consumerVars == <<cState, out, delivered, failed>>
mainVars     == <<pc, i, enclave, keepPolling>>
vars         == <<ring, sourceVars, consumerVars, mainVars>>

(* The threads in the order start() creates them, -1 being the source: last *)
(* in SimpleEngine, before the sink in EngineWithBufferObserver, first in   *)
(* EngineWithBufferObserverCrypto.                                          *)
SpawnOrder ==
  [k \in 0 .. NStages + 1 |->
     IF k = SourceAt THEN -1 ELSE IF k < SourceAt THEN k ELSE k - 1]

ProducerEnded(r) == IF r = 0 THEN sState = "ended" ELSE cState[r - 1] = "ended"

(* initializeDataStructures: empty rings, all keepPolling.                  *)
Init ==
  /\ ring = [r \in Ring |-> <<>>]
  /\ keepPolling = [r \in Ring |-> TRUE]
  /\ sState = "none"
  /\ record = 0
  /\ cState = [r \in Ring |-> "none"]
  /\ out = [r \in Ring |-> 0]
  /\ pc = "create"
  /\ i = 0
  /\ enclave = [s \in Stage |-> "none"]
  /\ delivered = [r \in Ring |-> <<>>]
  /\ failed = {}
-------------------------------------------------------------------------------
(* The FastCall_request of the datum d into ring r: pushed, or given up     *)
(* when the ring stays full through MAX_RETRIES attempts.                   *)
Request(r, d) ==
  IF Len(ring[r]) < Capacity
  THEN ring' = [ring EXCEPT ![r] = Append(@, d)]
  ELSE UNCHANGED ring

(* The source's thread.                                                     *)
EmitRecord ==
  /\ sState = "running"
  /\ record < MaxRecords
  /\ record' = record + 1
  /\ Request(0, record + 1)
  /\ UNCHANGED <<sState, consumerVars, mainVars>>

SourceEnds ==
  /\ sState = "running"
  /\ sState' = "ended"
  /\ UNCHANGED <<ring, record, consumerVars, mainVars>>

Source == EmitRecord \/ SourceEnds
-------------------------------------------------------------------------------
(* Consumer r.  The sink's callback writes its datum and emits nothing.     *)
Emissions(r) == IF r = NStages THEN {0} ELSE 0 .. MaxEmit

PopEmpty(r) ==
  /\ cState[r] = "poll"
  /\ ring[r] = <<>>
  /\ cState' = [cState EXCEPT ![r] = "checkFlag"]
  /\ UNCHANGED <<ring, out, delivered, failed, sourceVars, mainVars>>

PopDatum(r) ==
  /\ cState[r] = "poll"
  /\ ring[r] # <<>>
  /\ cState' = [cState EXCEPT ![r] = "callback"]
  /\ \E n \in Emissions(r) : out' = [out EXCEPT ![r] = n]
  /\ delivered' = [delivered EXCEPT ![r] = Append(@, Head(ring[r]))]
  /\ UNCHANGED <<ring, failed, sourceVars, mainVars>>

(* Mutation: a loop over the results that goes one too far.                 *)
EmitOnceMore(r) ==
  /\ r \in Stage
  /\ cState[r] \in {"callback", "flush"}
  /\ Request(r + 1, IF cState[r] = "flush" THEN EndOfStream ELSE Head(ring[r]))
  /\ out' = [out EXCEPT ![r] = @ - 1]
  /\ UNCHANGED <<cState, delivered, failed, sourceVars, mainVars>>

(* A stage's callback emits into the next ring, its datum still in its own. *)
Emit(r) ==
  /\ r \in Stage
  /\ cState[r] \in {"callback", "flush"}
  /\ out[r] > 0
  /\ Request(r + 1, IF cState[r] = "flush" THEN EndOfStream ELSE Head(ring[r]))
  /\ out' = [out EXCEPT ![r] = @ - 1]
  /\ UNCHANGED <<cState, delivered, failed, sourceVars, mainVars>>

(* The callback has returned: tail moves on.                                *)
Advance(r) ==
  /\ cState[r] = "callback"
  /\ out[r] = 0
  /\ ring' = [ring EXCEPT ![r] = Tail(@)]
  /\ cState' = [cState EXCEPT ![r] = "poll"]
  /\ UNCHANGED <<out, delivered, failed, sourceVars, mainVars>>

(* Mutation: the responder gives up at the first empty ring.                *)
CheckFlagImpatient(r) ==
  /\ cState[r] = "checkFlag"
  /\ cState' = [cState EXCEPT ![r] = "flush"]
  /\ \E n \in Emissions(r) : out' = [out EXCEPT ![r] = n]
  /\ UNCHANGED <<ring, delivered, failed, sourceVars, mainVars>>

(* keepPolling is read after, not together with, the empty pop.             *)
CheckFlag(r) ==
  /\ cState[r] = "checkFlag"
  /\ IF keepPolling[r]
     THEN cState' = [cState EXCEPT ![r] = "poll"] /\ UNCHANGED out
     ELSE /\ cState' = [cState EXCEPT ![r] = "flush"]
          /\ \E n \in Emissions(r) : out' = [out EXCEPT ![r] = n]
  /\ UNCHANGED <<ring, delivered, failed, sourceVars, mainVars>>

(* Mutation: what the flag's race left in the ring is taken after the flush. *)
ConsumerLooksAgain(r) ==
  /\ cState[r] = "flush"
  /\ out[r] = 0
  /\ cState' = [cState EXCEPT ![r] = IF ring[r] = <<>> THEN "ended" ELSE "poll"]
  /\ UNCHANGED <<ring, out, delivered, failed, sourceVars, mainVars>>

(* The callback on NULL has returned, the ECALL and the thread return.      *)
ConsumerEnds(r) ==
  /\ cState[r] = "flush"
  /\ out[r] = 0
  /\ cState' = [cState EXCEPT ![r] = "ended"]
  /\ UNCHANGED <<ring, out, delivered, failed, sourceVars, mainVars>>

(* The ECALL returns an error, at once or from the middle of its work; the  *)
(* thread prints "Polling failed" and returns.                              *)
ECallFails(r) ==
  /\ ECallMayFail
  /\ r \in Stage
  /\ cState[r] \notin {"none", "ended"}
  /\ cState' = [cState EXCEPT ![r] = "ended"]
  /\ out' = [out EXCEPT ![r] = 0]
  /\ failed' = failed \cup {r}
  /\ UNCHANGED <<ring, delivered, sourceVars, mainVars>>

ResponderThread(r) ==
  \/ PopEmpty(r) \/ PopDatum(r) \/ Emit(r) \/ Advance(r) \/ CheckFlag(r)
  \/ ConsumerEnds(r) \/ ECallFails(r)
-------------------------------------------------------------------------------
(* Main, in start().                                                        *)

(* initializeEnclaves stops at the first failure; then nothing is started.  *)
InitializeEnclaves ==
  /\ pc = "create"
  /\ \/ /\ enclave' = [enclave EXCEPT ![i] = "created"]
        /\ IF i + 1 < NStages THEN i' = i + 1 /\ UNCHANGED pc
                              ELSE i' = 0 /\ pc' = "spawn"
     \/ /\ CreateMayFail
        /\ i' = 0
        /\ pc' = "destroy"
        /\ UNCHANGED enclave
  /\ UNCHANGED <<ring, keepPolling, sourceVars, consumerVars>>

(* pthread_create of the next thread.                                       *)
Spawn ==
  /\ pc = "spawn"
  /\ IF SpawnOrder[i] = -1
     THEN sState' = "running" /\ UNCHANGED cState
     ELSE cState' = [cState EXCEPT ![SpawnOrder[i]] = "poll"] /\ UNCHANGED sState
  /\ IF i < NStages + 1 THEN i' = i + 1 /\ UNCHANGED pc
                        ELSE i' = 0 /\ pc' = "joinSource"
  /\ UNCHANGED <<ring, keepPolling, record, out, delivered, failed, enclave>>

(* Mutation: main goes on without waiting for the source.                   *)
JoinSourceForgotten ==
  /\ pc = "joinSource"
  /\ pc' = "stop"
  /\ UNCHANGED <<ring, keepPolling, i, enclave, sourceVars, consumerVars>>

JoinSource ==
  /\ pc = "joinSource"
  /\ sState = "ended"
  /\ pc' = "stop"
  /\ UNCHANGED <<ring, keepPolling, i, enclave, sourceVars, consumerVars>>

(* Mutation: all responders are stopped at once.                            *)
StopAllResponders ==
  /\ pc = "stop"
  /\ keepPolling' = [r \in Ring |-> FALSE]
  /\ pc' = "join"
  /\ UNCHANGED <<ring, i, enclave, sourceVars, consumerVars>>

(* Mutation: the flag is left as it is.                                     *)
StopForgotten ==
  /\ pc = "stop"
  /\ pc' = "join"
  /\ UNCHANGED <<ring, keepPolling, i, enclave, sourceVars, consumerVars>>

StopFastCallResponder ==
  /\ pc = "stop"
  /\ keepPolling' = [keepPolling EXCEPT ![i] = FALSE]
  /\ pc' = "join"
  /\ UNCHANGED <<ring, i, enclave, sourceVars, consumerVars>>

(* Mutation: main does not wait for the responder's end.                    *)
JoinResponderForgotten ==
  /\ pc = "join"
  /\ IF i < NStages THEN i' = i + 1 /\ pc' = "stop"
                    ELSE i' = 0 /\ pc' = "destroy"
  /\ UNCHANGED <<ring, keepPolling, enclave, sourceVars, consumerVars>>

(* Stages first, in the order of the pipeline, the sink last.               *)
JoinResponder ==
  /\ pc = "join"
  /\ cState[i] = "ended"
  /\ IF i < NStages THEN i' = i + 1 /\ pc' = "stop"
                    ELSE i' = 0 /\ pc' = "destroy"
  /\ UNCHANGED <<ring, keepPolling, enclave, sourceVars, consumerVars>>

(* Mutation: the last enclave is forgotten.                                 *)
DestroyEnclavesButLast ==
  /\ pc = "destroy"
  /\ enclave' = [enclave EXCEPT ![i] = IF @ = "created" /\ i + 1 < NStages THEN "destroyed" ELSE @]
  /\ IF enclave[i] = "created" /\ i + 1 < NStages
     THEN i' = i + 1 /\ UNCHANGED pc
     ELSE i' = 0 /\ pc' = "done"
  /\ UNCHANGED <<ring, keepPolling, sourceVars, consumerVars>>

(* destroyEnclaves goes through all ids and stops at the first that         *)
(* sgx_destroy_enclave refuses: the first that was never created.           *)
DestroyEnclaves ==
  /\ pc = "destroy"
  /\ enclave' = [enclave EXCEPT ![i] = IF @ = "created" THEN "destroyed" ELSE @]
  /\ IF enclave[i] = "created" /\ i + 1 < NStages
     THEN i' = i + 1 /\ UNCHANGED pc
     ELSE i' = 0 /\ pc' = "done"
  /\ UNCHANGED <<ring, keepPolling, sourceVars, consumerVars>>

(* start() has returned 0, whatever happened.                               *)
Returned == pc = "done" /\ UNCHANGED vars

Main ==
  \/ InitializeEnclaves \/ Spawn \/ JoinSource \/ StopFastCallResponder
  \/ JoinResponder \/ DestroyEnclaves

Next == Source \/ (\E r \in Ring : ResponderThread(r)) \/ Main \/ Returned

(* Every thread that can run runs eventually.  The source's stream is       *)
(* finite: its thread, too, comes to its end.                               *)
Fairness ==
  /\ WF_vars(Source)
  /\ \A r \in Ring : WF_vars(ResponderThread(r))
  /\ WF_vars(Main)

Spec == Init /\ [][Next]_vars

FairSpec == Spec /\ Fairness

(* Only the consumers are sure to run: the source, or main between two      *)
(* pthread_create, may stall for ever.                                      *)
ConsumerSpec == Spec /\ \A r \in Ring : WF_vars(ResponderThread(r))
-------------------------------------------------------------------------------
TypeOK ==
  /\ ring \in [Ring -> Seq(Origin)]
  /\ keepPolling \in [Ring -> BOOLEAN]
  /\ sState \in {"none", "running", "ended"}
  /\ record \in 0 .. MaxRecords
  /\ cState \in [Ring -> {"none", "poll", "callback", "checkFlag", "flush", "ended"}]
  /\ out \in [Ring -> 0 .. MaxEmit]
  /\ pc \in {"create", "spawn", "joinSource", "stop", "join", "destroy", "done"}
  /\ i \in 0 .. NStages + 1
  /\ enclave \in [Stage -> {"none", "created", "destroyed"}]
  /\ delivered \in [Ring -> Seq(Origin)]
  /\ failed \in SUBSET Stage

(* A responder is told to stop only when its producer can push no more, all *)
(* along the pipeline: the order in which main stops and joins is what      *)
(* makes each ring a StreamChannel.                                         *)
StopFollowsProducer == \A r \in Ring : ~keepPolling[r] => ProducerEnded(r)

(* The code of a stage runs in an enclave that exists: none is destroyed    *)
(* under its responder, none is entered before it was created.              *)
EnclaveAlive ==
  \A s \in Stage :
    cState[s] \notin {"none", "ended"} => enclave[s] = "created"

(* When start() returns, nothing is left running that uses the engine's     *)
(* buffers or start()'s own stack frame, and no enclave is left behind,     *)
(* whichever enclave could not be created or was lost.                      *)
NothingOutlivesStart ==
  pc = "done" =>
    /\ sState \in {"none", "ended"}
    /\ \A r \in Ring : cState[r] \in {"none", "ended"}
    /\ \A s \in Stage : enclave[s] # "created"

(* Results arrive in the order of the records they come from, and what the  *)
(* stages emit on their flush comes after all of them, at every ring: no    *)
(* stage overtakes another, whoever drops data, fails or is slow.           *)
InOrder ==
  \A r \in Ring : \A k \in 1 .. Len(delivered[r]) - 1 :
    delivered[r][k] <= delivered[r][k + 1]

(* What makes these inductive.  Where main is tells which enclaves exist,   *)
(* which threads have not started or have ended, and which flags are down.  *)
MainOrder ==
  /\ pc = "create" =>
       /\ i \in Stage
       /\ sState = "none"
       /\ \A r \in Ring : cState[r] = "none"
       /\ \A s \in Stage : enclave[s] = IF s < i THEN "created" ELSE "none"
  /\ pc = "spawn" =>
       \A k \in i .. NStages + 1 :
         IF SpawnOrder[k] = -1 THEN sState = "none" ELSE cState[SpawnOrder[k]] = "none"
  /\ pc \in {"create", "spawn", "joinSource"} => \A r \in Ring : keepPolling[r]
  /\ pc = "joinSource" => i = 0
  /\ pc \in {"spawn", "joinSource", "stop", "join"} =>
       \A s \in Stage : enclave[s] = "created"
  /\ pc \in {"stop", "join"} =>
       /\ i \in Ring
       /\ sState = "ended"
       /\ \A r \in Ring : r < i => cState[r] = "ended"
  /\ pc = "join" => ~keepPolling[i]
  /\ pc \in {"destroy", "done"} =>
       /\ sState \in {"none", "ended"}
       /\ \A r \in Ring : cState[r] \in {"none", "ended"}
  /\ pc = "destroy" =>
       /\ i \in Stage
       /\ \A s \in Stage : s < i => enclave[s] # "created"
       /\ \A s, t \in Stage :
            (i <= s /\ s <= t /\ enclave[s] # "created") => enclave[t] # "created"
  /\ pc = "done" => \A s \in Stage : enclave[s] # "created"

(* A consumer flushes and ends because it has seen its flag down, or failed. *)
FlagSeen ==
  \A r \in Ring :
    /\ cState[r] = "flush" => ~keepPolling[r]
    /\ cState[r] = "ended" /\ r \notin failed => ~keepPolling[r]

(* The callback works on the oldest datum of its ring.                      *)
InHand ==
  \A r \in Ring :
    cState[r] = "callback" =>
      /\ ring[r] # <<>>
      /\ delivered[r] # <<>>
      /\ delivered[r][Len(delivered[r])] = ring[r][1]

(* The origin of the next datum that can be pushed into ring r is at least  *)
(* Latest(r).                                                               *)
Latest(r) ==
  IF r = 0 THEN record
  ELSE IF cState[r - 1] \in {"flush", "ended"} THEN EndOfStream
  ELSE IF delivered[r - 1] = <<>> THEN 0
  ELSE delivered[r - 1][Len(delivered[r - 1])]

(* Delivered data, then the ring, then what is still to come: each in order *)
(* and each after the one before.                                           *)
Ordered(past, queue, next) ==
  /\ \A j, k \in 1 .. Len(past) : j <= k => past[j] <= past[k]
  /\ \A j, k \in 1 .. Len(queue) : j <= k => queue[j] <= queue[k]
  /\ \A j \in 1 .. Len(past), k \in 1 .. Len(queue) : past[j] <= queue[k]
  /\ \A k \in 1 .. Len(queue) : queue[k] <= next
  /\ \A k \in 1 .. Len(past) : past[k] <= next

PipelineOrder ==
  \A r \in Ring :
    /\ Ordered(delivered[r], ring[r], Latest(r))
    /\ cState[r] = "none" => delivered[r] = <<>>

IInv ==
  /\ TypeOK /\ MainOrder /\ StopFollowsProducer /\ FlagSeen /\ InHand /\ PipelineOrder

(* No stage or sink is told the end of the stream while one before it may   *)
(* still emit, and nothing follows the end: the flush of ReduceFlight can   *)
(* rely on it.                                                              *)
EndIsLast ==
  [][\A r \in Ring :
       cState[r] \in {"flush", "ended"} /\ r \notin failed' =>
         /\ cState'[r] \in {"flush", "ended"}
         /\ delivered'[r] = delivered[r]
         /\ Len(ring'[r]) <= Len(ring[r])]_vars

(* start() returns, also when enclaves fail and rings stay full: nobody     *)
(* waits for ever.                                                          *)
Termination == <>(pc = "done")

(* Every datum pushed into a ring comes to its consumer's callback unless   *)
(* main stops the consumer first or its ECALL fails: a full or dead ring    *)
(* downstream costs the data pushed into it, never the flow upstream, and   *)
(* a source that stalls does not hold back what it has already emitted.     *)
Pushed(r) == Len(delivered[r]) + Len(ring[r]) - (IF cState[r] = "callback" THEN 1 ELSE 0)

Flow ==
  \A r \in Ring : \A k \in 1 .. MaxRecords :
    (cState[r] # "none" /\ Pushed(r) >= k)
      ~> (Len(delivered[r]) >= k \/ ~keepPolling[r] \/ r \in failed)

(* Each ring of the engine keeps the promise of StreamChannel.tla as long   *)
(* as the ECALL that polls it does not fail.                                *)
Channel(r) == INSTANCE StreamChannel WITH
  Item      <- Origin,
  queue     <- ring[r],
  inHand    <- cState[r] = "callback",
  delivered <- delivered[r],
  sender    <- IF ProducerEnded(r) THEN "closed" ELSE "open",
  receiver  <- IF cState[r] = "ended" THEN "ended"
               ELSE IF keepPolling[r] THEN "polling" ELSE "stopping"

RingsAreChannels ==
  /\ \A r \in Ring : Channel(r)!Init
  /\ [][\A r \in Ring :
          r \in failed' \/ [Channel(r)!Next]_(Channel(r)!vars)]_vars
===============================================================================
