--------------------------- MODULE TwoSourceEngine ---------------------------
(***************************************************************************)
(* Simple2SourceObserverEngine::start: one enclave whose responder polls    *)
(* two rings at once (FastCall_wait_2, FastCall_wait_2_decrypt), as the     *)
(* join queries need it.                                                    *)
(*                                                                          *)
(*   source 1 -> ring 1 \                                                   *)
(*                        join responder -> ring Out -> sink                *)
(*   source 2 -> ring 2 /                                                   *)
(*                                                                          *)
(* Rings are StreamChannels, as in Engine.tla.  The responder pops ring 1,  *)
(* then ring 2, then reads the two flags, and only then calls the callback  *)
(* with whatever the pops gave: each of these is a step others can come in  *)
(* between.  The sink polls its ring as a stage of Engine.tla does.         *)
(***************************************************************************)
EXTENDS Integers, Sequences

CONSTANTS Capacity,     \* data a ring can hold: MAX_BUFFER_SIZE - 1
          MaxRecords,   \* bound: each source emits at most so many records
          MaxEmit,      \* bound: a callback emits at most so many data
          CreateMayFail,\* can initialize_enclave fail?
          ECallMayFail  \* can the enclave be lost, or its ECALL refused?

ASSUME TwoSourceAssumption ==
  /\ {Capacity, MaxRecords, MaxEmit} \subseteq Nat
  /\ {CreateMayFail, ECallMayFail} \subseteq BOOLEAN

In   == {1, 2}
Out  == 3
Ring == In \cup {Out}

VARIABLES
  ring, keepPolling,    \* of the three FastCallStructs
  sState, record,       \* the sources: control state, last record emitted
  rState,               \* the responder: what it does next ...
  popped,               \* ... the rings its last two pops found a datum in ...
  keep,                 \* ... the local keepPolling ...
  out,                  \* ... and what its callback has still to emit
  sink,                 \* the sink's control state
  pc, enclave,          \* main: where it is in start(); the enclave
  delivered,            \* history: the data given to each ring's consumer ...
  lost                  \* ... and whether the ECALL has returned an error

sourceVars    == <<sState, record>>
responderVars == <<rState, popped, keep, out, lost>>
mainVars      == <<pc, enclave, keepPolling>>
vars == <<ring, sourceVars, responderVars, sink, mainVars, delivered>>

Init ==
  /\ ring = [r \in Ring |-> <<>>]
  /\ keepPolling = [r \in Ring |-> TRUE]
  /\ sState = [r \in In |-> "none"]
  /\ record = [r \in In |-> 0]
  /\ rState = "none"
  /\ popped = {}
  /\ keep = FALSE
  /\ out = 0
  /\ sink = "none"
  /\ pc = "create"
  /\ enclave = "none"
  /\ delivered = [r \in Ring |-> <<>>]
  /\ lost = FALSE
-------------------------------------------------------------------------------
(* A FastCall_request of d into ring r: pushed, or given up when it is full.*)
Request(r, d) ==
  ring' = IF Len(ring[r]) < Capacity THEN [ring EXCEPT ![r] = Append(@, d)] ELSE ring

EmitRecord(r) ==
  /\ sState[r] = "running"
  /\ record[r] < MaxRecords
  /\ record' = [record EXCEPT ![r] = @ + 1]
  /\ Request(r, record[r] + 1)
  /\ UNCHANGED <<sState, responderVars, sink, mainVars, delivered>>

SourceEnds(r) ==
  /\ sState[r] = "running"
  /\ sState' = [sState EXCEPT ![r] = "ended"]
  /\ UNCHANGED <<ring, record, responderVars, sink, mainVars, delivered>>

Source(r) == EmitRecord(r) \/ SourceEnds(r)
-------------------------------------------------------------------------------
(* The callback has ring r's datum, and the tail has not moved on yet.      *)
Held(r) ==
  r \in popped /\ (rState \in {"emit", "ended"} \/ (rState = "advance2" /\ r = 2))

(* The responder.  A pop leaves the datum in the ring.                      *)
Pop(r) ==
  /\ rState = IF r = 1 THEN "pop1" ELSE "pop2"
  /\ popped' = IF ring[r] # <<>> THEN popped \cup {r} ELSE popped
  /\ rState' = IF r = 1 THEN "pop2" ELSE "flag1"
  /\ UNCHANGED <<ring, keep, out, lost, sink, sourceVars, mainVars, delivered>>

(* Mutation: ring 1's flag is read for both.                                *)
ReadFirstFlag(r) ==
  /\ rState = IF r = 1 THEN "flag1" ELSE "flag2"
  /\ keep' = (keep \/ keepPolling[1])
  /\ rState' = IF r = 1 THEN "flag2" ELSE "callback"
  /\ UNCHANGED <<ring, popped, out, lost, sink, sourceVars, mainVars, delivered>>

ReadFlag(r) ==
  /\ rState = IF r = 1 THEN "flag1" ELSE "flag2"
  /\ keep' = (keep \/ keepPolling[r])
  /\ rState' = IF r = 1 THEN "flag2" ELSE "callback"
  /\ UNCHANGED <<ring, popped, out, lost, sink, sourceVars, mainVars, delivered>>

(* Mutation: the callback waits until there is a datum of both.             *)
CallbackOfBoth ==
  /\ rState = "callback"
  /\ IF popped = In
     THEN /\ \E n \in 0 .. MaxEmit : out' = n
          /\ delivered' = [r \in Ring |-> IF r \in popped THEN Append(delivered[r], Head(ring[r]))
                                                          ELSE delivered[r]]
          /\ rState' = "emit"
          /\ UNCHANGED popped
     ELSE popped' = {} /\ rState' = "check" /\ UNCHANGED <<out, delivered>>
  /\ UNCHANGED <<ring, keep, lost, sink, sourceVars, mainVars>>

(* The callback is called with one datum or with one of each ring.          *)
Callback ==
  /\ rState = "callback"
  /\ IF popped # {}
     THEN /\ \E n \in 0 .. MaxEmit : out' = n
          /\ delivered' = [r \in Ring |-> IF r \in popped THEN Append(delivered[r], Head(ring[r]))
                                                          ELSE delivered[r]]
          /\ rState' = "emit"
     ELSE rState' = "check" /\ UNCHANGED <<out, delivered>>
  /\ UNCHANGED <<ring, popped, keep, lost, sink, sourceVars, mainVars>>

(* What the callback emits carries the numbers of the data seen so far.     *)
Emit ==
  /\ rState \in {"emit", "flush"}
  /\ out > 0
  /\ Request(Out, <<Len(delivered[1]), Len(delivered[2])>>)
  /\ out' = out - 1
  /\ UNCHANGED <<rState, popped, keep, lost, sink, sourceVars, mainVars, delivered>>

(* Mutation: one tail moves on in a round, ring 1's when both popped.       *)
AdvanceOne ==
  \/ /\ rState = "emit"
     /\ out = 0
     /\ ring' = IF 1 \in popped THEN [ring EXCEPT ![1] = Tail(@)] ELSE ring
     /\ rState' = "advance2"
     /\ UNCHANGED <<popped, keep, out, lost, sink, sourceVars, mainVars, delivered>>
  \/ /\ rState = "advance2"
     /\ ring' = IF popped = {2} THEN [ring EXCEPT ![2] = Tail(@)] ELSE ring
     /\ rState' = "check"
     /\ UNCHANGED <<popped, keep, out, lost, sink, sourceVars, mainVars, delivered>>

(* The callback has returned: the tails move on, ring 1's first.            *)
Advance ==
  \/ /\ rState = "emit"
     /\ out = 0
     /\ ring' = IF 1 \in popped THEN [ring EXCEPT ![1] = Tail(@)] ELSE ring
     /\ rState' = "advance2"
     /\ UNCHANGED <<popped, keep, out, lost, sink, sourceVars, mainVars, delivered>>
  \/ /\ rState = "advance2"
     /\ ring' = IF 2 \in popped THEN [ring EXCEPT ![2] = Tail(@)] ELSE ring
     /\ rState' = "check"
     /\ UNCHANGED <<popped, keep, out, lost, sink, sourceVars, mainVars, delivered>>

(* Mutation: the local keepPolling is not reset for the next round.         *)
CheckNoReset ==
  /\ rState = "check"
  /\ popped' = {}
  /\ UNCHANGED keep
  /\ IF keep \/ popped # {} THEN rState' = "pop1" /\ UNCHANGED out
                            ELSE rState' = "flush" /\ \E n \in 0 .. MaxEmit : out' = n
  /\ UNCHANGED <<ring, lost, sink, sourceVars, mainVars, delivered>>

(* The end of a round: flush when both pops were empty and both flags down. *)
Check ==
  /\ rState = "check"
  /\ popped' = {}
  /\ keep' = FALSE
  /\ IF keep \/ popped # {} THEN rState' = "pop1" /\ UNCHANGED out
                            ELSE rState' = "flush" /\ \E n \in 0 .. MaxEmit : out' = n
  /\ UNCHANGED <<ring, lost, sink, sourceVars, mainVars, delivered>>

ResponderEnds ==
  /\ rState = "flush"
  /\ out = 0
  /\ rState' = "ended"
  /\ UNCHANGED <<ring, popped, keep, out, lost, sink, sourceVars, mainVars, delivered>>

(* The ECALL returns an error, from wherever the responder is, or at once if *)
(* there is no enclave; the thread prints "Polling failed" and returns.     *)
(* The tails it had not moved stay where they are, for good.                *)
ECallFails ==
  /\ enclave = "none" \/ ECallMayFail
  /\ rState \notin {"none", "ended"}
  /\ rState' = "ended"
  /\ popped' = {r \in In : Held(r)}
  /\ keep' = FALSE
  /\ out' = 0
  /\ lost' = TRUE
  /\ UNCHANGED <<ring, sink, sourceVars, mainVars, delivered>>

Join ==
  \/ ECallFails
  \/ enclave = "created" /\ (\E r \in In : Pop(r) \/ ReadFlag(r))
  \/ Callback \/ Emit \/ Advance \/ Check \/ ResponderEnds
-------------------------------------------------------------------------------
(* The sink: FastCall_wait_decrypt on ring Out.                             *)
SinkPop ==
  /\ sink = "poll"
  /\ IF ring[Out] = <<>>
     THEN sink' = "checkFlag" /\ UNCHANGED delivered
     ELSE sink' = "callback" /\ delivered' = [delivered EXCEPT ![Out] = Append(@, Head(ring[Out]))]
  /\ UNCHANGED <<ring, sourceVars, responderVars, mainVars>>

SinkAdvance ==
  /\ sink = "callback"
  /\ ring' = [ring EXCEPT ![Out] = Tail(@)]
  /\ sink' = "poll"
  /\ UNCHANGED <<sourceVars, responderVars, mainVars, delivered>>

SinkCheckFlag ==
  /\ sink = "checkFlag"
  /\ sink' = IF keepPolling[Out] THEN "poll" ELSE "ended"
  /\ UNCHANGED <<ring, sourceVars, responderVars, mainVars, delivered>>

Sink == SinkPop \/ SinkAdvance \/ SinkCheckFlag
-------------------------------------------------------------------------------
(* Main.  start() goes on whatever initializeEnclaves returned.             *)
InitializeEnclaves ==
  /\ pc = "create"
  /\ \/ enclave' = "created"
     \/ CreateMayFail /\ UNCHANGED enclave
  /\ pc' = "spawnResponder"
  /\ UNCHANGED <<ring, keepPolling, sourceVars, responderVars, sink, delivered>>

SpawnConsumers ==
  \/ /\ pc = "spawnResponder"
     /\ rState' = "pop1"
     /\ pc' = "spawnSink"
     /\ UNCHANGED <<ring, keepPolling, enclave, sourceVars, popped, keep, out, lost, sink, delivered>>
  \/ /\ pc = "spawnSink"
     /\ sink' = "poll"
     /\ pc' = "spawnSource1"
     /\ UNCHANGED <<ring, keepPolling, enclave, sourceVars, responderVars, delivered>>

SpawnSource(r) ==
  /\ pc = IF r = 1 THEN "spawnSource1" ELSE "spawnSource2"
  /\ sState' = [sState EXCEPT ![r] = "running"]
  /\ pc' = IF r = 1 THEN "spawnSource2" ELSE "join1"
  /\ UNCHANGED <<ring, keepPolling, enclave, record, responderVars, sink, delivered>>

(* Mutation: the second source is not waited for.                           *)
JoinFirstSource(r) ==
  /\ pc = IF r = 1 THEN "join1" ELSE "join2"
  /\ r = 1 => sState[1] = "ended"
  /\ pc' = IF r = 1 THEN "join2" ELSE "stop1"
  /\ UNCHANGED <<ring, keepPolling, enclave, sourceVars, responderVars, sink, delivered>>

JoinSource(r) ==
  /\ pc = IF r = 1 THEN "join1" ELSE "join2"
  /\ sState[r] = "ended"
  /\ pc' = IF r = 1 THEN "join2" ELSE "stop1"
  /\ UNCHANGED <<ring, keepPolling, enclave, sourceVars, responderVars, sink, delivered>>

StopFastCallResponder(r) ==
  /\ pc = IF r = 1 THEN "stop1" ELSE "stop2"
  /\ keepPolling' = [keepPolling EXCEPT ![r] = FALSE]
  /\ pc' = IF r = 1 THEN "stop2" ELSE "joinResponder"
  /\ UNCHANGED <<ring, enclave, sourceVars, responderVars, sink, delivered>>

(* Mutation: the sink is stopped without waiting for the responder.         *)
JoinNobodyStopSink ==
  /\ pc = "joinResponder"
  /\ keepPolling' = [keepPolling EXCEPT ![Out] = FALSE]
  /\ pc' = "joinSink"
  /\ UNCHANGED <<ring, enclave, sourceVars, responderVars, sink, delivered>>

JoinResponderStopSink ==
  /\ pc = "joinResponder"
  /\ rState = "ended"
  /\ keepPolling' = [keepPolling EXCEPT ![Out] = FALSE]
  /\ pc' = "joinSink"
  /\ UNCHANGED <<ring, enclave, sourceVars, responderVars, sink, delivered>>

JoinSink ==
  /\ pc = "joinSink"
  /\ sink = "ended"
  /\ pc' = "destroy"
  /\ UNCHANGED <<ring, keepPolling, enclave, sourceVars, responderVars, sink, delivered>>

DestroyEnclaves ==
  /\ pc = "destroy"
  /\ enclave' = IF enclave = "created" THEN "destroyed" ELSE enclave
  /\ pc' = "done"
  /\ UNCHANGED <<ring, keepPolling, sourceVars, responderVars, sink, delivered>>

Returned == pc = "done" /\ UNCHANGED vars

Main ==
  \/ InitializeEnclaves \/ SpawnConsumers
  \/ \E r \in In : SpawnSource(r) \/ JoinSource(r) \/ StopFastCallResponder(r)
  \/ JoinResponderStopSink \/ JoinSink \/ DestroyEnclaves

Next == (\E r \in In : Source(r)) \/ Join \/ Sink \/ Main \/ Returned

(* Every thread that can run runs eventually; both streams are finite.      *)
Fairness ==
  /\ \A r \in In : WF_vars(Source(r))
  /\ WF_vars(Join) /\ WF_vars(Sink) /\ WF_vars(Main)

Spec == Init /\ [][Next]_vars

FairSpec == Spec /\ Fairness

(* Only the responder is sure to run: nobody else need ever take a step.    *)
ResponderSpec == Spec /\ WF_vars(Join)
-------------------------------------------------------------------------------
Datum(r) == IF r = Out THEN (0 .. MaxRecords) \X (0 .. MaxRecords) ELSE 1 .. MaxRecords

TypeOK ==
  /\ DOMAIN ring = Ring /\ DOMAIN delivered = Ring
  /\ \A r \in Ring : ring[r] \in Seq(Datum(r)) /\ delivered[r] \in Seq(Datum(r))
  /\ keepPolling \in [Ring -> BOOLEAN]
  /\ sState \in [In -> {"none", "running", "ended"}]
  /\ record \in [In -> 0 .. MaxRecords]
  /\ rState \in {"none", "pop1", "pop2", "flag1", "flag2", "callback", "emit", "advance2",
                 "check", "flush", "ended"}
  /\ popped \in SUBSET In
  /\ keep \in BOOLEAN
  /\ out \in 0 .. MaxEmit
  /\ sink \in {"none", "poll", "callback", "checkFlag", "ended"}
  /\ pc \in {"create", "spawnResponder", "spawnSink", "spawnSource1", "spawnSource2",
             "join1", "join2", "stop1", "stop2", "joinResponder", "joinSink", "destroy", "done"}
  /\ enclave \in {"none", "created", "destroyed"}
  /\ lost \in BOOLEAN

(* The join sees each record of each source at most once and in the order   *)
(* emitted, whether it came alone or with one of the other side; and no     *)
(* result goes back behind an earlier one in either input.                  *)
InOrder ==
  /\ \A r \in In : \A j \in 1 .. Len(delivered[r]) - 1 : delivered[r][j] < delivered[r][j + 1]
  /\ \A j \in 1 .. Len(delivered[Out]) - 1 : \A r \in In :
       delivered[Out][j][r] <= delivered[Out][j + 1][r]

(* The join's flush is the last callback: it happens only when no source    *)
(* can push any more, and nothing is delivered to the join after it.  Only  *)
(* a responder whose ECALL was lost ends before its sources do.             *)
FlushOnceBothEnded ==
  [][~lost /\ rState \in {"flush", "ended"} =>
       \A r \in In : sState[r] = "ended" /\ delivered'[r] = delivered[r] /\ ring'[r] = ring[r]]_vars

(* start() leaves no thread running and no enclave behind, though it does   *)
(* not look at what initializeEnclaves returned.                            *)
NothingOutlivesStart ==
  pc = "done" =>
    /\ \A r \in In : sState[r] = "ended"
    /\ rState = "ended" /\ sink = "ended"
    /\ enclave # "created"

(* Where main is in start() tells which threads have begun or ended, which  *)
(* flags are up, and whether there is an enclave.                           *)
MainOrder ==
  /\ rState = "none" <=> pc \in {"create", "spawnResponder"}
  /\ sink = "none" <=> pc \in {"create", "spawnResponder", "spawnSink"}
  /\ sState[1] = "none" <=> pc \in {"create", "spawnResponder", "spawnSink", "spawnSource1"}
  /\ sState[2] = "none" <=> pc \in {"create", "spawnResponder", "spawnSink", "spawnSource1",
                                    "spawnSource2"}
  /\ pc \in {"join2", "stop1", "stop2", "joinResponder", "joinSink", "destroy", "done"}
       => sState[1] = "ended"
  /\ pc \in {"stop1", "stop2", "joinResponder", "joinSink", "destroy", "done"}
       => sState[2] = "ended"
  /\ keepPolling[1] <=> pc \notin {"stop2", "joinResponder", "joinSink", "destroy", "done"}
  /\ keepPolling[2] <=> pc \notin {"joinResponder", "joinSink", "destroy", "done"}
  /\ keepPolling[Out] <=> pc \notin {"joinSink", "destroy", "done"}
  /\ pc \in {"joinSink", "destroy", "done"} => rState = "ended"
  /\ pc \in {"destroy", "done"} => sink = "ended"
  /\ pc = "create" => enclave = "none"
  /\ pc = "done" => enclave # "created"
  /\ enclave = "destroyed" => pc = "done"

(* What the responder knows of the flags at each place of its round, and    *)
(* the sink of its own.                                                     *)
FlagSeen ==
  /\ enclave = "none" => rState \in {"none", "pop1", "ended"}
  /\ rState \in {"none", "pop1", "pop2", "flag1"} => ~keep
  /\ rState = "flag2" /\ ~keep => ~keepPolling[1]
  /\ rState \in {"callback", "emit", "advance2", "check"} /\ ~keep =>
       ~keepPolling[1] /\ ~keepPolling[2]
  /\ rState \in {"flush", "ended"} /\ ~lost => ~keepPolling[1] /\ ~keepPolling[2]
  /\ lost => rState = "ended"
  /\ sink = "ended" => ~keepPolling[Out]

(* A ring that a pop found a datum in has one until its tail moves on.      *)
InHand ==
  /\ rState \in {"none", "pop1", "flush"} \/ (rState = "ended" /\ ~lost) => popped = {}
  /\ rState = "pop2" => popped \subseteq {1}
  /\ \A r \in popped :
       ring[r] # <<>> \/ rState = "check" \/ (rState = "advance2" /\ r = 1)
  /\ sink = "callback" => ring[Out] # <<>>

(* Records ascend from those given to the join over those in the ring to    *)
(* the last one emitted; a datum in hand is in both.                        *)
RecordsAscend(given, queue, last, held) ==
  /\ \A j, k \in 1 .. Len(given) : j < k => given[j] < given[k]
  /\ \A j, k \in 1 .. Len(queue) : j < k => queue[j] < queue[k]
  /\ \A j \in 1 .. Len(given) : given[j] <= last
  /\ \A k \in 1 .. Len(queue) : queue[k] <= last
  /\ \A j \in 1 .. Len(given), k \in 1 .. Len(queue) : k > 1 \/ ~held => given[j] < queue[k]
  /\ Len(given) + Len(queue) <= last + IF held THEN 1 ELSE 0

InputOrder == \A r \in In : RecordsAscend(delivered[r], ring[r], record[r], Held(r))

(* Results, by what they say of input r, do not descend from those given to *)
(* the sink over those in the ring to what the join has been given by now.  *)
ResultsAscend(given, queue, r, now) ==
  /\ \A j, k \in 1 .. Len(given) : j < k => given[j][r] <= given[k][r]
  /\ \A j, k \in 1 .. Len(queue) : j < k => queue[j][r] <= queue[k][r]
  /\ \A j \in 1 .. Len(given) : given[j][r] <= now
  /\ \A k \in 1 .. Len(queue) : queue[k][r] <= now
  /\ \A j \in 1 .. Len(given), k \in 1 .. Len(queue) : given[j][r] <= queue[k][r]

OutputOrder == \A r \in In : ResultsAscend(delivered[Out], ring[Out], r, Len(delivered[r]))

(* The inductive invariant.                                                 *)
IInv == TypeOK /\ MainOrder /\ FlagSeen /\ InHand /\ InputOrder /\ OutputOrder

(* start() returns, also when the enclave does not exist or is lost and     *)
(* both rings fill up with nobody to empty them.                            *)
Termination == <>(pc = "done")

(* A record in one ring does not wait for one in the other: with fairness   *)
(* of the responder alone, so that a source may stall for ever, each record *)
(* in a ring is given to the join, or main stops the ring, or the ECALL is  *)
(* lost.                                                                    *)
NoSideStarves ==
  \A r \in In : \A d \in 1 .. MaxRecords :
    (\E j \in 1 .. Len(ring[r]) : ring[r][j] = d)
      ~> (~keepPolling[r] \/ lost \/ \E j \in 1 .. Len(delivered[r]) : delivered[r][j] = d)

(* The input rings and the output ring keep the promise of StreamChannel,   *)
(* although one thread is the receiver of two of them; the loss of the      *)
(* ECALL is the one step that ends a receiver which nobody has stopped.     *)
InputChannel(r) == INSTANCE StreamChannel WITH
  Item      <- Datum(r),
  queue     <- ring[r],
  inHand    <- Held(r),
  delivered <- delivered[r],
  sender    <- IF sState[r] = "ended" THEN "closed" ELSE "open",
  receiver  <- IF rState = "ended" THEN "ended"
               ELSE IF keepPolling[r] THEN "polling" ELSE "stopping"

OutputChannel == INSTANCE StreamChannel WITH
  Item      <- Datum(Out),
  queue     <- ring[Out],
  inHand    <- sink = "callback",
  delivered <- delivered[Out],
  sender    <- IF rState = "ended" THEN "closed" ELSE "open",
  receiver  <- IF sink = "ended" THEN "ended"
               ELSE IF keepPolling[Out] THEN "polling" ELSE "stopping"

InputStep(r) == [InputChannel(r)!Next]_(InputChannel(r)!vars)
OutputStep   == [OutputChannel!Next]_(OutputChannel!vars)

RingsAreChannels ==
  /\ \A r \in In : InputChannel(r)!Init
  /\ OutputChannel!Init
  /\ [][(\A r \in In : lost' # lost \/ InputStep(r)) /\ OutputStep]_vars
===============================================================================
