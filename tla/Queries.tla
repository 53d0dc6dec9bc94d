-------------------------------- MODULE Queries -------------------------------
(***************************************************************************)
(* What each query of the three benchmarks is set up with: the task it      *)
(* names, the data its rings hold, and whether its source skips a header;   *)
(* and what the tasks of the enclave take and emit.                         *)
(***************************************************************************)
EXTENDS Integers, Sequences

Wiring(task, in, out, header) == [task |-> task, in |-> in, out |-> out, header |-> header]

(* NexmarkQuery.  Every source has a header there.                          *)
NexmarkOneSource == [
  Query1               |-> Wiring(3, <<"Bid">>, "Bid", TRUE),
  Query2_Filter        |-> Wiring(4, <<"Bid">>, "Bid", TRUE),
  Query2_Map           |-> Wiring(5, <<"Bid">>, "Q2Result", TRUE),
  Query3_FilterPerson  |-> Wiring(6, <<"Person">>, "Person", TRUE),
  Query3_FilterAuction |-> Wiring(7, <<"Auction">>, "Auction", TRUE),
  Query3_MapJoinResult |-> Wiring(9, <<"Q3JoinResult">>, "Q3Result", TRUE),
  Query4_MapAuctionBid |-> Wiring(11, <<"Q4Join1Result">>, "Q4Map1Result", TRUE),
  Query4_Max           |-> Wiring(12, <<"Q4Map1Result">>, "Q4Map1Result", TRUE),
  Query4_JoinCategory  |-> Wiring(13, <<"Q4Map1Result">>, "Q4Map1Result", TRUE),
  Query4_Average       |-> Wiring(14, <<"Q4Map1Result">>, "Q4AverageResult", TRUE),
  Query5_CountByAuction |-> Wiring(15, <<"Bid">>, "Q5CountByAuctionResult", TRUE),
  Query5_MaxBatch      |-> Wiring(16, <<"Q5CountByAuctionResult">>, "Q5CountByAuctionResult", TRUE),
  Query6_Filter        |-> Wiring(18, <<"Q6JoinResult">>, "Q6JoinResult", TRUE),
  Query6_Max           |-> Wiring(19, <<"Q6JoinResult">>, "Q6MaxResult", TRUE),
  Query6_Avg           |-> Wiring(20, <<"Q6MaxResult">>, "Q6AverageResult", TRUE),
  Query7_MaxJoin       |-> Wiring(26, <<"Bid">>, "Bid", TRUE),
  Query8_MapJoinResult |-> Wiring(28, <<"Q8JoinResult">>, "Q8MapResult", TRUE)]

runQuery3_JoinPersonAuction == Wiring(8, <<"Person", "Auction">>, "Q3JoinResult", TRUE)
runQuery4_JoinAuctionBid    == Wiring(10, <<"Auction", "Bid">>, "Q4Join1Result", TRUE)
runQuery6_JoinAuctionBid    == Wiring(17, <<"Auction", "Bid">>, "Q6JoinResult", TRUE)
runQuery8_JoinPersonAuction == Wiring(27, <<"Person", "Auction">>, "Q8JoinResult", TRUE)

NexmarkTwoSource == [
  Query3_JoinPersonAuction |-> runQuery3_JoinPersonAuction,
  Query4_JoinAuctionBid    |-> runQuery4_JoinAuctionBid,
  Query6_JoinAuctionBid    |-> runQuery6_JoinAuctionBid,
  Query8_JoinPersonAuction |-> runQuery8_JoinPersonAuction]

SecureStreamQueries == [
  MapQuery    |-> Wiring(0, <<"Row">>, "FlightData", TRUE),
  FilterQuery |-> Wiring(1, <<"FlightData">>, "FlightData", FALSE),
  ReduceQuery |-> Wiring(2, <<"FlightData">>, "ReducedFlightData", TRUE)]

StreamBoxQueries == [
  Query1 |-> Wiring(21, <<"SyntheticData">>, "SyntheticData", TRUE),
  Query2 |-> Wiring(22, <<"TripData">>, "CountTripData", TRUE),
  Query3 |-> Wiring(23, <<"SyntheticData", "SyntheticData">>, "SyntheticJoinData", TRUE),
  Query4 |-> Wiring(24, <<"SensorData">>, "SensorAggregationData", TRUE),
  Query5 |-> Wiring(25, <<"SyntheticData">>, "SyntheticData", TRUE),
  Query6 |-> Wiring(26, <<"TripData">>, "TripData", TRUE)]

(* The comparisons of testNexmarkBenchmark and of the two others.           *)
NexmarkQueries ==
  [q \in DOMAIN NexmarkOneSource \cup DOMAIN NexmarkTwoSource |->
     IF q \in DOMAIN NexmarkOneSource THEN NexmarkOneSource[q] ELSE NexmarkTwoSource[q]]

QueriesOf == [
  Nexmark      |-> NexmarkQueries,
  SecureStream |-> SecureStreamQueries,
  StreamBox    |-> StreamBoxQueries]
-------------------------------------------------------------------------------
Task(in, out) == [in |-> in, out |-> out]

(* tasks.h: callbacks, from id 0; the rest of its TASK_COUNT is NULL.       *)
(* Nexmark_Query6_Join emits a Q4Join1Result (tasks.cpp:749), whose layout  *)
(* is that of the Q6JoinResult its sink and the next query read.            *)
Callbacks == <<
  Task(<<"Row">>, "FlightData"), Task(<<"FlightData">>, "FlightData"),
  Task(<<"FlightData">>, "ReducedFlightData"),
  Task(<<"Bid">>, "Bid"), Task(<<"Bid">>, "Bid"), Task(<<"Bid">>, "Q2Result"),
  Task(<<"Person">>, "Person"), Task(<<"Auction">>, "Auction"),
  Task(<<"Person", "Auction">>, "Q3JoinResult"), Task(<<"Q3JoinResult">>, "Q3Result"),
  Task(<<"Auction", "Bid">>, "Q4Join1Result"), Task(<<"Q4Join1Result">>, "Q4Map1Result"),
  Task(<<"Q4Map1Result">>, "Q4Map1Result"), Task(<<"Q4Map1Result">>, "Q4Map1Result"),
  Task(<<"Q4Map1Result">>, "Q4AverageResult"),
  Task(<<"Bid">>, "Q5CountByAuctionResult"),
  Task(<<"Q5CountByAuctionResult">>, "Q5CountByAuctionResult"),
  Task(<<"Auction", "Bid">>, "Q6JoinResult"), Task(<<"Q6JoinResult">>, "Q6JoinResult"),
  Task(<<"Q6JoinResult">>, "Q6MaxResult"), Task(<<"Q6MaxResult">>, "Q6AverageResult"),
  Task(<<"SyntheticData">>, "SyntheticData"), Task(<<"TripData">>, "CountTripData"),
  Task(<<"SyntheticData", "SyntheticData">>, "SyntheticJoinData"),
  Task(<<"SensorData">>, "SensorAggregationData"),
  Task(<<"SyntheticData">>, "SyntheticData"), Task(<<"TripData">>, "TripData") >>

HasCallback(task) == task + 1 \in DOMAIN Callbacks

(* Mutation: the fourth callback is taken out and those after it move up.   *)
CallbackMovedUp(task) == Callbacks[IF task \in 3 .. 25 THEN task + 2 ELSE task + 1]

Callback(task) == Callbacks[task + 1]
===============================================================================
