--------------------------- MODULE ApplicationProofs --------------------------
(***************************************************************************)
(* Proofs about Application.tla, for any number of calls, runs and rows: a  *)
(* call that runs anything is one the usage text gives, every run is wired  *)
(* to the task of its query and finds nothing of the runs before it.        *)
(***************************************************************************)
EXTENDS Application, SequenceTheorems, TLAPS

(* The benchmarks.                                                          *)
LEMMA Benchmarks ==
  /\ DOMAIN QueriesOf = {"Nexmark", "SecureStream", "StreamBox"}
  /\ QueriesOf["Nexmark"] = NexmarkQueries
  /\ QueriesOf["SecureStream"] = SecureStreamQueries
  /\ QueriesOf["StreamBox"] = StreamBoxQueries
BY DEF QueriesOf

(* A query of Nexmark is wired in one of its two tables.                    *)
LEMMA NexmarkTables ==
  ASSUME NEW q \in DOMAIN NexmarkQueries
  PROVE  \/ q \in DOMAIN NexmarkOneSource /\ NexmarkQueries[q] = NexmarkOneSource[q]
         \/ q \in DOMAIN NexmarkTwoSource /\ NexmarkQueries[q] = NexmarkTwoSource[q]
BY DEF NexmarkQueries

(* The tables of one source and of two.                                     *)
LEMMA NexmarkOne ==
  ASSUME NEW q \in DOMAIN NexmarkOneSource
  PROVE  Len(NexmarkOneSource[q].in) = 1
BY DEF NexmarkOneSource, Wiring

(* Whatever Nexmark wires to two sources main knows to need two.            *)
LEMMA NexmarkTwo == DOMAIN NexmarkTwoSource \subseteq TwoSourceNames
BY DEF NexmarkTwoSource, TwoSourceNames

(* SecureStream has no query of two sources.                                *)
LEMMA SecureStreamOne ==
  ASSUME NEW q \in DOMAIN SecureStreamQueries
  PROVE  Len(SecureStreamQueries[q].in) = 1
BY DEF SecureStreamQueries, Wiring

(* StreamBox has one, Query3.                                               *)
LEMMA StreamBoxOne ==
  ASSUME NEW q \in DOMAIN StreamBoxQueries, q # "Query3"
  PROVE  Len(StreamBoxQueries[q].in) = 1
BY DEF StreamBoxQueries, Wiring
-------------------------------------------------------------------------------
(* What it is for a query to be wired to its task.                          *)
Wired(w) == HasCallback(w.task) /\ Callback(w.task) = Task(w.in, w.out)

(* The table of callbacks has the ids up to 26.                             *)
LEMMA CallbackCount == \A task \in 0 .. 26 : HasCallback(task)
<1>1. DOMAIN Callbacks = 1 .. 27
  BY DEF Callbacks
<1> QED
  BY <1>1 DEF HasCallback

(* Each query of a table is wired to its task, row by row.                  *)
LEMMA NexmarkOneWired ==
  ASSUME NEW q \in DOMAIN NexmarkOneSource, <<"Nexmark", q>> \notin WithoutTask
  PROVE  Wired(NexmarkOneSource[q])
<1>1. CASE q = "Query1"
  <2>1. NexmarkOneSource[q] = Wiring(3, <<"Bid">>, "Bid", TRUE)
    BY <1>1 DEF NexmarkOneSource
  <2>2. Callback(3) = Task(<<"Bid">>, "Bid")
    BY DEF Callback, Callbacks
  <2> QED
    BY <2>1, <2>2, CallbackCount DEF Wired, Wiring
<1>2. CASE q = "Query2_Filter"
  <2>1. NexmarkOneSource[q] = Wiring(4, <<"Bid">>, "Bid", TRUE)
    BY <1>2 DEF NexmarkOneSource
  <2>2. Callback(4) = Task(<<"Bid">>, "Bid")
    BY DEF Callback, Callbacks
  <2> QED
    BY <2>1, <2>2, CallbackCount DEF Wired, Wiring
<1>3. CASE q = "Query2_Map"
  <2>1. NexmarkOneSource[q] = Wiring(5, <<"Bid">>, "Q2Result", TRUE)
    BY <1>3 DEF NexmarkOneSource
  <2>2. Callback(5) = Task(<<"Bid">>, "Q2Result")
    BY DEF Callback, Callbacks
  <2> QED
    BY <2>1, <2>2, CallbackCount DEF Wired, Wiring
<1>4. CASE q = "Query3_FilterPerson"
  <2>1. NexmarkOneSource[q] = Wiring(6, <<"Person">>, "Person", TRUE)
    BY <1>4 DEF NexmarkOneSource
  <2>2. Callback(6) = Task(<<"Person">>, "Person")
    BY DEF Callback, Callbacks
  <2> QED
    BY <2>1, <2>2, CallbackCount DEF Wired, Wiring
<1>5. CASE q = "Query3_FilterAuction"
  <2>1. NexmarkOneSource[q] = Wiring(7, <<"Auction">>, "Auction", TRUE)
    BY <1>5 DEF NexmarkOneSource
  <2>2. Callback(7) = Task(<<"Auction">>, "Auction")
    BY DEF Callback, Callbacks
  <2> QED
    BY <2>1, <2>2, CallbackCount DEF Wired, Wiring
<1>6. CASE q = "Query3_MapJoinResult"
  <2>1. NexmarkOneSource[q] = Wiring(9, <<"Q3JoinResult">>, "Q3Result", TRUE)
    BY <1>6 DEF NexmarkOneSource
  <2>2. Callback(9) = Task(<<"Q3JoinResult">>, "Q3Result")
    BY DEF Callback, Callbacks
  <2> QED
    BY <2>1, <2>2, CallbackCount DEF Wired, Wiring
<1>7. CASE q = "Query4_MapAuctionBid"
  <2>1. NexmarkOneSource[q] = Wiring(11, <<"Q4Join1Result">>, "Q4Map1Result", TRUE)
    BY <1>7 DEF NexmarkOneSource
  <2>2. Callback(11) = Task(<<"Q4Join1Result">>, "Q4Map1Result")
    BY DEF Callback, Callbacks
  <2> QED
    BY <2>1, <2>2, CallbackCount DEF Wired, Wiring
<1>8. CASE q = "Query4_Max"
  <2>1. NexmarkOneSource[q] = Wiring(12, <<"Q4Map1Result">>, "Q4Map1Result", TRUE)
    BY <1>8 DEF NexmarkOneSource
  <2>2. Callback(12) = Task(<<"Q4Map1Result">>, "Q4Map1Result")
    BY DEF Callback, Callbacks
  <2> QED
    BY <2>1, <2>2, CallbackCount DEF Wired, Wiring
<1>9. CASE q = "Query4_JoinCategory"
  <2>1. NexmarkOneSource[q] = Wiring(13, <<"Q4Map1Result">>, "Q4Map1Result", TRUE)
    BY <1>9 DEF NexmarkOneSource
  <2>2. Callback(13) = Task(<<"Q4Map1Result">>, "Q4Map1Result")
    BY DEF Callback, Callbacks
  <2> QED
    BY <2>1, <2>2, CallbackCount DEF Wired, Wiring
<1>10. CASE q = "Query4_Average"
  <2>1. NexmarkOneSource[q] = Wiring(14, <<"Q4Map1Result">>, "Q4AverageResult", TRUE)
    BY <1>10 DEF NexmarkOneSource
  <2>2. Callback(14) = Task(<<"Q4Map1Result">>, "Q4AverageResult")
    BY DEF Callback, Callbacks
  <2> QED
    BY <2>1, <2>2, CallbackCount DEF Wired, Wiring
<1>11. CASE q = "Query5_CountByAuction"
  <2>1. NexmarkOneSource[q] = Wiring(15, <<"Bid">>, "Q5CountByAuctionResult", TRUE)
    BY <1>11 DEF NexmarkOneSource
  <2>2. Callback(15) = Task(<<"Bid">>, "Q5CountByAuctionResult")
    BY DEF Callback, Callbacks
  <2> QED
    BY <2>1, <2>2, CallbackCount DEF Wired, Wiring
<1>12. CASE q = "Query5_MaxBatch"
  <2>1. NexmarkOneSource[q] = Wiring(16, <<"Q5CountByAuctionResult">>, "Q5CountByAuctionResult", TRUE)
    BY <1>12 DEF NexmarkOneSource
  <2>2. Callback(16) = Task(<<"Q5CountByAuctionResult">>, "Q5CountByAuctionResult")
    BY DEF Callback, Callbacks
  <2> QED
    BY <2>1, <2>2, CallbackCount DEF Wired, Wiring
<1>13. CASE q = "Query6_Filter"
  <2>1. NexmarkOneSource[q] = Wiring(18, <<"Q6JoinResult">>, "Q6JoinResult", TRUE)
    BY <1>13 DEF NexmarkOneSource
  <2>2. Callback(18) = Task(<<"Q6JoinResult">>, "Q6JoinResult")
    BY DEF Callback, Callbacks
  <2> QED
    BY <2>1, <2>2, CallbackCount DEF Wired, Wiring
<1>14. CASE q = "Query6_Max"
  <2>1. NexmarkOneSource[q] = Wiring(19, <<"Q6JoinResult">>, "Q6MaxResult", TRUE)
    BY <1>14 DEF NexmarkOneSource
  <2>2. Callback(19) = Task(<<"Q6JoinResult">>, "Q6MaxResult")
    BY DEF Callback, Callbacks
  <2> QED
    BY <2>1, <2>2, CallbackCount DEF Wired, Wiring
<1>15. CASE q = "Query6_Avg"
  <2>1. NexmarkOneSource[q] = Wiring(20, <<"Q6MaxResult">>, "Q6AverageResult", TRUE)
    BY <1>15 DEF NexmarkOneSource
  <2>2. Callback(20) = Task(<<"Q6MaxResult">>, "Q6AverageResult")
    BY DEF Callback, Callbacks
  <2> QED
    BY <2>1, <2>2, CallbackCount DEF Wired, Wiring
<1>16. q \notin {"Query7_MaxJoin", "Query8_MapJoinResult"}
  BY DEF WithoutTask
<1>17. q \in {"Query1", "Query2_Filter", "Query2_Map", "Query3_FilterPerson",
              "Query3_FilterAuction", "Query3_MapJoinResult", "Query4_MapAuctionBid",
              "Query4_Max", "Query4_JoinCategory", "Query4_Average",
              "Query5_CountByAuction", "Query5_MaxBatch", "Query6_Filter",
              "Query6_Max", "Query6_Avg", "Query7_MaxJoin", "Query8_MapJoinResult"}
  BY DEF NexmarkOneSource
<1> QED
  BY <1>1, <1>2, <1>3, <1>4, <1>5, <1>6, <1>7, <1>8, <1>9, <1>10, <1>11,
     <1>12, <1>13, <1>14, <1>15, <1>16, <1>17

(* Those of Nexmark with two sources.                                       *)
LEMMA NexmarkTwoWired ==
  ASSUME NEW q \in DOMAIN NexmarkTwoSource, <<"Nexmark", q>> \notin WithoutTask
  PROVE  Wired(NexmarkTwoSource[q])
<1>1. CASE q = "Query3_JoinPersonAuction"
  <2>1. NexmarkTwoSource[q] = Wiring(8, <<"Person", "Auction">>, "Q3JoinResult", TRUE)
    BY <1>1 DEF NexmarkTwoSource, runQuery3_JoinPersonAuction
  <2>2. Callback(8) = Task(<<"Person", "Auction">>, "Q3JoinResult")
    BY DEF Callback, Callbacks
  <2> QED
    BY <2>1, <2>2, CallbackCount DEF Wired, Wiring
<1>2. CASE q = "Query4_JoinAuctionBid"
  <2>1. NexmarkTwoSource[q] = Wiring(10, <<"Auction", "Bid">>, "Q4Join1Result", TRUE)
    BY <1>2 DEF NexmarkTwoSource, runQuery4_JoinAuctionBid
  <2>2. Callback(10) = Task(<<"Auction", "Bid">>, "Q4Join1Result")
    BY DEF Callback, Callbacks
  <2> QED
    BY <2>1, <2>2, CallbackCount DEF Wired, Wiring
<1>3. CASE q = "Query6_JoinAuctionBid"
  <2>1. NexmarkTwoSource[q] = Wiring(17, <<"Auction", "Bid">>, "Q6JoinResult", TRUE)
    BY <1>3 DEF NexmarkTwoSource, runQuery6_JoinAuctionBid
  <2>2. Callback(17) = Task(<<"Auction", "Bid">>, "Q6JoinResult")
    BY DEF Callback, Callbacks
  <2> QED
    BY <2>1, <2>2, CallbackCount DEF Wired, Wiring
<1>4. q \notin {"Query8_JoinPersonAuction"}
  BY DEF WithoutTask
<1>5. q \in {"Query3_JoinPersonAuction", "Query4_JoinAuctionBid",
             "Query6_JoinAuctionBid", "Query8_JoinPersonAuction"}
  BY DEF NexmarkTwoSource
<1> QED
  BY <1>1, <1>2, <1>3, <1>4, <1>5

(* Those of SecureStream.                                                   *)
LEMMA SecureStreamWired ==
  ASSUME NEW q \in DOMAIN SecureStreamQueries
  PROVE  Wired(SecureStreamQueries[q])
<1>1. CASE q = "MapQuery"
  <2>1. SecureStreamQueries[q] = Wiring(0, <<"Row">>, "FlightData", TRUE)
    BY <1>1 DEF SecureStreamQueries
  <2>2. Callback(0) = Task(<<"Row">>, "FlightData")
    BY DEF Callback, Callbacks
  <2> QED
    BY <2>1, <2>2, CallbackCount DEF Wired, Wiring
<1>2. CASE q = "FilterQuery"
  <2>1. SecureStreamQueries[q] = Wiring(1, <<"FlightData">>, "FlightData", FALSE)
    BY <1>2 DEF SecureStreamQueries
  <2>2. Callback(1) = Task(<<"FlightData">>, "FlightData")
    BY DEF Callback, Callbacks
  <2> QED
    BY <2>1, <2>2, CallbackCount DEF Wired, Wiring
<1>3. CASE q = "ReduceQuery"
  <2>1. SecureStreamQueries[q] = Wiring(2, <<"FlightData">>, "ReducedFlightData", TRUE)
    BY <1>3 DEF SecureStreamQueries
  <2>2. Callback(2) = Task(<<"FlightData">>, "ReducedFlightData")
    BY DEF Callback, Callbacks
  <2> QED
    BY <2>1, <2>2, CallbackCount DEF Wired, Wiring
<1>4. q \in {"MapQuery", "FilterQuery", "ReduceQuery"}
  BY DEF SecureStreamQueries
<1> QED
  BY <1>1, <1>2, <1>3, <1>4

(* Those of StreamBox.                                                      *)
LEMMA StreamBoxWired ==
  ASSUME NEW q \in DOMAIN StreamBoxQueries
  PROVE  Wired(StreamBoxQueries[q])
<1>1. CASE q = "Query1"
  <2>1. StreamBoxQueries[q] = Wiring(21, <<"SyntheticData">>, "SyntheticData", TRUE)
    BY <1>1 DEF StreamBoxQueries
  <2>2. Callback(21) = Task(<<"SyntheticData">>, "SyntheticData")
    BY DEF Callback, Callbacks
  <2> QED
    BY <2>1, <2>2, CallbackCount DEF Wired, Wiring
<1>2. CASE q = "Query2"
  <2>1. StreamBoxQueries[q] = Wiring(22, <<"TripData">>, "CountTripData", TRUE)
    BY <1>2 DEF StreamBoxQueries
  <2>2. Callback(22) = Task(<<"TripData">>, "CountTripData")
    BY DEF Callback, Callbacks
  <2> QED
    BY <2>1, <2>2, CallbackCount DEF Wired, Wiring
<1>3. CASE q = "Query3"
  <2>1. StreamBoxQueries[q] = Wiring(23, <<"SyntheticData", "SyntheticData">>, "SyntheticJoinData", TRUE)
    BY <1>3 DEF StreamBoxQueries
  <2>2. Callback(23) = Task(<<"SyntheticData", "SyntheticData">>, "SyntheticJoinData")
    BY DEF Callback, Callbacks
  <2> QED
    BY <2>1, <2>2, CallbackCount DEF Wired, Wiring
<1>4. CASE q = "Query4"
  <2>1. StreamBoxQueries[q] = Wiring(24, <<"SensorData">>, "SensorAggregationData", TRUE)
    BY <1>4 DEF StreamBoxQueries
  <2>2. Callback(24) = Task(<<"SensorData">>, "SensorAggregationData")
    BY DEF Callback, Callbacks
  <2> QED
    BY <2>1, <2>2, CallbackCount DEF Wired, Wiring
<1>5. CASE q = "Query5"
  <2>1. StreamBoxQueries[q] = Wiring(25, <<"SyntheticData">>, "SyntheticData", TRUE)
    BY <1>5 DEF StreamBoxQueries
  <2>2. Callback(25) = Task(<<"SyntheticData">>, "SyntheticData")
    BY DEF Callback, Callbacks
  <2> QED
    BY <2>1, <2>2, CallbackCount DEF Wired, Wiring
<1>6. CASE q = "Query6"
  <2>1. StreamBoxQueries[q] = Wiring(26, <<"TripData">>, "TripData", TRUE)
    BY <1>6 DEF StreamBoxQueries
  <2>2. Callback(26) = Task(<<"TripData">>, "TripData")
    BY DEF Callback, Callbacks
  <2> QED
    BY <2>1, <2>2, CallbackCount DEF Wired, Wiring
<1>7. q \in {"Query1", "Query2", "Query3", "Query4", "Query5", "Query6"}
  BY DEF StreamBoxQueries
<1> QED
  BY <1>1, <1>2, <1>3, <1>4, <1>5, <1>6, <1>7

(* A query that is known needs two sources only if main knows it to, and is *)
(* wired to its task if it has one.                                         *)
LEMMA KnownQuery ==
  ASSUME NEW n, Known(n)
  PROVE  /\ n[2] \notin TwoSourceNames => Sources(n) = 1
         /\ <<n[1], n[2]>> \notin WithoutTask => Wired(Query(n))
<1>1. n[1] \in {"Nexmark", "SecureStream", "StreamBox"} /\ n[2] \in DOMAIN QueriesOf[n[1]]
  BY Benchmarks DEF Known
<1>2. CASE n[1] = "Nexmark"
  <2>1. n[2] \in DOMAIN NexmarkQueries /\ Query(n) = NexmarkQueries[n[2]]
    BY <1>1, <1>2, Benchmarks DEF Query
  <2>2. CASE n[2] \in DOMAIN NexmarkOneSource /\ NexmarkQueries[n[2]] = NexmarkOneSource[n[2]]
    BY <1>2, <2>1, <2>2, NexmarkOne, NexmarkOneWired DEF Sources
  <2>3. CASE n[2] \in DOMAIN NexmarkTwoSource /\ NexmarkQueries[n[2]] = NexmarkTwoSource[n[2]]
    BY <1>2, <2>1, <2>3, NexmarkTwo, NexmarkTwoWired
  <2> QED
    BY <2>1, <2>2, <2>3, NexmarkTables
<1>3. CASE n[1] = "SecureStream"
  <2>1. n[2] \in DOMAIN SecureStreamQueries /\ Query(n) = SecureStreamQueries[n[2]]
    BY <1>1, <1>3, Benchmarks DEF Query
  <2> QED
    BY <2>1, SecureStreamOne, SecureStreamWired DEF Sources
<1>4. CASE n[1] = "StreamBox"
  <2>1. n[2] \in DOMAIN StreamBoxQueries /\ Query(n) = StreamBoxQueries[n[2]]
    BY <1>1, <1>4, Benchmarks DEF Query
  <2>2. n[2] \notin TwoSourceNames => n[2] # "Query3"
    BY DEF TwoSourceNames
  <2> QED
    BY <2>1, <2>2, StreamBoxOne, StreamBoxWired DEF Sources
<1> QED
  BY <1>1, <1>2, <1>3, <1>4
-------------------------------------------------------------------------------
(* Before the first call.                                                   *)
LEMMA InitIInv == Init => IInv
BY ApplicationAssumption DEF Init, IInv, TypeOK, Accepted, OfTheRun, FilesKept, Running, Closed

(* Back at the shell nothing is left but the files.                         *)
LEMMA LeaveIInv ==
  ASSUME IInv, Leave, files' = files, calls' \in {calls, calls + 1}
  PROVE  IInv'
<1>1. pc' = "shell" /\ i' = 0 /\ heap' = {} /\ stream' = <<>> /\ engine' = <<>> /\ times' = <<>>
  BY DEF Leave, Closed
<1>2. TypeOK'
  BY <1>1, ApplicationAssumption DEF IInv, TypeOK
<1>3. Accepted'
  BY <1>1 DEF Accepted, Running
<1>4. OfTheRun'
  BY <1>1 DEF OfTheRun, Closed
<1>5. FilesKept'
  <2>1. \A f \in files : f.by[1] \in Nat /\ f.by[1] <= calls /\ f.key[2] = f.by[2]
    BY DEF IInv, TypeOK, FilesKept
  <2>2. calls \in Nat
    BY DEF IInv, TypeOK
  <2>3. \A f \in files : f.by[1] <= calls'
    BY <2>1, <2>2
  <2> QED
    BY <1>1, <2>1, <2>3 DEF FilesKept
<1> QED
  BY <1>2, <1>3, <1>4, <1>5 DEF IInv

(* What words before others become: they keep their places.                 *)
LEMMA WordsBehind ==
  ASSUME NEW S, NEW form \in Seq(S), NEW more \in Further, calls \in Nat
  PROVE  /\ Len(form \o more) = Len(form) + Len(more) /\ Len(more) \in Nat
         /\ \A k \in 1 .. Len(form) : (form \o more)[k] = form[k]
         /\ Len(more) = 0 => form \o more = form
<1>1. PICK m \in 0 .. MaxFurther - calls : more \in [1 .. m -> {Number(1)}]
  BY DEF Further
<1>2. m \in Nat
  BY <1>1, ApplicationAssumption
<1>3. more \in Seq({Number(1)}) /\ Len(more) = m
  BY <1>1, <1>2
<1> QED
  BY <1>2, <1>3

(* What the words of a call are.                                            *)
LEMMA CallWords ==
  ASSUME NEW q, NEW form \in Forms(q)
  PROVE  \/ \E f, n : \E more \in Further : form = OneSourceForm(Path(f), Number(n)) \o more
         \/ \E f, g, n : \E more \in Further : form = TwoSourceForm(Path(f), Path(g), Number(n)) \o more
         \/ \E f : form = <<Path(f), Path(f), Measurements, Results>>
         \/ \E f : form = <<Path(f), Measurements, Results>>
<1> DEFINE in == IF Known(q) THEN Query(q).in ELSE <<"Bid">>
           First == {Path(f) : f \in Readable(in[1])}
           Second == IF Len(in) = 2 THEN {Path(f) : f \in Readable(in[2])} ELSE {Path(Missing)}
           Runs == {Number(n) : n \in calls - 1 .. MaxRuns - calls}
<1>1. form \in Given(First, Second, Runs)
  BY DEF Forms
<1>2. \A s \in First : \E f : s = Path(f)
  OBVIOUS
<1>3. \A s \in Second : \E f : s = Path(f)
  OBVIOUS
<1>4. \A n \in Runs : \E m : n = Number(m)
  OBVIOUS
<1> HIDE DEF in, First, Second, Runs
<1>5. ASSUME NEW listed \in Listed(First, Second, Runs)
      PROVE  \/ \E f, n : listed = OneSourceForm(Path(f), Number(n))
             \/ \E f, g, n : listed = TwoSourceForm(Path(f), Path(g), Number(n))
  <2>1. CASE listed \in {OneSourceForm(s, n) : s \in First, n \in Runs}
    BY <1>2, <1>4, <2>1
  <2>2. CASE listed \in {TwoSourceForm(s, t, n) : s \in First, t \in Second, n \in Runs}
    BY <1>2, <1>3, <1>4, <2>2
  <2> QED
    BY <2>1, <2>2 DEF Listed
<1>6. \/ \E listed \in Listed(First, Second, Runs), more \in Further : form = listed \o more
      \/ \E s \in First : form = <<s, s, Measurements, Results>>
      \/ \E s \in First : form = <<s, Measurements, Results>>
  BY <1>1 DEF Given
<1>7. CASE \E listed \in Listed(First, Second, Runs), more \in Further : form = listed \o more
  <2>1. PICK listed \in Listed(First, Second, Runs), more \in Further : form = listed \o more
    BY <1>7
  <2> QED
    BY <1>5, <2>1
<1>8. CASE \E s \in First : form = <<s, s, Measurements, Results>>
  BY <1>2, <1>8
<1>9. CASE \E s \in First : form = <<s, Measurements, Results>>
  BY <1>2, <1>9
<1> QED
  BY <1>6, <1>7, <1>8, <1>9

(* What a call that is accepted has taken from its words.                   *)
LEMMA CallForms ==
  ASSUME calls \in Nat, NEW q, NEW form \in Forms(q), Accepts(q, form),
         NEW a, a = CommandLineArgument(q, form),
         IsDirectory(a.measurements), IsDirectory(a.results)
  PROVE  /\ a.measurements = Measurements /\ a.results = Results
         /\ \/ /\ Len(form) = 4 /\ form = OneSourceForm(a.source, form[4])
               /\ a.runs = Uint32(form[4]) /\ q[2] \notin TwoSourceNames
            \/ /\ Len(form) >= 5
               /\ \A k \in 1 .. 5 : form[k] = TwoSourceForm(a.source, a.source2, form[5])[k]
               /\ a.runs = Uint32(form[5])
<1>1. ASSUME NEW f, NEW n, NEW more \in Further, form = OneSourceForm(Path(f), Number(n)) \o more
      PROVE  /\ a.measurements = Measurements /\ a.results = Results
             /\ Len(form) = 4 /\ form = OneSourceForm(a.source, form[4])
             /\ a.runs = Uint32(form[4]) /\ q[2] \notin TwoSourceNames
  <2> DEFINE one == OneSourceForm(Path(f), Number(n))
  <2>1. one = <<Path(f), Measurements, Results, Number(n)>>
    BY DEF OneSourceForm
  <2>2. /\ one \in Seq({Path(f), Measurements, Results, Number(n)})
        /\ Len(one) = 4 /\ one[4] = Number(n)
    BY <2>1
  <2> HIDE DEF one
  <2>3. /\ Len(form) = 4 + Len(more) /\ Len(more) \in Nat
        /\ form[4] = Number(n)
        /\ Len(more) = 0 => form = one
    <3>1. form = one \o more
      BY <1>1 DEF one
    <3>2. /\ Len(one \o more) = Len(one) + Len(more) /\ Len(more) \in Nat
          /\ \A k \in 1 .. Len(one) : (one \o more)[k] = one[k]
          /\ Len(more) = 0 => one \o more = one
      BY <2>2, WordsBehind
    <3> QED
      BY <2>2, <3>1, <3>2
  <2>4. CASE Len(more) = 0
    <3>1. form = <<Path(f), Measurements, Results, Number(n)>>
      BY <2>1, <2>3, <2>4
    <3>2. ~(Len(form) + 4 >= 9)
      BY <2>3, <2>4
    <3>3. /\ a.source = Path(f) /\ a.measurements = Measurements /\ a.results = Results
          /\ a.runs = Uint32(form[4])
      BY <3>1, <3>2 DEF CommandLineArgument
    <3>4. q[2] \notin TwoSourceNames
      BY <3>2 DEF Accepts
    <3> QED
      BY <3>1, <3>3, <3>4 DEF OneSourceForm
  <2>5. CASE Len(more) > 0
    <3>1. Len(form) + 4 >= 9
      BY <2>3, <2>5
    <3>2. a.results = Number(n)
      BY <3>1, <2>3 DEF CommandLineArgument
    <3> QED
      BY <3>2 DEF IsDirectory, Number, Measurements, Results
  <2> QED
    BY <2>3, <2>4, <2>5
<1>2. ASSUME NEW f, NEW g, NEW n, NEW more \in Further,
             form = TwoSourceForm(Path(f), Path(g), Number(n)) \o more
      PROVE  /\ a.measurements = Measurements /\ a.results = Results
             /\ Len(form) >= 5
             /\ \A k \in 1 .. 5 : form[k] = TwoSourceForm(a.source, a.source2, form[5])[k]
             /\ a.runs = Uint32(form[5])
  <2> DEFINE two == TwoSourceForm(Path(f), Path(g), Number(n))
  <2>1. two = <<Path(f), Path(g), Measurements, Results, Number(n)>>
    BY DEF TwoSourceForm
  <2>2. /\ two \in Seq({Path(f), Path(g), Measurements, Results, Number(n)})
        /\ Len(two) = 5
    BY <2>1
  <2> HIDE DEF two
  <2>3. /\ Len(form) \in Nat /\ Len(form) >= 5
        /\ \A k \in 1 .. 5 : form[k] = two[k]
    <3>1. form = two \o more
      BY <1>2 DEF two
    <3>2. /\ Len(two \o more) = Len(two) + Len(more) /\ Len(more) \in Nat
          /\ \A k \in 1 .. Len(two) : (two \o more)[k] = two[k]
      BY <2>2, WordsBehind
    <3> QED
      BY <2>2, <3>1, <3>2
  <2>4. /\ form[1] = Path(f) /\ form[2] = Path(g)
        /\ form[3] = Measurements /\ form[4] = Results /\ form[5] = Number(n)
    BY <2>1, <2>3
  <2>5. Len(form) + 4 >= 9
    BY <2>3
  <2>6. /\ a.source = Path(f) /\ a.source2 = Path(g)
        /\ a.measurements = Measurements /\ a.results = Results
        /\ a.runs = Uint32(form[5])
    BY <2>4, <2>5 DEF CommandLineArgument
  <2>7. TwoSourceForm(a.source, a.source2, form[5]) = two
    BY <2>4, <2>6 DEF two
  <2> QED
    BY <2>3, <2>6, <2>7
<1>3. ASSUME NEW f, form = <<Path(f), Path(f), Measurements, Results>>
      PROVE  FALSE
  <2>1. a.measurements = Path(f)
    BY <1>3 DEF CommandLineArgument
  <2> QED
    BY <2>1 DEF IsDirectory, Path, Measurements, Results
<1>4. ASSUME NEW f, form = <<Path(f), Measurements, Results>>
      PROVE  FALSE
  BY <1>4 DEF Accepts
<1> QED
  BY <1>1, <1>2, <1>3, <1>4, CallWords

(* A call: one that is accepted goes on with nothing but its words.         *)
LEMMA CallIInv ==
  ASSUME IInv, NEW q \in Name, NEW form \in Forms(q), Call(q, form)
  PROVE  IInv'
<1>1. pc = "shell" /\ calls' = calls + 1 /\ files' = files
  BY DEF Call
<1>2. CASE Leave
  BY <1>1, <1>2, LeaveIInv
<1>3. CASE ~ Leave
  <2>1. /\ Accepts(q, form) /\ arg' = CommandLineArgument(q, form) /\ argv' = form
        /\ pc' = "directories"
        /\ UNCHANGED <<i, engine, stream, times, heap, skipped>>
    BY <1>3 DEF Call
  <2>q. arg'.query = q
    BY <2>1 DEF CommandLineArgument
  <2>2. TypeOK'
    BY <1>1, <2>1, <2>q DEF IInv, TypeOK
  <2>3. Accepted'
    <3>1. arg'.query = q
      BY <2>q
    <3>2. ASSUME IsDirectory(arg'.measurements), IsDirectory(arg'.results)
          PROVE  InUsageForm'
      <4>1. calls \in Nat
        BY DEF IInv, TypeOK
      <4>2. /\ arg'.measurements = Measurements /\ arg'.results = Results
            /\ \/ /\ Len(form) = 4 /\ form = OneSourceForm(arg'.source, form[4])
                  /\ arg'.runs = Uint32(form[4]) /\ q[2] \notin TwoSourceNames
               \/ /\ Len(form) >= 5
                  /\ \A k \in 1 .. 5 :
                       form[k] = TwoSourceForm(arg'.source, arg'.source2, form[5])[k]
                  /\ arg'.runs = Uint32(form[5])
        BY <2>1, <3>2, <4>1, CallForms
      <4> QED
        BY <2>1, <3>1, <4>2 DEF InUsageForm, GaveOneSource, GaveTwoSources
    <3> QED
      BY <2>1, <3>2 DEF Accepted, Running
  <2>4. OfTheRun'
    <3>1. stream = Closed /\ engine = <<>> /\ times = <<>> /\ heap = {}
      BY <1>1 DEF IInv, OfTheRun
    <3> QED
      BY <2>1, <3>1 DEF OfTheRun, Closed
  <2>5. FilesKept'
    <3>1. \A f \in files : f.by[1] \in Nat /\ f.by[1] <= calls /\ f.key[2] = f.by[2]
      BY DEF IInv, TypeOK, FilesKept
    <3>2. calls \in Nat
      BY DEF IInv, TypeOK
    <3>3. \A f \in files : f.by[1] <= calls + 1 /\ f.by[1] # calls + 1
      BY <3>1, <3>2
    <3> QED
      BY <1>1, <3>1, <3>3 DEF FilesKept
  <2> QED
    BY <2>2, <2>3, <2>4, <2>5 DEF IInv
<1> QED
  BY <1>2, <1>3

(* With the words of the call, what they say of it stays.                   *)
LEMMA SameCall ==
  ASSUME arg' = arg, argv' = argv
  PROVE  /\ OneSource' <=> OneSource
         /\ InUsageForm' <=> InUsageForm
         /\ Known(arg.query)' <=> Known(arg.query)
         /\ Leaked' = Leaked /\ Cleaned' = Cleaned
BY DEF OneSource, InUsageForm, GaveOneSource, GaveTwoSources, Leaked, Cleaned

(* A call goes on to its runs only with both directories at their places.   *)
LEMMA CheckDirectoriesIInv ==
  ASSUME IInv, NEW made \in BOOLEAN, CheckDirectories(made)
  PROVE  IInv'
<1>1. pc = "directories" /\ calls' = calls /\ files' = files
  BY DEF CheckDirectories
<1>2. CASE Leave
  BY <1>1, <1>2, LeaveIInv
<1>3. CASE ~ Leave
  <2>1. /\ IsDirectory(arg.measurements) /\ IsDirectory(arg.results)
        /\ pc' = "loop" /\ i' = 1 % RunMod
        /\ UNCHANGED <<argv, arg, engine, stream, times, heap, skipped>>
    BY <1>3 DEF CheckDirectories
  <2>2. TypeOK'
    <3>1. i' \in 0 .. RunMod - 1
      BY <2>1, ApplicationAssumption
    <3> QED
      BY <1>1, <2>1, <3>1 DEF IInv, TypeOK
  <2>3. Accepted'
    <3>1. InUsageForm'
      BY <1>1, <2>1, SameCall DEF IInv, Accepted
    <3> QED
      BY <2>1, <3>1 DEF Accepted, Running
  <2>4. OfTheRun'
    <3>1. stream = Closed /\ engine = <<>> /\ times = <<>> /\ heap = {}
      BY <1>1 DEF IInv, OfTheRun
    <3> QED
      BY <2>1, <3>1 DEF OfTheRun, Closed
  <2>5. FilesKept'
    BY <1>1, <2>1 DEF IInv, FilesKept
  <2> QED
    BY <2>2, <2>3, <2>4, <2>5 DEF IInv
<1> QED
  BY <1>2, <1>3

(* The number of the next run is one.                                       *)
LEMMA FollowingType == i \in 0 .. RunMod - 1 => Following \in 0 .. RunMod - 1
BY ApplicationAssumption DEF Following

(* The loop goes on with what was left before.                              *)
LEMMA LoopIInv ==
  ASSUME IInv, pc \in {"loop", "open"}, pc' \in {"loop", "open"}, i' \in {i, Following},
         UNCHANGED <<calls, files, argv, arg, engine, stream, times, heap>>,
         pc' = "open" => Known(arg.query) /\ i' <= arg.runs[2]
  PROVE  IInv'
<1>1. i \in 0 .. RunMod - 1 /\ i' \in 0 .. RunMod - 1
  BY FollowingType DEF IInv, TypeOK
<1>2. TypeOK'
  BY <1>1 DEF IInv, TypeOK
<1>3. Accepted'
  <2>1. InUsageForm'
    BY SameCall DEF IInv, Accepted
  <2> QED
    BY <2>1, SameCall DEF Accepted, Running
<1>4. OfTheRun'
  <2>1. stream = Closed /\ engine = <<>> /\ times = <<>> /\ \A a \in heap : a[1] \in Leaked
    BY DEF IInv, OfTheRun
  <2> QED
    BY <2>1, SameCall DEF OfTheRun
<1>5. FilesKept'
  BY DEF IInv, FilesKept
<1> QED
  BY <1>2, <1>3, <1>4, <1>5 DEF IInv

(* The loop starts a run only of a query that there is.                     *)
LEMMA NextRunIInv ==
  ASSUME IInv, NextRun
  PROVE  IInv'
<1>1. pc = "loop" /\ calls' = calls /\ files' = files
  BY DEF NextRun
<1>2. CASE Leave
  BY <1>1, <1>2, LeaveIInv
<1>3. CASE ~ Leave
  <2>1. /\ i <= arg.runs[2]
        /\ IF Known(arg.query) THEN pc' = "open" /\ UNCHANGED i
           ELSE pc' = "loop" /\ i' = Following
        /\ UNCHANGED <<argv, arg, engine, stream, times, heap, skipped>>
    BY <1>3 DEF NextRun
  <2> QED
    BY <1>1, <2>1, LoopIInv
<1> QED
  BY <1>2, <1>3

(* A new file is of the run that writes it.                                 *)
LEMMA WriteFile ==
  ASSUME IInv, pc # "shell", pc' # "shell", NEW rows,
         files' = {f \in files : f.key # SinkFile} \cup {File(SinkFile, rows)},
         arg' = arg, calls' = calls
  PROVE  FilesKept' /\ (\A f \in files' : f.by \in Nat \X Nat)
<1>1. calls \in Nat /\ i \in Nat /\ \A f \in files : f.by \in Nat \X Nat
  BY DEF IInv, TypeOK
<1> DEFINE new == File(SinkFile, rows)
<1>2. new.by = <<calls, i>> /\ new.key = <<arg.query, i>>
  BY DEF File, SinkFile
<1> HIDE DEF new
<1>3. new.by \in Nat \X Nat /\ new.key[2] = new.by[2] /\ new.by[1] <= calls
      /\ new.key[1] = arg.query
  BY <1>1, <1>2
<1>4. \A f \in files' : f \in files \/ f = new
  BY DEF new
<1> QED
  BY <1>1, <1>3, <1>4 DEF IInv, FilesKept

(* The sink file is opened for the run, or the run is passed over.          *)
LEMMA OpenSinkIInv ==
  ASSUME IInv, NEW ok \in BOOLEAN, OpenSink(ok)
  PROVE  IInv'
<1>1. /\ pc = "open" /\ UNCHANGED <<calls, argv, arg, times, heap, skipped>>
      /\ stream = Closed /\ engine = <<>> /\ times = <<>> /\ \A a \in heap : a[1] \in Leaked
      /\ Known(arg.query) /\ i <= arg.runs[2] /\ InUsageForm
  BY DEF OpenSink, IInv, OfTheRun, TypeOK, Accepted, Running
<1>2. CASE ok
  <2>1. /\ engine' = Append(engine, Query(arg.query).task) /\ stream' = SinkFile
        /\ files' = {f \in files : f.key # SinkFile} \cup {File(SinkFile, 0)}
        /\ pc' = "start" /\ i' = i
    BY <1>1, <1>2 DEF OpenSink
  <2>2. FilesKept' /\ (\A f \in files' : f.by \in Nat \X Nat)
    BY <1>1, <2>1, WriteFile
  <2>3. TypeOK'
    BY <1>1, <2>1, <2>2 DEF IInv, TypeOK
  <2>4. Accepted'
    <3>1. InUsageForm'
      BY <1>1, SameCall
    <3> QED
      BY <1>1, <2>1, <3>1 DEF Accepted, Running
  <2>5. OfTheRun'
    <3>1. \A a \in heap' : a[1] \in Leaked'
      BY <1>1, SameCall
    <3>2. stream' = SinkFile'
      BY <1>1, <2>1 DEF SinkFile
    <3>3. engine' = <<Query(arg.query).task>>
      BY <1>1, <2>1
    <3> QED
      BY <1>1, <2>1, <3>1, <3>2, <3>3 DEF OfTheRun
  <2> QED
    BY <2>2, <2>3, <2>4, <2>5 DEF IInv
<1>3. CASE ~ ok
  <2>1. pc' = "loop" /\ i' = Following /\ engine' = engine /\ stream' = stream /\ files' = files
    BY <1>1, <1>3 DEF OpenSink, EngineGoes
  <2> QED
    BY <1>1, <2>1, LoopIInv
<1> QED
  BY <1>2, <1>3

(* What a run leaves is leaked or cleaned.                                  *)
LEMMA AllocatedKinds ==
  ASSUME NEW up, NEW lost
  PROVE  Allocated(up, lost) \subseteq Cleaned \cup Leaked /\ Allocated(up, lost) \subseteq Kind
BY DEF Allocated, Cleaned, Leaked, Kind

(* The engine leaves the file, the times and what it allocates of this run. *)
LEMMA StartEngineIInv ==
  ASSUME IInv, NEW up \in BOOLEAN, NEW rows \in 0 .. MaxRows, NEW lost \in BOOLEAN,
         StartEngine(up, rows, lost)
  PROVE  IInv'
<1>1. /\ pc = "start" /\ pc' = "report" /\ UNCHANGED <<calls, argv, arg, i, engine>>
      /\ stream = SinkFile /\ engine = <<Query(arg.query).task>> /\ times = <<>>
      /\ \A a \in heap : a[1] \in Leaked
      /\ Known(arg.query) /\ i <= arg.runs[2] /\ InUsageForm
      /\ i \in 0 .. RunMod - 1
      /\ stream' = Closed /\ heap' = heap \cup (Allocated(up, lost) \X {i})
      /\ times' = IF OneSource THEN times \o [n \in 1 .. Len(engine) |-> i] ELSE times
  BY DEF StartEngine, IInv, OfTheRun, TypeOK, Accepted, Running
<1>2. FilesKept' /\ (\A f \in files' : f.by \in Nat \X Nat)
  <2>1. files' = {f \in files : f.key # SinkFile} \cup {File(SinkFile, rows)}
    BY <1>1 DEF StartEngine
  <2> QED
    BY <1>1, <2>1, WriteFile
<1>3. TypeOK'
  <2>1. Allocated(up, lost) \X {i} \subseteq Kind \X Nat
    BY <1>1, AllocatedKinds, ApplicationAssumption
  <2> QED
    BY <1>1, <1>2, <2>1 DEF IInv, TypeOK
<1>4. Accepted'
  <2>1. InUsageForm'
    BY <1>1, SameCall
  <2> QED
    BY <1>1, <2>1 DEF Accepted, Running
<1>5. OfTheRun'
  <2>1. (OneSource' <=> OneSource) /\ Leaked' = Leaked /\ Cleaned' = Cleaned
    BY <1>1, SameCall
  <2>2. ASSUME NEW a \in heap' PROVE a[1] \in Leaked' \/ a \in (Cleaned \X {i})'
    <3>1. CASE a \in heap
      BY <1>1, <2>1, <3>1
    <3>2. CASE a \in Allocated(up, lost) \X {i}
      <4>1. a[1] \in Allocated(up, lost) /\ a = <<a[1], i>>
        BY <3>2
      <4>2. a[1] \in Leaked \/ a \in Cleaned \X {i}
        BY <4>1, AllocatedKinds
      <4> QED
        BY <1>1, <2>1, <4>2
    <3> QED
      BY <1>1, <3>1, <3>2
  <2>3. OneSource => times' = <<i>>
    <3>1. Len(engine) = 1
      BY <1>1
    <3>2. [n \in 1 .. Len(engine) |-> i] = <<i>>
      BY <3>1
    <3>3. <<>> \o <<i>> = <<i>>
      OBVIOUS
    <3> QED
      BY <1>1, <3>2, <3>3
  <2>4. engine' = <<Query(arg.query).task>>'
    BY <1>1
  <2> QED
    BY <1>1, <2>1, <2>2, <2>3, <2>4 DEF OfTheRun, Closed
<1> QED
  BY <1>2, <1>3, <1>4, <1>5 DEF IInv

(* The report takes away what the run has made, but for what is leaked.     *)
LEMMA ReportIInv ==
  ASSUME IInv, Report
  PROVE  IInv'
<1>1. /\ pc = "report" /\ pc' = "loop" /\ i' = Following
      /\ UNCHANGED <<calls, argv, arg, files, stream, skipped>>
      /\ stream = Closed /\ engine' = <<>> /\ Clean
      /\ \A a \in heap : a[1] \in Leaked \/ a \in Cleaned \X {i}
      /\ i \in 0 .. RunMod - 1 /\ InUsageForm
      /\ times = IF OneSource THEN <<i>> ELSE <<>>
      /\ heap \subseteq Kind \X Nat
  BY DEF Report, EngineGoes, IInv, OfTheRun, TypeOK, Accepted
<1>2. times' = <<>> /\ heap' = heap \ (Cleaned \X {i})
  BY <1>1 DEF Clean
<1>3. TypeOK'
  <2>1. i' \in 0 .. RunMod - 1
    BY <1>1, FollowingType
  <2> QED
    BY <1>1, <1>2, <2>1 DEF IInv, TypeOK
<1>4. Accepted'
  <2>1. InUsageForm'
    BY <1>1, SameCall
  <2> QED
    BY <1>1, <2>1 DEF Accepted, Running
<1>5. \A a \in heap' : a[1] \in Leaked'
  BY <1>1, <1>2, SameCall
<1>6. OfTheRun'
  BY <1>1, <1>2, <1>5 DEF OfTheRun, Closed
<1>7. FilesKept'
  BY <1>1 DEF IInv, FilesKept
<1> QED
  BY <1>3, <1>4, <1>6, <1>7 DEF IInv

(* Every step keeps the invariant.                                          *)
LEMMA StepIInv == IInv /\ [Next]_vars => IInv'
<1> SUFFICES ASSUME IInv, [Next]_vars PROVE IInv'
  OBVIOUS
<1>1. CASE Help
  <2>1. calls' = calls + 1 /\ Leave /\ files' = files
    BY <1>1 DEF Help
  <2> QED
    BY <2>1, LeaveIInv
<1>2. ASSUME NEW q \in IF calls = 0 THEN Name ELSE Later, NEW form \in Forms(q), Call(q, form)
      PROVE  IInv'
  <2>1. q \in Name
    BY ApplicationAssumption
  <2> QED
    BY <1>2, <2>1, CallIInv
<1>3. ASSUME NEW made \in BOOLEAN, CheckDirectories(made) PROVE IInv'
  BY <1>3, CheckDirectoriesIInv
<1>4. CASE NextRun
  BY <1>4, NextRunIInv
<1>5. ASSUME NEW ok \in BOOLEAN, OpenSink(ok) PROVE IInv'
  BY <1>5, OpenSinkIInv
<1>6. ASSUME NEW up \in BOOLEAN, NEW lost \in BOOLEAN, NEW rows \in 0 .. MaxRows,
             StartEngine(up, rows, lost)
      PROVE  IInv'
  BY <1>6, StartEngineIInv
<1>7. CASE CallNull
  <2>1. calls' = calls /\ Leave /\ files' = files
    BY <1>7 DEF CallNull
  <2> QED
    BY <2>1, LeaveIInv
<1>8. CASE Report
  BY <1>8, ReportIInv
<1>9. CASE UNCHANGED vars
  <2>1. (InUsageForm' <=> InUsageForm) /\ (OneSource' <=> OneSource)
        /\ Leaked' = Leaked /\ Cleaned' = Cleaned
    BY <1>9, SameCall DEF vars
  <2>2. TypeOK' /\ FilesKept'
    BY <1>9 DEF vars, IInv, TypeOK, FilesKept
  <2>3. Accepted'
    BY <1>9, <2>1 DEF vars, IInv, Accepted, Running
  <2>4. OfTheRun'
    <3>1. SinkFile' = SinkFile
      BY <1>9 DEF vars, SinkFile
    <3> QED
      BY <1>9, <2>1, <3>1 DEF vars, IInv, OfTheRun
  <2> QED
    BY <2>2, <2>3, <2>4 DEF IInv
<1> QED
  BY <1>1, <1>2, <1>3, <1>4, <1>5, <1>6, <1>7, <1>8, <1>9 DEF Next
-------------------------------------------------------------------------------
(* The inductive invariant, for any number of calls, runs and rows.         *)
THEOREM Invariance == Spec => []IInv
BY InitIInv, StepIInv, PTL DEF Spec

(* What runs was asked for by the usage text, however many words were given *)
(* behind its own, and no run has a number above the one given.             *)
THEOREM RunsAsUsageSays == Spec => []AsUsageSays
<1>1. IInv => AsUsageSays
  <2> SUFFICES ASSUME IInv, Running PROVE AsUsageSays
    BY DEF AsUsageSays
  <2>1. InUsageForm /\ Known(arg.query) /\ i <= arg.runs[2]
    BY DEF IInv, Accepted, Running
  <2>2. arg.query[2] \notin TwoSourceNames => OneSource
    BY <2>1, KnownQuery DEF OneSource
  <2> QED
    BY <2>1, <2>2 DEF AsUsageSays, InUsageForm
<1> QED
  BY <1>1, Invariance, PTL

(* A run finds its stream closed, its times its own, its files kept, and of *)
(* what earlier runs allocated only what no clean() frees, whatever runs    *)
(* and calls there were before.                                             *)
THEOREM RunsOnTheirOwn == Spec => []EachRunOnItsOwn
<1>1. IInv => EachRunOnItsOwn
  BY DEF IInv, OfTheRun, FilesKept, EachRunOnItsOwn, Running
<1> QED
  BY <1>1, Invariance, PTL

(* Whatever query runs is wired to a task of its types, or has none.        *)
THEOREM RunsWired == Spec => []WiredToItsTask
<1>1. IInv => WiredToItsTask
  <2> SUFFICES ASSUME IInv, Running, arg.query \notin WithoutTask
               PROVE  Wired(Query(arg.query))
    BY DEF WiredToItsTask, Wired
  <2>1. Known(arg.query)
    BY DEF IInv, Accepted
  <2>2. <<arg.query[1], arg.query[2]>> \notin WithoutTask
    <3>1. arg.query \in Name
      BY DEF IInv, TypeOK, Running
    <3>2. \E b, q : arg.query = <<b, q>>
      BY <3>1 DEF Name
    <3> QED
      BY <3>2
  <2> QED
    BY <2>1, <2>2, KnownQuery
<1> QED
  BY <1>1, Invariance, PTL
===============================================================================
