------------------------------ MODULE WindowTask ------------------------------
(***************************************************************************)
(* The tasks of tasks.cpp that keep a window over one stream.  An enclave   *)
(* runs one of them; its state is in globals of the enclave, which start    *)
(* afresh with it.                                                          *)
(*                                                                          *)
(*   sliding tasks   evict the oldest datum of a full window, store the new *)
(*                   one, and every Step data compute over the window anew  *)
(*   "reduce"        ReduceFlight keeps a table of groups up to date instead *)
(*                   of computing it from the window                        *)
(*   "partition"     Query6_Avg keeps one window per key                    *)
(*                                                                          *)
(* A datum has the field a task groups by (key) and the one it computes     *)
(* with (value).  A callback runs alone in its thread, so it is one step.   *)
(***************************************************************************)
EXTENDS Integers, Sequences, FiniteSets

CONSTANTS Key,        \* categories, sellers, auctions, carriers, ...
          Value,      \* prices, delays, trip times, ...
          Category,   \* the keys in the table of Query4_JoinWithCategory
          Window,     \* window size: 100, 500 or 1000
          Step,       \* sliding step: 10 or 100
          CountMod,   \* the width of a count in ReducedFlightData: 2^32
          MaxData     \* bound: length of the stream

ASSUME WindowTaskAssumption ==
  /\ {Window, Step} \subseteq Nat \ {0}
  /\ CountMod \in Nat \ {0, 1}
  /\ MaxData \in Nat
  /\ Key \subseteq Nat /\ Value \subseteq Int
  /\ Category \subseteq Key

Datum == [key : Key, value : Value]
Group == [key : Key, count : 0 .. CountMod - 1, total : Int]   \* ReducedFlightData

SlidingTask == {"max", "count", "average", "batch", "category", "trip", "sensor"}
Task        == SlidingTask \cup {"reduce", "partition"}

VARIABLES
  task,       \* which callback the enclave's responder was given
  window,     \* the data stored
  sliding,    \* ...CurrentSlidingStep, reduceCurrentStep
  group,      \* reduce: reducedData, in the order of the groups' creation
  partition,  \* partition: averagePartitionsQ6, a function of the keys seen
  emitted,    \* what the last callback emitted
  ended,      \* has the NULL callback come?
  seen,       \* history: the stream so far
  fired       \* history: the positions in the stream at which results came

vars == <<task, window, sliding, group, partition, emitted, ended, seen, fired>>

(* Mutation: every step counter begins at 0.                                *)
InitZero ==
  /\ task \in Task
  /\ window = <<>>
  /\ sliding = 0
  /\ group = <<>>
  /\ partition = <<>>
  /\ emitted = <<>>
  /\ ended = FALSE
  /\ seen = <<>>
  /\ fired = {}

Init ==
  /\ task \in Task
  /\ window = <<>>
  /\ sliding = IF task \in SlidingTask THEN Step ELSE 0
  /\ group = <<>>
  /\ partition = <<>>
  /\ emitted = <<>>
  /\ ended = FALSE
  /\ seen = <<>>
  /\ fired = {}
-------------------------------------------------------------------------------
(* std::map: assignment to an element, and the elements in order of key.    *)
Put(m, k, v) == [x \in DOMAIN m \cup {k} |-> IF x = k THEN v ELSE m[x]]

Ascending(S) ==
  CHOOSE s \in [1 .. Cardinality(S) -> S] :
    /\ S = {s[i] : i \in 1 .. Cardinality(S)}
    /\ \A i \in 1 .. Cardinality(S) : \A j \in 1 .. i - 1 : s[j] < s[i]

InKeyOrder(m) == [i \in 1 .. Cardinality(DOMAIN m) |-> m[Ascending(DOMAIN m)[i]]]

(* What the loop of each task over its window does with one datum.          *)
(* Mutation: any later value replaces the one found.                        *)
ReplaceAny(m, d) == Put(m, d.key, d.value)

ReplaceByGreater(m, d) ==
  IF d.key \notin DOMAIN m \/ d.value > m[d.key] THEN Put(m, d.key, d.value) ELSE m

CountOne(m, d) == Put(m, d.key, IF d.key \in DOMAIN m THEN m[d.key] + 1 ELSE 1)

(* The counter of a key starts at 0, not 1, when its first datum is added.  *)
SumAndCount(m, d) ==
  Put(m, d.key, IF d.key \in DOMAIN m
                THEN [sum |-> m[d.key].sum + d.value, divisor |-> m[d.key].divisor + 1]
                ELSE [sum |-> d.value, divisor |-> 0])

Greater(r, d) == IF d.value > r.value THEN d ELSE r

(* Q4Map1Result{final, category}: the fields are auctionId, final, category. *)
JoinCategory(r, d) ==
  IF d.key \in Category
  THEN Append(r, [auctionId |-> d.value, final |-> d.key, category |-> 0]) ELSE r

(* Temperature, humidity and voltage are summed; light is assigned.         *)
AddSensor(r, d) == [sum |-> r.sum + d.value, light |-> d.value]

Round(t, r, d) ==
  CASE t = "max"             -> ReplaceByGreater(r, d)
    [] t = "count"           -> CountOne(r, d)
    [] t = "average"         -> SumAndCount(r, d)
    [] t \in {"batch", "trip"} -> Greater(r, d)
    [] t = "category"        -> JoinCategory(r, d)
    [] t = "sensor"          -> AddSensor(r, d)
    [] t = "partition"       -> r + d

Loop(t, start, s) ==
  LET loop[i \in 0 .. Len(s)] == IF i = 0 THEN start ELSE Round(t, loop[i - 1], s[i])
  IN loop[Len(s)]

(* The results of each task.  Query5_MaxBatch starts from the first count   *)
(* with no auction, 0, to go with it.                                       *)
EmptyMap == [k \in {} |-> 0]

KeyedValues(m) == InKeyOrder([k \in DOMAIN m |-> [key |-> k, value |-> m[k]]])

KeyedAverages(m) ==
  InKeyOrder([k \in DOMAIN m |-> [key |-> k, sum |-> m[k].sum, divisor |-> m[k].divisor]])

Aggregate(t, w) ==
  CASE t \in {"max", "count"} -> KeyedValues(Loop(t, EmptyMap, w))
    [] t = "average"  -> KeyedAverages(Loop(t, EmptyMap, w))
    [] t = "batch"    -> <<Loop(t, [key |-> 0, value |-> Head(w).value], w)>>
    [] t = "category" -> Loop(t, <<>>, w)
    [] t = "trip"     -> <<Loop(t, Head(w), w)>>
    [] t = "sensor"   -> <<Loop(t, [sum |-> 0, light |-> 0], w)>>
-------------------------------------------------------------------------------
(* What a task keeps of a datum.  Query5_MaxBatch does not copy the count:  *)
(* the one it later compares is whatever the allocated memory held.         *)
Stored(d) ==
  IF task = "batch" THEN {[d EXCEPT !.value = v] : v \in Value} ELSE {d}

(* Mutation: a window that takes one datum too many.                        *)
SlideLate(w, d) == Append(IF Len(w) > Window THEN Tail(w) ELSE w, d)

Slide(w, d) == Append(IF Len(w) >= Window THEN Tail(w) ELSE w, d)

Receive(d) ==
  /\ ~ended
  /\ Len(seen) < MaxData
  /\ seen' = Append(seen, d)
  /\ UNCHANGED <<task, ended>>

Silent == emitted' = <<>> /\ UNCHANGED fired

Fire(results) == emitted' = results /\ fired' = fired \cup {Len(seen')}

(* Mutation: the step counter is compared before it is increased.           *)
SlidingCallbackLate(d) ==
  /\ task \in SlidingTask
  /\ Receive(d)
  /\ \E s \in Stored(d) : window' = Slide(window, s)
  /\ IF Len(window') < Window THEN UNCHANGED sliding /\ Silent
     ELSE IF sliding < Step THEN sliding' = sliding + 1 /\ Silent
     ELSE sliding' = 0 /\ Fire(Aggregate(task, window'))
  /\ UNCHANGED <<group, partition>>

SlidingCallback(d) ==
  /\ task \in SlidingTask
  /\ Receive(d)
  /\ \E s \in Stored(d) : window' = Slide(window, s)
  /\ IF Len(window') < Window THEN UNCHANGED sliding /\ Silent
     ELSE IF sliding + 1 < Step THEN sliding' = sliding + 1 /\ Silent
     ELSE sliding' = 0 /\ Fire(Aggregate(task, window'))
  /\ UNCHANGED <<group, partition>>
-------------------------------------------------------------------------------
(* Mutation: counts go below zero.                                          *)
SubtractSigned(g, d) ==
  [i \in 1 .. Len(g) |->
     IF g[i].key # d.key THEN g[i]
     ELSE [g[i] EXCEPT !.count = @ - 1, !.total = @ - d.value]]

(* The evicted datum leaves its carrier's group, if there is one.           *)
Subtract(g, d) ==
  [i \in 1 .. Len(g) |->
     IF g[i].key # d.key THEN g[i]
     ELSE [g[i] EXCEPT !.count = (@ - 1) % CountMod, !.total = @ - d.value]]

Add(g, d) ==
  IF \E i \in 1 .. Len(g) : g[i].key = d.key
  THEN [i \in 1 .. Len(g) |->
          IF g[i].key # d.key THEN g[i]
          ELSE [g[i] EXCEPT !.count = (@ + 1) % CountMod, !.total = @ + d.value]]
  ELSE Append(g, [key |-> d.key, count |-> 1, total |-> d.value])

NonEmpty(g) == SelectSeq(g, LAMBDA r : r.count > 0)

(* Mutation: the datum that fills the window evicts one, too.               *)
ReduceEvictsEarly(d) ==
  /\ task = "reduce"
  /\ Receive(d)
  /\ LET w == Append(window, d) IN
     IF Len(w) < Window
     THEN window' = w /\ UNCHANGED <<group, sliding>> /\ Silent
     ELSE /\ window' = Tail(w)
          /\ group' = Add(Subtract(group, Head(w)), d)
          /\ IF sliding < Step THEN sliding' = sliding + 1 /\ Silent
                               ELSE sliding' = 0 /\ Fire(NonEmpty(group'))
  /\ UNCHANGED partition

(* A datum is counted from the Window-th on; those before are only stored.  *)
ReduceCallback(d) ==
  /\ task = "reduce"
  /\ Receive(d)
  /\ LET w == Append(window, d) IN
     IF Len(w) < Window
     THEN window' = w /\ UNCHANGED <<group, sliding>> /\ Silent
     ELSE /\ window' = IF Len(w) > Window THEN Tail(w) ELSE w
          /\ group' = Add(IF Len(w) > Window THEN Subtract(group, Head(w)) ELSE group, d)
          /\ IF sliding < Step THEN sliding' = sliding + 1 /\ Silent
                               ELSE sliding' = 0 /\ Fire(NonEmpty(group'))
  /\ UNCHANGED partition
-------------------------------------------------------------------------------
PartitionOf(k) == IF k \in DOMAIN partition THEN partition[k] ELSE <<>>

SumOf(s) == Loop("partition", 0, s)

FullPartitions(p) == [k \in {x \in DOMAIN p : Len(p[x]) >= Window} |-> p[k]]

Averages(p) ==
  InKeyOrder([k \in DOMAIN p |-> [key |-> k, sum |-> SumOf(p[k]), divisor |-> Len(p[k])]])

(* Every full partition gives its average after every datum of any key.     *)
PartitionCallback(d) ==
  /\ task = "partition"
  /\ Receive(d)
  /\ partition' = Put(partition, d.key, Slide(PartitionOf(d.key), d.value))
  /\ LET full == FullPartitions(partition') IN
     IF full = <<>> THEN Silent ELSE Fire(Averages(full))
  /\ UNCHANGED <<window, sliding, group>>
-------------------------------------------------------------------------------
(* The NULL callback: only ReduceFlight does anything with it.              *)
Flush ==
  /\ ~ended
  /\ ended' = TRUE
  /\ emitted' = IF task = "reduce" THEN NonEmpty(group) ELSE <<>>
  /\ UNCHANGED <<task, window, sliding, group, partition, seen, fired>>

Ended == ended /\ UNCHANGED vars

Callback(d) == SlidingCallback(d) \/ ReduceCallback(d) \/ PartitionCallback(d)

Next == (\E d \in Datum : Callback(d)) \/ Flush \/ Ended

Spec == Init /\ [][Next]_vars
-------------------------------------------------------------------------------
N == Len(seen)

Least(a, b) == IF a <= b THEN a ELSE b

TypeOK ==
  /\ task \in Task
  /\ window \in Seq(Datum)
  /\ sliding \in Nat
  /\ group \in Seq(Group)
  /\ DOMAIN partition \subseteq Key
  /\ \A k \in DOMAIN partition : partition[k] \in Seq(Value)
  /\ ended \in BOOLEAN
  /\ seen \in Seq(Datum)
  /\ fired \subseteq Nat

(* A window is the last Window data of the stream, in order, and all of it  *)
(* while it fills, whichever task keeps it and however it evicts.           *)
(* Query5_MaxBatch keeps the keys only.                                     *)
WindowHoldsLast ==
  task # "partition" =>
    /\ Len(window) = Least(N, Window)
    /\ \A i \in 1 .. Len(window) :
         LET d == seen[N - Len(window) + i] IN
         IF task = "batch" THEN window[i].key = d.key ELSE window[i] = d

(* Results come first when the window is full, then after each Step data:   *)
(* none is early, none is overdue.  ReduceFlight begins its counter at 0    *)
(* and resets it after Step, so it is Step data late and has one to go more. *)
First  == IF task = "reduce" THEN Window + Step ELSE Window
Period == IF task = "reduce" THEN Step + 1 ELSE Step

OnSchedule ==
  task # "partition" =>
    /\ fired \subseteq First .. N
    /\ N >= First => First \in fired
    /\ \A n \in fired : /\ \A m \in fired : m <= n \/ m >= n + Period
                        /\ n + Period <= N => n + Period \in fired

(* No datum leaves the window before a result that took it into account, as *)
(* long as the step is no longer than the window.                           *)
NothingSkipped ==
  task \in SlidingTask /\ Step <= Window =>
    \A i \in 1 .. N - Window : \E n \in fired : i \in n - Window + 1 .. n

(* The step counter is the number of data since the last result: it starts  *)
(* full in the sliding tasks, at 0 in ReduceFlight.                         *)
StepCounter ==
  task # "partition" =>
    /\ N < Window => sliding = IF task = "reduce" THEN 0 ELSE Step
    /\ N >= Window /\ N < First => sliding = N - Window + 1
    /\ N >= First => /\ sliding < Period
                     /\ N - sliding \in fired
                     /\ \A n \in fired : n <= N - sliding

(* The inductive invariant of the windows and their steps.                  *)
IInv == TypeOK /\ WindowHoldsLast /\ StepCounter /\ OnSchedule /\ NothingSkipped

(* The end of the stream, and its data of some keys.                        *)
Recent       == SubSeq(seen, N - Window + 1, N)
RecentValues == {Recent[i].value : i \in 1 .. Len(Recent)}
KeysOf(s)    == {s[i].key : i \in 1 .. Len(s)}
ValuesOf(s)  == [i \in 1 .. Len(s) |-> s[i].value]
Select(keys, r, d) == IF d.key \in keys THEN Append(r, d) ELSE r
Of(keys, s)  ==
  LET kept[i \in 0 .. Len(s)] == IF i = 0 THEN <<>> ELSE Select(keys, kept[i - 1], s[i])
  IN kept[Len(s)]
RecentOf(k)  == Of({k}, Recent)
LastOf(k)    == LET own == Of({k}, seen) IN SubSeq(own, Len(own) - Window + 1, Len(own))

OnePerKey(keys) ==
  /\ {emitted[i].key : i \in 1 .. Len(emitted)} = keys
  /\ \A i \in 1 .. Len(emitted) - 1 : emitted[i].key < emitted[i + 1].key

(* What a result e of a key says of the data o of the key.                  *)
IsMaximum(e, o) ==
  LET values == {o[j].value : j \in 1 .. Len(o)}
  IN e.value \in values /\ \A v \in values : v <= e.value
IsCount(e, o)             == e.value = Len(o)
IsAverage(e, o, divisor)  == e.sum = SumOf(ValuesOf(o)) /\ e.divisor = divisor

(* The results of the last callback are what the definition of the task     *)
(* says of the last Window data of the stream.  Two are as the code has     *)
(* them: the divisor of an average is the number of data less one, and the  *)
(* join with the categories puts the price where the auction id belongs.    *)
ResultsOfLastWindow ==
  ~ended /\ task \notin {"reduce", "batch"} =>
    IF N \notin fired THEN emitted = <<>>
    ELSE /\ task \in {"max", "count", "average"} => OnePerKey(KeysOf(Recent))
         /\ \A i \in 1 .. Len(emitted) :
              LET e == emitted[i]
                  o == RecentOf(e.key)
              IN /\ task = "max"     => IsMaximum(e, o)
                 /\ task = "count"   => IsCount(e, o)
                 /\ task = "average" => IsAverage(e, o, Len(o) - 1)
         /\ task = "category" =>
              LET known == Of(Category, Recent)
              IN /\ Len(emitted) = Len(known)
                 /\ \A i \in 1 .. Len(known) : /\ emitted[i].auctionId = known[i].value
                                               /\ emitted[i].final = known[i].key
         /\ task = "trip" =>
              \E i \in 1 .. Window :
                /\ emitted = <<Recent[i]>>
                /\ \A v \in RecentValues : v <= Recent[i].value
                /\ \A j \in 1 .. i - 1 : Recent[j].value < Recent[i].value
         /\ task = "sensor" =>
              emitted = <<[sum |-> SumOf(ValuesOf(Recent)), light |-> seen[N].value]>>
         /\ task = "partition" =>
              /\ OnePerKey({k \in Key : Len(Of({k}, seen)) >= Window})
              /\ \A i \in 1 .. Len(emitted) :
                   IsAverage(emitted[i], LastOf(emitted[i].key), Window)

(* ReduceFlight never counts the first Window - 1 data, but subtracts them  *)
(* when they leave, if their carrier has a group by then.  So the count of  *)
(* a group is that of its data in the window less a number fixed once those *)
(* first data have left, and it wraps when the window holds fewer.          *)
Counted(k)    == {n \in Window .. N : seen[n].key = k /\ n > N - Window}
Subtracted(k) ==
  {n \in 1 .. Window - 1 : /\ seen[n].key = k
                           /\ n + Window <= N
                           /\ \E c \in Window .. n + Window - 1 : seen[c].key = k}

GroupCounts ==
  task = "reduce" =>
    /\ {group[i].key : i \in 1 .. Len(group)} = {seen[n].key : n \in Window .. N}
    /\ \A i \in 1 .. Len(group) :
         LET k == group[i].key IN
         /\ \A j \in 1 .. Len(group) : group[j].key = k => j = i
         /\ group[i].count = (Cardinality(Counted(k)) - Cardinality(Subtracted(k))) % CountMod

(* tasks.cpp:661 says of Query5_MaxBatch "iterate all events in window to   *)
(* find the maximum": what it emits is the largest count of the window.     *)
BatchMaximum ==
  task = "batch" /\ N \in fired =>
    emitted = <<>> \/ \A v \in RecentValues : v <= emitted[1].value
===============================================================================
