------------------------------ MODULE Application -----------------------------
(***************************************************************************)
(* App.cpp, CommandLineArgument.cpp, the query classes and runEngine.cpp:   *)
(* the program is called with a command line, runs one query the asked      *)
(* number of times, each time with an engine object of its own, and leaves  *)
(* one file of results per run, which a later call may read.                *)
(*                                                                          *)
(* A run is sequential: open the sink file, start the engine, report and    *)
(* clean.  What start() does inside is Engine.tla and TwoSourceEngine.tla;  *)
(* here it allocates, takes the lines of its sources and writes some rows.  *)
(***************************************************************************)
EXTENDS Queries, FiniteSets

CONSTANTS RunMod,        \* the number of runs is a uint32_t: 2^32
          Later,         \* bound: the queries of the calls after the first
          MaxRuns,       \* bound: the runs asked for, one less with each call
          MaxFurther,    \* bound: words too many, one less with each call
          MaxCommands,   \* bound: how many times the program is called
          MaxRows        \* bound: rows that a run writes

(* Queries are named by benchmark and query; some names are of none.        *)
Known(n) == n[1] \in DOMAIN QueriesOf /\ n[2] \in DOMAIN QueriesOf[n[1]]
Name ==
  (UNION {{<<b, q>> : q \in DOMAIN QueriesOf[b]} : b \in DOMAIN QueriesOf})
  \cup {<<"nexmark", "Query1">>, <<"Nexmark", "Query3">>, <<"StreamBox", "MapQuery">>}

ASSUME ApplicationAssumption ==
  /\ RunMod \in Nat \ {0}
  /\ Later \subseteq Name
  /\ {MaxRuns, MaxFurther, MaxCommands, MaxRows} \subseteq Nat

Query(n) == QueriesOf[n[1]][n[2]]
Sources(n) == Len(Query(n).in)

VARIABLES
  pc,        \* "shell", or what the program does next
  calls,     \* how many times the program has been called
  argv,      \* history: what the user gave, after -r
  arg,       \* CommandLineArgument
  i,         \* the run of the loop
  files,     \* the result files there are: what each holds, and of which run
  engine,    \* callIdVector_ of the engine object of the run
  stream,    \* the sink stream, a global: the file it is open on
  times,     \* startEnclaveTimes_ and endEnclaveTimes_, static: the run of each entry
  heap,      \* what is allocated and not freed yet: its kind and its run
  skipped    \* history: rows of its sources that the last run took for a header

vars == <<pc, calls, argv, arg, i, files, engine, stream, times, heap, skipped>>

Closed == <<>>
NoArg  == [query |-> <<"", "">>]

Init ==
  /\ pc = "shell" /\ calls = 0
  /\ argv = <<>> /\ arg = NoArg
  /\ i = 0
  /\ files = {}
  /\ engine = <<>>
  /\ stream = Closed
  /\ times = <<>> /\ heap = {}
  /\ skipped = 0
-------------------------------------------------------------------------------
(* A file of results is of the n-th run of a query; its lines are rows.  A  *)
(* data set has a header above its rows.                                    *)
DataSet(type)   == [type |-> type, header |-> TRUE, rows |-> MaxRows]
File(key, rows) == [key |-> key, by |-> <<calls, i>>, rows |-> rows,
                    type |-> Query(key[1]).out, header |-> FALSE]

(* What a source of that type may be: a data set, a file of results, or a   *)
(* path that cannot be opened.                                              *)
Missing == [type |-> "none", header |-> FALSE, rows |-> 0]
Readable(type) == {DataSet(type), Missing} \cup {f \in files : f.type = type}

(* A word of the command line: the path of a file or a directory, a number. *)
Path(f)      == <<"file", f>>
Number(n)    == <<"number", n>>
Measurements == <<"directory", 1>>
Results      == <<"directory", 2>>

(* What the user may give after the names.  Usage lists the first two; the  *)
(* others have words too few, or too many behind.                           *)
OneSourceForm(s, n)    == <<s, Measurements, Results, n>>
TwoSourceForm(s, t, n) == <<s, t, Measurements, Results, n>>
Listed(first, second, runs) ==
  {OneSourceForm(s, n) : s \in first, n \in runs}
  \cup {TwoSourceForm(s, t, n) : s \in first, t \in second, n \in runs}

Further == UNION {[1 .. m -> {Number(1)}] : m \in 0 .. MaxFurther - calls}
Given(first, second, runs) ==
  {listed \o more : listed \in Listed(first, second, runs), more \in Further}
  \cup {<<s, s, Measurements, Results>> : s \in first}
  \cup {<<s, Measurements, Results>> : s \in first}

Forms(q) ==
  LET in == IF Known(q) THEN Query(q).in ELSE <<"Bid">>
  IN Given({Path(f) : f \in Readable(in[1])},
           IF Len(in) = 2 THEN {Path(f) : f \in Readable(in[2])} ELSE {Path(Missing)},
           {Number(n) : n \in calls - 1 .. MaxRuns - calls})

(* Back to the shell: the process ends, and what was static in it.          *)
Leave ==
  /\ pc' = "shell"
  /\ argv' = <<>> /\ arg' = NoArg
  /\ i' = 0 /\ skipped' = 0
  /\ engine' = <<>>
  /\ stream' = Closed /\ times' = <<>> /\ heap' = {}

(* The names that main knows to need two sources, of whatever benchmark.    *)
TwoSourceNames == {"Query3_JoinPersonAuction", "Query4_JoinAuctionBid",
                   "Query6_JoinAuctionBid", "Query8_JoinPersonAuction", "Query3"}

(* Mutation: the second source of a query that needs it is not asked for.   *)
AcceptsAny(q, form) == Len(form) + 4 >= 8

(* argc counts the program, -r and the two names too.                       *)
Accepts(q, form) ==
  LET argc == Len(form) + 4 IN
  argc >= 8 /\ (q[2] \in TwoSourceNames => argc >= 9)

(* stoi and the cast to uint32_t: a negative number is a huge one.          *)
Uint32(word) == IF word[1] = "number" THEN Number(word[2] % RunMod) ELSE word

(* Nine arguments or more have two sources, whatever the query needs, and   *)
(* those after the ninth are not looked at.  A comment calls the number of  *)
(* runs optional, but main has refused what lacks it.                       *)
CommandLineArgument(q, form) ==
  LET two == Len(form) + 4 >= 9
      k   == IF two THEN 3 ELSE 2
  IN [query |-> q, source |-> form[1], source2 |-> IF two THEN form[2] ELSE Path(Missing),
      measurements |-> form[k], results |-> form[k + 1], runs |-> Uint32(form[k + 2])]

(* -h, -l, -lq and no or another command: text only.                        *)
Help ==
  /\ pc = "shell" /\ calls < MaxCommands
  /\ calls' = calls + 1
  /\ Leave
  /\ UNCHANGED files

(* -r with a query and what follows; benchmark and query need not exist.    *)
(* stoi throws at what is no number.                                        *)
Call(q, form) ==
  /\ pc = "shell" /\ calls < MaxCommands
  /\ calls' = calls + 1
  /\ UNCHANGED files
  /\ IF Accepts(q, form)
     THEN LET parsed == CommandLineArgument(q, form) IN
          IF parsed.runs[1] # "number" THEN Leave
          ELSE /\ arg' = parsed
               /\ argv' = form
               /\ pc' = "directories"
               /\ UNCHANGED <<i, engine, stream, times, heap, skipped>>
     ELSE Leave

(* stat: what the user gives at the place of a directory, and has made.     *)
IsDirectory(path) == path \in {Measurements, Results}

(* The head of the three test functions; a benchmark of no known name gets  *)
(* no further.                                                              *)
CheckDirectories(made) ==
  /\ pc = "directories"
  /\ IF arg.query[1] \notin DOMAIN QueriesOf THEN Leave
     ELSE IF made /\ IsDirectory(arg.measurements) /\ IsDirectory(arg.results)
     THEN /\ pc' = "loop" /\ i' = 1 % RunMod
          /\ UNCHANGED <<argv, arg, engine, stream, times, heap, skipped>>
     ELSE Leave
  /\ UNCHANGED <<calls, files>>

(* The run after this one.  The counter of the loop is a uint32_t, too: of  *)
(* the greatest number of runs it comes round to 0 and there is no end.     *)
Following == (i + 1) % RunMod

(* The loop of the three test functions: the next run, or the end of main.  *)
NextRun ==
  /\ pc = "loop"
  /\ IF i <= arg.runs[2]
     THEN /\ IF Known(arg.query) THEN pc' = "open" /\ UNCHANGED i
             ELSE pc' = "loop" /\ i' = Following
          /\ UNCHANGED <<argv, arg, engine, stream, times, heap, skipped>>
     ELSE Leave
  /\ UNCHANGED <<calls, files>>
-------------------------------------------------------------------------------
(* Mutation: all runs of a query write to one file.                         *)
SinkFileOfQuery == <<arg.query, 1>>

(* bench_query_i.csv.                                                       *)
SinkFile == <<arg.query, i>>

(* Mutation: the object stays for the next run.                             *)
EngineStays == UNCHANGED engine

(* The engine is an object of the function that runs the query.             *)
EngineGoes == engine' = <<>>

(* addTask or setTask; then the file is truncated.  A stream that is open   *)
(* already cannot be opened.                                                *)
OpenSink(ok) ==
  /\ pc = "open"
  /\ IF ok /\ stream = Closed
     THEN /\ engine' = Append(engine, Query(arg.query).task)
          /\ stream' = SinkFile
          /\ files' = {f \in files : f.key # SinkFile} \cup {File(SinkFile, 0)}
          /\ pc' = "start"
          /\ UNCHANGED i
     ELSE /\ pc' = "loop" /\ i' = Following
          /\ EngineGoes
          /\ UNCHANGED <<stream, files>>
  /\ UNCHANGED <<calls, argv, arg, times, heap, skipped>>

(* What a run allocates: the arrays of its rings and of its observers, in   *)
(* the two-source engine the structs of the rings, in the other an emitter; *)
(* the sink thread, once there are threads, a place for what it decrypts;   *)
(* and each request that gives up leaves the copy it had encrypted.         *)
OneSource == Sources(arg.query) = 1
Threads(up) == up \/ ~OneSource
Allocated(up, lost) ==
  {"rings", "observers", IF OneSource THEN "emitter" ELSE "structs"}
  \cup {k \in {"decrypted"} : Threads(up)} \cup {k \in {"encrypted"} : lost}

(* CsvSource.start: the first line is skipped where a header is expected.   *)
(* A file of results may have been written anew since it was named.         *)
Content(path) ==
  IF "key" \in DOMAIN path[2] THEN CHOOSE f \in files : f.key = path[2].key ELSE path[2]

SkippedOf(path) ==
  LET f == Content(path) IN
  IF ~f.header /\ Query(arg.query).header /\ f.rows > 0 THEN 1 ELSE 0

(* The engine's start(), with the enclave up or not, writing some rows if a *)
(* callback runs in it, and with requests that gave up or not; a sink       *)
(* stream is closed whatever it returns.  The ECALL of a task without       *)
(* callback fails.                                                          *)
StartEngine(up, rows, lost) ==
  /\ pc = "start"
  /\ rows > 0 => up /\ HasCallback(Query(arg.query).task)
  /\ lost => Threads(up)
  /\ heap' = heap \cup (Allocated(up, lost) \X {i})
  /\ times' = IF OneSource THEN times \o [n \in 1 .. Len(engine) |-> i] ELSE times
  /\ skipped' = SkippedOf(arg.source) + IF OneSource THEN 0 ELSE SkippedOf(arg.source2)
  /\ files' = {f \in files : f.key # stream} \cup {File(stream, rows)}
  /\ stream' = Closed
  /\ pc' = "report"
  /\ UNCHANGED <<calls, argv, arg, i, engine>>

(* A task without callback: the responder calls NULL, and the program may   *)
(* die with it.                                                             *)
CallNull ==
  /\ pc = "start"
  /\ ~HasCallback(Query(arg.query).task)
  /\ Leave
  /\ UNCHANGED <<calls, files>>

(* clean() of the two engines, and what it leaves of a run: whatever the    *)
(* other one made but its rings, and the copies and places of both.         *)
Cleaned == IF OneSource THEN {"rings", "observers"} ELSE {"rings"}
Leaked  == {"decrypted", "encrypted"}
           \cup IF OneSource THEN {"emitter"} ELSE {"observers", "structs"}
Clean ==
  /\ heap' = heap \ (Cleaned \X {i})
  /\ times' = IF OneSource THEN <<>> ELSE times

(* The times and measurements are written, and the engine is cleaned.       *)
Report ==
  /\ pc = "report"
  /\ Clean
  /\ EngineGoes
  /\ pc' = "loop" /\ i' = Following
  /\ UNCHANGED <<calls, argv, arg, files, stream, skipped>>

Next ==
  \/ Help
  \/ \E q \in IF calls = 0 THEN Name ELSE Later : \E form \in Forms(q) : Call(q, form)
  \/ \E made \in BOOLEAN : CheckDirectories(made)
  \/ NextRun
  \/ \E ok \in BOOLEAN : OpenSink(ok)
  \/ \E up, lost \in BOOLEAN, rows \in 0 .. MaxRows : StartEngine(up, rows, lost)
  \/ CallNull
  \/ Report

Spec == Init /\ [][Next]_vars
-------------------------------------------------------------------------------
(* Running: from the opening of the sink file to the report.                *)
Running == pc \in {"open", "start", "report"}

(* What the user gave: the form of one source and nothing behind it, or the *)
(* form of two with anything behind it.                                     *)
GaveOneSource ==
  /\ Len(argv) = 4
  /\ argv = OneSourceForm(arg.source, argv[4])
  /\ arg.runs = Uint32(argv[4])
GaveTwoSources ==
  /\ Len(argv) >= 5
  /\ \A k \in 1 .. 5 : argv[k] = TwoSourceForm(arg.source, arg.source2, argv[5])[k]
  /\ arg.runs = Uint32(argv[5])

(* A query runs only on what the user gave for it by the usage text: the    *)
(* source, or both where it joins two, and the directories each at its      *)
(* place, and no run has a number above the one given, as a uint32_t.       *)
(* Words behind two sources change nothing; a call with a source too few,   *)
(* or with a word behind one source, runs nothing, although nobody checks   *)
(* what the words are.                                                      *)
AsUsageSays ==
  Running =>
    /\ arg.measurements = Measurements /\ arg.results = Results
    /\ (OneSource /\ GaveOneSource) \/ GaveTwoSources
    /\ i <= arg.runs[2]

(* A run finds nothing of an earlier run of the same call: its stream is    *)
(* closed, and the first entry of the static times is its own when it       *)
(* reports.  No ring is left, nor the arrays of an observer but those of    *)
(* the two-source engine.  The file of every run that was started is still  *)
(* the one a run of its number wrote.                                       *)
EachRunOnItsOwn ==
  /\ (pc \in {"loop", "open"} => stream = Closed)
  /\ (pc = "report" => stream = Closed /\ (OneSource => times = <<i>>))
  /\ (pc \in {"loop", "open"} => \A a \in heap : a[1] \in Leaked)
  /\ \A f \in files : f.key[2] = f.by[2]
  /\ (Running => \A f \in files : f.by[1] = calls => f.key[1] = arg.query)

(* Every query that runs is wired to a task that takes what its sources and *)
(* gives what its sink expect, but for Query7 and Query8 of Nexmark, whose  *)
(* tasks have been taken out of the table.                                  *)
WithoutTask == {<<"Nexmark", "Query7_MaxJoin">>, <<"Nexmark", "Query8_JoinPersonAuction">>,
                <<"Nexmark", "Query8_MapJoinResult">>}

WiredToItsTask ==
  (Running /\ arg.query \notin WithoutTask) =>
    LET w == Query(arg.query) IN
    /\ HasCallback(w.task)
    /\ Callback(w.task) = Task(w.in, w.out)

(* The inductive invariant behind the three.  A call that is not refused is *)
(* of a form of the usage text, until its directories have been looked at.  *)
Kind == {"rings", "structs", "observers", "emitter", "decrypted", "encrypted"}

TypeOK ==
  /\ pc \in {"shell", "directories", "loop", "open", "start", "report"}
  /\ calls \in Nat /\ i \in 0 .. RunMod - 1
  /\ pc # "shell" => arg.query \in Name
  /\ heap \subseteq Kind \X Nat
  /\ \A f \in files : f.by \in Nat \X Nat

InUsageForm ==
  /\ arg.measurements = Measurements /\ arg.results = Results
  /\ \/ GaveOneSource /\ arg.query[2] \notin TwoSourceNames
     \/ GaveTwoSources

Accepted ==
  /\ pc \notin {"shell", "directories"} => InUsageForm
  /\ pc = "directories" /\ IsDirectory(arg.measurements) /\ IsDirectory(arg.results) => InUsageForm
  /\ Running => Known(arg.query) /\ i <= arg.runs[2]

(* What a run has at hand, and what is left of the runs before.             *)
OfTheRun ==
  /\ stream = IF pc = "start" THEN SinkFile ELSE Closed
  /\ engine = IF pc \in {"start", "report"} THEN <<Query(arg.query).task>> ELSE <<>>
  /\ times = IF pc = "report" /\ OneSource THEN <<i>> ELSE <<>>
  /\ \A a \in heap :
       /\ pc \notin {"shell", "directories"}
       /\ a[1] \in Leaked \/ (pc = "report" /\ a \in Cleaned \X {i})

FilesKept ==
  /\ \A f \in files : f.key[2] = f.by[2] /\ f.by[1] <= calls
  /\ pc # "shell" => \A f \in files : f.by[1] = calls => f.key[1] = arg.query

IInv == TypeOK /\ Accepted /\ OfTheRun /\ FilesKept

(* A query that reads the results of another one takes all of them.         *)
NothingLostBetweenQueries == skipped = 0
===============================================================================
