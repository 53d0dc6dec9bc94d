------------------------------- MODULE JoinTask -------------------------------
(***************************************************************************)
(* The tasks of tasks.cpp that join two streams: Query3, Query4 and Query6  *)
(* of Nexmark, Query3 of StreamBox.  The responder of TwoSourceEngine.tla   *)
(* calls them with a datum of one side or with one of each.                 *)
(*                                                                          *)
(* Each side has a window and a step counter.  A side whose window is full  *)
(* and that has taken Step data since it last asked asks for a join, of all *)
(* that both windows hold; the other one need not be full.                  *)
(***************************************************************************)
EXTENDS Integers, Sequences, FiniteSets

CONSTANTS Key,      \* what the sides are joined on: seller, auction, key
          Window,   \* window size of both sides
          Step,     \* sliding step of both sides
          MaxData   \* bound: length of each stream

ASSUME JoinTaskAssumption ==
  /\ {Window, Step} \subseteq Nat \ {0}
  /\ MaxData \in Nat

Side == {1, 2}

VARIABLES
  window,    \* people and auctions, ...
  sliding,   \* ...CurrentSliding of each side
  emitted,   \* what the last callback emitted
  seen,      \* history: the stream of each side so far
  trail,     \* history: the lengths of both streams after each callback
  met        \* history: the pairs of positions that a join has compared

vars == <<window, sliding, emitted, seen, trail, met>>

Init ==
  /\ window = [r \in Side |-> <<>>]
  /\ sliding = [r \in Side |-> Step]
  /\ emitted = <<>>
  /\ seen = [r \in Side |-> <<>>]
  /\ trail = <<>>
  /\ met = {}
-------------------------------------------------------------------------------
(* A datum in a window is its key and its place in its stream.              *)
Slide(w, d) == Append(IF Len(w) >= Window THEN Tail(w) ELSE w, d)

(* Mutation: a datum of the first window stops at its first match.          *)
MatchesFirst(results, d, w) ==
  LET Found == {j \in 1 .. Len(w) : w[j].key = d.key}
  IN IF Found = {} THEN results
     ELSE Append(results, <<d, w[CHOOSE j \in Found : \A k \in Found : j <= k]>>)

(* The inner loop: what a datum of the first window adds to the results so  *)
(* far, from its matches in the second one.                                 *)
Matches(results, d, w) ==
  LET loop[j \in 0 .. Len(w)] ==
        IF j = 0 THEN results
        ELSE IF w[j].key = d.key THEN Append(loop[j - 1], <<d, w[j]>>) ELSE loop[j - 1]
  IN loop[Len(w)]

(* The outer loop, over the first window.                                   *)
NestedLoopJoin(w) ==
  LET loop[i \in 0 .. Len(w[1])] ==
        IF i = 0 THEN <<>> ELSE Matches(loop[i - 1], w[1][i], w[2])
  IN loop[Len(w[1])]

(* Mutation: the side that is not full is not ready to be joined.           *)
ShouldJoinBoth(w, s) ==
  IF \A r \in Side : Len(w[r]) >= Window
  THEN {r \in Side : s[r] >= Step} ELSE {}

ShouldJoin(w, s) == {r \in Side : Len(w[r]) >= Window /\ s[r] >= Step}

Stored(w) == {w[i].at : i \in 1 .. Len(w)}

(* Mutation: every join resets both counters, also the one not asking.      *)
ResetAll(asking, s) == IF asking = {} THEN s ELSE [r \in Side |-> 0]

Reset(asking, s) == [r \in Side |-> IF r \in asking THEN 0 ELSE s[r]]

(* A callback with a datum of each side in given.                           *)
Callback(given, key) ==
  /\ \A r \in given : Len(seen[r]) < MaxData
  /\ seen' = [r \in Side |-> IF r \in given THEN Append(seen[r], key[r]) ELSE seen[r]]
  /\ window' = [r \in Side |->
       IF r \in given THEN Slide(window[r], [key |-> key[r], at |-> Len(seen'[r])]) ELSE window[r]]
  /\ LET s == [r \in Side |-> IF r \in given THEN sliding[r] + 1 ELSE sliding[r]]
         asking == ShouldJoin(window', s)
     IN /\ sliding' = Reset(asking, s)
        /\ IF asking = {}
           THEN emitted' = <<>> /\ UNCHANGED met
           ELSE /\ emitted' = NestedLoopJoin(window')
                /\ met' = met \cup (Stored(window'[1]) \X Stored(window'[2]))
  /\ trail' = Append(trail, <<Len(seen'[1]), Len(seen'[2])>>)

(* The NULL callback returns at once, after the last datum.                 *)
Flush ==
  /\ \A r \in Side : Len(seen[r]) = MaxData
  /\ UNCHANGED vars

Next ==
  \/ \E given \in (SUBSET Side) \ {{}} : \E key \in [given -> Key] : Callback(given, key)
  \/ Flush

Spec == Init /\ [][Next]_vars
-------------------------------------------------------------------------------
Entry == [key : Key, at : 1 .. MaxData]

TypeOK ==
  /\ \A r \in Side : /\ window[r] \in Seq(Entry)
                     /\ sliding[r] \in Nat
                     /\ seen[r] \in Seq(Key)
                     /\ Len(seen[r]) <= MaxData
  /\ trail \in Seq(Nat \X Nat)
  /\ met \subseteq (1 .. MaxData) \X (1 .. MaxData)

(* What a side's last Window data are, by its stream alone.                 *)
LastOf(n)  == {i \in 1 .. n : i > n - Window}
Current    == LastOf(Len(seen[1])) \X LastOf(Len(seen[2]))
Joined     == {<<emitted[n][1].at, emitted[n][2].at>> : n \in 1 .. Len(emitted)}

(* Has the last callback brought side r a datum after which it asks?        *)
Asked(r) ==
  LET n == Len(trail) IN
  /\ n > 0 /\ trail[n][r] > IF n = 1 THEN 0 ELSE trail[n - 1][r]
  /\ Len(seen[r]) >= Window
  /\ sliding[r] = 0

(* A join gives every pair of equal keys among the last Window data of both *)
(* streams, once, in the order of the streams and the first stream first;   *)
(* the other callbacks give nothing.                                        *)
JoinIsComplete ==
  IF \E r \in Side : Asked(r)
  THEN /\ Joined = {p \in Current : seen[1][p[1]] = seen[2][p[2]]}
       /\ \A n \in 1 .. Len(emitted) - 1 :
            \/ emitted[n][1].at < emitted[n + 1][1].at
            \/ emitted[n][1].at = emitted[n + 1][1].at /\ emitted[n][2].at < emitted[n + 1][2].at
  ELSE emitted = <<>>

(* The data of side r by callback a that its window still holds at b.       *)
Still(a, b, r) == {i \in 1 .. trail[a][r] : i > trail[b][r] - Window}
Together(a, b) == Still(a, b, 1) \X Still(a, b, 2)

(* The join itself comes in time.  Two data that are in the windows together *)
(* while one side, full or being filled by then, takes Step data, are       *)
(* compared by some join, however the data of the sides alternate.          *)
NoPairMissed ==
  \A b \in 1 .. Len(trail) : \A a \in 1 .. b :
    (\E r \in Side : /\ trail[b][r] - trail[a][r] >= Step
                     /\ trail[b][r] - Window >= Step - 1)
      => Together(a, b) \subseteq met

(* A side asks at its own pace: once it has filled its window, after every  *)
(* Step of its own data, whatever the other one asks in between.            *)
OwnPace ==
  \A r \in Side :
    LET n == Len(seen[r]) IN
    sliding[r] = IF n < Window THEN Step + n ELSE (n - Window) % Step

(* The window of a side is the end of its stream.                           *)
WindowHoldsLast ==
  \A r \in Side :
    LET n == Len(seen[r]) IN
    /\ Len(window[r]) = IF n < Window THEN n ELSE Window
    /\ \A i \in 1 .. Len(window[r]) : window[r][i].at = n - Len(window[r]) + i

(* The streams never shrink, and the trail ends where they stand.           *)
TrailGrows ==
  \A r \in Side :
    /\ Len(seen[r]) = IF trail = <<>> THEN 0 ELSE trail[Len(trail)][r]
    /\ \A b \in 1 .. Len(trail) : \A a \in 1 .. b : trail[a][r] <= trail[b][r]

(* Every length of a stream was reached by one callback, c, and when a join *)
(* was due at that length, c has compared all that was in the windows.      *)
Due(n) == n >= Window /\ (n - Window) % Step = 0

MetWhenDue ==
  \A r \in Side : \A n \in 1 .. Len(seen[r]) : \E c \in 1 .. Len(trail) :
    /\ trail[c][r] = n
    /\ \A b \in 1 .. Len(trail) : trail[b][r] >= n => c <= b
    /\ Due(n) => LastOf(trail[c][1]) \X LastOf(trail[c][2]) \subseteq met

(* The inductive invariant behind OwnPace and NoPairMissed.                 *)
IInv == TypeOK /\ OwnPace /\ WindowHoldsLast /\ TrailGrows /\ MetWhenDue

(* A datum keeps its key in the window.                                     *)
KeysKept ==
  \A r \in Side : \A i \in 1 .. Len(window[r]) :
    window[r][i].key = seen[r][window[r][i].at]

(* What was emitted last is the join of what the windows hold.              *)
EmittedIsJoin ==
  emitted = IF \E r \in Side : Asked(r) THEN NestedLoopJoin(window) ELSE <<>>

(* The inductive invariant behind JoinIsComplete.                           *)
JoinInv == IInv /\ KeysKept /\ EmittedIsJoin
===============================================================================
