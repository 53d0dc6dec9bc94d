--------------------------- MODULE WindowTaskProofs ---------------------------
(***************************************************************************)
(* Proofs about WindowTask.tla, for windows and steps of any size and       *)
(* streams of any length: when results come and over which data, then what  *)
(* ReduceFlight counts, then what the loops of the other tasks compute.     *)
(***************************************************************************)
EXTENDS WindowTask, NumberLemmas, SequenceTheorems, FiniteSetTheorems, TLAPS

(* What the assumption says of each constant.                               *)
LEMMA ConstantTypes ==
  /\ Window \in Nat /\ Window > 0 /\ Step \in Nat /\ Step > 0
  /\ CountMod \in Nat /\ CountMod > 1 /\ MaxData \in Nat
  /\ Key \subseteq Nat /\ Value \subseteq Int
BY WindowTaskAssumption

(* An enclave before its first datum.                                       *)
LEMMA InitIInv == Init => IInv
<1> SUFFICES ASSUME Init PROVE IInv
  OBVIOUS
<1> USE ConstantTypes
<1>1. N = 0 /\ Len(window) = 0 /\ DOMAIN partition = {}
  BY DEF Init, N
<1>2. First \in Nat /\ First > 0
  BY DEF First
<1>3. TypeOK
  <2>1. window \in Seq(Datum) /\ seen \in Seq(Datum)
        /\ group \in Seq(Group)
    BY DEF Init
  <2>2. sliding \in Nat /\ ended \in BOOLEAN /\ fired \subseteq Nat /\ task \in Task
    BY DEF Init
  <2> QED
    BY <1>1, <2>1, <2>2 DEF TypeOK
<1>4. WindowHoldsLast
  BY <1>1 DEF Init, WindowHoldsLast, Least
<1>5. StepCounter
  BY <1>1, <1>2 DEF Init, StepCounter, First, Task, SlidingTask
<1>6. OnSchedule /\ NothingSkipped
  BY <1>1, <1>2 DEF Init, OnSchedule, NothingSkipped
<1> QED
  BY <1>3, <1>4, <1>5, <1>6 DEF IInv
-------------------------------------------------------------------------------
(* A window that slides holds the new datum after the last of the old ones. *)
LEMMA SlideLast ==
  ASSUME NEW D, NEW w \in Seq(D), NEW d \in D, Len(w) <= Window
  PROVE  /\ Slide(w, d) \in Seq(D)
         /\ Len(Slide(w, d)) = Least(Len(w) + 1, Window)
         /\ Slide(w, d)[Len(Slide(w, d))] = d
         /\ \A i \in 1 .. Len(Slide(w, d)) - 1 :
              Slide(w, d)[i] = w[Len(w) - Len(Slide(w, d)) + 1 + i]
<1> USE ConstantTypes
<1>1. CASE Len(w) >= Window
  <2>1. w # <<>> /\ Tail(w) \in Seq(D) /\ Len(Tail(w)) = Len(w) - 1
    BY <1>1
  <2>2. Slide(w, d) = Append(Tail(w), d)
    BY <1>1 DEF Slide
  <2> DEFINE t == Append(Tail(w), d)
  <2>3. t \in Seq(D) /\ Len(t) = Len(w) /\ t[Len(w)] = d
    BY <2>1
  <2>4. \A i \in 1 .. Len(w) - 1 : t[i] = w[i + 1]
    BY <1>1, <2>1
  <2>5. Len(w) = Window /\ Least(Len(w) + 1, Window) = Len(w)
    BY <1>1 DEF Least
  <2> HIDE DEF t
  <2>6. \A i \in 1 .. Len(t) - 1 : t[i] = w[Len(w) - Len(t) + 1 + i]
    BY <2>3, <2>4
  <2> QED
    BY <2>2, <2>3, <2>5, <2>6 DEF t
<1>2. CASE Len(w) < Window
  <2>1. Slide(w, d) = Append(w, d)
    BY <1>2 DEF Slide
  <2>2. Append(w, d) \in Seq(D) /\ Len(Append(w, d)) = Len(w) + 1
    OBVIOUS
  <2>3. /\ Append(w, d)[Len(w) + 1] = d
        /\ \A i \in 1 .. Len(w) : Append(w, d)[i] = w[i]
    OBVIOUS
  <2>4. Len(Slide(w, d)) = Len(w) + 1 /\ Least(Len(w) + 1, Window) = Len(w) + 1
    BY <1>2, <2>1, <2>2 DEF Least
  <2> QED
    BY <2>1, <2>2, <2>3, <2>4
<1> QED
  BY <1>1, <1>2

(* What is stored of a datum is a datum of the same key, and the datum      *)
(* itself but for Query5_MaxBatch.                                          *)
LEMMA StoredDatum ==
  ASSUME NEW d \in Datum, NEW s \in Stored(d)
  PROVE  /\ s \in Datum /\ s.key = d.key
         /\ task # "batch" => s = d
BY DEF Stored, Datum

(* ReduceFlight stores first and evicts then, with the same outcome.        *)
LEMMA ReduceSlides ==
  ASSUME IInv, NEW d \in Datum, ReduceCallback(d)
  PROVE  window' = Slide(window, d)
<1> USE ConstantTypes
<1>1. window \in Seq(Datum) /\ Len(window) <= Window
  BY DEF IInv, TypeOK, WindowHoldsLast, Least, N, ReduceCallback
<1>2. Len(Append(window, d)) = Len(window) + 1
  BY <1>1
<1>3. CASE Len(window) < Window
  BY <1>1, <1>2, <1>3 DEF ReduceCallback, Slide
<1>4. CASE Len(window) >= Window
  <2>1. Tail(Append(window, d)) = Append(Tail(window), d)
    BY <1>1, <1>4
  <2> QED
    BY <1>1, <1>2, <1>4, <2>1 DEF ReduceCallback, Slide
<1> QED
  BY <1>1, <1>3, <1>4

(* The effect of a callback on all that the invariants count.               *)
LEMMA CallbackEffect ==
  ASSUME IInv, NEW d \in Datum, SlidingCallback(d) \/ ReduceCallback(d)
  PROVE  /\ task' = task /\ task # "partition" /\ seen' = Append(seen, d)
         /\ \E s \in Stored(d) : window' = Slide(window, s)
         /\ \/ /\ N + 1 < Window
               /\ sliding' = sliding /\ fired' = fired
            \/ /\ N + 1 >= Window /\ sliding + 1 < Period
               /\ sliding' = sliding + 1 /\ fired' = fired
            \/ /\ N + 1 >= Window /\ sliding + 1 >= Period
               /\ sliding' = 0 /\ fired' = fired \cup {N + 1}
<1> USE ConstantTypes
<1>1. window \in Seq(Datum) /\ seen \in Seq(Datum) /\ sliding \in Nat /\ task \in Task
  BY DEF IInv, TypeOK
<1>2. task # "partition" /\ task' = task /\ seen' = Append(seen, d) /\ Len(seen') = N + 1
  BY <1>1 DEF SlidingCallback, ReduceCallback, Receive, SlidingTask, N
<1>3. Len(window) = Least(N, Window) /\ N \in Nat
  BY <1>1, <1>2 DEF IInv, WindowHoldsLast, N
<1>4. CASE SlidingCallback(d)
  <2>1. PICK s \in Stored(d) : window' = Slide(window, s)
    BY <1>4 DEF SlidingCallback
  <2>2. Len(window') = Least(N + 1, Window)
    BY <1>1, <1>3, <2>1, SlideLast, StoredDatum DEF Least
  <2>3. Period = Step
    BY <1>4 DEF SlidingCallback, SlidingTask, Period
  <2> QED
    BY <1>1, <1>2, <1>3, <1>4, <2>1, <2>2, <2>3
       DEF SlidingCallback, Least, Silent, Fire
<1>5. CASE ReduceCallback(d)
  <2>1. window' = Slide(window, d) /\ d \in Stored(d)
    BY <1>5, ReduceSlides DEF Stored, ReduceCallback
  <2>2. Len(Append(window, d)) = Len(window) + 1
    BY <1>1
  <2>3. Period = Step + 1
    BY <1>5 DEF ReduceCallback, Period
  <2>4. Len(Append(window, d)) < Window <=> N + 1 < Window
    BY <1>3, <2>2 DEF Least
  <2> QED
    BY <1>1, <1>2, <1>3, <1>5, <2>1, <2>3, <2>4
       DEF ReduceCallback, Silent, Fire
<1> QED
  BY <1>4, <1>5
-------------------------------------------------------------------------------
(* The other steps leave alone what the invariant speaks of: the window of  *)
(* Query6_Avg is in its partitions.                                         *)
LEMMA OtherStep ==
  ASSUME IInv, [Next]_vars,
         ~ \E d \in Datum : SlidingCallback(d) \/ ReduceCallback(d)
  PROVE  /\ task' = task
         /\ \/ task = "partition"
            \/ UNCHANGED <<window, sliding, seen, fired>>
<1>1. CASE \E d \in Datum : PartitionCallback(d)
  BY <1>1 DEF PartitionCallback, Receive
<1>2. CASE Flush \/ Ended \/ UNCHANGED vars
  BY <1>2 DEF Flush, Ended, vars
<1> QED
  BY <1>1, <1>2 DEF Next, Callback

(* Groups keep their type: counts stay in their width.                      *)
LEMMA GroupsTyped ==
  ASSUME NEW d \in Datum,
         NEW g \in Seq(Group)
  PROVE  /\ Subtract(g, d) \in Seq(Group)
         /\ Add(g, d) \in Seq(Group)
<1> USE ConstantTypes
<1>1. d.key \in Key /\ d.value \in Int
  BY DEF Datum
<1>2. \A c \in 0 .. CountMod - 1 : (c - 1) % CountMod \in 0 .. CountMod - 1
                                 /\ (c + 1) % CountMod \in 0 .. CountMod - 1
  OBVIOUS
<1>3. ASSUME NEW i \in 1 .. Len(g)
      PROVE  /\ g[i] \in Group
             /\ [g[i] EXCEPT !.count = (@ - 1) % CountMod, !.total = @ - d.value] \in Group
             /\ [g[i] EXCEPT !.count = (@ + 1) % CountMod, !.total = @ + d.value] \in Group
  <2>1. g[i] \in Group
    OBVIOUS
  <2>2. g[i].count \in 0 .. CountMod - 1 /\ g[i].total \in Int
    BY <2>1 DEF Group
  <2>3. g[i].total - d.value \in Int /\ g[i].total + d.value \in Int
    BY <1>1, <2>2
  <2> QED
    BY <1>2, <2>1, <2>2, <2>3 DEF Group
<1>4. [key |-> d.key, count |-> 1, total |-> d.value] \in Group
  BY <1>1 DEF Group
<1>5. Subtract(g, d) \in [1 .. Len(g) -> Group]
  BY <1>3 DEF Subtract
<1>6. Add(g, d) \in [1 .. Len(g) -> Group] \/ Add(g, d) \in Seq(Group)
  <2>1. CASE \E i \in 1 .. Len(g) : g[i].key = d.key
    BY <1>3, <2>1 DEF Add
  <2>2. CASE ~ \E i \in 1 .. Len(g) : g[i].key = d.key
    BY <1>4, <2>2 DEF Add
  <2> QED
    BY <2>1, <2>2
<1> QED
  BY <1>5, <1>6, SeqDef

(* Every step keeps the types.                                              *)
LEMMA StepTypeOK == IInv /\ [Next]_vars => TypeOK'
<1>0. SUFFICES ASSUME IInv, [Next]_vars PROVE TypeOK'
  OBVIOUS
<1> USE ConstantTypes
<1>t. TypeOK
  BY <1>0 DEF IInv
<1>n. N \in Nat
  BY <1>t DEF TypeOK, N
<1>1. ASSUME NEW d \in Datum, SlidingCallback(d) \/ ReduceCallback(d)
      PROVE  TypeOK'
  <2>0. task \in Task /\ sliding \in Nat /\ fired \subseteq Nat /\ seen \in Seq(Datum)
    BY <1>t DEF TypeOK
  <2>1. /\ task' = task /\ seen' \in Seq(Datum)
        /\ sliding' \in Nat /\ fired' \subseteq Nat
    <3>1. task' = task /\ seen' = Append(seen, d)
      BY <1>0, <1>1, CallbackEffect
    <3>2. sliding' \in {sliding, sliding + 1, 0} /\ fired' \in {fired, fired \cup {N + 1}}
      BY <1>0, <1>1, CallbackEffect
    <3> QED
      BY <1>n, <2>0, <3>1, <3>2
  <2>2. window' \in Seq(Datum)
    <3>1. PICK s \in Stored(d) : window' = Slide(window, s)
      BY <1>0, <1>1, CallbackEffect
    <3>2. Len(window) <= Window
      BY <1>0, <1>n, <1>1, CallbackEffect DEF IInv, WindowHoldsLast, Least
    <3> QED
      BY <1>t, <3>1, <3>2, SlideLast, StoredDatum DEF TypeOK
  <2>3. partition' = partition /\ ended' = ended
    BY <1>1 DEF SlidingCallback, ReduceCallback, Receive
  <2>4. group' \in Seq(Group)
    <3>1. group \in Seq(Group)
      BY <1>t DEF TypeOK
    <3>2. Subtract(group, Head(Append(window, d))) \in Seq(Group)
      <4>1. Head(Append(window, d)) \in Datum
        BY <1>t DEF TypeOK
      <4> QED
        BY <3>1, <4>1, GroupsTyped
    <3> QED
      BY <1>1, <3>1, <3>2, GroupsTyped DEF SlidingCallback, ReduceCallback
  <2> QED
    BY <1>t, <2>0, <2>1, <2>2, <2>3, <2>4 DEF TypeOK
<1>2. ASSUME NEW d \in Datum, PartitionCallback(d)
      PROVE  TypeOK'
  <2>1. UNCHANGED <<task, window, sliding, group, ended>> /\ seen' \in Seq(Datum)
    BY <1>t, <1>2 DEF PartitionCallback, Receive, TypeOK
  <2>2. fired' \subseteq Nat
    <3>1. fired \subseteq Nat /\ Len(seen') \in Nat
      BY <1>t, <2>1 DEF TypeOK
    <3>2. Silent \/ \E results : Fire(results)
      BY <1>2 DEF PartitionCallback
    <3> QED
      BY <3>1, <3>2 DEF Silent, Fire
  <2>3. DOMAIN partition' = DOMAIN partition \cup {d.key} /\ d.key \in Key
    BY <1>2 DEF PartitionCallback, Put, Datum
  <2>4. Slide(PartitionOf(d.key), d.value) \in Seq(Value)
    <3>1. PartitionOf(d.key) \in Seq(Value) /\ d.value \in Value
      BY <1>t DEF PartitionOf, TypeOK, Datum
    <3>2. Append(PartitionOf(d.key), d.value) \in Seq(Value)
      BY <3>1
    <3>3. CASE Len(PartitionOf(d.key)) >= Window
      BY <3>1, <3>3 DEF Slide
    <3> QED
      BY <3>1, <3>2, <3>3 DEF Slide
  <2>5. \A k \in DOMAIN partition' : partition'[k] \in Seq(Value)
    BY <1>t, <1>2, <2>3, <2>4 DEF PartitionCallback, Put, TypeOK
  <2> QED
    BY <1>t, <2>1, <2>2, <2>3, <2>5 DEF TypeOK
<1>3. CASE Flush \/ Ended \/ UNCHANGED vars
  BY <1>t, <1>3 DEF Flush, Ended, vars, TypeOK
<1> QED
  BY <1>0, <1>1, <1>2, <1>3 DEF Next, Callback

(* The window stays the end of the stream.                                  *)
LEMMA StepWindow == IInv /\ [Next]_vars => WindowHoldsLast'
<1>0. SUFFICES ASSUME IInv, [Next]_vars PROVE WindowHoldsLast'
  OBVIOUS
<1> USE ConstantTypes
<1>t. window \in Seq(Datum) /\ seen \in Seq(Datum) /\ N \in Nat
  BY <1>0 DEF IInv, TypeOK, N
<1>1. ASSUME NEW d \in Datum, SlidingCallback(d) \/ ReduceCallback(d)
      PROVE  WindowHoldsLast'
  <2>1. /\ task' = task /\ task # "partition" /\ seen' = Append(seen, d)
        /\ N' = N + 1
    BY <1>0, <1>t, <1>1, CallbackEffect DEF N
  <2>2. PICK s \in Stored(d) : window' = Slide(window, s)
    BY <1>0, <1>1, CallbackEffect
  <2>3. s \in Datum /\ s.key = d.key /\ (task # "batch" => s = d)
    BY <2>2, StoredDatum
  <2>4. /\ Len(window) = Least(N, Window)
        /\ \A i \in 1 .. Len(window) :
             LET e == seen[N - Len(window) + i] IN
             IF task = "batch" THEN window[i].key = e.key ELSE window[i] = e
    BY <1>0, <2>1 DEF IInv, WindowHoldsLast
  <2>5. Len(window) <= Window
    BY <1>t, <2>4 DEF Least
  <2>6. /\ Len(window') = Least(Len(window) + 1, Window)
        /\ window'[Len(window')] = s
        /\ \A i \in 1 .. Len(window') - 1 :
             window'[i] = window[Len(window) - Len(window') + 1 + i]
    <3>1. /\ Len(Slide(window, s)) = Least(Len(window) + 1, Window)
          /\ Slide(window, s)[Len(Slide(window, s))] = s
          /\ \A i \in 1 .. Len(Slide(window, s)) - 1 :
               Slide(window, s)[i] = window[Len(window) - Len(Slide(window, s)) + 1 + i]
      BY <1>t, <2>3, <2>5, SlideLast
    <3> QED
      BY <2>2, <3>1
  <2>7. Len(window') = Least(N + 1, Window) /\ Len(window') \in Nat /\ Len(window') > 0
    BY <1>t, <2>4, <2>6 DEF Least
  <2>8. /\ \A i \in 1 .. N : seen'[i] = seen[i]
        /\ seen'[N + 1] = d
    BY <1>t, <2>1 DEF N
  <2>9. ASSUME NEW i \in 1 .. Len(window')
        PROVE  LET e == seen'[N + 1 - Len(window') + i] IN
               IF task = "batch" THEN window'[i].key = e.key ELSE window'[i] = e
    <3>1. CASE i = Len(window')
      BY <1>t, <2>3, <2>6, <2>7, <2>8, <3>1
    <3>2. CASE i < Len(window')
      <4> DEFINE j == Len(window) - Len(window') + 1 + i
      <4>1. j \in 1 .. Len(window) /\ N - Len(window) + j = N + 1 - Len(window') + i
        BY <1>t, <2>4, <2>5, <2>6, <2>7, <3>2 DEF Least
      <4>2. N - Len(window) + j \in 1 .. N
        BY <1>t, <2>4, <4>1 DEF Least
      <4>3. window'[i] = window[j]
        BY <2>6, <2>7, <3>2
      <4> HIDE DEF j
      <4> QED
        BY <2>4, <2>8, <4>1, <4>2, <4>3
    <3> QED
      BY <2>7, <3>1, <3>2
  <2> QED
    <3>1. (Len(window) = Least(N, Window))'
      BY <2>1, <2>7 DEF Least
    <3>2. \A i \in 1 .. Len(window') :
            IF task' = "batch" THEN window'[i].key = seen'[N' - Len(window') + i].key
                               ELSE window'[i] = seen'[N' - Len(window') + i]
      <4>1. SUFFICES ASSUME NEW i \in 1 .. Len(window')
                     PROVE  IF task = "batch"
                            THEN window'[i].key = seen'[N' - Len(window') + i].key
                            ELSE window'[i] = seen'[N' - Len(window') + i]
        BY <2>1
      <4>2. N' - Len(window') + i = N + 1 - Len(window') + i
        BY <1>t, <2>1, <2>7
      <4> QED
        BY <2>9, <4>1, <4>2
    <3> QED
      BY <3>1, <3>2 DEF WindowHoldsLast
<1>2. ASSUME ~ \E d \in Datum : SlidingCallback(d) \/ ReduceCallback(d)
      PROVE  WindowHoldsLast'
  <2>1. /\ task' = task
        /\ task = "partition" \/ UNCHANGED <<window, sliding, seen, fired>>
    BY <1>0, <1>2, OtherStep
  <2> QED
    BY <1>0, <2>1 DEF IInv, WindowHoldsLast, N
<1> QED
  BY <1>1, <1>2

(* The counter, the schedule and the coverage, from the arithmetic of a     *)
(* callback's effect.                                                       *)
LEMMA StepSchedule == IInv /\ [Next]_vars => (StepCounter /\ OnSchedule /\ NothingSkipped)'
<1>0. SUFFICES ASSUME IInv, [Next]_vars PROVE (StepCounter /\ OnSchedule /\ NothingSkipped)'
  OBVIOUS
<1> USE ConstantTypes
<1>t. seen \in Seq(Datum) /\ N \in Nat /\ sliding \in Nat /\ fired \subseteq Nat /\ task \in Task
  BY <1>0 DEF IInv, TypeOK, N
<1>1. ASSUME NEW d \in Datum, SlidingCallback(d) \/ ReduceCallback(d)
      PROVE  (StepCounter /\ OnSchedule /\ NothingSkipped)'
  <2>1. task' = task /\ task # "partition" /\ N' = N + 1
    BY <1>0, <1>t, <1>1, CallbackEffect DEF N
  <2>2. First' = First /\ Period' = Period
    BY <2>1 DEF First, Period
  <2>3. First \in Nat /\ Period \in Nat /\ Period > 0 /\ First >= Window
        /\ (task # "reduce" => First = Window /\ Period = Step)
        /\ (task = "reduce" => First = Window + Step /\ Period = Step + 1)
    BY DEF First, Period
  <2>4. \/ /\ N + 1 < Window
           /\ sliding' = sliding /\ fired' = fired
        \/ /\ N + 1 >= Window /\ sliding + 1 < Period
           /\ sliding' = sliding + 1 /\ fired' = fired
        \/ /\ N + 1 >= Window /\ sliding + 1 >= Period
           /\ sliding' = 0 /\ fired' = fired \cup {N + 1}
    BY <1>0, <1>1, CallbackEffect
  <2>5. /\ N < Window => sliding = IF task = "reduce" THEN 0 ELSE Step
        /\ N >= Window /\ N < First => sliding = N - Window + 1
        /\ N >= First => /\ sliding < Period
                         /\ N - sliding \in fired
                         /\ \A n \in fired : n <= N - sliding
    BY <1>0, <2>1 DEF IInv, StepCounter
  <2>6. /\ fired \subseteq First .. N
        /\ N >= First => First \in fired
        /\ \A n \in fired : /\ \A m \in fired : m <= n \/ m >= n + Period
                            /\ n + Period <= N => n + Period \in fired
    BY <1>0, <2>1 DEF IInv, OnSchedule
  <2>7. StepCounter'
    <3>1. N + 1 < Window => sliding' = IF task = "reduce" THEN 0 ELSE Step
      BY <1>t, <2>4, <2>5
    <3>2. N + 1 >= Window /\ N + 1 < First => sliding' = N + 1 - Window + 1
      BY <1>t, <2>3, <2>4, <2>5
    <3>3. ASSUME N + 1 >= First
          PROVE  /\ sliding' < Period
                 /\ N + 1 - sliding' \in fired'
                 /\ \A n \in fired' : n <= N + 1 - sliding'
      <4>1. CASE fired' = fired /\ sliding' = sliding + 1 /\ sliding + 1 < Period
        <5>1. N >= First
          BY <1>t, <2>3, <2>5, <3>3, <4>1
        <5> QED
          BY <1>t, <2>5, <4>1, <5>1
      <4>2. CASE sliding' = 0 /\ fired' = fired \cup {N + 1}
        BY <1>t, <2>3, <2>6, <4>2
      <4> QED
        BY <1>t, <2>3, <2>4, <3>3, <4>1, <4>2
    <3> QED
      <4>1. (N < Window => sliding = IF task = "reduce" THEN 0 ELSE Step)'
        BY <2>1, <3>1
      <4>2. (N >= Window /\ N < First => sliding = N - Window + 1)'
        BY <1>t, <2>1, <2>2, <2>3, <3>2
      <4>3. (N >= First => /\ sliding < Period
                           /\ N - sliding \in fired
                           /\ \A n \in fired : n <= N - sliding)'
        <5>1. sliding' \in {sliding, sliding + 1, 0} /\ fired' \in {fired, fired \cup {N + 1}}
          BY <2>4
        <5>2. sliding' \in Nat /\ \A n \in fired' : n \in Nat
          BY <1>t, <5>1
        <5>3. SUFFICES ASSUME N' >= First' PROVE (/\ sliding < Period
                                                  /\ N - sliding \in fired
                                                  /\ \A n \in fired : n <= N - sliding)'
          OBVIOUS
        <5>4. N + 1 >= First
          BY <2>1, <2>2, <5>3
        <5>5. sliding' < Period' /\ N' - sliding' \in fired'
          BY <1>t, <2>1, <2>2, <2>3, <3>3, <5>2, <5>4
        <5>6. ASSUME NEW n \in fired' PROVE n <= N' - sliding'
          BY <1>t, <2>1, <3>3, <5>2, <5>4
        <5> QED
          BY <5>5, <5>6
      <4> QED
        BY <4>1, <4>2, <4>3 DEF StepCounter
  <2>8. OnSchedule'
    <3>1. CASE fired' = fired
      <4>1. \A n \in fired : n + Period <= N + 1 => n + Period \in fired
        <5>1. SUFFICES ASSUME NEW n \in fired, n + Period = N + 1 PROVE FALSE
          BY <1>t, <2>3, <2>6
        <5>2. N >= First
          BY <1>t, <2>3, <2>6, <5>1
        <5>3. n <= N - sliding
          BY <2>5, <5>1, <5>2
        <5> QED
          BY <1>t, <2>3, <2>4, <3>1, <5>1, <5>2, <5>3, <2>5, <2>6
      <4>2. N + 1 >= First => First \in fired
        <5>1. SUFFICES ASSUME N + 1 = First, fired' = fired PROVE FALSE
          BY <1>t, <2>3, <2>6, <3>1
        <5> QED
          BY <1>t, <2>3, <2>4, <2>5, <2>6, <5>1
      <4>3. fired \subseteq First .. N + 1
        BY <1>t, <2>3, <2>6
      <4> QED
        BY <2>1, <2>2, <2>6, <3>1, <4>1, <4>2, <4>3 DEF OnSchedule
    <3>2. CASE N + 1 >= Window /\ sliding + 1 >= Period /\ fired' = fired \cup {N + 1}
      <4>1. N + 1 >= First
        BY <1>t, <2>3, <2>5, <3>2
      <4>2. N + 1 > First => N >= First /\ sliding + 1 = Period
        BY <1>t, <2>3, <2>5, <3>2
      <4>3. fired' \subseteq First .. N + 1
        BY <1>t, <2>3, <2>6, <3>2, <4>1
      <4>4. First \in fired'
        BY <1>t, <2>3, <2>6, <3>2, <4>1
      <4>5. \A n \in fired : n + Period <= N + 1
        BY <1>t, <2>3, <2>5, <2>6, <4>2
      <4>6. \A n \in fired' : /\ \A m \in fired' : m <= n \/ m >= n + Period
                              /\ n + Period <= N + 1 => n + Period \in fired'
        BY <1>t, <2>3, <2>6, <3>2, <4>5
      <4> QED
        BY <2>1, <2>2, <4>3, <4>4, <4>6 DEF OnSchedule
    <3> QED
      BY <2>4, <3>1, <3>2
  <2>9. NothingSkipped'
    <3>1. SUFFICES ASSUME task \in SlidingTask, Step <= Window, NEW i \in 1 .. N + 1 - Window
                   PROVE  \E n \in fired' : i \in n - Window + 1 .. n
      BY <1>t, <2>1 DEF NothingSkipped, SlidingTask
    <3>2. fired \subseteq fired'
      BY <2>4
    <3>3. CASE i <= N - Window
      <4>1. i \in 1 .. N - Window
        BY <1>t, <3>1, <3>3
      <4>2. PICK n \in fired : i \in n - Window + 1 .. n
        BY <1>0, <3>1, <4>1 DEF IInv, NothingSkipped
      <4> QED
        BY <3>2, <4>2
    <3>4. CASE i = N + 1 - Window
      <4>1. First = Window /\ Period = Step /\ N >= First
        BY <1>t, <2>3, <3>1, <3>4 DEF SlidingTask
      <4>2. N - sliding \in fired' /\ i \in (N - sliding) - Window + 1 .. N - sliding
        BY <1>t, <2>5, <3>1, <3>2, <3>4, <4>1
      <4> QED
        BY <4>2
    <3> QED
      BY <1>t, <3>1, <3>3, <3>4
  <2> QED
    BY <2>7, <2>8, <2>9
<1>2. ASSUME ~ \E d \in Datum : SlidingCallback(d) \/ ReduceCallback(d)
      PROVE  (StepCounter /\ OnSchedule /\ NothingSkipped)'
  <2>1. /\ task' = task
        /\ task = "partition" \/ UNCHANGED <<window, sliding, seen, fired>>
    BY <1>0, <1>2, OtherStep
  <2>2. First' = First /\ Period' = Period
    BY <2>1 DEF First, Period
  <2> QED
    BY <1>0, <2>1, <2>2
       DEF IInv, StepCounter, OnSchedule, NothingSkipped, N, SlidingTask
<1> QED
  BY <1>1, <1>2
-------------------------------------------------------------------------------
(* The inductive invariant, for every window, step and length of stream.    *)
THEOREM Invariance == Spec => []IInv
<1>1. Init => IInv
  BY InitIInv
<1>2. IInv /\ [Next]_vars => IInv'
  BY StepTypeOK, StepWindow, StepSchedule DEF IInv
<1> QED
  BY <1>1, <1>2, PTL DEF Spec

(* Windows, groups and partitions keep their types; counts stay in range.   *)
THEOREM TypeCorrect == Spec => []TypeOK
<1>1. IInv => TypeOK
  BY DEF IInv
<1> QED
  BY <1>1, Invariance, PTL

(* A window is the end of the stream.                                       *)
THEOREM WindowIsEndOfStream == Spec => []WindowHoldsLast
<1>1. IInv => WindowHoldsLast
  BY DEF IInv
<1> QED
  BY <1>1, Invariance, PTL

(* Results come after Window data (ReduceFlight: Step later) and then after *)
(* each Step (ReduceFlight: each Step + 1).                                 *)
THEOREM ResultsOnSchedule == Spec => []OnSchedule
<1>1. IInv => OnSchedule
  BY DEF IInv
<1> QED
  BY <1>1, Invariance, PTL

(* A step no longer than the window leaves no datum out of every result.    *)
THEOREM EveryDatumUsed == Spec => []NothingSkipped
<1>1. IInv => NothingSkipped
  BY DEF IInv
<1> QED
  BY <1>1, Invariance, PTL
-------------------------------------------------------------------------------
(* The groups of ReduceFlight as a map: one group for each key, and its     *)
(* count.                                                                   *)
Represents(g, keys, count) ==
  /\ {g[i].key : i \in 1 .. Len(g)} = keys
  /\ \A i \in 1 .. Len(g) : /\ \A j \in 1 .. Len(g) : g[j].key = g[i].key => j = i
                            /\ g[i].count = count[g[i].key]

GroupKeys == {seen[n].key : n \in Window .. N}

CountOf(k) == (Cardinality(Counted(k)) - Cardinality(Subtracted(k))) % CountMod

(* What a map says of each group of the table it represents.                *)
LEMMA GroupOfTable ==
  ASSUME NEW g \in Seq(Group), NEW keys, NEW f, Represents(g, keys, f),
         NEW i \in 1 .. Len(g)
  PROVE  g[i] \in Group /\ g[i].key \in Key /\ g[i].count = f[g[i].key] /\ g[i].key \in keys
<1>1. g[i] \in Group
  OBVIOUS
<1>2. g[i].key \in Key
  BY <1>1 DEF Group
<1>3. g[i].count = f[g[i].key] /\ g[i].key \in keys
  BY DEF Represents
<1> QED
  BY <1>1, <1>2, <1>3

(* Subtract takes one from the count of the key of a datum.                 *)
LEMMA SubtractCounts ==
  ASSUME NEW g \in Seq(Group), NEW h \in Datum, NEW keys \in SUBSET Key, NEW f,
         Represents(g, keys, f)
  PROVE  Represents(Subtract(g, h), keys,
                    [k \in Key |-> IF k = h.key THEN (f[k] - 1) % CountMod ELSE f[k]])
<1> DEFINE s == Subtract(g, h)
           c == [k \in Key |-> IF k = h.key THEN (f[k] - 1) % CountMod ELSE f[k]]
<1>1. Len(s) = Len(g)
  <2>1. s = [i \in 1 .. Len(g) |-> IF g[i].key # h.key THEN g[i]
             ELSE [g[i] EXCEPT !.count = (@ - 1) % CountMod, !.total = @ - h.value]]
    BY DEF Subtract
  <2>2. Len(g) \in Nat
    OBVIOUS
  <2> HIDE DEF s
  <2>3. DOMAIN s = 1 .. Len(g) /\ s \in Seq(Group)
    BY <2>1, GroupsTyped DEF s
  <2> QED
    BY <2>2, <2>3
<1>2. ASSUME NEW i \in 1 .. Len(g)
      PROVE  /\ s[i].key = g[i].key
             /\ s[i].count = c[g[i].key]
  <2>1. s[i] = IF g[i].key # h.key THEN g[i]
               ELSE [g[i] EXCEPT !.count = (@ - 1) % CountMod, !.total = @ - h.value]
    BY DEF Subtract
  <2> HIDE DEF s
  <2>2. g[i] \in Group /\ g[i].key \in Key /\ g[i].count = f[g[i].key]
    BY GroupOfTable
  <2>3. CASE g[i].key # h.key
    BY <2>1, <2>2, <2>3
  <2>4. CASE g[i].key = h.key
    <3>1. s[i].key = g[i].key /\ s[i].count = (g[i].count - 1) % CountMod
      BY <2>1, <2>2, <2>4 DEF Group
    <3> QED
      BY <2>2, <2>4, <3>1
  <2> QED
    BY <2>3, <2>4
<1> HIDE DEF s, c
<1>3. {s[i].key : i \in 1 .. Len(s)} = {g[i].key : i \in 1 .. Len(g)}
  BY <1>1, <1>2
<1>4. Represents(s, keys, c)
  BY <1>1, <1>2, <1>3 DEF Represents
<1> QED
  BY <1>4 DEF s, c

(* Add gives the key of a datum one more, or a first group.                 *)
LEMMA AddCounts ==
  ASSUME NEW g \in Seq(Group), NEW d \in Datum, NEW keys \in SUBSET Key, NEW f,
         Represents(g, keys, f)
  PROVE  Represents(Add(g, d), keys \cup {d.key},
                    [k \in Key |-> IF k # d.key THEN f[k]
                                   ELSE IF k \in keys THEN (f[k] + 1) % CountMod ELSE 1])
<1> DEFINE a == Add(g, d)
           c == [k \in Key |-> IF k # d.key THEN f[k]
                                ELSE IF k \in keys THEN (f[k] + 1) % CountMod ELSE 1]
           r == [key |-> d.key, count |-> 1, total |-> d.value]
<1>0. d.key \in Key /\ (d.key \in keys <=> \E i \in 1 .. Len(g) : g[i].key = d.key)
  <2> HIDE DEF a, c, r
  <2>1. d.key \in Key
    BY DEF Datum
  <2>2. keys = {g[i].key : i \in 1 .. Len(g)}
    BY DEF Represents
  <2> QED
    BY <2>1, <2>2
<1>1. ASSUME NEW i \in 1 .. Len(g)
      PROVE  g[i] \in Group /\ g[i].key \in Key /\ g[i].count = f[g[i].key] /\ g[i].key \in keys
  BY GroupOfTable
<1>2. CASE d.key \in keys
  <2>1. a = [i \in 1 .. Len(g) |-> IF g[i].key # d.key THEN g[i]
             ELSE [g[i] EXCEPT !.count = (@ + 1) % CountMod, !.total = @ + d.value]]
    BY <1>0, <1>2 DEF Add
  <2>2. Len(a) = Len(g)
    <3>1. a \in Seq(Group)
      BY GroupsTyped
    <3> HIDE DEF a, c, r
    <3>2. DOMAIN a = 1 .. Len(g)
      BY <2>1, Zenon
    <3>3. Len(a) \in Nat /\ DOMAIN a = 1 .. Len(a)
      BY <3>1
    <3> QED
      BY <3>2, <3>3
  <2> HIDE DEF a
  <2>3. ASSUME NEW i \in 1 .. Len(g)
        PROVE  a[i].key = g[i].key /\ a[i].count = c[g[i].key]
    <3>1. CASE g[i].key # d.key
      BY <1>1, <2>1, <3>1
    <3>2. CASE g[i].key = d.key
      <4>1. a[i].key = g[i].key /\ a[i].count = (g[i].count + 1) % CountMod
        BY <1>1, <2>1, <3>2 DEF Group
      <4> QED
        BY <1>0, <1>1, <1>2, <3>2, <4>1
    <3> QED
      BY <3>1, <3>2
  <2> HIDE DEF c
  <2>4. {a[i].key : i \in 1 .. Len(a)} = {g[i].key : i \in 1 .. Len(g)}
    BY <2>2, <2>3
  <2>5. keys \cup {d.key} = keys
    BY <1>2
  <2>6. Represents(a, keys, c)
    BY <2>2, <2>3, <2>4 DEF Represents
  <2> QED
    BY <2>5, <2>6 DEF a, c
<1>3. CASE d.key \notin keys
  <2>1. a = Append(g, r)
    BY <1>0, <1>3 DEF Add
  <2>2. r.key = d.key /\ r.count = 1
    OBVIOUS
  <2> HIDE DEF a, r
  <2>3. /\ Len(a) = Len(g) + 1 /\ Len(g) \in Nat
        /\ \A i \in 1 .. Len(g) : a[i] = g[i]
        /\ a[Len(g) + 1] = r
    BY <2>1
  <2>4. ASSUME NEW i \in 1 .. Len(a)
        PROVE  a[i].count = c[a[i].key]
    <3>1. CASE i \in 1 .. Len(g)
      <4>1. a[i] = g[i] /\ g[i].key # d.key /\ g[i].key \in Key
        BY <1>1, <1>3, <2>3, <3>1
      <4> QED
        BY <1>1, <3>1, <4>1
    <3>2. CASE i = Len(g) + 1
      <4>1. a[i].key = d.key /\ a[i].count = 1
        BY <2>2, <2>3, <3>2
      <4> QED
        BY <1>0, <1>3, <4>1
    <3> QED
      BY <2>3, <3>1, <3>2
  <2> HIDE DEF c
  <2>5. {a[i].key : i \in 1 .. Len(a)} = keys \cup {d.key}
    <3>1. keys = {g[i].key : i \in 1 .. Len(g)}
      BY DEF Represents
    <3> QED
      BY <2>2, <2>3, <3>1
  <2>6. \A i, j \in 1 .. Len(a) : a[j].key = a[i].key => j = i
    <3>1. \A i, j \in 1 .. Len(g) : g[j].key = g[i].key => j = i
      BY DEF Represents
    <3>2. \A i \in 1 .. Len(g) : a[i].key = g[i].key /\ a[i].key # d.key
      BY <1>1, <1>3, <2>3
    <3>3. a[Len(g) + 1].key = d.key /\ 1 .. Len(a) = (1 .. Len(g)) \cup {Len(g) + 1}
      BY <2>2, <2>3
    <3> QED
      BY <3>1, <3>2, <3>3
  <2>7. Represents(a, keys \cup {d.key}, c)
    BY <2>4, <2>5, <2>6 DEF Represents
  <2> QED
    BY <2>7 DEF a, c
<1> QED
  BY <1>2, <1>3
-------------------------------------------------------------------------------
(* The stream with one more datum.                                          *)
LEMMA SeenNext ==
  ASSUME seen \in Seq(Datum), NEW d \in Datum, seen' = Append(seen, d)
  PROVE  /\ N \in Nat /\ N' = N + 1
         /\ \A n \in 1 .. N : seen'[n] = seen[n] /\ seen[n] \in Datum
         /\ seen'[N + 1] = d
BY DEF N

(* What is counted of a key, and what is subtracted without having been     *)
(* counted, are finite sets of positions, and empty before its first group. *)
LEMMA CountsFinite ==
  ASSUME seen \in Seq(Datum), NEW k \in Key
  PROVE  /\ IsFiniteSet(Counted(k)) /\ Cardinality(Counted(k)) \in Nat
         /\ IsFiniteSet(Subtracted(k)) /\ Cardinality(Subtracted(k)) \in Nat
         /\ k \notin GroupKeys => Counted(k) = {} /\ Subtracted(k) = {}
<1> USE ConstantTypes
<1>1. N \in Nat
  BY DEF N
<1>2. IsFiniteSet(Window .. N) /\ IsFiniteSet(1 .. Window - 1)
  BY <1>1, FS_Interval
<1>3. Counted(k) \in SUBSET (Window .. N) /\ Subtracted(k) \in SUBSET (1 .. Window - 1)
  BY DEF Counted, Subtracted
<1>4. IsFiniteSet(Counted(k)) /\ IsFiniteSet(Subtracted(k))
  BY <1>2, <1>3, FS_Subset
<1>5. ASSUME k \notin GroupKeys PROVE Counted(k) = {} /\ Subtracted(k) = {}
  <2>1. \A c \in Window .. N : seen[c].key # k
    BY <1>5 DEF GroupKeys
  <2>2. Counted(k) = {}
    BY <2>1 DEF Counted
  <2>3. ASSUME NEW n \in Subtracted(k) PROVE FALSE
    <3>1. n \in 1 .. Window - 1 /\ n + Window <= N
          /\ \E c \in Window .. n + Window - 1 : seen[c].key = k
      BY DEF Subtracted
    <3>2. PICK c \in Window .. n + Window - 1 : seen[c].key = k
      BY <3>1
    <3>3. c \in Window .. N
      BY <1>1, <3>1
    <3> QED
      BY <2>1, <3>2, <3>3
  <2> QED
    BY <2>2, <2>3
<1> QED
  BY <1>4, <1>5, FS_CardinalityType

(* The datum that leaves a full window takes one from its group, if there   *)
(* is one: from what was counted, or by what has not been.                  *)
Leaves(k) ==
  /\ N >= Window
  /\ seen[N + 1 - Window].key = k
  /\ k \in GroupKeys

(* What is counted of a key after one more datum.                           *)
LEMMA CountedMoves ==
  ASSUME seen \in Seq(Datum), NEW d \in Datum, seen' = Append(seen, d), N + 1 >= Window,
         NEW k \in Key
  PROVE  Counted(k)' = (Counted(k) \ {N + 1 - Window}) \cup IF d.key = k THEN {N + 1} ELSE {}
<1> USE ConstantTypes
<1> DEFINE e == N + 1 - Window
<1>n. /\ N \in Nat /\ N' = N + 1
      /\ \A n \in 1 .. N : seen'[n] = seen[n] /\ seen[n] \in Datum
      /\ seen'[N + 1] = d
  BY SeenNext
<1> HIDE DEF e
<1>e. e = N + 1 - Window /\ e \in Nat
  BY <1>n DEF e
<1>0. N \in Nat /\ N + 1 \in Window .. N + 1
  BY <1>n
<1>1. Counted(k)' = {n \in Window .. N' : seen'[n].key = k /\ n > N' - Window}
  BY DEF Counted
<1>2. ASSUME NEW n
      PROVE  n \in Counted(k)' <=> n \in (Counted(k) \ {e}) \cup IF d.key = k THEN {N + 1} ELSE {}
  <2>1. CASE n = N + 1
    <3>a. n \notin Window .. N /\ n # e
      BY <1>0, <1>e, <2>1
    <3>1. n \notin Counted(k) /\ n # e
      BY <3>a DEF Counted
    <3>b. seen'[n] = d /\ N' = n
      BY <1>n, <2>1, Zenon
    <3>c. n \in Window .. n /\ n > n - Window
      BY <1>0, <2>1
    <3>2. n \in Window .. N' /\ n > N' - Window /\ seen'[n] = d
      BY <3>b, <3>c, Zenon
    <3>3. n \in Counted(k)' <=> d.key = k
      BY <1>1, <3>2
    <3> QED
      BY <2>1, <3>1, <3>3
  <2>2. CASE n \in Window .. N
    <3>1. n \in 1 .. N /\ n # N + 1 /\ n \in Window .. N'
      BY <1>0, <1>n, <2>2
    <3>a. seen'[n] = seen[n]
      BY <1>n, <3>1
    <3>b. n > N' - Window <=> n > e
      BY <1>n, <1>e
    <3>2. n \in Counted(k)' <=> seen[n].key = k /\ n > e
      BY <1>1, <3>1, <3>a, <3>b
    <3>3. n \in Counted(k) <=> seen[n].key = k /\ n > N - Window
      BY <2>2 DEF Counted
    <3>4. n > e <=> n > N - Window /\ n # e
      BY <1>0, <1>e, <2>2
    <3> QED
      BY <3>1, <3>2, <3>3, <3>4
  <2>3. CASE n \notin Window .. N + 1
    <3>1. n # N + 1 /\ n \notin Window .. N /\ n \notin Window .. N'
      BY <1>0, <1>n, <2>3
    <3> QED
      BY <1>1, <3>1 DEF Counted
  <2> QED
    BY <1>0, <2>1, <2>2, <2>3
<1> QED
  BY <1>2, <1>e

(* What is subtracted uncounted, after one more datum.                      *)
LEMMA SubtractedMoves ==
  ASSUME seen \in Seq(Datum), NEW d \in Datum, seen' = Append(seen, d), N + 1 >= Window,
         NEW k \in Key
  PROVE  Subtracted(k)' = Subtracted(k) \cup
           IF Leaves(k) /\ N + 1 - Window < Window THEN {N + 1 - Window} ELSE {}
<1> USE ConstantTypes
<1> DEFINE e == N + 1 - Window
<1>n. /\ N \in Nat /\ N' = N + 1
      /\ \A n \in 1 .. N : seen'[n] = seen[n] /\ seen[n] \in Datum
      /\ seen'[N + 1] = d
  BY SeenNext
<1> HIDE DEF e
<1>e. e = N + 1 - Window /\ e \in Nat
  BY <1>n DEF e
<1>0. /\ N \in Nat /\ N' = N + 1
      /\ \A n \in 1 .. N : seen'[n] = seen[n]
  BY <1>n
<1>1. Subtracted(k)' = {n \in 1 .. Window - 1 :
                          /\ seen'[n].key = k
                          /\ n + Window <= N + 1
                          /\ \E c \in Window .. n + Window - 1 : seen'[c].key = k}
  BY <1>0 DEF Subtracted
<1>2. ASSUME NEW n \in 1 .. Window - 1, n + Window <= N + 1
      PROVE  /\ seen'[n].key = seen[n].key
             /\ (\E c \in Window .. n + Window - 1 : seen'[c].key = k)
                  <=> (\E c \in Window .. n + Window - 1 : seen[c].key = k)
  <2>1. n \in 1 .. N /\ \A c \in Window .. n + Window - 1 : c \in 1 .. N
    BY <1>0, <1>2
  <2> QED
    BY <1>0, <2>1
<1>3. ASSUME NEW n
      PROVE  n \in Subtracted(k)' <=>
             n \in Subtracted(k) \cup IF Leaves(k) /\ e < Window THEN {e} ELSE {}
  <2>1. CASE n \in 1 .. Window - 1 /\ n + Window <= N
    <3>a. n + Window <= N + 1
      BY <1>0, <2>1
    <3>b. n \in Subtracted(k)' <=> /\ seen[n].key = k
                                  /\ \E c \in Window .. n + Window - 1 : seen[c].key = k
      BY <1>1, <1>2, <2>1, <3>a
    <3>1. n \in Subtracted(k)' <=> n \in Subtracted(k)
      BY <2>1, <3>b DEF Subtracted
    <3>2. n # e
      BY <1>0, <1>e, <2>1
    <3> QED
      BY <3>1, <3>2
  <2>2. CASE n \in 1 .. Window - 1 /\ n + Window = N + 1
    <3>1. n = e /\ e < Window /\ N >= Window /\ n + Window - 1 = N
      BY <1>0, <1>e, <2>2
    <3>2. n \notin Subtracted(k)
      BY <1>0, <2>2 DEF Subtracted
    <3>3. (\E c \in Window .. N : seen[c].key = k) <=> k \in GroupKeys
      BY DEF GroupKeys
    <3>a. n + Window <= N + 1
      BY <1>0, <2>2
    <3>b. n \in Subtracted(k)' <=> /\ seen[n].key = k
                                  /\ \E c \in Window .. n + Window - 1 : seen[c].key = k
      BY <1>1, <1>2, <2>2, <3>a
    <3>4. n \in Subtracted(k)' <=> seen[n].key = k /\ k \in GroupKeys
      BY <3>1, <3>3, <3>b
    <3> QED
      BY <1>e, <3>1, <3>2, <3>4 DEF Leaves
  <2>3. CASE ~ (n \in 1 .. Window - 1 /\ n + Window <= N + 1)
    <3>1. n \notin Subtracted(k)' /\ n \notin Subtracted(k)
      BY <1>0, <1>1, <2>3 DEF Subtracted
    <3>2. n = e /\ Leaves(k) => ~ (e < Window)
      BY <1>0, <1>e, <2>3 DEF Leaves
    <3> QED
      BY <3>1, <3>2
  <2> QED
    BY <1>0, <2>1, <2>2, <2>3
<1> QED
  BY <1>3, <1>e

(* So the two numbers of a key differ by one less when a datum of its group *)
(* leaves, and by one more when one comes.                                  *)
LEMMA CountsMove ==
  ASSUME seen \in Seq(Datum), NEW d \in Datum, seen' = Append(seen, d), N + 1 >= Window,
         NEW k \in Key
  PROVE  Cardinality(Counted(k)') - Cardinality(Subtracted(k)')
           = Cardinality(Counted(k)) - Cardinality(Subtracted(k))
             + (IF Leaves(k) THEN - 1 ELSE 0) + (IF d.key = k THEN 1 ELSE 0)
<1> USE ConstantTypes
<1> DEFINE e == N + 1 - Window
           left == Counted(k) \ {e}
           in == IF d.key = k THEN {N + 1} ELSE {}
           out == IF Leaves(k) /\ e < Window THEN {e} ELSE {}
<1>1. Counted(k)' = left \cup in
  BY CountedMoves
<1>2. Subtracted(k)' = Subtracted(k) \cup out
  BY SubtractedMoves
<1>3. /\ IsFiniteSet(Counted(k)) /\ Cardinality(Counted(k)) \in Nat
      /\ IsFiniteSet(Subtracted(k)) /\ Cardinality(Subtracted(k)) \in Nat
  BY CountsFinite
<1>4. N \in Nat /\ e \in Nat
  BY DEF N
<1>5. /\ IsFiniteSet(left)
      /\ Cardinality(left) = IF e \in Counted(k) THEN Cardinality(Counted(k)) - 1
                                                 ELSE Cardinality(Counted(k))
  <2> HIDE DEF e
  <2> QED
    BY <1>3, FS_RemoveElement
<1>6. N + 1 \notin left /\ e \notin Subtracted(k)
  <2>1. N + 1 \notin Counted(k)
    BY <1>4 DEF Counted
  <2>2. ~ (e + Window <= N)
    BY <1>4
  <2> HIDE DEF e
  <2>3. e \notin Subtracted(k)
    BY <2>2 DEF Subtracted
  <2> QED
    BY <2>1, <2>3
<1>7. e \in Counted(k) <=> Leaves(k) /\ e >= Window
  <2>1. e \in Counted(k) <=> e \in Window .. N /\ seen[e].key = k /\ e > N - Window
    BY DEF Counted
  <2>2. e \in Window .. N <=> e >= Window /\ N >= Window
    BY <1>4
  <2>3. e > N - Window
    BY <1>4
  <2>4. e \in Window .. N /\ seen[e].key = k => k \in GroupKeys
    BY DEF GroupKeys
  <2>5. Leaves(k) <=> N >= Window /\ seen[e].key = k /\ k \in GroupKeys
    BY DEF Leaves
  <2> HIDE DEF e
  <2> QED
    BY <2>1, <2>2, <2>3, <2>4, <2>5
<1> HIDE DEF e
<1>8. Cardinality(left \cup in) = Cardinality(left) + IF d.key = k THEN 1 ELSE 0
  <2> HIDE DEF left
  <2>1. Cardinality(left) \in Nat
    BY <1>5, FS_CardinalityType
  <2>2. Cardinality(left \cup {N + 1}) = Cardinality(left) + 1
    BY <1>5, <1>6, FS_AddElement
  <2>3. left \cup {} = left
    OBVIOUS
  <2>4. CASE d.key = k
    BY <2>2, <2>4
  <2>5. CASE d.key # k
    BY <2>1, <2>3, <2>5
  <2> QED
    BY <2>4, <2>5
<1>9. Cardinality(Subtracted(k) \cup out)
        = Cardinality(Subtracted(k)) + IF Leaves(k) /\ e < Window THEN 1 ELSE 0
  <2>1. Cardinality(Subtracted(k) \cup {e}) = Cardinality(Subtracted(k)) + 1
    BY <1>3, <1>6, FS_AddElement
  <2>2. Subtracted(k) \cup {} = Subtracted(k)
    OBVIOUS
  <2>3. CASE Leaves(k) /\ e < Window
    BY <2>1, <2>3
  <2>4. CASE ~ (Leaves(k) /\ e < Window)
    <3>1. Cardinality(Subtracted(k) \cup out) = Cardinality(Subtracted(k))
      BY <2>2, <2>4, Zenon
    <3> QED
      BY <1>3, <2>4, <3>1
  <2> QED
    BY <2>3, <2>4
<1>10. Cardinality(Counted(k)') = Cardinality(left) + IF d.key = k THEN 1 ELSE 0
  BY <1>1, <1>8
<1>11. Cardinality(Subtracted(k)')
         = Cardinality(Subtracted(k)) + IF Leaves(k) /\ e < Window THEN 1 ELSE 0
  BY <1>2, <1>9
<1> HIDE DEF left, in, out
<1> DEFINE c == Cardinality(Counted(k))
           s == Cardinality(Subtracted(k))
           l == Cardinality(left)
<1>12. c \in Nat /\ s \in Nat /\ l = IF e \in Counted(k) THEN c - 1 ELSE c
  BY <1>3, <1>5
<1> HIDE DEF c, s, l
<1>13. CASE Leaves(k) /\ e >= Window
  <2>1. l = c - 1 /\ Cardinality(Subtracted(k)') = s + 0
    BY <1>4, <1>7, <1>11, <1>12, <1>13 DEF s
  <2>2. Cardinality(Counted(k)') = l + IF d.key = k THEN 1 ELSE 0
    BY <1>10 DEF l
  <2> QED
    BY <1>12, <1>13, <2>1, <2>2 DEF c, s
<1>14. CASE Leaves(k) /\ e < Window
  <2>1. l = c /\ Cardinality(Subtracted(k)') = s + 1
    BY <1>4, <1>7, <1>11, <1>12, <1>14 DEF s
  <2>2. Cardinality(Counted(k)') = l + IF d.key = k THEN 1 ELSE 0
    BY <1>10 DEF l
  <2> QED
    BY <1>12, <1>14, <2>1, <2>2 DEF c, s
<1>15. CASE ~ Leaves(k)
  <2>1. l = c /\ Cardinality(Subtracted(k)') = s + 0
    BY <1>4, <1>7, <1>11, <1>12, <1>15 DEF s
  <2>2. Cardinality(Counted(k)') = l + IF d.key = k THEN 1 ELSE 0
    BY <1>10 DEF l
  <2> QED
    BY <1>12, <1>15, <2>1, <2>2 DEF c, s
<1> QED
  BY <1>4, <1>13, <1>14, <1>15

(* What that makes of the count that a group ought to have.                 *)
LEMMA CountOfMoves ==
  ASSUME seen \in Seq(Datum), NEW d \in Datum, seen' = Append(seen, d), N + 1 >= Window,
         NEW k \in Key
  PROVE  LET left == IF Leaves(k) THEN (CountOf(k) - 1) % CountMod ELSE CountOf(k) IN
         CountOf(k)' = IF k # d.key THEN left
                       ELSE IF k \in GroupKeys THEN (left + 1) % CountMod ELSE 1
<1> USE ConstantTypes
<1> DEFINE x == Cardinality(Counted(k)) - Cardinality(Subtracted(k))
           a == IF Leaves(k) THEN - 1 ELSE 0
           b == IF d.key = k THEN 1 ELSE 0
           left == IF Leaves(k) THEN (CountOf(k) - 1) % CountMod ELSE CountOf(k)
<1>1. x \in Int /\ (k \notin GroupKeys => x = 0)
  BY CountsFinite, FS_EmptySet
<1>2. CountOf(k) = x % CountMod
  BY DEF CountOf
<1>3. CountOf(k)' = (Cardinality(Counted(k)') - Cardinality(Subtracted(k)')) % CountMod
  BY DEF CountOf
<1>4. Cardinality(Counted(k)') - Cardinality(Subtracted(k)') = x + a + b
  BY CountsMove
<1> HIDE DEF x
<1>c. ASSUME NEW y \in Int, NEW z \in Int
      PROVE  ((y % CountMod) + z) % CountMod = (y + z) % CountMod
  <2>1. CountMod \in Nat /\ CountMod > 0
    OBVIOUS
  <2> QED
    BY <2>1, ModCount, Zenon
<1>5. left = (x + a) % CountMod
  <2>1. CASE Leaves(k)
    <3>1. ((x % CountMod) + (- 1)) % CountMod = (x + (- 1)) % CountMod
      BY <1>c, <1>1
    <3>2. x % CountMod \in Int
      BY <1>1
    <3>3. (x % CountMod) - 1 = (x % CountMod) + (- 1)
      BY <3>2
    <3> QED
      BY <1>2, <2>1, <3>1, <3>3
  <2>2. CASE ~ Leaves(k)
    <3>1. x + a = x
      BY <1>1, <2>2
    <3> QED
      BY <1>2, <2>2, <3>1
  <2> QED
    BY <2>1, <2>2
<1>6. a \in Int /\ x + a \in Int
  BY <1>1
<1>7. CASE k # d.key
  <2>1. x + a + b = x + a
    BY <1>6, <1>7
  <2> QED
    BY <1>3, <1>4, <1>5, <1>7, <2>1
<1>8. CASE k = d.key /\ k \in GroupKeys
  <2> HIDE DEF left, a
  <2> DEFINE y == x + a
  <2>y. y \in Int
    BY <1>6
  <2> HIDE DEF y
  <2>z. ((y % CountMod) + 1) % CountMod = (y + 1) % CountMod
    BY <1>c, <2>y
  <2>1. (((x + a) % CountMod) + 1) % CountMod = (x + a + 1) % CountMod
    BY <2>z DEF y
  <2>2. CountOf(k)' = (left + 1) % CountMod
    BY <1>3, <1>4, <1>5, <1>8, <2>1
  <2> QED
    BY <1>8, <2>2 DEF left
<1>9. CASE k = d.key /\ k \notin GroupKeys
  <2>1. ~ Leaves(k) /\ x = 0
    BY <1>1, <1>9 DEF Leaves
  <2>2. x + a + b = 1
    BY <1>9, <2>1
  <2>3. 1 % CountMod = 1
    OBVIOUS
  <2> QED
    BY <1>3, <1>4, <1>9, <2>2, <2>3
<1> QED
  BY <1>7, <1>8, <1>9

Counts == [k \in Key |-> CountOf(k)]

(* GroupCounts says that the groups represent the counts.                   *)
LEMMA CountsRepresented ==
  TypeOK /\ task = "reduce" => (GroupCounts <=> Represents(group, GroupKeys, Counts))
<1> SUFFICES ASSUME TypeOK, task = "reduce"
             PROVE  GroupCounts <=> Represents(group, GroupKeys, Counts)
  OBVIOUS
<1>1. ASSUME NEW i \in 1 .. Len(group)
      PROVE  group[i].key \in Key /\ Counts[group[i].key] = CountOf(group[i].key)
  <2>1. group[i] \in Group
    BY DEF TypeOK
  <2> QED
    BY <2>1 DEF Group, Counts
<1>2. GroupCounts <=>
        /\ {group[i].key : i \in 1 .. Len(group)} = GroupKeys
        /\ \A i \in 1 .. Len(group) :
             /\ \A j \in 1 .. Len(group) : group[j].key = group[i].key => j = i
             /\ group[i].count = CountOf(group[i].key)
  BY DEF GroupCounts, GroupKeys, CountOf
<1> QED
  BY <1>1, <1>2 DEF Represents

(* A map may be changed where it has no key.                                *)
LEMMA SameOnKeys ==
  ASSUME NEW g \in Seq(Group), NEW keys, NEW e, NEW f, Represents(g, keys, e),
         \A k \in keys : e[k] = f[k]
  PROVE  Represents(g, keys, f)
<1>1. \A i \in 1 .. Len(g) : g[i].key \in keys /\ g[i].count = e[g[i].key]
  BY GroupOfTable
<1> QED
  BY <1>1 DEF Represents

(* The callback of ReduceFlight keeps the groups to the counts.             *)
LEMMA ReduceKeepsCounts ==
  ASSUME IInv, TypeOK', GroupCounts, NEW d \in Datum, ReduceCallback(d)
  PROVE  GroupCounts'
<1> USE ConstantTypes
<1>1. /\ task = "reduce" /\ task' = task /\ seen' = Append(seen, d)
      /\ seen \in Seq(Datum) /\ window \in Seq(Datum) /\ group \in Seq(Group)
      /\ d.key \in Key
  BY DEF ReduceCallback, Receive, IInv, TypeOK, Datum
<1>2. /\ N \in Nat /\ N' = N + 1
      /\ \A n \in 1 .. N : seen'[n] = seen[n] /\ seen[n] \in Datum
      /\ seen'[N + 1] = d
  BY <1>1, SeenNext
<1>3. /\ Len(window) = Least(N, Window)
      /\ \A n \in 1 .. Len(window) : window[n] = seen[N - Len(window) + n]
  BY <1>1 DEF IInv, WindowHoldsLast
<1>4. Len(Append(window, d)) = Len(window) + 1
  BY <1>1
<1>5. Represents(group, GroupKeys, Counts)
  BY <1>1, CountsRepresented DEF IInv
<1>6. GroupCounts' <=> Represents(group', GroupKeys', Counts')
  <2>1. (TypeOK /\ task = "reduce" => (GroupCounts <=> Represents(group, GroupKeys, Counts)))'
    BY CountsRepresented, PTL
  <2> QED
    BY <1>1, <2>1
<1>7. CASE N + 1 < Window
  <2>1. group' = group
    <3>1. Len(Append(window, d)) < Window
      BY <1>2, <1>3, <1>4, <1>7 DEF Least
    <3> QED
      BY <3>1 DEF ReduceCallback
  <2>2. GroupKeys = {} /\ GroupKeys' = {}
    <3>1. Window .. N = {} /\ Window .. N' = {}
      BY <1>2, <1>7
    <3> QED
      BY <3>1 DEF GroupKeys
  <2>3. Represents(group', GroupKeys', Counts')
    <3>1. \A k \in GroupKeys : Counts[k] = Counts'[k]
      BY <2>2
    <3>2. Represents(group, GroupKeys, Counts')
      BY <1>1, <1>5, <3>1, SameOnKeys
    <3> QED
      BY <2>1, <2>2, <3>2
  <2> QED
    BY <1>6, <2>3
<1>8. CASE N + 1 >= Window
  <2> DEFINE h == Head(Append(window, d))
             g == IF N >= Window THEN Subtract(group, h) ELSE group
             c == [k \in Key |-> IF N >= Window /\ k = h.key
                                 THEN (Counts[k] - 1) % CountMod ELSE Counts[k]]
             b == [k \in Key |-> IF k # d.key THEN c[k]
                                 ELSE IF k \in GroupKeys THEN (c[k] + 1) % CountMod ELSE 1]
  <2>1. group' = Add(g, d)
    <3>1. /\ ~ (Len(Append(window, d)) < Window)
          /\ Len(Append(window, d)) > Window <=> N >= Window
      BY <1>2, <1>3, <1>4, <1>8 DEF Least
    <3> QED
      BY <3>1 DEF ReduceCallback
  <2>2. N >= Window => h = seen[N + 1 - Window] /\ h \in Datum
    <3> SUFFICES ASSUME N >= Window PROVE h = seen[N + 1 - Window] /\ h \in Datum
      OBVIOUS
    <3>1. Len(window) = Window
      BY <1>2, <1>3 DEF Least
    <3>2. h = window[1]
      BY <1>1, <3>1
    <3>3. window[1] = seen[N - Window + 1]
      BY <1>3, <3>1
    <3>4. N - Window + 1 = N + 1 - Window /\ N + 1 - Window \in 1 .. N
      BY <1>2
    <3> HIDE DEF h
    <3> QED
      BY <1>2, <3>2, <3>3, <3>4
  <2>3. GroupKeys \in SUBSET Key
    <3>1. ASSUME NEW n \in Window .. N PROVE seen[n].key \in Key
      <4>1. n \in 1 .. N
        BY <1>2
      <4>2. seen[n] \in Datum
        BY <1>2, <4>1
      <4> QED
        BY <4>2 DEF Datum
    <3> QED
      BY <3>1 DEF GroupKeys
  <2>4. g \in Seq(Group) /\ Represents(g, GroupKeys, c)
    <3>1. CASE N >= Window
      <4>1. h \in Datum
        BY <2>2, <3>1
      <4> HIDE DEF h
      <4>2. Represents(Subtract(group, h), GroupKeys,
              [k \in Key |-> IF k = h.key THEN (Counts[k] - 1) % CountMod ELSE Counts[k]])
        BY <1>1, <1>5, <2>3, <4>1, SubtractCounts
      <4>3. Subtract(group, h) \in Seq(Group)
        BY <1>1, <4>1, GroupsTyped
      <4>4. c = [k \in Key |-> IF k = h.key THEN (Counts[k] - 1) % CountMod ELSE Counts[k]]
        BY <3>1
      <4>5. g = Subtract(group, h)
        BY <3>1
      <4> QED
        BY <4>2, <4>3, <4>4, <4>5, Zenon
    <3>2. CASE ~ (N >= Window)
      <4>1. g = group /\ \A k \in GroupKeys : Counts[k] = c[k]
        BY <2>3, <3>2
      <4> HIDE DEF c, g
      <4> QED
        BY <1>1, <1>5, <4>1, SameOnKeys
    <3> QED
      BY <3>1, <3>2
  <2>5. Represents(Add(g, d), GroupKeys \cup {d.key}, b)
    <3> HIDE DEF g, c
    <3> QED
      BY <2>3, <2>4, AddCounts
  <2>6. GroupKeys' = GroupKeys \cup {d.key}
    <3>1. Window .. N' = (Window .. N) \cup {N + 1} /\ N + 1 \notin Window .. N
      BY <1>2, <1>8
    <3>2. \A n \in Window .. N : n \in 1 .. N
      BY <1>2
    <3>3. \A n \in Window .. N : seen'[n].key = seen[n].key
      BY <1>2, <3>2
    <3>4. seen'[N + 1].key = d.key
      BY <1>2
    <3>5. GroupKeys' = {seen'[n].key : n \in Window .. N'}
      BY DEF GroupKeys
    <3> QED
      BY <3>1, <3>3, <3>4, <3>5 DEF GroupKeys
  <2>7. ASSUME NEW k \in GroupKeys \cup {d.key} PROVE b[k] = Counts'[k]
    <3>1. k \in Key /\ Counts[k] = CountOf(k) /\ Counts'[k] = CountOf(k)'
      BY <1>1, <2>3 DEF Counts
    <3> DEFINE left == IF Leaves(k) THEN (CountOf(k) - 1) % CountMod ELSE CountOf(k)
    <3>2. CountOf(k)' = IF k # d.key THEN left
                        ELSE IF k \in GroupKeys THEN (left + 1) % CountMod ELSE 1
      BY <1>1, <1>8, <3>1, CountOfMoves
    <3>3. k \in GroupKeys => c[k] = left
      <4>1. k \in GroupKeys => (Leaves(k) <=> N >= Window /\ k = h.key)
        BY <2>2 DEF Leaves
      <4> HIDE DEF h
      <4> QED
        BY <3>1, <4>1
    <3> HIDE DEF left, c
    <3> QED
      BY <3>1, <3>2, <3>3
  <2>8. Represents(group', GroupKeys', Counts')
    <3>1. group' \in Seq(Group)
      BY DEF TypeOK
    <3> HIDE DEF b
    <3> QED
      BY <2>1, <2>5, <2>6, <2>7, <3>1, SameOnKeys
  <2> QED
    BY <1>6, <2>8
<1> QED
  BY <1>2, <1>7, <1>8

(* The count of a group of ReduceFlight is that of its data in the window   *)
(* less those that left uncounted, within the width of a count, for every   *)
(* window, step, width and stream.                                          *)
THEOREM GroupsCount == Spec => []GroupCounts
<1>1. Init => GroupCounts
  <2> SUFFICES ASSUME Init PROVE GroupCounts
    OBVIOUS
  <2>1. Len(group) = 0 /\ N = 0 /\ 1 .. 0 = {} /\ Window .. 0 = {}
    BY ConstantTypes DEF Init, N
  <2> QED
    BY <2>1 DEF GroupCounts
<1>2. IInv /\ IInv' /\ GroupCounts /\ [Next]_vars => GroupCounts'
  <2> SUFFICES ASSUME IInv, IInv', GroupCounts, [Next]_vars PROVE GroupCounts'
    OBVIOUS
  <2>1. ASSUME NEW d \in Datum, ReduceCallback(d) PROVE GroupCounts'
    BY <2>1, ReduceKeepsCounts DEF IInv
  <2>2. ASSUME NEW d \in Datum, SlidingCallback(d) \/ PartitionCallback(d) PROVE GroupCounts'
    <3>1. task' = task /\ task # "reduce"
      BY <2>2 DEF SlidingCallback, PartitionCallback, SlidingTask, Receive
    <3> QED
      BY <3>1 DEF GroupCounts
  <2>3. CASE Flush \/ Ended \/ UNCHANGED vars
    <3>1. task' = task /\ group' = group /\ seen' = seen
      BY <2>3 DEF Flush, Ended, vars
    <3>2. N' = N
      BY <3>1 DEF N
    <3>3. \A k : Counted(k)' = Counted(k) /\ Subtracted(k)' = Subtracted(k)
      BY <3>1, <3>2 DEF Counted, Subtracted
    <3>4. GroupKeys' = GroupKeys /\ Counts' = Counts
      <4>1. \A k : CountOf(k)' = CountOf(k)
        BY <3>3 DEF CountOf
      <4> QED
        BY <3>1, <3>2, <4>1 DEF GroupKeys, Counts
    <3>5. CASE task # "reduce"
      BY <3>1, <3>5 DEF GroupCounts
    <3>6. CASE task = "reduce"
      <4>1. Represents(group, GroupKeys, Counts)
        BY <3>6, CountsRepresented DEF IInv
      <4>2. (TypeOK /\ task = "reduce" => (GroupCounts <=> Represents(group, GroupKeys, Counts)))'
        BY CountsRepresented, PTL
      <4>3. TypeOK'
        BY DEF IInv
      <4> QED
        BY <3>1, <3>4, <3>6, <4>1, <4>2, <4>3
    <3> QED
      BY <3>5, <3>6
  <2> QED
    BY <2>1, <2>2, <2>3 DEF Next, Callback
<1> QED
  BY <1>1, <1>2, Invariance, PTL DEF Spec
-------------------------------------------------------------------------------
(* What the loops of the tasks compute over a window.  A loop over a        *)
(* sequence that gets an element more goes one round more, and what holds   *)
(* of the empty sequence and goes on by a round holds of every sequence.    *)

(* Induction over sequences: a set with the empty sequence, and with each   *)
(* sequence those that are longer by one, has all.                          *)
LEMMA SeqInduction ==
  ASSUME NEW D, NEW T, <<>> \in T,
         \A s \in Seq(D) : \A d \in D : s \in T => Append(s, d) \in T
  PROVE  \A s \in Seq(D) : s \in T
<1> DEFINE Good(n) == \A s \in Seq(D) : Len(s) = n => s \in T
           Lengths == {n \in Nat : Good(n)}
<1>1. 0 \in Lengths
  <2>1. ASSUME NEW s \in Seq(D), Len(s) = 0 PROVE s \in T
    <3>1. s = <<>>
      BY <2>1
    <3> QED
      BY <3>1
  <2> QED
    BY <2>1
<1>2. ASSUME NEW n \in Nat, n \in Lengths PROVE n + 1 \in Lengths
  <2>1. ASSUME NEW s \in Seq(D), Len(s) = n + 1 PROVE s \in T
    <3> DEFINE r == SubSeq(s, 1, n)
    <3>1. s[n + 1] \in D /\ r \in Seq(D) /\ Len(r) = n
      BY <2>1
    <3>2. s = Append(r, s[n + 1])
      BY <2>1
    <3>3. r \in T
      BY <1>2, <3>1
    <3> HIDE DEF r
    <3> QED
      BY <3>1, <3>2, <3>3
  <2> QED
    BY <2>1
<1> HIDE DEF Lengths
<1>3. \A n \in Nat : n \in Lengths
  BY <1>1, <1>2, Induction
<1> SUFFICES ASSUME NEW s \in Seq(D) PROVE s \in T
  OBVIOUS
<1>4. Len(s) \in Lengths
  BY <1>3
<1> QED
  BY <1>4 DEF Lengths

(* The states of a loop after each of its rounds.                           *)
RunOf(f, t, start, s) ==
  /\ f[0] = start
  /\ \A i \in 1 .. Len(s) : f[i] = Round(t, f[i - 1], s[i])
  /\ Loop(t, start, s) = f[Len(s)]

(* A task's loop has a run, in any set of states that its rounds stay in.   *)
LEMMA LoopRun ==
  ASSUME NEW t, NEW S, NEW D, NEW start \in S,
         \A r \in S : \A d \in D : Round(t, r, d) \in S,
         NEW s \in Seq(D)
  PROVE  \E f : RunOf(f, t, start, s) /\ \A i \in 0 .. Len(s) : f[i] \in S
<1> DEFINE n == Len(s)
           G == [p \in S \X (1 .. n) |-> Round(t, p[1], s[p[2]])]
<1>1. n \in Nat /\ \A i \in 1 .. n : s[i] \in D
  OBVIOUS
<1> HIDE DEF n
<1>2. G \in [S \X (1 .. n) -> S]
  BY <1>1
<1> HIDE DEF G
<1>3. PICK f : f \in LoopRuns(S, start, n, G)
  BY <1>1, <1>2, LoopHasRun
<1>4. f \in [0 .. n -> S] /\ f[0] = start /\ \A i \in 1 .. n : f[i] = G[<<f[i - 1], i>>]
  BY <1>3 DEF LoopRuns
<1>5. ASSUME NEW i \in 1 .. n PROVE f[i] = Round(t, f[i - 1], s[i])
  <2>1. f[i - 1] \in S
    BY <1>1, <1>4
  <2>2. G[<<f[i - 1], i>>] = Round(t, f[i - 1], s[i])
    BY <2>1 DEF G
  <2> QED
    BY <1>4, <2>2
<1> DEFINE Runs(g) == g = [i \in 0 .. Len(s) |-> IF i = 0 THEN start ELSE Round(t, g[i - 1], s[i])]
<1>6. Runs(f)
  <2>1. ASSUME NEW i \in 0 .. n
        PROVE  f[i] = IF i = 0 THEN start ELSE Round(t, f[i - 1], s[i])
    <3>1. CASE i = 0
      BY <1>4, <3>1
    <3>2. CASE i \in 1 .. n
      <4>1. i # 0
        BY <3>2
      <4>2. f[i] = Round(t, f[i - 1], s[i])
        BY <1>5, <3>2
      <4> QED
        BY <4>1, <4>2, Zenon
    <3> QED
      BY <1>1, <3>1, <3>2
  <2>2. f = [i \in 0 .. n |-> IF i = 0 THEN start ELSE Round(t, f[i - 1], s[i])]
    BY <1>4, <2>1
  <2> QED
    BY <2>2 DEF n
<1> DEFINE loop == CHOOSE g : Runs(g)
<1>7. Runs(loop)
  <2> HIDE DEF Runs
  <2> QED
    BY <1>6
<1>8. Loop(t, start, s) = loop[Len(s)]
  BY Zenon DEF Loop
<1> HIDE DEF loop
<1>9. \A i \in 0 .. n : loop[i] = IF i = 0 THEN start ELSE Round(t, loop[i - 1], s[i])
  BY <1>7, Zenon DEF n
<1>10. 0 \in 0 .. n /\ \A i \in 1 .. n : i \in 0 .. n /\ i # 0
  BY <1>1
<1>11. loop[0] = start /\ \A i \in 1 .. n : loop[i] = Round(t, loop[i - 1], s[i])
  BY <1>9, <1>10, Zenon
<1>12. RunOf(loop, t, start, s)
  BY <1>8, <1>11, Zenon DEF RunOf, n
<1> DEFINE Typed == {i \in Nat : i <= n => loop[i] \in S}
<1>13. 0 \in Typed
  BY <1>11
<1>14. ASSUME NEW i \in Nat, i \in Typed PROVE i + 1 \in Typed
  <2> SUFFICES ASSUME i + 1 <= n PROVE loop[i + 1] \in S
    OBVIOUS
  <2>1. loop[i] \in S
    BY <1>1, <1>14
  <2>2. i + 1 \in 1 .. n /\ (i + 1) - 1 = i
    BY <1>1
  <2>3. loop[i + 1] = Round(t, loop[i], s[i + 1])
    BY <1>11, <2>2
  <2>4. s[i + 1] \in D
    BY <1>1, <2>2
  <2> QED
    BY <2>1, <2>3, <2>4
<1>15. \A i \in 0 .. n : loop[i] \in S
  <2> HIDE DEF Typed
  <2>1. \A i \in Nat : i \in Typed
    BY <1>13, <1>14, Induction
  <2> QED
    BY <1>1, <2>1 DEF Typed
<1> QED
  BY <1>12, <1>15 DEF n

(* A loop over nothing, and over one element more.                          *)
LoopsIn(S, D, t, start) ==
  /\ Loop(t, start, <<>>) = start
  /\ \A s \in Seq(D) :
       /\ Loop(t, start, s) \in S
       /\ \A d \in D : Loop(t, start, Append(s, d)) = Round(t, Loop(t, start, s), d)

(* A loop starts at its start and goes one round more for one element more. *)
LEMMA LoopSteps ==
  ASSUME NEW t, NEW S, NEW D, NEW start \in S,
         \A r \in S : \A d \in D : Round(t, r, d) \in S
  PROVE  LoopsIn(S, D, t, start)
<1>1. Loop(t, start, <<>>) = start
  <2>1. <<>> \in Seq(D) /\ Len(<<>>) = 0
    OBVIOUS
  <2>2. PICK f : RunOf(f, t, start, <<>>)
    BY <2>1, LoopRun
  <2> QED
    BY <2>1, <2>2 DEF RunOf
<1>2. ASSUME NEW s \in Seq(D) PROVE Loop(t, start, s) \in S
  <2>1. PICK f : RunOf(f, t, start, s) /\ \A i \in 0 .. Len(s) : f[i] \in S
    BY LoopRun
  <2>2. Len(s) \in 0 .. Len(s)
    OBVIOUS
  <2> QED
    BY <2>1, <2>2 DEF RunOf
<1>3. ASSUME NEW s \in Seq(D), NEW d \in D
      PROVE  Loop(t, start, Append(s, d)) = Round(t, Loop(t, start, s), d)
  <2> DEFINE u == Append(s, d)
  <2>1. /\ u \in Seq(D) /\ Len(s) \in Nat /\ Len(u) = Len(s) + 1 /\ u[Len(s) + 1] = d
        /\ \A i \in 1 .. Len(s) : u[i] = s[i]
    OBVIOUS
  <2> HIDE DEF u
  <2>2. PICK f : RunOf(f, t, start, s)
    BY LoopRun
  <2>3. PICK g : RunOf(g, t, start, u)
    BY <2>1, LoopRun
  <2> DEFINE Same == {i \in Nat : i <= Len(s) => g[i] = f[i]}
  <2>4. 0 \in Same
    BY <2>2, <2>3 DEF RunOf
  <2>5. ASSUME NEW i \in Nat, i \in Same PROVE i + 1 \in Same
    <3> SUFFICES ASSUME i + 1 <= Len(s) PROVE g[i + 1] = f[i + 1]
      OBVIOUS
    <3>1. i + 1 \in 1 .. Len(s) /\ i + 1 \in 1 .. Len(u) /\ (i + 1) - 1 = i /\ g[i] = f[i]
      BY <2>1, <2>5
    <3>2. f[i + 1] = Round(t, f[i], s[i + 1])
      BY <2>2, <3>1 DEF RunOf
    <3>3. g[i + 1] = Round(t, g[i], u[i + 1])
      BY <2>3, <3>1 DEF RunOf
    <3>4. u[i + 1] = s[i + 1]
      BY <2>1, <3>1
    <3> QED
      BY <3>1, <3>2, <3>3, <3>4
  <2>6. g[Len(s)] = f[Len(s)]
    <3> HIDE DEF Same
    <3>1. Len(s) \in Same
      BY <2>1, <2>4, <2>5, Induction
    <3> QED
      BY <2>1, <3>1 DEF Same
  <2>7. g[Len(s) + 1] = Round(t, g[Len(s)], d)
    <3>1. Len(s) + 1 \in 1 .. Len(u) /\ (Len(s) + 1) - 1 = Len(s)
      BY <2>1
    <3>2. g[Len(s) + 1] = Round(t, g[Len(s)], u[Len(s) + 1])
      BY <2>3, <3>1 DEF RunOf
    <3> QED
      BY <2>1, <3>2
  <2>8. Loop(t, start, u) = g[Len(s) + 1] /\ Loop(t, start, s) = f[Len(s)]
    BY <2>1, <2>2, <2>3 DEF RunOf
  <2> QED
    BY <2>6, <2>7, <2>8 DEF u
<1> QED
  BY <1>1, <1>2, <1>3 DEF LoopsIn

(* Selecting leaves a sequence of data.                                     *)
LEMMA SelectType ==
  ASSUME NEW keys, NEW r \in Seq(Datum), NEW d \in Datum
  PROVE  Select(keys, r, d) \in Seq(Datum)
BY DEF Select

(* What is selected of a sequence by its keys after each of its elements.   *)
Selection(f, keys, s) ==
  /\ f[0] = <<>>
  /\ \A i \in 1 .. Len(s) : f[i] = Select(keys, f[i - 1], s[i])
  /\ Of(keys, s) = f[Len(s)]

(* The selection can be made.                                               *)
LEMMA SelectionExists ==
  ASSUME NEW keys, NEW s \in Seq(Datum)
  PROVE  \E f : Selection(f, keys, s) /\ \A i \in 0 .. Len(s) : f[i] \in Seq(Datum)
<1> DEFINE n == Len(s)
           G == [p \in Seq(Datum) \X (1 .. n) |-> Select(keys, p[1], s[p[2]])]
<1>1. n \in Nat /\ \A i \in 1 .. n : s[i] \in Datum
  OBVIOUS
<1> HIDE DEF n
<1>2. G \in [Seq(Datum) \X (1 .. n) -> Seq(Datum)]
  <2>1. ASSUME NEW p \in Seq(Datum) \X (1 .. n) PROVE Select(keys, p[1], s[p[2]]) \in Seq(Datum)
    BY <1>1, <2>1, SelectType
  <2> QED
    BY <2>1
<1> HIDE DEF G
<1>e. <<>> \in Seq(Datum)
  OBVIOUS
<1>3. PICK f : f \in LoopRuns(Seq(Datum), <<>>, n, G)
  <2> DEFINE D == Seq(Datum)
  <2> HIDE DEF D
  <2>1. LoopRuns(D, <<>>, n, G) # {}
    BY <1>1, <1>2, <1>e, LoopHasRun DEF D
  <2> QED
    BY <2>1 DEF D
<1>4. f \in [0 .. n -> Seq(Datum)] /\ f[0] = <<>> /\ \A i \in 1 .. n : f[i] = G[<<f[i - 1], i>>]
  BY <1>3 DEF LoopRuns
<1>5. ASSUME NEW i \in 1 .. n PROVE f[i] = Select(keys, f[i - 1], s[i])
  <2>1. f[i - 1] \in Seq(Datum)
    BY <1>1, <1>4
  <2>2. G[<<f[i - 1], i>>] = Select(keys, f[i - 1], s[i])
    BY <2>1 DEF G
  <2> QED
    BY <1>4, <2>2
<1> DEFINE Runs(g) == g = [i \in 0 .. Len(s) |-> IF i = 0 THEN <<>> ELSE Select(keys, g[i - 1], s[i])]
<1>6. Runs(f)
  <2>1. ASSUME NEW i \in 0 .. n
        PROVE  f[i] = IF i = 0 THEN <<>> ELSE Select(keys, f[i - 1], s[i])
    <3>1. CASE i = 0
      BY <1>4, <3>1
    <3>2. CASE i \in 1 .. n
      <4>1. i # 0
        BY <3>2
      <4>2. f[i] = Select(keys, f[i - 1], s[i])
        BY <1>5, <3>2
      <4> QED
        BY <4>1, <4>2, Zenon
    <3> QED
      BY <1>1, <3>1, <3>2
  <2>2. f = [i \in 0 .. n |-> IF i = 0 THEN <<>> ELSE Select(keys, f[i - 1], s[i])]
    BY <1>4, <2>1
  <2> QED
    BY <2>2 DEF n
<1> DEFINE loop == CHOOSE g : Runs(g)
<1>7. Runs(loop)
  <2> HIDE DEF Runs
  <2> QED
    BY <1>6
<1>8. Of(keys, s) = loop[Len(s)]
  BY Zenon DEF Of
<1> HIDE DEF loop
<1>9. \A i \in 0 .. n : loop[i] = IF i = 0 THEN <<>> ELSE Select(keys, loop[i - 1], s[i])
  BY <1>7, Zenon DEF n
<1>10. 0 \in 0 .. n /\ \A i \in 1 .. n : i \in 0 .. n /\ i # 0
  BY <1>1
<1>11. loop[0] = <<>> /\ \A i \in 1 .. n : loop[i] = Select(keys, loop[i - 1], s[i])
  BY <1>9, <1>10, Zenon
<1>12. Selection(loop, keys, s)
  BY <1>8, <1>11, Zenon DEF Selection, n
<1> DEFINE Typed == {i \in Nat : i <= n => loop[i] \in Seq(Datum)}
<1>13. 0 \in Typed
  BY <1>11, <1>e
<1>14. ASSUME NEW i \in Nat, i \in Typed PROVE i + 1 \in Typed
  <2> SUFFICES ASSUME i + 1 <= n PROVE loop[i + 1] \in Seq(Datum)
    OBVIOUS
  <2>1. loop[i] \in Seq(Datum)
    BY <1>1, <1>14
  <2>2. i + 1 \in 1 .. n /\ (i + 1) - 1 = i
    BY <1>1
  <2>3. loop[i + 1] = Select(keys, loop[i], s[i + 1])
    BY <1>11, <2>2
  <2>4. s[i + 1] \in Datum
    BY <1>1, <2>2
  <2>5. Select(keys, loop[i], s[i + 1]) \in Seq(Datum)
    BY <2>1, <2>4, SelectType
  <2> QED
    BY <2>3, <2>5
<1>15. \A i \in 0 .. n : loop[i] \in Seq(Datum)
  <2> HIDE DEF Typed
  <2>1. \A i \in Nat : i \in Typed
    BY <1>13, <1>14, Induction
  <2> QED
    BY <1>1, <2>1 DEF Typed
<1> QED
  BY <1>12, <1>15 DEF n

(* What is selected of nothing, and of one element more.                    *)
LEMMA OfSteps ==
  ASSUME NEW keys
  PROVE  /\ Of(keys, <<>>) = <<>>
         /\ \A s \in Seq(Datum) :
              /\ Of(keys, s) \in Seq(Datum)
              /\ \A d \in Datum : Of(keys, Append(s, d)) = Select(keys, Of(keys, s), d)
<1>1. Of(keys, <<>>) = <<>>
  <2>1. <<>> \in Seq(Datum) /\ Len(<<>>) = 0
    OBVIOUS
  <2>2. PICK f : Selection(f, keys, <<>>)
    BY <2>1, SelectionExists
  <2> QED
    BY <2>1, <2>2 DEF Selection
<1>2. ASSUME NEW s \in Seq(Datum) PROVE Of(keys, s) \in Seq(Datum)
  <2>1. PICK f : Selection(f, keys, s) /\ \A i \in 0 .. Len(s) : f[i] \in Seq(Datum)
    BY SelectionExists
  <2>2. Len(s) \in 0 .. Len(s)
    OBVIOUS
  <2> QED
    BY <2>1, <2>2 DEF Selection
<1>3. ASSUME NEW s \in Seq(Datum), NEW d \in Datum
      PROVE  Of(keys, Append(s, d)) = Select(keys, Of(keys, s), d)
  <2> DEFINE u == Append(s, d)
  <2>1. /\ u \in Seq(Datum) /\ Len(s) \in Nat /\ Len(u) = Len(s) + 1 /\ u[Len(s) + 1] = d
        /\ \A i \in 1 .. Len(s) : u[i] = s[i]
    OBVIOUS
  <2> HIDE DEF u
  <2>2. PICK f : Selection(f, keys, s)
    BY SelectionExists
  <2>3. PICK g : Selection(g, keys, u)
    BY <2>1, SelectionExists
  <2> DEFINE Same == {i \in Nat : i <= Len(s) => g[i] = f[i]}
  <2>4. 0 \in Same
    BY <2>2, <2>3 DEF Selection
  <2>5. ASSUME NEW i \in Nat, i \in Same PROVE i + 1 \in Same
    <3> SUFFICES ASSUME i + 1 <= Len(s) PROVE g[i + 1] = f[i + 1]
      OBVIOUS
    <3>1. i + 1 \in 1 .. Len(s) /\ i + 1 \in 1 .. Len(u) /\ (i + 1) - 1 = i /\ g[i] = f[i]
      BY <2>1, <2>5
    <3>2. f[i + 1] = Select(keys, f[i], s[i + 1])
      BY <2>2, <3>1 DEF Selection
    <3>3. g[i + 1] = Select(keys, g[i], u[i + 1])
      BY <2>3, <3>1 DEF Selection
    <3>4. u[i + 1] = s[i + 1]
      BY <2>1, <3>1
    <3> QED
      BY <3>1, <3>2, <3>3, <3>4
  <2>6. g[Len(s)] = f[Len(s)]
    <3> HIDE DEF Same
    <3>1. Len(s) \in Same
      BY <2>1, <2>4, <2>5, Induction
    <3> QED
      BY <2>1, <3>1 DEF Same
  <2>7. g[Len(s) + 1] = Select(keys, g[Len(s)], d)
    <3>1. Len(s) + 1 \in 1 .. Len(u) /\ (Len(s) + 1) - 1 = Len(s)
      BY <2>1
    <3>2. g[Len(s) + 1] = Select(keys, g[Len(s)], u[Len(s) + 1])
      BY <2>3, <3>1 DEF Selection
    <3> QED
      BY <2>1, <3>2
  <2>8. Of(keys, u) = g[Len(s) + 1] /\ Of(keys, s) = f[Len(s)]
    BY <2>1, <2>2, <2>3 DEF Selection
  <2> QED
    BY <2>6, <2>7, <2>8 DEF u
<1> QED
  BY <1>1, <1>2, <1>3

(* The keys, the values and the selection of a sequence that gets a datum   *)
(* more.                                                                    *)
ValueSet(s) == {s[i].value : i \in 1 .. Len(s)}

(* The elements of a sequence that gets one more.                           *)
LEMMA AppendElements ==
  ASSUME NEW s \in Seq(Datum), NEW d \in Datum
  PROVE  /\ Append(s, d) \in Seq(Datum) /\ Len(s) \in Nat /\ Len(Append(s, d)) = Len(s) + 1
         /\ Append(s, d)[Len(s) + 1] = d
         /\ \A i \in 1 .. Len(s) : Append(s, d)[i] = s[i]
         /\ 1 .. Len(s) + 1 = (1 .. Len(s)) \cup {Len(s) + 1}
OBVIOUS

(* Nothing has no keys and no values; one datum more adds its own.          *)
LEMMA SetsOfSequence ==
  /\ KeysOf(<<>>) = {} /\ ValueSet(<<>>) = {} /\ ValuesOf(<<>>) = <<>>
  /\ \A s \in Seq(Datum) :
       /\ KeysOf(s) \in SUBSET Key /\ ValueSet(s) \in SUBSET Value /\ ValuesOf(s) \in Seq(Value)
       /\ Len(ValuesOf(s)) = Len(s)
       /\ \A d \in Datum : /\ KeysOf(Append(s, d)) = KeysOf(s) \cup {d.key}
                           /\ ValueSet(Append(s, d)) = ValueSet(s) \cup {d.value}
                           /\ ValuesOf(Append(s, d)) = Append(ValuesOf(s), d.value)
<1>1. KeysOf(<<>>) = {} /\ ValueSet(<<>>) = {}
  BY DEF KeysOf, ValueSet
<1>2. ValuesOf(<<>>) = <<>>
  BY DEF ValuesOf
<1>3. ASSUME NEW s \in Seq(Datum)
      PROVE  /\ KeysOf(s) \in SUBSET Key /\ ValueSet(s) \in SUBSET Value
             /\ ValuesOf(s) \in Seq(Value) /\ Len(ValuesOf(s)) = Len(s)
  <2>1. \A i \in 1 .. Len(s) : s[i].key \in Key /\ s[i].value \in Value
    <3>1. ASSUME NEW i \in 1 .. Len(s) PROVE s[i] \in Datum
      OBVIOUS
    <3> QED
      BY <3>1 DEF Datum
  <2>2. KeysOf(s) \in SUBSET Key
    BY <2>1 DEF KeysOf
  <2>3. ValueSet(s) \in SUBSET Value
    BY <2>1 DEF ValueSet
  <2>4. ValuesOf(s) \in [1 .. Len(s) -> Value] /\ Len(s) \in Nat
    BY <2>1 DEF ValuesOf
  <2>5. ValuesOf(s) \in Seq(Value) /\ Len(ValuesOf(s)) = Len(s)
    <3> DEFINE v == ValuesOf(s)
               n == Len(s)
    <3>1. v \in [1 .. n -> Value] /\ n \in Nat
      BY <2>4
    <3> HIDE DEF v, n
    <3>2. v \in Seq(Value) /\ Len(v) = n
      BY <3>1
    <3> QED
      BY <3>2 DEF v, n
  <2> QED
    BY <2>2, <2>3, <2>5
<1>4. ASSUME NEW s \in Seq(Datum), NEW d \in Datum
      PROVE  /\ KeysOf(Append(s, d)) = KeysOf(s) \cup {d.key}
             /\ ValueSet(Append(s, d)) = ValueSet(s) \cup {d.value}
             /\ ValuesOf(Append(s, d)) = Append(ValuesOf(s), d.value)
  <2> DEFINE u == Append(s, d)
  <2>1. /\ u \in Seq(Datum) /\ Len(s) \in Nat /\ Len(u) = Len(s) + 1 /\ u[Len(s) + 1] = d
        /\ \A i \in 1 .. Len(s) : u[i] = s[i]
        /\ 1 .. Len(s) + 1 = (1 .. Len(s)) \cup {Len(s) + 1}
    BY AppendElements
  <2> HIDE DEF u
  <2>2. KeysOf(u) = KeysOf(s) \cup {d.key}
    BY <2>1 DEF KeysOf
  <2>3. ValueSet(u) = ValueSet(s) \cup {d.value}
    BY <2>1 DEF ValueSet
  <2>4. ValuesOf(u) = Append(ValuesOf(s), d.value)
    <3>1. \A i \in 1 .. Len(u) : ValuesOf(u)[i] = u[i].value
      BY DEF ValuesOf
    <3>2. ValuesOf(s) \in Seq(Value) /\ Len(ValuesOf(s)) = Len(s) /\ d.value \in Value
      BY <1>3 DEF Datum
    <3>3. \A i \in 1 .. Len(s) : ValuesOf(s)[i] = s[i].value
      BY DEF ValuesOf
    <3>4. ValuesOf(u) \in Seq(Value) /\ Len(ValuesOf(u)) = Len(u)
      BY <1>3, <2>1
    <3>5. ASSUME NEW i \in 1 .. Len(s) + 1
          PROVE  ValuesOf(u)[i] = Append(ValuesOf(s), d.value)[i]
      <4>1. CASE i = Len(s) + 1
        BY <2>1, <3>1, <3>2, <4>1
      <4>2. CASE i \in 1 .. Len(s)
        BY <2>1, <3>1, <3>2, <3>3, <4>2
      <4> QED
        BY <2>1, <4>1, <4>2
    <3> DEFINE a == ValuesOf(u)
               b == Append(ValuesOf(s), d.value)
    <3>6. a \in Seq(Value) /\ b \in Seq(Value) /\ Len(a) = Len(b) /\ \A i \in 1 .. Len(a) : a[i] = b[i]
      BY <2>1, <3>2, <3>4, <3>5
    <3> HIDE DEF a, b
    <3>7. a = b
      BY <3>6
    <3> QED
      BY <3>7 DEF a, b
  <2> QED
    BY <2>2, <2>3, <2>4 DEF u
<1> QED
  BY <1>1, <1>2, <1>3, <1>4

(* A sequence has data of a key if and only if the key is among its keys.   *)
LEMMA OwnData ==
  ASSUME NEW k \in Key
  PROVE  \A s \in Seq(Datum) :
           /\ Of({k}, s) \in Seq(Datum)
           /\ k \notin KeysOf(s) => Of({k}, s) = <<>>
           /\ k \in KeysOf(s) => Len(Of({k}, s)) > 0
<1> DEFINE T == {s \in Seq(Datum) : /\ k \notin KeysOf(s) => Of({k}, s) = <<>>
                                    /\ k \in KeysOf(s) => Len(Of({k}, s)) > 0}
<1>1. <<>> \in T
  <2>1. <<>> \in Seq(Datum)
    OBVIOUS
  <2> QED
    BY <2>1, OfSteps, SetsOfSequence
<1>2. ASSUME NEW s \in Seq(Datum), NEW d \in Datum, s \in T PROVE Append(s, d) \in T
  <2> DEFINE o == Of({k}, s)
             u == Append(s, d)
             p == Of({k}, u)
  <2>1. u \in Seq(Datum) /\ o \in Seq(Datum)
    BY OfSteps, AppendElements
  <2>2. p = Select({k}, o, d)
    BY OfSteps
  <2>3. KeysOf(u) = KeysOf(s) \cup {d.key}
    BY SetsOfSequence
  <2>4. /\ k \notin KeysOf(s) => o = <<>>
        /\ k \in KeysOf(s) => Len(o) > 0
    BY <1>2
  <2> HIDE DEF o, u, p
  <2>5. CASE d.key = k
    <3>1. p = Append(o, d)
      BY <2>2, <2>5 DEF Select
    <3>2. Len(p) > 0
      BY <2>1, <3>1
    <3>3. k \in KeysOf(u)
      BY <2>3, <2>5
    <3> QED
      BY <2>1, <3>2, <3>3 DEF u, p
  <2>6. CASE d.key # k
    <3>1. p = o
      BY <2>2, <2>6 DEF Select
    <3>2. k \in KeysOf(u) <=> k \in KeysOf(s)
      BY <2>3, <2>6
    <3> QED
      BY <2>1, <2>4, <3>1, <3>2 DEF u, p
  <2> QED
    BY <2>5, <2>6
<1> HIDE DEF T
<1>3. \A s \in Seq(Datum) : s \in T
  BY <1>1, <1>2, SeqInduction
<1> QED
  BY <1>3, OfSteps DEF T

(* Values are numbers.                                                      *)
LEMMA IntValues ==
  ASSUME NEW s \in Seq(Value)
  PROVE  s \in Seq(Int)
<1>1. Value \in SUBSET Int
  BY ConstantTypes
<1>2. Len(s) \in Nat /\ \A i \in 1 .. Len(s) : s[i] \in Value
  OBVIOUS
<1>3. \A i \in 1 .. Len(s) : s[i] \in Int
  BY <1>1, <1>2
<1>4. s = [i \in 1 .. Len(s) |-> s[i]]
  OBVIOUS
<1>5. [i \in 1 .. Len(s) |-> s[i]] \in Seq(Int)
  BY <1>2, <1>3
<1> QED
  BY <1>4, <1>5

(* The sum of nothing, and of one number more.                              *)
LEMMA SumSteps ==
  /\ SumOf(<<>>) = 0
  /\ \A s \in Seq(Int) : /\ SumOf(s) \in Int
                         /\ \A v \in Int : SumOf(Append(s, v)) = SumOf(s) + v
<1>1. \A r, d : Round("partition", r, d) = r + d
  BY DEF Round
<1>2. \A r \in Int : \A d \in Int : Round("partition", r, d) \in Int
  BY <1>1
<1>3. 0 \in Int
  OBVIOUS
<1>4. /\ Loop("partition", 0, <<>>) = 0
      /\ \A s \in Seq(Int) :
           /\ Loop("partition", 0, s) \in Int
           /\ \A d \in Int : Loop("partition", 0, Append(s, d)) = Round("partition", Loop("partition", 0, s), d)
  <2>1. LoopsIn(Int, Int, "partition", 0)
    BY <1>2, <1>3, LoopSteps
  <2> QED
    BY <2>1 DEF LoopsIn
<1> QED
  BY <1>1, <1>4 DEF SumOf

(* Tables: what std::map does of an assignment.                             *)
Maps(V) == UNION {[K -> V] : K \in SUBSET Key}

IsPut(r, V, m, k, v) ==
  /\ r \in Maps(V)
  /\ DOMAIN r = DOMAIN m \cup {k}
  /\ r[k] = v
  /\ \A x \in DOMAIN m : x # k => r[x] = m[x]

(* An assignment stays in the maps, and changes one key alone.              *)
LEMMA MapsPut ==
  ASSUME NEW V, NEW m \in Maps(V), NEW k \in Key, NEW v \in V
  PROVE  IsPut(Put(m, k, v), V, m, k, v)
<1>1. PICK K \in SUBSET Key : m \in [K -> V]
  BY DEF Maps
<1>2. Put(m, k, v) \in [K \cup {k} -> V] /\ K \cup {k} \in SUBSET Key
  BY <1>1 DEF Put
<1>3. Put(m, k, v) \in Maps(V)
  BY <1>2 DEF Maps
<1>4. \A x \in K \cup {k} : Put(m, k, v)[x] = IF x = k THEN v ELSE m[x]
  BY <1>1 DEF Put
<1> QED
  BY <1>1, <1>2, <1>3, <1>4 DEF IsPut

(* The empty map is a map; the elements of a map are in its range.          *)
LEMMA MapsType ==
  ASSUME NEW V
  PROVE  /\ EmptyMap \in Maps(V) /\ DOMAIN EmptyMap = {}
         /\ \A m \in Maps(V) : \A k \in DOMAIN m : m[k] \in V /\ k \in Key
<1>1. EmptyMap \in [{} -> V] /\ {} \in SUBSET Key
  BY DEF EmptyMap
<1>2. EmptyMap \in Maps(V) /\ DOMAIN EmptyMap = {}
  BY <1>1 DEF Maps
<1>3. ASSUME NEW m \in Maps(V), NEW k \in DOMAIN m PROVE m[k] \in V /\ k \in Key
  <2>1. PICK K \in SUBSET Key : m \in [K -> V]
    BY <1>3 DEF Maps
  <2> QED
    BY <2>1, <1>3
<1> QED
  BY <1>2, <1>3

(* What the entry e of a key in the table of task t says of the data o of   *)
(* that key.                                                                *)
TableTask == {"max", "count", "average"}

Entries(t) == IF t = "average" THEN [sum : Int, divisor : Nat]
              ELSE IF t = "count" THEN Nat ELSE Value

IsEntry(t, e, o) ==
  /\ t = "max" => e \in ValueSet(o) /\ \A v \in ValueSet(o) : v <= e
  /\ t = "count" => e = Len(o)
  /\ t = "average" => e.sum = SumOf(ValuesOf(o)) /\ e.divisor = Len(o) - 1

(* What a datum does to an entry of its key.                                *)
Entered(t, m, r, d) ==
  /\ r \in Maps(Entries(t))
  /\ DOMAIN r = DOMAIN m \cup {d.key}
  /\ \A k \in DOMAIN m : k # d.key => r[k] = m[k]
  /\ d.key \notin DOMAIN m => IsEntry(t, r[d.key], <<d>>)
  /\ \A o \in Seq(Datum) :
       d.key \in DOMAIN m /\ IsEntry(t, m[d.key], o) => IsEntry(t, r[d.key], Append(o, d))

(* A single datum, as a sequence.                                           *)
LEMMA OneDatum ==
  ASSUME NEW d \in Datum
  PROVE  /\ d.key \in Key /\ d.value \in Value /\ d.value \in Int
         /\ <<d>> = Append(<<>>, d) /\ <<d>> \in Seq(Datum) /\ Len(<<d>>) = 1
         /\ ValueSet(<<d>>) = {d.value} /\ ValuesOf(<<d>>) = Append(<<>>, d.value)
<1>1. d.key \in Key /\ d.value \in Value
  BY DEF Datum
<1>2. d.value \in Int
  BY <1>1, ConstantTypes
<1>3. <<d>> = Append(<<>>, d) /\ <<d>> \in Seq(Datum) /\ Len(<<d>>) = 1 /\ <<>> \in Seq(Datum)
  OBVIOUS
<1>4. ValueSet(<<>>) = {} /\ ValuesOf(<<>>) = <<>>
  BY SetsOfSequence
<1>5. /\ ValueSet(Append(<<>>, d)) = ValueSet(<<>>) \cup {d.value}
      /\ ValuesOf(Append(<<>>, d)) = Append(ValuesOf(<<>>), d.value)
  BY <1>3, SetsOfSequence
<1> HIDE DEF ValueSet
<1>6. ValueSet(<<d>>) = {d.value}
  BY <1>3, <1>4, <1>5
<1>7. ValuesOf(<<d>>) = Append(<<>>, d.value)
  BY <1>3, <1>4, <1>5, Zenon
<1> QED
  BY <1>1, <1>2, <1>3, <1>6, <1>7

(* Query3_Max and the like: the greater of the entry and the new value.     *)
LEMMA MaxEntered ==
  ASSUME NEW m \in Maps(Value), NEW d \in Datum
  PROVE  Entered("max", m, ReplaceByGreater(m, d), d)
<1> DEFINE k == d.key
           v == d.value
           r == ReplaceByGreater(m, d)
<1>1. k \in Key /\ v \in Value /\ v \in Int /\ Value \in SUBSET Int
  BY OneDatum, ConstantTypes
<1>2. Entries("max") = Value
  BY DEF Entries
<1>3. \A o \in Seq(Datum) : ValueSet(Append(o, d)) = ValueSet(o) \cup {v} /\ ValueSet(o) \in SUBSET Value
  BY SetsOfSequence
<1>4. ValueSet(<<d>>) = {v}
  BY OneDatum
<1>5. \A e, o : IsEntry("max", e, o) <=> e \in ValueSet(o) /\ \A x \in ValueSet(o) : x <= e
  BY DEF IsEntry
<1>6. \A x \in DOMAIN m : m[x] \in Value
  BY MapsType
<1>p. /\ Put(m, k, v) \in Maps(Value)
      /\ DOMAIN Put(m, k, v) = DOMAIN m \cup {k}
      /\ Put(m, k, v)[k] = v
      /\ \A x \in DOMAIN m : x # k => Put(m, k, v)[x] = m[x]
  <2> HIDE DEF k, v
  <2>1. IsPut(Put(m, k, v), Value, m, k, v)
    BY <1>1, MapsPut
  <2> QED
    BY <2>1 DEF IsPut
<1>d. r = IF k \notin DOMAIN m \/ v > m[k] THEN Put(m, k, v) ELSE m
  BY DEF ReplaceByGreater
<1> HIDE DEF r, k, v
<1>7. CASE k \notin DOMAIN m \/ v > m[k]
  <2>1. r = Put(m, k, v)
    BY <1>7, <1>d, Zenon
  <2>2. ASSUME k \notin DOMAIN m PROVE IsEntry("max", r[k], <<d>>)
    <3>1. r[k] = v
      BY <1>p, <2>1
    <3> QED
      BY <1>1, <1>4, <1>5, <3>1
  <2>3. ASSUME NEW o \in Seq(Datum), k \in DOMAIN m, IsEntry("max", m[k], o)
        PROVE  IsEntry("max", r[k], Append(o, d))
    <3>1. r[k] = v
      BY <1>p, <2>1
    <3>2. m[k] \in Value /\ v > m[k] /\ \A x \in ValueSet(o) : x <= m[k]
      <4>1. m[k] \in Value /\ v > m[k]
        BY <1>6, <1>7, <2>3
      <4> QED
        BY <1>5, <2>3, <4>1
    <3>3. \A x \in ValueSet(Append(o, d)) : x <= v
      <4> TAKE x \in ValueSet(Append(o, d))
      <4>1. x \in ValueSet(o) \/ x = v
        BY <1>3
      <4>2. CASE x \in ValueSet(o)
        <5>1. x \in Value /\ x <= m[k]
          BY <1>3, <3>2, <4>2
        <5>2. x \in Int /\ m[k] \in Int
          BY <1>1, <3>2, <5>1
        <5> QED
          BY <1>1, <3>2, <5>1, <5>2
      <4>3. CASE x = v
        BY <1>1, <4>3
      <4> QED
        BY <4>1, <4>2, <4>3
    <3>4. v \in ValueSet(Append(o, d))
      BY <1>3
    <3> QED
      BY <1>5, <3>1, <3>3, <3>4
  <2> QED
    BY <1>2, <1>p, <2>1, <2>2, <2>3 DEF Entered, r, k, v
<1>8. CASE k \in DOMAIN m /\ ~(v > m[k])
  <2>1. r = m
    BY <1>8, <1>d, Zenon
  <2>2. DOMAIN m = DOMAIN m \cup {k}
    BY <1>8
  <2>3. ASSUME NEW o \in Seq(Datum), IsEntry("max", m[k], o)
        PROVE  IsEntry("max", m[k], Append(o, d))
    <3>1. m[k] \in Value /\ v <= m[k] /\ m[k] \in ValueSet(o) /\ \A x \in ValueSet(o) : x <= m[k]
      <4>1. m[k] \in Value /\ m[k] \in Int
        BY <1>1, <1>6, <1>8
      <4>2. v <= m[k]
        BY <1>1, <1>8, <4>1
      <4> QED
        BY <1>5, <2>3, <4>1, <4>2
    <3>2. \A x \in ValueSet(Append(o, d)) : x <= m[k]
      BY <1>3, <3>1
    <3>3. m[k] \in ValueSet(Append(o, d))
      BY <1>3, <3>1
    <3> QED
      BY <1>5, <3>2, <3>3
  <2> QED
    BY <1>2, <1>8, <2>1, <2>2, <2>3 DEF Entered, r, k, v
<1> QED
  BY <1>7, <1>8

(* Query5_Count and the like: one more.                                     *)
LEMMA CountEntered ==
  ASSUME NEW m \in Maps(Nat), NEW d \in Datum
  PROVE  Entered("count", m, CountOne(m, d), d)
<1> DEFINE k == d.key
           v == IF k \in DOMAIN m THEN m[k] + 1 ELSE 1
           r == CountOne(m, d)
<1>1. k \in Key
  BY OneDatum
<1>2. Entries("count") = Nat
  BY DEF Entries
<1>5. \A e, o : IsEntry("count", e, o) <=> e = Len(o)
  BY DEF IsEntry
<1>6. \A x \in DOMAIN m : m[x] \in Nat
  BY MapsType
<1>7. v \in Nat
  BY <1>6
<1>d. r = Put(m, k, v)
  BY DEF CountOne
<1>p. /\ r \in Maps(Nat)
      /\ DOMAIN r = DOMAIN m \cup {k}
      /\ r[k] = v
      /\ \A x \in DOMAIN m : x # k => r[x] = m[x]
  <2> HIDE DEF r, k, v
  <2>1. IsPut(Put(m, k, v), Nat, m, k, v)
    BY <1>1, <1>7, MapsPut
  <2> QED
    BY <1>d, <2>1 DEF IsPut
<1> HIDE DEF r
<1>8. ASSUME k \notin DOMAIN m PROVE IsEntry("count", r[k], <<d>>)
  <2>1. r[k] = 1 /\ Len(<<d>>) = 1
    BY <1>p, <1>8
  <2> QED
    BY <1>5, <2>1
<1>9. ASSUME NEW o \in Seq(Datum), k \in DOMAIN m, IsEntry("count", m[k], o)
      PROVE  IsEntry("count", r[k], Append(o, d))
  <2>1. r[k] = Len(o) + 1
    BY <1>5, <1>p, <1>9
  <2>2. Len(Append(o, d)) = Len(o) + 1
    OBVIOUS
  <2> QED
    BY <1>5, <2>1, <2>2
<1> QED
  BY <1>2, <1>p, <1>8, <1>9 DEF Entered, r

(* Query4_Avg: the sum with the new value, and a counter one behind.        *)
LEMMA AverageEntered ==
  ASSUME NEW m \in Maps(Entries("average")), NEW d \in Datum
  PROVE  Entered("average", m, SumAndCount(m, d), d)
<1> DEFINE k == d.key
           v == IF k \in DOMAIN m
                THEN [sum |-> m[k].sum + d.value, divisor |-> m[k].divisor + 1]
                ELSE [sum |-> d.value, divisor |-> 0]
           r == SumAndCount(m, d)
<1>1. k \in Key /\ d.value \in Value /\ d.value \in Int
  BY OneDatum
<1>2. Entries("average") = [sum : Int, divisor : Nat]
  BY DEF Entries
<1>5. \A e, o : IsEntry("average", e, o) <=> e.sum = SumOf(ValuesOf(o)) /\ e.divisor = Len(o) - 1
  BY DEF IsEntry
<1>6. \A x \in DOMAIN m : m[x] \in [sum : Int, divisor : Nat]
  BY <1>2, MapsType
<1>7. v \in Entries("average")
  <2>1. CASE k \in DOMAIN m
    <3>1. m[k].sum \in Int /\ m[k].divisor \in Nat
      BY <1>6, <2>1
    <3>2. m[k].sum + d.value \in Int /\ m[k].divisor + 1 \in Nat
      BY <1>1, <3>1
    <3>3. v = [sum |-> m[k].sum + d.value, divisor |-> m[k].divisor + 1]
      BY <2>1
    <3> QED
      BY <1>2, <3>2, <3>3
  <2>2. CASE k \notin DOMAIN m
    BY <1>1, <1>2, <2>2
  <2> QED
    BY <2>1, <2>2
<1>d. r = Put(m, k, v)
  BY DEF SumAndCount
<1>p. /\ r \in Maps(Entries("average"))
      /\ DOMAIN r = DOMAIN m \cup {k}
      /\ r[k] = v
      /\ \A x \in DOMAIN m : x # k => r[x] = m[x]
  <2> HIDE DEF r, k, v
  <2>1. IsPut(Put(m, k, v), Entries("average"), m, k, v)
    BY <1>1, <1>7, MapsPut
  <2> QED
    BY <1>d, <2>1 DEF IsPut
<1> HIDE DEF r
<1>8. ASSUME k \notin DOMAIN m PROVE IsEntry("average", r[k], <<d>>)
  <2>1. r[k].sum = d.value /\ r[k].divisor = 0
    BY <1>p, <1>8
  <2>2. Len(<<d>>) - 1 = 0
    OBVIOUS
  <2>3. SumOf(ValuesOf(<<d>>)) = d.value
    <3>1. ValuesOf(<<d>>) = Append(<<>>, d.value)
      BY OneDatum
    <3>2. <<>> \in Seq(Int)
      OBVIOUS
    <3>3. SumOf(Append(<<>>, d.value)) = SumOf(<<>>) + d.value /\ SumOf(<<>>) = 0
      BY <1>1, <3>2, SumSteps
    <3> QED
      BY <1>1, <3>1, <3>3
  <2> QED
    BY <1>5, <2>1, <2>2, <2>3
<1>9. ASSUME NEW o \in Seq(Datum), k \in DOMAIN m, IsEntry("average", m[k], o)
      PROVE  IsEntry("average", r[k], Append(o, d))
  <2>1. r[k].sum = m[k].sum + d.value /\ r[k].divisor = m[k].divisor + 1
    BY <1>p, <1>9
  <2>2. m[k].sum = SumOf(ValuesOf(o)) /\ m[k].divisor = Len(o) - 1
    BY <1>5, <1>9
  <2>3. Len(Append(o, d)) = Len(o) + 1 /\ Len(o) \in Nat
    OBVIOUS
  <2>4. SumOf(ValuesOf(Append(o, d))) = SumOf(ValuesOf(o)) + d.value
    <3>1. ValuesOf(Append(o, d)) = Append(ValuesOf(o), d.value)
      BY SetsOfSequence
    <3>2. ValuesOf(o) \in Seq(Value)
      BY SetsOfSequence
    <3>3. ValuesOf(o) \in Seq(Int)
      BY <3>2, IntValues
    <3> QED
      BY <1>1, <3>1, <3>3, SumSteps
  <2>5. r[k].sum = SumOf(ValuesOf(Append(o, d)))
    BY <2>1, <2>2, <2>4, Zenon
  <2>6. r[k].divisor = Len(Append(o, d)) - 1
    BY <2>1, <2>2, <2>3
  <2> QED
    BY <1>5, <2>5, <2>6
<1> QED
  BY <1>p, <1>8, <1>9 DEF Entered, r

(* The rounds of the tasks with tables.                                     *)
LEMMA TableRound ==
  ASSUME NEW t \in TableTask, NEW m \in Maps(Entries(t)), NEW d \in Datum
  PROVE  Entered(t, m, Round(t, m, d), d)
<1>1. CASE t = "max"
  <2>1. Round(t, m, d) = ReplaceByGreater(m, d)
    BY <1>1 DEF Round
  <2>2. m \in Maps(Value)
    BY <1>1 DEF Entries
  <2> QED
    BY <1>1, <2>1, <2>2, MaxEntered
<1>2. CASE t = "count"
  <2>1. Round(t, m, d) = CountOne(m, d)
    BY <1>2 DEF Round
  <2>2. m \in Maps(Nat)
    BY <1>2 DEF Entries
  <2> QED
    BY <1>2, <2>1, <2>2, CountEntered
<1>3. CASE t = "average"
  <2>1. Round(t, m, d) = SumAndCount(m, d)
    BY <1>3 DEF Round
  <2> QED
    BY <1>3, <2>1, AverageEntered
<1> QED
  BY <1>1, <1>2, <1>3 DEF TableTask

(* The table of a task after a sequence of data: an entry for each key, of  *)
(* the data of that key.                                                    *)
IsTable(t, m, s) ==
  /\ m \in Maps(Entries(t))
  /\ DOMAIN m = KeysOf(s)
  /\ \A k \in DOMAIN m : IsEntry(t, m[k], Of({k}, s))

(* Every task with a table keeps that of the data it has gone through.      *)
LEMMA TableEntries ==
  ASSUME NEW t \in TableTask
  PROVE  \A s \in Seq(Datum) : IsTable(t, Loop(t, EmptyMap, s), s)
<1> DEFINE S == Maps(Entries(t))
           L(s) == Loop(t, EmptyMap, s)
           T == {s \in Seq(Datum) : IsTable(t, L(s), s)}
<1>1. EmptyMap \in S /\ DOMAIN EmptyMap = {}
  BY MapsType
<1>2. \A r \in S : \A d \in Datum : Entered(t, r, Round(t, r, d), d)
  BY TableRound
<1>3. \A r \in S : \A d \in Datum : Round(t, r, d) \in S
  BY <1>2 DEF Entered
<1>4. /\ L(<<>>) = EmptyMap
      /\ \A s \in Seq(Datum) : /\ L(s) \in S
                               /\ \A d \in Datum : L(Append(s, d)) = Round(t, L(s), d)
  <2> HIDE DEF S
  <2>1. LoopsIn(S, Datum, t, EmptyMap)
    BY <1>1, <1>3, LoopSteps
  <2> QED
    BY <2>1 DEF LoopsIn
<1> HIDE DEF L
<1>5. <<>> \in T
  <2>1. <<>> \in Seq(Datum)
    OBVIOUS
  <2>2. KeysOf(<<>>) = {}
    BY SetsOfSequence
  <2> QED
    BY <1>1, <1>4, <2>1, <2>2 DEF IsTable
<1>6. ASSUME NEW s \in Seq(Datum), NEW d \in Datum, s \in T PROVE Append(s, d) \in T
  <2> DEFINE u == Append(s, d)
             m == L(s)
             r == L(u)
  <2>1. u \in Seq(Datum) /\ KeysOf(u) = KeysOf(s) \cup {d.key}
    BY AppendElements, SetsOfSequence
  <2>2. m \in S /\ DOMAIN m = KeysOf(s) /\ \A k \in DOMAIN m : IsEntry(t, m[k], Of({k}, s))
    BY <1>6 DEF IsTable
  <2>3. Entered(t, m, r, d)
    BY <1>2, <1>4, <2>2
  <2>4. \A k \in Key : /\ Of({k}, u) = Select({k}, Of({k}, s), d)
                       /\ Of({k}, s) \in Seq(Datum)
                       /\ k \notin KeysOf(s) => Of({k}, s) = <<>>
    BY OfSteps, OwnData
  <2>5. KeysOf(u) \in SUBSET Key /\ d.key \in Key
    BY <2>1, SetsOfSequence, OneDatum
  <2> HIDE DEF u, m, r
  <2>6. r \in S /\ DOMAIN r = KeysOf(u)
    BY <2>1, <2>2, <2>3 DEF Entered
  <2>7. ASSUME NEW k \in DOMAIN r PROVE IsEntry(t, r[k], Of({k}, u))
    <3>1. k \in Key
      BY <2>5, <2>6
    <3>2. CASE k # d.key
      <4>1. k \in DOMAIN m
        BY <2>1, <2>2, <2>6, <3>2
      <4>2. r[k] = m[k]
        BY <2>3, <3>2, <4>1 DEF Entered
      <4>3. Of({k}, u) = Of({k}, s)
        BY <2>4, <3>1, <3>2 DEF Select
      <4> QED
        BY <2>2, <4>1, <4>2, <4>3
    <3>3. CASE k = d.key /\ k \in DOMAIN m
      <4>1. Of({k}, u) = Append(Of({k}, s), d) /\ Of({k}, s) \in Seq(Datum)
        BY <2>4, <3>1, <3>3 DEF Select
      <4>2. IsEntry(t, m[k], Of({k}, s))
        BY <2>2, <3>3
      <4>3. IsEntry(t, r[k], Append(Of({k}, s), d))
        BY <2>3, <3>3, <4>1, <4>2 DEF Entered
      <4> QED
        BY <4>1, <4>3
    <3>4. CASE k = d.key /\ k \notin DOMAIN m
      <4>1. Of({k}, s) = <<>>
        BY <2>2, <2>4, <3>1, <3>4
      <4>2. Of({k}, u) = Append(<<>>, d)
        BY <2>4, <3>1, <3>4, <4>1 DEF Select
      <4>3. Of({k}, u) = <<d>>
        BY <4>2, OneDatum
      <4>4. IsEntry(t, r[k], <<d>>)
        BY <2>3, <3>4 DEF Entered
      <4> QED
        BY <4>3, <4>4
    <3> QED
      BY <3>2, <3>3, <3>4
  <2>8. IsTable(t, r, u)
    BY <2>6, <2>7 DEF IsTable
  <2> QED
    BY <2>1, <2>8 DEF r, u
<1> HIDE DEF T
<1>7. \A s \in Seq(Datum) : s \in T
  BY <1>5, <1>6, SeqInduction
<1> QED
  BY <1>7 DEF T, L

(* Query3_MaxTrip: the first of the data with the greatest value, if the    *)
(* loop starts from the first datum.                                        *)
IsGreatest(r, s) ==
  \E i \in 1 .. Len(s) :
    /\ r = s[i]
    /\ \A v \in ValueSet(s) : v <= s[i].value
    /\ \A j \in 1 .. i - 1 : s[j].value < s[i].value

(* The loop of Query3_MaxTrip ends at the first of the greatest.            *)
LEMMA GreatestOfSequence ==
  ASSUME NEW s \in Seq(Datum), Len(s) > 0
  PROVE  IsGreatest(Loop("trip", s[1], s), s)
<1> DEFINE h == s[1]
           L(x) == Loop("trip", h, x)
           T == {x \in Seq(Datum) : Len(x) > 0 /\ x[1] = h => IsGreatest(L(x), x)}
<1>1. h \in Datum
  OBVIOUS
<1> HIDE DEF h
<1>2. \A r, d : Round("trip", r, d) = IF d.value > r.value THEN d ELSE r
  BY DEF Round, Greater
<1>3. \A r \in Datum : \A d \in Datum : Round("trip", r, d) \in Datum
  BY <1>2
<1>4. /\ L(<<>>) = h
      /\ \A x \in Seq(Datum) : /\ L(x) \in Datum
                               /\ \A d \in Datum : L(Append(x, d)) = Round("trip", L(x), d)
  <2>1. LoopsIn(Datum, Datum, "trip", h)
    BY <1>1, <1>3, LoopSteps
  <2> QED
    BY <2>1 DEF LoopsIn
<1> HIDE DEF L
<1>5. <<>> \in T
  OBVIOUS
<1>6. ASSUME NEW x \in Seq(Datum), NEW d \in Datum, x \in T PROVE Append(x, d) \in T
  <2> DEFINE u == Append(x, d)
  <2>1. /\ u \in Seq(Datum) /\ Len(x) \in Nat /\ Len(u) = Len(x) + 1 /\ u[Len(x) + 1] = d
        /\ \A i \in 1 .. Len(x) : u[i] = x[i]
    BY AppendElements
  <2>2. ValueSet(u) = ValueSet(x) \cup {d.value}
    BY SetsOfSequence
  <2>3. /\ \A e \in Datum : e.value \in Int
        /\ ValueSet(x) \in SUBSET Int
    <3>1. ValueSet(x) \in SUBSET Value /\ Value \in SUBSET Int
      BY SetsOfSequence, ConstantTypes
    <3> QED
      BY <3>1, OneDatum
  <2>4. L(u) = Round("trip", L(x), d) /\ L(x) \in Datum
    BY <1>4
  <2>5. \A i \in 1 .. Len(x) : x[i] \in Datum /\ x[i].value \in ValueSet(x)
    BY DEF ValueSet
  <2> HIDE DEF u
  <2>6. ASSUME Len(u) > 0, u[1] = h PROVE IsGreatest(L(u), u)
    <3>1. CASE Len(x) = 0
      <4>1. L(x) = h
        <5>1. x = <<>>
          BY <3>1
        <5> QED
          BY <1>4, <5>1
      <4>2. d = h
        BY <2>1, <2>6, <3>1
      <4>3. L(u) = d
        BY <1>2, <2>4, <4>1, <4>2
      <4>4. ValueSet(x) = {}
        BY <3>1 DEF ValueSet
      <4>5. 1 \in 1 .. Len(u) /\ L(u) = u[1] /\ u[1].value \in Int
        BY <2>1, <2>3, <3>1, <4>3
      <4>6. \A v \in ValueSet(u) : v <= u[1].value
        BY <2>1, <2>2, <2>3, <3>1, <4>4
      <4>7. \A j \in 1 .. 1 - 1 : u[j].value < u[1].value
        OBVIOUS
      <4> QED
        BY <4>5, <4>6, <4>7 DEF IsGreatest
    <3>2. CASE Len(x) > 0
      <4>1. x[1] = h
        BY <2>1, <2>6, <3>2
      <4>2. PICK i \in 1 .. Len(x) : /\ L(x) = x[i]
                                     /\ \A v \in ValueSet(x) : v <= x[i].value
                                     /\ \A j \in 1 .. i - 1 : x[j].value < x[i].value
        BY <1>6, <3>2, <4>1 DEF IsGreatest
      <4>3. x[i].value \in Int /\ d.value \in Int /\ i \in Nat /\ i <= Len(x)
        BY <2>1, <2>3, <2>5
      <4>4. CASE d.value > x[i].value
        <5>1. L(u) = u[Len(x) + 1] /\ Len(x) + 1 \in 1 .. Len(u)
          BY <1>2, <2>1, <2>4, <4>2, <4>4
        <5>2. \A v \in ValueSet(x) : v < d.value
          BY <2>3, <4>2, <4>3, <4>4
        <5>3. \A v \in ValueSet(u) : v <= u[Len(x) + 1].value
          BY <2>1, <2>2, <2>3, <4>3, <5>2
        <5>4. ASSUME NEW j \in 1 .. (Len(x) + 1) - 1 PROVE u[j].value < u[Len(x) + 1].value
          <6>1. j \in 1 .. Len(x)
            BY <2>1
          <6>2. u[j].value = x[j].value /\ x[j].value \in ValueSet(x)
            BY <2>1, <2>5, <6>1
          <6> QED
            BY <2>1, <5>2, <6>2
        <5> QED
          BY <5>1, <5>3, <5>4 DEF IsGreatest
      <4>5. CASE ~(d.value > x[i].value)
        <5>1. L(u) = u[i] /\ u[i] = x[i] /\ i \in 1 .. Len(u)
          BY <1>2, <2>1, <2>4, <4>2, <4>5
        <5>2. d.value <= x[i].value
          BY <4>3, <4>5
        <5>3. \A v \in ValueSet(u) : v <= u[i].value
          BY <2>2, <4>2, <5>1, <5>2
        <5>4. ASSUME NEW j \in 1 .. i - 1 PROVE u[j].value < u[i].value
          <6>1. j \in 1 .. Len(x)
            BY <4>3
          <6> QED
            BY <2>1, <4>2, <5>1, <6>1
        <5> QED
          BY <5>1, <5>3, <5>4 DEF IsGreatest
      <4> QED
        BY <4>4, <4>5
    <3> QED
      BY <2>1, <3>1, <3>2
  <2> QED
    BY <2>1, <2>6 DEF u
<1> HIDE DEF T
<1>7. s \in T
  BY <1>5, <1>6, SeqInduction
<1> QED
  BY <1>7 DEF T, L, h

(* AggregateSensorData: the sum of the values, and the last light.          *)
SensorSum(s) ==
  [sum |-> SumOf(ValuesOf(s)), light |-> IF s = <<>> THEN 0 ELSE s[Len(s)].value]

(* The loop of AggregateSensorData ends with that sum.                      *)
LEMMA SensorOfSequence ==
  \A s \in Seq(Datum) : Loop("sensor", [sum |-> 0, light |-> 0], s) = SensorSum(s)
<1> DEFINE zero == [sum |-> 0, light |-> 0]
           S == [sum : Int, light : Int]
           L(x) == Loop("sensor", zero, x)
           T == {x \in Seq(Datum) : L(x) = SensorSum(x)}
<1>1. zero \in S
  OBVIOUS
<1>2. \A r, d : Round("sensor", r, d) = [sum |-> r.sum + d.value, light |-> d.value]
  BY DEF Round, AddSensor
<1>3. ASSUME NEW r \in S, NEW d \in Datum PROVE Round("sensor", r, d) \in S
  <2>1. r.sum \in Int /\ d.value \in Int
    BY OneDatum
  <2>2. r.sum + d.value \in Int
    BY <2>1
  <2> QED
    BY <1>2, <2>1, <2>2
<1> HIDE DEF zero, S
<1>4. LoopsIn(S, Datum, "sensor", zero)
  BY <1>1, <1>3, LoopSteps
<1>5. /\ L(<<>>) = zero
      /\ \A x \in Seq(Datum) : \A d \in Datum : L(Append(x, d)) = Round("sensor", L(x), d)
  BY <1>4 DEF LoopsIn
<1> HIDE DEF L
<1>6. <<>> \in T
  <2>1. <<>> \in Seq(Datum)
    OBVIOUS
  <2>2. SumOf(ValuesOf(<<>>)) = 0
    BY SetsOfSequence, SumSteps
  <2>3. SensorSum(<<>>) = [sum |-> 0, light |-> 0]
    BY <2>2 DEF SensorSum
  <2> QED
    BY <1>5, <2>1, <2>3 DEF zero
<1>7. ASSUME NEW x \in Seq(Datum), NEW d \in Datum, x \in T PROVE Append(x, d) \in T
  <2> DEFINE u == Append(x, d)
  <2>1. u \in Seq(Datum) /\ Len(x) \in Nat /\ Len(u) = Len(x) + 1 /\ u[Len(x) + 1] = d
    BY AppendElements
  <2>2. u # <<>>
    <3> HIDE DEF T, u
    <3> QED
      BY <2>1
  <2>3. SumOf(ValuesOf(u)) = SumOf(ValuesOf(x)) + d.value
    <3>1. ValuesOf(u) = Append(ValuesOf(x), d.value) /\ ValuesOf(x) \in Seq(Value)
      BY SetsOfSequence
    <3>2. ValuesOf(x) \in Seq(Int) /\ d.value \in Int
      BY <3>1, IntValues, OneDatum
    <3> QED
      BY <3>1, <3>2, SumSteps
  <2>4. L(u) = [sum |-> L(x).sum + d.value, light |-> d.value]
    BY <1>2, <1>5
  <2>5. L(x).sum = SumOf(ValuesOf(x))
    BY <1>7 DEF SensorSum
  <2> HIDE DEF u
  <2>6. L(u) = [sum |-> SumOf(ValuesOf(u)), light |-> u[Len(u)].value]
    BY <2>1, <2>3, <2>4, <2>5
  <2>7. L(u) = SensorSum(u)
    BY <2>2, <2>6 DEF SensorSum
  <2> QED
    BY <2>1, <2>7 DEF u
<1> HIDE DEF T
<1>8. \A s \in Seq(Datum) : s \in T
  BY <1>6, <1>7, SeqInduction
<1> QED
  BY <1>8 DEF T, L, zero

(* Query4_JoinWithCategory: a result for each datum of a known category.    *)
Joined == [auctionId : Value, final : Key, category : {0}]

IsJoined(r, s) ==
  /\ r \in Seq(Joined)
  /\ Len(r) = Len(Of(Category, s))
  /\ \A i \in 1 .. Len(r) : /\ r[i].auctionId = Of(Category, s)[i].value
                            /\ r[i].final = Of(Category, s)[i].key

(* The loop of Query4_JoinWithCategory ends with those results.             *)
LEMMA JoinOfSequence ==
  \A s \in Seq(Datum) : IsJoined(Loop("category", <<>>, s), s)
<1> DEFINE S == Seq(Joined)
           L(x) == Loop("category", <<>>, x)
           row(d) == [auctionId |-> d.value, final |-> d.key, category |-> 0]
           T == {x \in Seq(Datum) : IsJoined(L(x), x)}
<1>1. <<>> \in S
  OBVIOUS
<1>2. \A r, d : Round("category", r, d) = IF d.key \in Category THEN Append(r, row(d)) ELSE r
  BY DEF Round, JoinCategory
<1>r. \A d \in Datum : /\ row(d) \in Joined
                       /\ row(d).auctionId = d.value /\ row(d).final = d.key
  BY OneDatum DEF Joined
<1> HIDE DEF row
<1>3. ASSUME NEW r \in S, NEW d \in Datum PROVE Round("category", r, d) \in S
  <2>1. Append(r, row(d)) \in S
    BY <1>r
  <2> HIDE DEF S
  <2> QED
    BY <1>2, <2>1
<1>4. LoopsIn(S, Datum, "category", <<>>)
  <2> HIDE DEF S
  <2> QED
    BY <1>1, <1>3, LoopSteps
<1>5. /\ L(<<>>) = <<>>
      /\ \A x \in Seq(Datum) : /\ L(x) \in S
                               /\ \A d \in Datum : L(Append(x, d)) = Round("category", L(x), d)
  BY <1>4 DEF LoopsIn
<1> HIDE DEF L
<1>6. <<>> \in T
  <2>1. <<>> \in Seq(Datum)
    OBVIOUS
  <2>2. Of(Category, <<>>) = <<>>
    BY OfSteps
  <2>3. IsJoined(<<>>, <<>>)
    BY <1>1, <2>2 DEF IsJoined
  <2> QED
    BY <1>5, <2>1, <2>3
<1>7. ASSUME NEW x \in Seq(Datum), NEW d \in Datum, x \in T PROVE Append(x, d) \in T
  <2> DEFINE u == Append(x, d)
             o == Of(Category, x)
             p == Of(Category, u)
             r == L(x)
             q == L(u)
  <2>1. u \in Seq(Datum)
    BY AppendElements
  <2>2. p = Select(Category, o, d) /\ o \in Seq(Datum)
    BY OfSteps
  <2>3. q = IF d.key \in Category THEN Append(r, row(d)) ELSE r
    BY <1>2, <1>5
  <2>4. r \in S /\ Len(r) = Len(o)
        /\ \A i \in 1 .. Len(r) : r[i].auctionId = o[i].value /\ r[i].final = o[i].key
    BY <1>7 DEF IsJoined
  <2> HIDE DEF u, o, p, r, q
  <2>5. CASE d.key \in Category
    <3>1. p = Append(o, d) /\ q = Append(r, row(d))
      BY <2>2, <2>3, <2>5 DEF Select
    <3>2. q \in S /\ Len(q) = Len(p) /\ Len(q) = Len(r) + 1 /\ Len(r) \in Nat
      BY <1>r, <2>2, <2>4, <3>1
    <3>3. ASSUME NEW i \in 1 .. Len(q) PROVE q[i].auctionId = p[i].value /\ q[i].final = p[i].key
      <4>1. CASE i = Len(r) + 1
        <5>1. q[i] = row(d) /\ p[i] = d
          BY <2>2, <2>4, <3>1, <4>1
        <5> QED
          BY <1>r, <5>1
      <4>2. CASE i \in 1 .. Len(r)
        <5>1. q[i] = r[i] /\ p[i] = o[i]
          BY <2>2, <2>4, <3>1, <4>2
        <5> QED
          BY <2>4, <4>2, <5>1
      <4> QED
        BY <3>2, <4>1, <4>2
    <3> QED
      BY <2>1, <3>2, <3>3 DEF IsJoined, u, p, q
  <2>6. CASE d.key \notin Category
    <3>1. p = o /\ q = r
      BY <2>2, <2>3, <2>6 DEF Select
    <3>2. IsJoined(q, u)
      BY <2>4, <3>1 DEF IsJoined, p
    <3> QED
      BY <2>1, <3>2 DEF u, q
  <2> QED
    BY <2>5, <2>6
<1> HIDE DEF T
<1>8. \A s \in Seq(Datum) : s \in T
  BY <1>6, <1>7, SeqInduction
<1> QED
  BY <1>8 DEF T, L
-------------------------------------------------------------------------------
(* The order of a map.  A finite set of numbers can be put in order, so the *)
(* elements of a map, in order of key, are a sequence with one element for  *)
(* each key.                                                                *)
Ascends(s, S) ==
  /\ s \in [1 .. Cardinality(S) -> S]
  /\ S = {s[i] : i \in 1 .. Cardinality(S)}
  /\ \A i \in 1 .. Cardinality(S) : \A j \in 1 .. i - 1 : s[j] < s[i]

(* A finite set of numbers can be put in order: its least one comes first.  *)
LEMMA OrderExists ==
  ASSUME NEW S \in SUBSET Nat, IsFiniteSet(S)
  PROVE  \E s : Ascends(s, S)
<1> DEFINE Ordered(R) == \E s : Ascends(s, R)
           Sizes == {n \in Nat : \A R \in SUBSET Nat :
                                   IsFiniteSet(R) /\ Cardinality(R) = n => Ordered(R)}
<1>1. 0 \in Sizes
  <2>1. ASSUME NEW R \in SUBSET Nat, IsFiniteSet(R), Cardinality(R) = 0 PROVE Ordered(R)
    <3>1. R = {}
      BY <2>1, FS_EmptySet
    <3> DEFINE s == [i \in 1 .. 0 |-> 0]
    <3>2. s \in [1 .. 0 -> R]
      OBVIOUS
    <3>3. R = {s[i] : i \in 1 .. 0}
      BY <3>1
    <3>4. \A i \in 1 .. 0 : \A j \in 1 .. i - 1 : s[j] < s[i]
      OBVIOUS
    <3>5. Ascends(s, R)
      BY <2>1, <3>2, <3>3, <3>4 DEF Ascends
    <3> QED
      BY <3>5
  <2> QED
    BY <2>1
<1>2. ASSUME NEW n \in Nat, n \in Sizes PROVE n + 1 \in Sizes
  <2>1. ASSUME NEW R \in SUBSET Nat, IsFiniteSet(R), Cardinality(R) = n + 1 PROVE Ordered(R)
    <3>1. R # {}
      BY <2>1, FS_EmptySet
    <3>2. PICK a \in R : \A k \in R : a <= k
      BY <3>1, LeastNumber
    <3> DEFINE Q == R \ {a}
    <3>3. IsFiniteSet(Q) /\ Cardinality(Q) = Cardinality(R) - 1
      BY <2>1, FS_RemoveElement
    <3>4. Q \in SUBSET Nat /\ Cardinality(Q) = n
      BY <2>1, <3>3
    <3>5. PICK r : Ascends(r, Q)
      BY <1>2, <3>3, <3>4
    <3>6. /\ r \in [1 .. n -> Q]
          /\ Q = {r[i] : i \in 1 .. n}
          /\ \A i \in 1 .. n : \A j \in 1 .. i - 1 : r[j] < r[i]
      BY <3>4, <3>5 DEF Ascends
    <3>7. Q \in SUBSET R /\ a \in Nat /\ R = Q \cup {a} /\ \A k \in Q : a < k /\ k \in Nat
      BY <3>2
    <3> DEFINE s == [i \in 1 .. n + 1 |-> IF i = 1 THEN a ELSE r[i - 1]]
    <3> HIDE DEF Q
    <3>8. s[1] = a /\ \A i \in 2 .. n + 1 : s[i] = r[i - 1] /\ i - 1 \in 1 .. n
      OBVIOUS
    <3>9. \A i \in 1 .. n : s[i + 1] = r[i] /\ i + 1 \in 1 .. n + 1
      OBVIOUS
    <3>10. s \in [1 .. n + 1 -> R]
      <4>1. ASSUME NEW i \in 1 .. n + 1 PROVE (IF i = 1 THEN a ELSE r[i - 1]) \in R
        <5>1. CASE i = 1
          BY <3>2, <5>1
        <5>2. CASE i # 1
          <6>1. i - 1 \in 1 .. n
            BY <5>2
          <6>2. r[i - 1] \in R
            BY <3>6, <3>7, <6>1
          <6> QED
            BY <5>2, <6>2
        <5> QED
          BY <5>1, <5>2
      <4> QED
        BY <4>1
    <3>11. 1 \in 1 .. n + 1 /\ \A i \in 1 .. n + 1 : i = 1 \/ i \in 2 .. n + 1
      OBVIOUS
    <3> HIDE DEF s
    <3>12. R = {s[i] : i \in 1 .. n + 1}
      <4>1. ASSUME NEW k \in R PROVE \E i \in 1 .. n + 1 : s[i] = k
        <5>1. CASE k = a
          BY <3>8, <3>11, <5>1
        <5>2. CASE k \in Q
          <6>1. PICK i \in 1 .. n : r[i] = k
            BY <3>6, <5>2
          <6> QED
            BY <3>9, <6>1
        <5> QED
          BY <3>7, <5>1, <5>2
      <4>2. \A i \in 1 .. n + 1 : s[i] \in R
        BY <3>10
      <4> QED
        BY <4>1, <4>2
    <3>13. ASSUME NEW i \in 1 .. n + 1, NEW j \in 1 .. i - 1 PROVE s[j] < s[i]
      <4>1. i \in 2 .. n + 1 /\ j \in 1 .. n
        BY <3>13
      <4>2. s[i] = r[i - 1] /\ i - 1 \in 1 .. n
        BY <3>8, <4>1
      <4>3. s[i] \in Q
        BY <3>6, <4>2
      <4>4. CASE j = 1
        BY <3>7, <3>8, <4>3, <4>4
      <4>5. CASE j # 1
        <5>1. j \in 2 .. n + 1 /\ j - 1 \in 1 .. (i - 1) - 1
          BY <4>1, <4>5
        <5>2. s[j] = r[j - 1]
          BY <3>8, <5>1
        <5> QED
          BY <3>6, <4>2, <5>1, <5>2
      <4> QED
        BY <4>4, <4>5
    <3>14. Ascends(s, R)
      BY <2>1, <3>10, <3>12, <3>13 DEF Ascends
    <3> QED
      BY <3>14
  <2> HIDE DEF Ordered
  <2> QED
    BY <2>1
<1> HIDE DEF Sizes
<1>3. \A n \in Nat : n \in Sizes
  BY <1>1, <1>2, Induction
<1>4. Cardinality(S) \in Nat
  BY FS_CardinalityType
<1>5. Cardinality(S) \in Sizes
  BY <1>3, <1>4
<1> HIDE DEF Ordered
<1>6. Ordered(S)
  BY <1>5 DEF Sizes
<1> QED
  BY <1>6 DEF Ordered

(* The order that is chosen is one.                                         *)
LEMMA AscendingAscends ==
  ASSUME NEW S \in SUBSET Nat, IsFiniteSet(S)
  PROVE  Ascends(Ascending(S), S)
<1>1. \E s : Ascends(s, S)
  BY OrderExists
<1>2. PICK s : Ascends(s, S)
  BY <1>1
<1> DEFINE Good(x) == /\ S = {x[i] : i \in 1 .. Cardinality(S)}
                      /\ \A i \in 1 .. Cardinality(S) : \A j \in 1 .. i - 1 : x[j] < x[i]
           F == [1 .. Cardinality(S) -> S]
<1>3. s \in F /\ Good(s)
  BY <1>2 DEF Ascends
<1> HIDE DEF Good, F
<1>4. (CHOOSE x \in F : Good(x)) \in F /\ Good(CHOOSE x \in F : Good(x))
  BY <1>3
<1>5. Ascending(S) = CHOOSE x \in F : Good(x)
  BY Zenon DEF Ascending, Good, F
<1>6. Ascending(S) \in F /\ Good(Ascending(S))
  BY <1>4, <1>5
<1> QED
  BY <1>6 DEF Ascends, Good, F

(* The elements of a map that hold their own key, in order of key.          *)
IsInKeyOrder(r, m) ==
  /\ Len(r) \in Nat /\ DOMAIN r = 1 .. Len(r)
  /\ {r[i].key : i \in 1 .. Len(r)} = DOMAIN m
  /\ \A i \in 1 .. Len(r) : r[i].key \in DOMAIN m /\ r[i] = m[r[i].key]
  /\ \A i \in 1 .. Len(r) - 1 : r[i].key < r[i + 1].key

(* The elements of a map in order of key are in order, one for each key.    *)
LEMMA KeyOrder ==
  ASSUME NEW m, DOMAIN m \in SUBSET Nat, IsFiniteSet(DOMAIN m),
         \A k \in DOMAIN m : m[k].key = k
  PROVE  IsInKeyOrder(InKeyOrder(m), m)
<1> DEFINE K == DOMAIN m
           n == Cardinality(K)
           s == Ascending(K)
           r == InKeyOrder(m)
<1>1. n \in Nat
  BY FS_CardinalityType
<1>2. s \in [1 .. n -> K] /\ K = {s[i] : i \in 1 .. n}
      /\ \A i \in 1 .. n : \A j \in 1 .. i - 1 : s[j] < s[i]
  BY AscendingAscends DEF Ascends
<1>3. r = [i \in 1 .. n |-> m[s[i]]]
  BY DEF InKeyOrder
<1> HIDE DEF K, n, s, r
<1>4. Len(r) = n /\ DOMAIN r = 1 .. n
  BY <1>1, <1>3
<1>5. ASSUME NEW i \in 1 .. n PROVE r[i] = m[s[i]] /\ r[i].key = s[i] /\ s[i] \in K
  <2>1. s[i] \in K /\ r[i] = m[s[i]]
    BY <1>2, <1>3
  <2> QED
    BY <2>1 DEF K
<1>6. {r[i].key : i \in 1 .. n} = K
  <2>1. \A i \in 1 .. n : r[i].key \in K
    BY <1>5
  <2>2. ASSUME NEW k \in K PROVE \E i \in 1 .. n : r[i].key = k
    <3>1. PICK i \in 1 .. n : s[i] = k
      BY <1>2
    <3> QED
      BY <1>5, <3>1
  <2> QED
    BY <2>1, <2>2
<1>7. ASSUME NEW i \in 1 .. n - 1 PROVE r[i].key < r[i + 1].key
  <2>1. i \in 1 .. n /\ i + 1 \in 1 .. n /\ i \in 1 .. (i + 1) - 1
    BY <1>1
  <2> QED
    BY <1>2, <1>5, <2>1
<1> QED
  BY <1>1, <1>4, <1>5, <1>6, <1>7 DEF IsInKeyOrder, K, r

(* A sequence has finitely many keys.                                       *)
LEMMA KeysFinite ==
  \A s \in Seq(Datum) : IsFiniteSet(KeysOf(s))
<1> DEFINE T == {s \in Seq(Datum) : IsFiniteSet(KeysOf(s))}
<1>1. <<>> \in T
  <2>1. <<>> \in Seq(Datum)
    OBVIOUS
  <2> QED
    BY <2>1, SetsOfSequence, FS_EmptySet
<1>2. ASSUME NEW s \in Seq(Datum), NEW d \in Datum, s \in T PROVE Append(s, d) \in T
  <2>1. Append(s, d) \in Seq(Datum) /\ KeysOf(Append(s, d)) = KeysOf(s) \cup {d.key}
    BY AppendElements, SetsOfSequence
  <2>2. IsFiniteSet(KeysOf(s) \cup {d.key})
    BY <1>2, FS_AddElement
  <2> QED
    BY <2>1, <2>2
<1> HIDE DEF T
<1>3. \A s \in Seq(Datum) : s \in T
  BY <1>1, <1>2, SeqInduction
<1> QED
  BY <1>3 DEF T

(* What the results r of task t say of the window w.                        *)
OneResultPerKey(r, keys) ==
  /\ {r[i].key : i \in 1 .. Len(r)} = keys
  /\ \A i \in 1 .. Len(r) - 1 : r[i].key < r[i + 1].key

IsResult(t, e, o) ==
  /\ t \in {"max", "count"} => IsEntry(t, e.value, o)
  /\ t = "average" => e.sum = SumOf(ValuesOf(o)) /\ e.divisor = Len(o) - 1

ResultsAre(t, r, w) ==
  /\ t \in TableTask =>
       /\ OneResultPerKey(r, KeysOf(w))
       /\ \A i \in 1 .. Len(r) : IsResult(t, r[i], Of({r[i].key}, w))
  /\ t = "category" => IsJoined(r, w)
  /\ t = "trip" => \E x : r = <<x>> /\ IsGreatest(x, w)
  /\ t = "sensor" => r = <<SensorSum(w)>>

(* What a sliding task computes over its window is what it should say of    *)
(* it.                                                                      *)
LEMMA AggregateResults ==
  ASSUME NEW t \in SlidingTask, t # "batch", NEW w \in Seq(Datum), Len(w) > 0
  PROVE  ResultsAre(t, Aggregate(t, w), w)
<1> DEFINE r == Aggregate(t, w)
           m == Loop(t, EmptyMap, w)
<1>1. ASSUME t \in TableTask
      PROVE  /\ OneResultPerKey(r, KeysOf(w))
             /\ \A i \in 1 .. Len(r) : IsResult(t, r[i], Of({r[i].key}, w))
  <2>1. IsTable(t, m, w)
    BY <1>1, TableEntries
  <2> HIDE DEF m
  <2>2. m \in Maps(Entries(t)) /\ DOMAIN m = KeysOf(w)
        /\ \A k \in DOMAIN m : IsEntry(t, m[k], Of({k}, w))
    BY <2>1 DEF IsTable
  <2>3. KeysOf(w) \in SUBSET Nat /\ IsFiniteSet(KeysOf(w))
    <3>1. KeysOf(w) \in SUBSET Key
      BY SetsOfSequence
    <3> QED
      BY <3>1, KeysFinite, ConstantTypes
  <2>4. CASE t \in {"max", "count"}
    <3> DEFINE p == [k \in DOMAIN m |-> [key |-> k, value |-> m[k]]]
    <3>1. DOMAIN p = KeysOf(w) /\ \A k \in DOMAIN p : p[k].key = k /\ p[k].value = m[k]
      BY <2>2
    <3>2. r = InKeyOrder(p)
      <4>1. r = KeyedValues(m)
        BY <2>4 DEF Aggregate, m
      <4> QED
        BY <4>1 DEF KeyedValues
    <3> HIDE DEF p, r
    <3>3. IsInKeyOrder(r, p)
      BY <2>3, <3>1, <3>2, KeyOrder
    <3>4. OneResultPerKey(r, KeysOf(w))
      BY <3>1, <3>3 DEF IsInKeyOrder, OneResultPerKey
    <3>5. ASSUME NEW i \in 1 .. Len(r) PROVE IsResult(t, r[i], Of({r[i].key}, w))
      <4>1. r[i].key \in DOMAIN m /\ r[i].value = m[r[i].key]
        BY <2>2, <3>1, <3>3 DEF IsInKeyOrder
      <4>2. IsEntry(t, r[i].value, Of({r[i].key}, w))
        BY <2>2, <4>1
      <4>3. t # "average"
        BY <2>4
      <4> QED
        BY <4>2, <4>3 DEF IsResult
    <3> QED
      BY <3>4, <3>5
  <2>5. CASE t = "average"
    <3> DEFINE p == [k \in DOMAIN m |-> [key |-> k, sum |-> m[k].sum, divisor |-> m[k].divisor]]
    <3>1. DOMAIN p = KeysOf(w)
          /\ \A k \in DOMAIN p : /\ p[k].key = k
                                 /\ p[k].sum = m[k].sum /\ p[k].divisor = m[k].divisor
      BY <2>2
    <3>2. r = InKeyOrder(p)
      <4>1. r = KeyedAverages(m)
        BY <2>5 DEF Aggregate, m
      <4> QED
        BY <4>1 DEF KeyedAverages
    <3> HIDE DEF p, r
    <3>3. IsInKeyOrder(r, p)
      BY <2>3, <3>1, <3>2, KeyOrder
    <3>4. OneResultPerKey(r, KeysOf(w))
      BY <3>1, <3>3 DEF IsInKeyOrder, OneResultPerKey
    <3>5. ASSUME NEW i \in 1 .. Len(r) PROVE IsResult(t, r[i], Of({r[i].key}, w))
      <4>1. r[i].key \in DOMAIN m /\ r[i].sum = m[r[i].key].sum
            /\ r[i].divisor = m[r[i].key].divisor
        BY <2>2, <3>1, <3>3 DEF IsInKeyOrder
      <4>2. IsEntry(t, m[r[i].key], Of({r[i].key}, w))
        BY <2>2, <4>1
      <4>3. t = "average" /\ t \notin {"max", "count"}
        BY <2>5
      <4> QED
        BY <4>1, <4>2, <4>3 DEF IsResult, IsEntry
    <3> QED
      BY <3>4, <3>5
  <2> QED
    BY <1>1, <2>4, <2>5 DEF TableTask
<1>2. ASSUME t = "category" PROVE IsJoined(r, w)
  <2>1. r = Loop("category", <<>>, w)
    BY <1>2 DEF Aggregate
  <2> QED
    BY <2>1, JoinOfSequence
<1>3. ASSUME t = "trip" PROVE \E x : r = <<x>> /\ IsGreatest(x, w)
  <2>1. r = <<Loop("trip", w[1], w)>>
    BY <1>3 DEF Aggregate
  <2>2. IsGreatest(Loop("trip", w[1], w), w)
    BY GreatestOfSequence
  <2> QED
    BY <2>1, <2>2
<1>4. ASSUME t = "sensor" PROVE r = <<SensorSum(w)>>
  <2>1. r = <<Loop("sensor", [sum |-> 0, light |-> 0], w)>>
    BY <1>4 DEF Aggregate
  <2> QED
    BY <2>1, SensorOfSequence
<1> HIDE DEF r
<1>5. ResultsAre(t, r, w)
  BY <1>1, <1>2, <1>3, <1>4 DEF ResultsAre
<1> QED
  BY <1>5 DEF r
-------------------------------------------------------------------------------
(* The last results of a task.  Those of a task with one window are those   *)
(* of the data in it; Query6_Avg has one window for each key, which is the  *)
(* end of the values of that key.                                           *)
IsEnd(p, s) ==
  /\ Len(p) = Least(Len(s), Window)
  /\ \A i \in 1 .. Len(p) : p[i] = s[Len(s) - Len(p) + i]

OwnValues(k) == ValuesOf(Of({k}, seen))

SlidingResults ==
  task \in SlidingTask /\ task # "batch" /\ ~ended =>
    emitted = IF N \in fired THEN Aggregate(task, window) ELSE <<>>

PartitionsEnd ==
  task = "partition" =>
    /\ fired \subseteq 0 .. N
    /\ DOMAIN partition = KeysOf(seen)
    /\ \A k \in DOMAIN partition : IsEnd(partition[k], OwnValues(k))

PartitionResults ==
  task = "partition" /\ ~ended =>
    emitted = IF N \in fired THEN Averages(FullPartitions(partition)) ELSE <<>>

(* The inductive invariant of the results.                                  *)
RInv == IInv /\ SlidingResults /\ PartitionsEnd /\ PartitionResults

(* Nothing has been emitted at first, and no key has been seen.             *)
LEMMA InitRInv == Init => RInv
<1> SUFFICES ASSUME Init PROVE RInv
  OBVIOUS
<1>1. IInv
  BY InitIInv
<1>2. N = 0 /\ N \notin fired /\ emitted = <<>> /\ fired = {} /\ seen = <<>> /\ partition = <<>>
  BY DEF Init, N
<1>3. SlidingResults /\ PartitionResults
  BY <1>2, Zenon DEF SlidingResults, PartitionResults
<1>4. DOMAIN partition = {} /\ KeysOf(seen) = {}
  BY <1>2, SetsOfSequence
<1>5. PartitionsEnd
  BY <1>2, <1>4 DEF PartitionsEnd
<1> QED
  BY <1>1, <1>3, <1>5 DEF RInv

(* Steps of the tasks with one window.                                      *)
LEMMA StepSlidingResults ==
  ASSUME IInv, SlidingResults, [Next]_vars
  PROVE  SlidingResults'
<1> SUFFICES ASSUME task' \in SlidingTask, task' # "batch", ~ended'
             PROVE  emitted' = IF N' \in fired' THEN Aggregate(task', window') ELSE <<>>
  BY DEF SlidingResults
<1>t. seen \in Seq(Datum) /\ N \in Nat
  BY DEF IInv, TypeOK, N
<1>1. ASSUME NEW d \in Datum, SlidingCallback(d)
      PROVE  emitted' = IF N' \in fired' THEN Aggregate(task', window') ELSE <<>>
  <2>1. task' = task /\ task # "partition" /\ seen' = Append(seen, d)
    BY <1>1 DEF SlidingCallback, Receive, SlidingTask
  <2>2. N' = N + 1
    BY <1>t, <2>1 DEF N
  <2>3. N' \notin fired
    <3>1. fired \subseteq First .. N
      BY <2>1 DEF IInv, OnSchedule
    <3> QED
      BY <1>t, <2>2, <3>1
  <2>4. CASE Silent
    <3>1. emitted' = <<>> /\ fired' = fired
      BY <2>4 DEF Silent
    <3> QED
      BY <2>3, <3>1
  <2>5. CASE Fire(Aggregate(task, window'))
    <3>1. emitted' = Aggregate(task, window') /\ fired' = fired \cup {Len(seen')}
      BY <2>5 DEF Fire
    <3>2. N' \in fired'
      BY <3>1 DEF N
    <3> QED
      BY <2>1, <3>1, <3>2
  <2>6. Silent \/ Fire(Aggregate(task, window'))
    BY <1>1, Zenon DEF SlidingCallback
  <2> QED
    BY <2>4, <2>5, <2>6
<1>2. ASSUME NEW d \in Datum, ReduceCallback(d) \/ PartitionCallback(d) PROVE FALSE
  <2>1. task' = task /\ task \notin SlidingTask
    BY <1>2 DEF ReduceCallback, PartitionCallback, Receive, SlidingTask
  <2> QED
    BY <2>1
<1>3. CASE Flush
  BY <1>3 DEF Flush
<1>4. CASE Ended \/ UNCHANGED vars
  <2>1. UNCHANGED vars
    BY <1>4 DEF Ended
  <2>2. task' = task /\ window' = window /\ emitted' = emitted /\ ended' = ended
        /\ seen' = seen /\ fired' = fired
    BY <2>1 DEF vars
  <2>3. N' = N
    BY <2>2 DEF N
  <2>4. emitted = IF N \in fired THEN Aggregate(task, window) ELSE <<>>
    BY <2>2 DEF SlidingResults
  <2> QED
    BY <2>2, <2>3, <2>4, Zenon
<1> QED
  BY <1>1, <1>2, <1>3, <1>4 DEF Next, Callback

(* A window per key: the end of the values of the key.                      *)
LEMMA SlideEnd ==
  ASSUME NEW D, NEW p \in Seq(D), NEW s \in Seq(D), NEW v \in D, IsEnd(p, s)
  PROVE  IsEnd(Slide(p, v), Append(s, v))
<1> DEFINE q == Slide(p, v)
           u == Append(s, v)
<1>1. Len(p) \in Nat /\ Len(s) \in Nat /\ Window \in Nat /\ Window > 0
  BY ConstantTypes
<1>2. Len(p) = Least(Len(s), Window) /\ \A i \in 1 .. Len(p) : p[i] = s[Len(s) - Len(p) + i]
  BY DEF IsEnd
<1>3. Len(p) <= Window /\ Len(p) <= Len(s)
  BY <1>1, <1>2 DEF Least
<1>4. /\ q \in Seq(D) /\ Len(q) = Least(Len(p) + 1, Window) /\ q[Len(q)] = v
      /\ \A i \in 1 .. Len(q) - 1 : q[i] = p[Len(p) - Len(q) + 1 + i]
  BY <1>3, SlideLast
<1>5. Len(u) = Len(s) + 1 /\ u[Len(s) + 1] = v /\ \A i \in 1 .. Len(s) : u[i] = s[i]
  OBVIOUS
<1> HIDE DEF q, u
<1>6. Len(q) = Least(Len(u), Window) /\ Len(q) \in Nat /\ Len(q) > 0
  BY <1>1, <1>2, <1>4, <1>5 DEF Least
<1>7. ASSUME NEW i \in 1 .. Len(q) PROVE q[i] = u[Len(u) - Len(q) + i]
  <2>1. CASE i = Len(q)
    <3>1. Len(u) - Len(q) + i = Len(s) + 1
      BY <1>1, <1>5, <1>6, <2>1
    <3> QED
      BY <1>4, <1>5, <2>1, <3>1
  <2>2. CASE i # Len(q)
    <3> DEFINE j == Len(p) - Len(q) + 1 + i
    <3>1. i \in 1 .. Len(q) - 1
      BY <1>6, <2>2
    <3>2. q[i] = p[j]
      BY <1>4, <3>1
    <3>3. Len(q) = Len(p) \/ Len(q) = Len(p) + 1
      BY <1>1, <1>3, <1>4 DEF Least
    <3>4. j \in 1 .. Len(p) /\ Len(s) - Len(p) + j = Len(u) - Len(q) + i
      <4>1. i \in Int /\ 1 <= i /\ i <= Len(q) - 1
        BY <1>6, <3>1
      <4>2. 1 <= j /\ j <= Len(p) /\ j \in Int
        BY <1>1, <1>6, <3>3, <4>1
      <4>3. Len(s) - Len(p) + j = Len(s) + 1 - Len(q) + i
        BY <1>1, <1>6, <4>1
      <4> QED
        BY <1>1, <1>5, <4>2, <4>3
    <3>5. Len(s) - Len(p) + j \in 1 .. Len(s)
      BY <1>1, <1>3, <3>4
    <3> HIDE DEF j
    <3>6. p[j] = s[Len(s) - Len(p) + j]
      BY <1>2, <3>4
    <3>7. u[Len(s) - Len(p) + j] = s[Len(s) - Len(p) + j]
      BY <1>5, <3>5
    <3> QED
      BY <3>2, <3>4, <3>6, <3>7
  <2> QED
    BY <2>1, <2>2
<1> QED
  BY <1>6, <1>7 DEF IsEnd, q, u

(* The values of each key when a datum comes.                               *)
LEMMA OwnValuesMove ==
  ASSUME seen \in Seq(Datum), NEW d \in Datum, seen' = Append(seen, d), NEW k \in Key
  PROVE  /\ OwnValues(k) \in Seq(Value)
         /\ k \notin KeysOf(seen) => OwnValues(k) = <<>>
         /\ OwnValues(k)' = IF k = d.key THEN Append(OwnValues(k), d.value) ELSE OwnValues(k)
<1>1. Of({k}, seen) \in Seq(Datum) /\ k \notin KeysOf(seen) => Of({k}, seen) = <<>>
  BY OwnData
<1>2. Of({k}, seen') = Select({k}, Of({k}, seen), d)
  BY OfSteps
<1>3. OwnValues(k) \in Seq(Value)
  BY <1>1, OwnData, SetsOfSequence DEF OwnValues
<1>4. ASSUME k \notin KeysOf(seen) PROVE OwnValues(k) = <<>>
  BY <1>1, <1>4, OwnData, SetsOfSequence DEF OwnValues
<1>5. OwnValues(k)' = ValuesOf(Of({k}, seen'))
  BY DEF OwnValues
<1>6. CASE k = d.key
  <2>1. Of({k}, seen') = Append(Of({k}, seen), d)
    BY <1>2, <1>6 DEF Select
  <2>2. Of({k}, seen) \in Seq(Datum)
    BY OwnData
  <2>3. ValuesOf(Append(Of({k}, seen), d)) = Append(ValuesOf(Of({k}, seen)), d.value)
    BY <2>2, SetsOfSequence
  <2>4. OwnValues(k)' = Append(OwnValues(k), d.value)
    BY <1>5, <2>1, <2>3 DEF OwnValues
  <2> QED
    BY <1>3, <1>4, <1>6, <2>4
<1>7. CASE k # d.key
  <2>1. Of({k}, seen') = Of({k}, seen)
    BY <1>2, <1>7 DEF Select
  <2>2. OwnValues(k)' = OwnValues(k)
    BY <1>5, <2>1 DEF OwnValues
  <2> QED
    BY <1>3, <1>4, <1>7, <2>2
<1> QED
  BY <1>6, <1>7

(* Query6_Avg's partitions after a datum.                                   *)
LEMMA PartitionsMove ==
  ASSUME IInv, PartitionsEnd, NEW d \in Datum, PartitionCallback(d)
  PROVE  /\ DOMAIN partition' = KeysOf(seen')
         /\ \A k \in DOMAIN partition' : IsEnd(partition'[k], OwnValues(k)')
<1>1. /\ seen' = Append(seen, d) /\ task = "partition"
      /\ partition' = Put(partition, d.key, Slide(PartitionOf(d.key), d.value))
  BY DEF PartitionCallback, Receive
<1>2. /\ seen \in Seq(Datum) /\ DOMAIN partition \subseteq Key
      /\ \A k \in DOMAIN partition : partition[k] \in Seq(Value)
  BY DEF IInv, TypeOK
<1>3. DOMAIN partition = KeysOf(seen) /\ \A k \in DOMAIN partition : IsEnd(partition[k], OwnValues(k))
  BY <1>1 DEF PartitionsEnd
<1>4. d.key \in Key /\ d.value \in Value /\ KeysOf(seen') = KeysOf(seen) \cup {d.key}
  BY <1>1, <1>2, OneDatum, SetsOfSequence
<1>5. DOMAIN partition' = KeysOf(seen')
  BY <1>1, <1>3, <1>4 DEF Put
<1>6. ASSUME NEW k \in DOMAIN partition' PROVE IsEnd(partition'[k], OwnValues(k)')
  <2>1. k \in Key
    BY <1>2, <1>3, <1>4, <1>5, <1>6
  <2>2. /\ OwnValues(k) \in Seq(Value)
        /\ k \notin KeysOf(seen) => OwnValues(k) = <<>>
        /\ OwnValues(k)' = IF k = d.key THEN Append(OwnValues(k), d.value) ELSE OwnValues(k)
    BY <1>1, <1>2, <2>1, OwnValuesMove
  <2>3. CASE k = d.key
    <3> DEFINE p == PartitionOf(k)
    <3>1. p \in Seq(Value) /\ IsEnd(p, OwnValues(k))
      <4>1. CASE k \in DOMAIN partition
        BY <1>2, <1>3, <4>1 DEF PartitionOf
      <4>2. CASE k \notin DOMAIN partition
        <5>1. p = <<>> /\ OwnValues(k) = <<>>
          BY <1>3, <2>2, <4>2 DEF PartitionOf
        <5>2. <<>> \in Seq(Value) /\ Len(<<>>) = 0 /\ Least(0, Window) = 0
          BY ConstantTypes DEF Least
        <5>3. IsEnd(<<>>, <<>>)
          BY <5>2 DEF IsEnd
        <5> HIDE DEF p
        <5> QED
          BY <5>1, <5>2, <5>3
      <4> QED
        BY <4>1, <4>2
    <3>2. partition'[k] = Slide(p, d.value)
      BY <1>1, <1>4, <2>3 DEF Put
    <3> HIDE DEF p
    <3>3. IsEnd(Slide(p, d.value), Append(OwnValues(k), d.value))
      BY <1>4, <2>2, <3>1, SlideEnd
    <3>4. OwnValues(k)' = Append(OwnValues(k), d.value)
      BY <2>2, <2>3
    <3> QED
      BY <3>2, <3>3, <3>4
  <2>4. CASE k # d.key
    <3>1. k \in DOMAIN partition
      BY <1>3, <1>4, <1>5, <1>6, <2>4
    <3>2. partition'[k] = partition[k]
      BY <1>1, <2>4, <3>1 DEF Put
    <3>3. OwnValues(k)' = OwnValues(k)
      BY <2>2, <2>4
    <3> QED
      BY <1>3, <3>1, <3>2, <3>3
  <2> QED
    BY <2>3, <2>4
<1> QED
  BY <1>5, <1>6

(* Every step keeps the partitions the ends of the keys, and their          *)
(* averages.                                                                *)
LEMMA StepPartitions ==
  ASSUME IInv, PartitionsEnd, PartitionResults, [Next]_vars
  PROVE  PartitionsEnd' /\ PartitionResults'
<1> SUFFICES ASSUME task' = "partition" PROVE PartitionsEnd' /\ PartitionResults'
  BY DEF PartitionsEnd, PartitionResults
<1>t. seen \in Seq(Datum) /\ N \in Nat
  BY DEF IInv, TypeOK, N
<1>1. ASSUME NEW d \in Datum, PartitionCallback(d) PROVE PartitionsEnd' /\ PartitionResults'
  <2> DEFINE full == FullPartitions(partition')
  <2>1. task = "partition" /\ seen' = Append(seen, d) /\ (Silent \/ Fire(Averages(full)))
    BY <1>1 DEF PartitionCallback, Receive
  <2>2. N' = N + 1 /\ Len(seen') = N + 1
    BY <1>t, <2>1 DEF N
  <2>3. fired \subseteq 0 .. N /\ N' \notin fired
    <3>1. fired \subseteq 0 .. N
      BY <2>1 DEF PartitionsEnd
    <3> QED
      BY <1>t, <2>2, <3>1
  <2>4. DOMAIN partition' = KeysOf(seen') /\ \A k \in DOMAIN partition' : IsEnd(partition'[k], OwnValues(k)')
    BY <1>1, PartitionsMove
  <2>5. full = FullPartitions(partition)'
    BY DEF FullPartitions
  <2> HIDE DEF full
  <2>6. CASE Silent
    <3>1. fired' = fired /\ emitted' = <<>>
      BY <2>6 DEF Silent
    <3>2. fired' \subseteq 0 .. N'
      BY <1>t, <2>2, <2>3, <3>1
    <3>3. PartitionsEnd'
      BY <2>4, <3>2 DEF PartitionsEnd
    <3>4. PartitionResults'
      BY <2>3, <3>1 DEF PartitionResults
    <3> QED
      BY <3>3, <3>4
  <2>7. CASE Fire(Averages(full))
    <3>1. fired' = fired \cup {N'} /\ emitted' = Averages(full)
      BY <2>2, <2>7 DEF Fire
    <3>2. fired' \subseteq 0 .. N'
      BY <1>t, <2>2, <2>3, <3>1
    <3>3. PartitionsEnd'
      BY <2>4, <3>2 DEF PartitionsEnd
    <3>4. N' \in fired' /\ emitted' = Averages(FullPartitions(partition))'
      <4>1. Averages(full) = Averages(FullPartitions(partition))'
        BY <2>5 DEF Averages, SumOf
      <4> QED
        BY <3>1, <4>1
    <3>5. PartitionResults'
      BY <3>4 DEF PartitionResults
    <3> QED
      BY <3>3, <3>5
  <2> QED
    BY <2>1, <2>6, <2>7
<1>2. ASSUME NEW d \in Datum, SlidingCallback(d) \/ ReduceCallback(d) PROVE FALSE
  BY <1>2, CallbackEffect
<1>3. CASE Flush
  <2>1. /\ task' = task /\ partition' = partition /\ seen' = seen /\ fired' = fired /\ ended' = TRUE
    BY <1>3 DEF Flush
  <2>2. N' = N /\ \A k : OwnValues(k)' = OwnValues(k)
    BY <2>1 DEF N, OwnValues
  <2>3. PartitionsEnd'
    BY <2>1, <2>2 DEF PartitionsEnd
  <2> QED
    BY <2>1, <2>3 DEF PartitionResults
<1>4. CASE Ended \/ UNCHANGED vars
  <2>1. UNCHANGED vars
    BY <1>4 DEF Ended
  <2>2. /\ task' = task /\ partition' = partition /\ seen' = seen /\ fired' = fired /\ ended' = ended
        /\ emitted' = emitted
    BY <2>1 DEF vars
  <2>3. N' = N /\ \A k : OwnValues(k)' = OwnValues(k)
    BY <2>2 DEF N, OwnValues
  <2>4. PartitionsEnd'
    BY <2>2, <2>3 DEF PartitionsEnd
  <2>5. Averages(FullPartitions(partition))' = Averages(FullPartitions(partition))
    BY <2>2 DEF Averages, FullPartitions, SumOf
  <2>6. PartitionResults'
    BY <2>2, <2>3, <2>5 DEF PartitionResults
  <2> QED
    BY <2>4, <2>6
<1> QED
  BY <1>1, <1>2, <1>3, <1>4 DEF Next, Callback

(* When results come, the window is the end of the stream.                  *)
LEMMA WindowIsRecent ==
  ASSUME IInv, task \in SlidingTask, task # "batch", N \in fired
  PROVE  /\ window \in Seq(Datum) /\ Len(window) = Window /\ window = Recent
         /\ window[Window] = seen[N]
<1>1. window \in Seq(Datum) /\ seen \in Seq(Datum) /\ N \in Nat /\ N = Len(seen)
  BY DEF IInv, TypeOK, N
<1>2. task # "partition" /\ task # "reduce"
  BY DEF SlidingTask
<1>3. N >= Window /\ Window \in Nat /\ Window > 0
  <2>1. fired \subseteq First .. N /\ First = Window
    BY <1>2 DEF IInv, OnSchedule, First
  <2> QED
    BY <1>1, <2>1, ConstantTypes
<1>4. Len(window) = Window /\ \A i \in 1 .. Window : window[i] = seen[N - Window + i]
  <2>1. /\ Len(window) = Least(N, Window)
        /\ \A i \in 1 .. Len(window) : window[i] = seen[N - Len(window) + i]
    BY <1>2 DEF IInv, WindowHoldsLast
  <2>2. Len(window) = Window
    BY <1>1, <1>3, <2>1 DEF Least
  <2> QED
    BY <2>1, <2>2
<1>5. /\ Recent \in Seq(Datum) /\ Len(Recent) = Window
      /\ \A i \in 1 .. Window : Recent[i] = seen[N - Window + i]
  <2> DEFINE a == N - Window + 1
  <2>1. a \in 1 .. N + 1 /\ N - a + 1 = Window
    BY <1>1, <1>3
  <2>2. a \in Nat /\ a >= 1 /\ N <= Len(seen)
    BY <1>1, <2>1
  <2>3. /\ SubSeq(seen, a, N) \in Seq(Datum) /\ Len(SubSeq(seen, a, N)) = N - a + 1
        /\ \A i \in 1 .. N - a + 1 : SubSeq(seen, a, N)[i] = seen[a + i - 1]
    <3> HIDE DEF a
    <3> QED
      BY <1>1, <2>1, <2>2
  <2>4. \A i \in 1 .. Window : a + i - 1 = N - Window + i
    BY <1>1, <1>3
  <2> QED
    BY <2>1, <2>3, <2>4 DEF Recent
<1>6. window = Recent
  <2>1. Recent \in Seq(Datum) /\ Len(window) = Len(Recent)
        /\ \A i \in 1 .. Len(window) : window[i] = Recent[i]
    BY <1>4, <1>5
  <2> HIDE DEF Recent
  <2> QED
    BY <1>1, <2>1
<1>7. window[Window] = seen[N]
  <2>1. Window \in 1 .. Window /\ N - Window + Window = N
    BY <1>1, <1>3
  <2> QED
    BY <1>4, <2>1
<1> QED
  BY <1>1, <1>4, <1>6, <1>7

(* What the results of a window say, in the words of the property.          *)
LEMMA SlidingMeaning ==
  ASSUME IInv, SlidingResults, task \in SlidingTask, task # "batch", ~ended
  PROVE  ResultsOfLastWindow
<1>1. CASE N \notin fired
  BY <1>1 DEF SlidingResults, ResultsOfLastWindow
<1>2. CASE N \in fired
  <2> DEFINE w == Recent
  <2>1. w \in Seq(Datum) /\ Len(w) = Window /\ w[Window] = seen[N] /\ emitted = Aggregate(task, w)
    <3>1. window \in Seq(Datum) /\ Len(window) = Window /\ window = Recent /\ window[Window] = seen[N]
      BY <1>2, WindowIsRecent
    <3>2. emitted = Aggregate(task, window)
      BY <1>2 DEF SlidingResults
    <3> QED
      BY <3>1, <3>2
  <2>2. Len(w) > 0 /\ w # <<>>
    <3> HIDE DEF w
    <3> QED
      BY <2>1, ConstantTypes
  <2>3. ResultsAre(task, emitted, w)
    <3> HIDE DEF w
    <3>1. ResultsAre(task, Aggregate(task, w), w)
      BY <2>1, <2>2, AggregateResults
    <3> QED
      BY <2>1, <3>1
  <2>4. task \in TableTask => OnePerKey(KeysOf(Recent))
    BY <2>3 DEF ResultsAre, OneResultPerKey, OnePerKey
  <2>5. ASSUME NEW i \in 1 .. Len(emitted)
        PROVE  LET e == emitted[i]
                   o == RecentOf(e.key)
               IN /\ task = "max"     => IsMaximum(e, o)
                  /\ task = "count"   => IsCount(e, o)
                  /\ task = "average" => IsAverage(e, o, Len(o) - 1)
    <3> DEFINE e == emitted[i]
               o == RecentOf(e.key)
    <3>1. task \in TableTask => IsResult(task, e, o)
      BY <2>3 DEF ResultsAre, RecentOf
    <3> HIDE DEF e, o
    <3>2. ASSUME task = "max" PROVE IsMaximum(e, o)
      <4>1. IsEntry("max", e.value, o)
        BY <3>1, <3>2 DEF TableTask, IsResult
      <4>2. e.value \in ValueSet(o) /\ \A v \in ValueSet(o) : v <= e.value
        BY <4>1 DEF IsEntry
      <4> QED
        BY <4>2 DEF IsMaximum, ValueSet
    <3>3. ASSUME task = "count" PROVE IsCount(e, o)
      <4>1. IsEntry("count", e.value, o)
        BY <3>1, <3>3 DEF TableTask, IsResult
      <4> QED
        BY <4>1 DEF IsEntry, IsCount
    <3>4. ASSUME task = "average" PROVE IsAverage(e, o, Len(o) - 1)
      BY <3>1, <3>4 DEF TableTask, IsResult, IsAverage
    <3> QED
      BY <3>2, <3>3, <3>4 DEF e, o
  <2>6. ASSUME task = "category"
        PROVE  /\ Len(emitted) = Len(Of(Category, Recent))
               /\ \A i \in 1 .. Len(Of(Category, Recent)) :
                    /\ emitted[i].auctionId = Of(Category, Recent)[i].value
                    /\ emitted[i].final = Of(Category, Recent)[i].key
    BY <2>3, <2>6 DEF ResultsAre, IsJoined
  <2>7. ASSUME task = "trip"
        PROVE  \E i \in 1 .. Window :
                 /\ emitted = <<Recent[i]>>
                 /\ \A v \in RecentValues : v <= Recent[i].value
                 /\ \A j \in 1 .. i - 1 : Recent[j].value < Recent[i].value
    <3>1. PICK x : emitted = <<x>> /\ IsGreatest(x, w)
      BY <2>3, <2>7 DEF ResultsAre
    <3>2. PICK i \in 1 .. Len(w) : /\ x = w[i]
                                   /\ \A v \in ValueSet(w) : v <= w[i].value
                                   /\ \A j \in 1 .. i - 1 : w[j].value < w[i].value
      BY <3>1 DEF IsGreatest
    <3>3. RecentValues = ValueSet(w)
      BY DEF RecentValues, ValueSet
    <3>4. i \in 1 .. Window /\ emitted = <<Recent[i]>>
      BY <2>1, <3>1, <3>2
    <3> QED
      BY <3>2, <3>3, <3>4
  <2>8. ASSUME task = "sensor"
        PROVE  emitted = <<[sum |-> SumOf(ValuesOf(Recent)), light |-> seen[N].value]>>
    <3>1. emitted = <<SensorSum(w)>>
      BY <2>3, <2>8 DEF ResultsAre
    <3>2. SensorSum(w) = [sum |-> SumOf(ValuesOf(w)), light |-> seen[N].value]
      <4> HIDE DEF w
      <4> QED
        BY <2>1, <2>2 DEF SensorSum
    <3> QED
      BY <3>1, <3>2
  <2>9. task # "partition"
    BY DEF SlidingTask
  <2> HIDE DEF w
  <2> QED
    BY <1>2, <2>4, <2>5, <2>6, <2>7, <2>8, <2>9 DEF ResultsOfLastWindow, TableTask
<1> QED
  BY <1>1, <1>2

(* The end of a key's values is the values of the end of its data.          *)
LEMMA EndIsLast ==
  ASSUME NEW o \in Seq(Datum), NEW p \in Seq(Value), IsEnd(p, ValuesOf(o)), Len(o) >= Window
  PROVE  Len(p) = Window /\ p = ValuesOf(SubSeq(o, Len(o) - Window + 1, Len(o)))
<1>1. Window \in Nat /\ Window > 0 /\ Len(o) \in Nat
  BY ConstantTypes
<1>2. ValuesOf(o) \in Seq(Value) /\ Len(ValuesOf(o)) = Len(o)
      /\ \A i \in 1 .. Len(o) : ValuesOf(o)[i] = o[i].value
  BY SetsOfSequence DEF ValuesOf
<1>3. Len(p) = Window /\ \A i \in 1 .. Window : p[i] = ValuesOf(o)[Len(o) - Window + i]
  <2>1. /\ Len(p) = Least(Len(ValuesOf(o)), Window)
        /\ \A i \in 1 .. Len(p) : p[i] = ValuesOf(o)[Len(ValuesOf(o)) - Len(p) + i]
    BY Zenon DEF IsEnd
  <2>2. Least(Len(o), Window) = Window
    BY <1>1 DEF Least
  <2>3. Len(p) = Window /\ Len(ValuesOf(o)) = Len(o)
    BY <1>2, <2>1, <2>2
  <2> QED
    BY <2>1, <2>3, Zenon
<1> DEFINE a == Len(o) - Window + 1
           q == SubSeq(o, a, Len(o))
<1>4. a \in Nat /\ a >= 1 /\ Len(o) - a + 1 = Window /\ a <= Len(o) + 1
  BY <1>1
<1>5. /\ q \in Seq(Datum) /\ Len(q) = Window
      /\ \A i \in 1 .. Window : q[i] = o[a + i - 1]
  <2>1. /\ SubSeq(o, a, Len(o)) \in Seq(Datum) /\ Len(SubSeq(o, a, Len(o))) = Len(o) - a + 1
        /\ \A i \in 1 .. Len(o) - a + 1 : SubSeq(o, a, Len(o))[i] = o[a + i - 1]
    <3> HIDE DEF a
    <3> QED
      BY <1>1, <1>4
  <2> QED
    BY <1>4, <2>1
<1>6. \A i \in 1 .. Window : a + i - 1 = Len(o) - Window + i /\ Len(o) - Window + i \in 1 .. Len(o)
  BY <1>1
<1> HIDE DEF q, a
<1>7. /\ ValuesOf(q) \in Seq(Value) /\ Len(ValuesOf(q)) = Window
      /\ \A i \in 1 .. Window : ValuesOf(q)[i] = q[i].value
  BY <1>5, SetsOfSequence DEF ValuesOf
<1>8. \A i \in 1 .. Window : p[i] = ValuesOf(q)[i]
  BY <1>2, <1>3, <1>5, <1>6, <1>7
<1>9. p = ValuesOf(q)
  <2> DEFINE v == ValuesOf(q)
  <2>1. v \in Seq(Value) /\ Len(v) = Len(p) /\ \A i \in 1 .. Len(p) : p[i] = v[i]
    BY <1>3, <1>7, <1>8
  <2> HIDE DEF v
  <2>2. p = v
    BY <2>1
  <2> QED
    BY <2>2 DEF v
<1> QED
  BY <1>3, <1>9 DEF q, a

(* The averages of full partitions, in the words of the property.           *)
LEMMA PartitionMeaning ==
  ASSUME IInv, PartitionsEnd, PartitionResults, task = "partition", ~ended
  PROVE  ResultsOfLastWindow
<1>1. CASE N \notin fired
  BY <1>1 DEF PartitionResults, ResultsOfLastWindow
<1>2. CASE N \in fired
  <2> DEFINE full == FullPartitions(partition)
             m == [k \in DOMAIN full |->
                     [key |-> k, sum |-> SumOf(full[k]), divisor |-> Len(full[k])]]
  <2>1. emitted = InKeyOrder(m)
    BY <1>2 DEF PartitionResults, Averages
  <2>2. seen \in Seq(Datum) /\ \A k \in DOMAIN partition : partition[k] \in Seq(Value)
    BY DEF IInv, TypeOK
  <2>3. DOMAIN partition = KeysOf(seen) /\ \A k \in DOMAIN partition : IsEnd(partition[k], OwnValues(k))
    BY DEF PartitionsEnd
  <2>4. KeysOf(seen) \in SUBSET Key /\ KeysOf(seen) \in SUBSET Nat /\ IsFiniteSet(KeysOf(seen))
    BY <2>2, SetsOfSequence, KeysFinite, ConstantTypes
  <2>5. DOMAIN full = {k \in DOMAIN partition : Len(partition[k]) >= Window}
        /\ \A k \in DOMAIN full : full[k] = partition[k]
    BY DEF FullPartitions
  <2>6. DOMAIN full \in SUBSET Nat /\ IsFiniteSet(DOMAIN full)
    <3>1. DOMAIN full \in SUBSET KeysOf(seen)
      BY <2>3, <2>5
    <3> QED
      BY <2>4, <3>1, FS_Subset
  <2> HIDE DEF full
  <2>7. DOMAIN m = DOMAIN full
        /\ \A k \in DOMAIN m : m[k].key = k /\ m[k].sum = SumOf(full[k]) /\ m[k].divisor = Len(full[k])
    OBVIOUS
  <2> HIDE DEF m
  <2>8. IsInKeyOrder(emitted, m)
    BY <2>1, <2>6, <2>7, KeyOrder
  <2>9. DOMAIN full = {k \in Key : Len(Of({k}, seen)) >= Window}
    <3>1. ASSUME NEW k \in Key, k \notin KeysOf(seen) PROVE ~(Len(Of({k}, seen)) >= Window)
      <4>1. Len(Of({k}, seen)) = 0
        BY <2>2, <3>1, OwnData
      <4> QED
        BY <4>1, ConstantTypes
    <3>2. ASSUME NEW k \in KeysOf(seen)
          PROVE  Len(partition[k]) >= Window <=> Len(Of({k}, seen)) >= Window
      <4>1. Len(partition[k]) = Least(Len(OwnValues(k)), Window)
        BY <2>3 DEF IsEnd
      <4>2. Of({k}, seen) \in Seq(Datum)
        BY <2>2, <2>4, OwnData
      <4>3. Len(OwnValues(k)) = Len(Of({k}, seen)) /\ Len(Of({k}, seen)) \in Nat
        BY <4>2, SetsOfSequence DEF OwnValues
      <4> QED
        BY <4>1, <4>3, ConstantTypes DEF Least
    <3> QED
      BY <2>3, <2>4, <2>5, <3>1, <3>2
  <2>10. OnePerKey({k \in Key : Len(Of({k}, seen)) >= Window})
    BY <2>7, <2>8, <2>9 DEF IsInKeyOrder, OnePerKey
  <2>11. ASSUME NEW i \in 1 .. Len(emitted)
         PROVE  IsAverage(emitted[i], LastOf(emitted[i].key), Window)
    <3> DEFINE k == emitted[i].key
               o == Of({k}, seen)
    <3>1. k \in DOMAIN full /\ emitted[i].sum = SumOf(full[k]) /\ emitted[i].divisor = Len(full[k])
      BY <2>7, <2>8 DEF IsInKeyOrder
    <3> HIDE DEF k
    <3>2. k \in Key /\ k \in DOMAIN partition /\ full[k] = partition[k] /\ Len(o) >= Window
      BY <2>5, <2>9, <3>1
    <3>3. o \in Seq(Datum) /\ partition[k] \in Seq(Value) /\ IsEnd(partition[k], ValuesOf(o))
      BY <2>2, <2>3, <3>2, OwnData DEF OwnValues
    <3> HIDE DEF o
    <3>4. Len(partition[k]) = Window
          /\ partition[k] = ValuesOf(SubSeq(o, Len(o) - Window + 1, Len(o)))
      BY <3>2, <3>3, EndIsLast
    <3>5. LastOf(k) = SubSeq(o, Len(o) - Window + 1, Len(o))
      BY DEF LastOf, o
    <3>6. emitted[i].sum = SumOf(ValuesOf(LastOf(k))) /\ emitted[i].divisor = Window
      BY <3>1, <3>2, <3>4, <3>5
    <3> QED
      BY <3>6 DEF IsAverage, k
  <2> QED
    BY <1>2, <2>10, <2>11 DEF ResultsOfLastWindow
<1> QED
  BY <1>1, <1>2

(* What a task emits is what its definition says of the last Window data of *)
(* the stream: of all of them, of those of each key, or, in Query6_Avg, of  *)
(* the last Window of each key.                                             *)
THEOREM ResultsAreOfWindow == Spec => []ResultsOfLastWindow
<1>1. Init => RInv
  BY InitRInv
<1>2. RInv /\ [Next]_vars => RInv'
  <2> SUFFICES ASSUME RInv, [Next]_vars PROVE RInv'
    OBVIOUS
  <2>1. IInv'
    BY StepTypeOK, StepWindow, StepSchedule DEF RInv, IInv
  <2>2. SlidingResults'
    BY StepSlidingResults DEF RInv
  <2>3. PartitionsEnd' /\ PartitionResults'
    BY StepPartitions DEF RInv
  <2> QED
    BY <2>1, <2>2, <2>3 DEF RInv
<1>3. RInv => ResultsOfLastWindow
  <2> SUFFICES ASSUME RInv, ~ended, task \notin {"reduce", "batch"} PROVE ResultsOfLastWindow
    BY DEF ResultsOfLastWindow
  <2>1. task \in Task
    BY DEF RInv, IInv, TypeOK
  <2>2. CASE task = "partition"
    BY <2>2, PartitionMeaning DEF RInv
  <2>3. CASE task \in SlidingTask
    BY <2>3, SlidingMeaning DEF RInv
  <2> QED
    BY <2>1, <2>2, <2>3 DEF Task
<1> QED
  BY <1>1, <1>2, <1>3, PTL DEF Spec
===============================================================================
