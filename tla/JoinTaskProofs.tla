---------------------------- MODULE JoinTaskProofs ----------------------------
(***************************************************************************)
(* Proofs about JoinTask.tla, for windows and steps of any size and streams *)
(* of any length: a side asks for a join at its own pace, and no pair that  *)
(* is in the windows long enough passes through them uncompared.            *)
(***************************************************************************)
EXTENDS JoinTask, NumberLemmas, SequenceTheorems, TLAPS

(* What the assumption says of each constant.                               *)
LEMMA ConstantTypes ==
  Window \in Nat /\ Window > 0 /\ Step \in Nat /\ Step > 0 /\ MaxData \in Nat
BY JoinTaskAssumption

(* The range of remainders.                                                 *)
LEMMA ModRange ==
  ASSUME NEW k \in Nat
  PROVE  k % Step \in Nat /\ k % Step < Step /\ k % Step <= k
BY ConstantTypes

(* The remainder of the next number.                                        *)
LEMMA ModNext ==
  ASSUME NEW k \in Nat
  PROVE  (k + 1) % Step = IF (k % Step) + 1 = Step THEN 0 ELSE (k % Step) + 1
<1> DEFINE q == k \div Step
           m == k % Step
<1>1. q \in Nat /\ m \in 0 .. Step - 1 /\ k = Step * q + m
  BY ConstantTypes
<1>2. CASE m + 1 = Step
  <2>1. k + 1 = Step * (q + 1)
    BY <1>1, <1>2, ConstantTypes
  <2>2. (Step * (q + 1)) % Step = 0
    BY <1>1, ConstantTypes
  <2> QED
    BY <1>2, <2>1, <2>2
<1>3. CASE m + 1 # Step
  <2>1. k + 1 = Step * q + (m + 1) /\ m + 1 \in 0 .. Step - 1
    BY <1>1, <1>3, ConstantTypes
  <2>2. (Step * q + (m + 1)) % Step = m + 1
    BY <1>1, <2>1, ModUnique, ConstantTypes
  <2> QED
    BY <1>1, <1>3, <2>1, <2>2
<1> QED
  BY <1>2, <1>3

(* What is left when the remainder is taken away divides by Step.           *)
LEMMA ModBelow ==
  ASSUME NEW k \in Nat, NEW m \in Nat, m = k % Step
  PROVE  (k - m) % Step = 0
<1> DEFINE q == k \div Step
<1>1. q \in Nat /\ k - m = Step * q + 0
  BY ConstantTypes
<1>2. (Step * q + 0) % Step = 0
  BY <1>1, ModUnique, ConstantTypes
<1> QED
  BY <1>1, <1>2

-------------------------------------------------------------------------------
(* A window takes a datum at its end and never exceeds its size.            *)
LEMMA SlideLast ==
  ASSUME NEW w \in Seq(Entry), NEW d \in Entry, Len(w) <= Window
  PROVE  /\ Slide(w, d) \in Seq(Entry)
         /\ Len(Slide(w, d)) = IF Len(w) + 1 < Window THEN Len(w) + 1 ELSE Window
         /\ Slide(w, d)[Len(Slide(w, d))] = d
         /\ \A i \in 1 .. Len(Slide(w, d)) - 1 :
              Slide(w, d)[i] = w[Len(w) - Len(Slide(w, d)) + 1 + i]
<1> USE ConstantTypes
<1>1. CASE Len(w) >= Window
  <2>1. w # <<>> /\ Tail(w) \in Seq(Entry) /\ Len(Tail(w)) = Len(w) - 1
    BY <1>1
  <2>2. Slide(w, d) = Append(Tail(w), d)
    BY <1>1 DEF Slide
  <2> DEFINE t == Append(Tail(w), d)
  <2>3. t \in Seq(Entry) /\ Len(t) = Len(w) /\ t[Len(w)] = d
    BY <2>1
  <2>4. \A i \in 1 .. Len(w) - 1 : t[i] = w[i + 1]
    BY <1>1, <2>1
  <2>5. Len(w) = Window
    BY <1>1
  <2> HIDE DEF t
  <2>6. \A i \in 1 .. Len(t) - 1 : t[i] = w[Len(w) - Len(t) + 1 + i]
    BY <2>3, <2>4
  <2> QED
    BY <2>2, <2>3, <2>5, <2>6 DEF t
<1>2. CASE Len(w) < Window
  <2>1. Slide(w, d) = Append(w, d)
    BY <1>2 DEF Slide
  <2>2. Append(w, d) \in Seq(Entry) /\ Len(Append(w, d)) = Len(w) + 1
    OBVIOUS
  <2>3. /\ Append(w, d)[Len(w) + 1] = d
        /\ \A i \in 1 .. Len(w) : Append(w, d)[i] = w[i]
    OBVIOUS
  <2> QED
    BY <1>2, <2>1, <2>2, <2>3
<1> QED
  BY <1>1, <1>2

(* The effect of a callback on one side.                                    *)
LEMMA StreamsGrow ==
  ASSUME IInv, NEW given \in SUBSET Side, NEW key \in [given -> Key],
         Callback(given, key), NEW r \in Side
  PROVE  /\ seen'[r] \in Seq(Key) /\ Len(seen'[r]) <= MaxData
         /\ Len(seen'[r]) = IF r \in given THEN Len(seen[r]) + 1 ELSE Len(seen[r])
         /\ \A i \in 1 .. Len(seen[r]) : seen'[r][i] = seen[r][i]
<1> USE ConstantTypes
<1>1. seen[r] \in Seq(Key) /\ Len(seen[r]) <= MaxData
  BY DEF IInv, TypeOK
<1>2. seen'[r] = IF r \in given THEN Append(seen[r], key[r]) ELSE seen[r]
  BY DEF Callback
<1>3. CASE r \in given
  BY <1>1, <1>2, <1>3 DEF Callback
<1>4. CASE r \notin given
  BY <1>1, <1>2, <1>4
<1> QED
  BY <1>3, <1>4

(* After a callback each window is again the end of its stream.             *)
LEMMA WindowsSlide ==
  ASSUME IInv, NEW given \in SUBSET Side, NEW key \in [given -> Key],
         Callback(given, key), NEW r \in Side
  PROVE  /\ window'[r] \in Seq(Entry)
         /\ Len(window'[r]) = IF Len(seen'[r]) < Window THEN Len(seen'[r]) ELSE Window
         /\ \A i \in 1 .. Len(window'[r]) :
              window'[r][i].at = Len(seen'[r]) - Len(window'[r]) + i
<1> USE ConstantTypes
<1> DEFINE n == Len(seen[r])
           w == window[r]
           d == [key |-> key[r], at |-> n + 1]
<1>1. /\ n \in Nat /\ w \in Seq(Entry)
      /\ Len(w) = IF n < Window THEN n ELSE Window
      /\ \A i \in 1 .. Len(w) : w[i].at = n - Len(w) + i
  <2>1. n \in Nat /\ w \in Seq(Entry)
    BY DEF IInv, TypeOK
  <2>2. /\ Len(w) = IF n < Window THEN n ELSE Window
        /\ \A i \in 1 .. Len(w) : w[i].at = n - Len(w) + i
    BY DEF IInv, WindowHoldsLast
  <2> QED
    BY <2>1, <2>2
<1>2. CASE r \in given
  <2>1. Len(seen'[r]) = n + 1 /\ n + 1 <= MaxData
    BY <1>2, StreamsGrow
  <2>2. window'[r] = Slide(w, d)
    BY <1>2, <2>1 DEF Callback
  <2>3. d \in Entry
    BY <1>1, <1>2, <2>1 DEF Entry
  <2>4. d.at = n + 1
    OBVIOUS
  <2> HIDE DEF d, w, n
  <2> DEFINE s == Slide(w, d)
  <2>5. /\ s \in Seq(Entry)
        /\ Len(s) = IF Len(w) + 1 < Window THEN Len(w) + 1 ELSE Window
        /\ s[Len(s)] = d
        /\ \A i \in 1 .. Len(s) - 1 : s[i] = w[Len(w) - Len(s) + 1 + i]
    <3>1. w \in Seq(Entry) /\ Len(w) <= Window
      BY <1>1
    <3> QED
      BY <2>3, <3>1, SlideLast
  <2> HIDE DEF s
  <2>6. Len(s) = IF n + 1 < Window THEN n + 1 ELSE Window
    BY <1>1, <2>5
  <2>7. ASSUME NEW i \in 1 .. Len(s) PROVE s[i].at = n + 1 - Len(s) + i
    <3>1. CASE i = Len(s)
      <4>1. s[i].at = n + 1
        BY <2>4, <2>5, <3>1
      <4>2. n \in Nat /\ i \in Nat
        BY <1>1
      <4> QED
        BY <3>1, <4>1, <4>2
    <3>2. CASE i < Len(s)
      <4> DEFINE j == Len(w) - Len(s) + 1 + i
      <4>1. Len(w) \in Nat /\ Len(s) \in Nat /\ i \in 1 .. Len(s) - 1
        BY <1>1, <2>5, <3>2
      <4>2. s[i] = w[j]
        BY <2>5, <4>1
      <4>3. j \in 1 .. Len(w)
        BY <1>1, <2>6, <4>1
      <4>4. w[j].at = n - Len(w) + j
        BY <1>1, <4>3
      <4> QED
        BY <1>1, <4>1, <4>2, <4>4
    <3> QED
      BY <2>5, <2>6, <1>1, <3>1, <3>2
  <2>8. window'[r] = s
    BY <2>2 DEF s
  <2> HIDE DEF s
  <2>9. Len(seen'[r]) = n + 1 /\ n \in Nat /\ Len(s) \in Nat
    BY <1>1, <2>1, <2>5
  <2>10. ASSUME NEW i \in 1 .. Len(s)
         PROVE  s[i].at = Len(seen'[r]) - Len(s) + i
    BY <2>7, <2>9
  <2> QED
    BY <2>5, <2>6, <2>8, <2>9, <2>10
<1>3. CASE r \notin given
  <2>1. window'[r] = w /\ seen'[r] = seen[r]
    BY <1>3 DEF Callback
  <2> QED
    BY <1>1, <2>1
<1> QED
  BY <1>2, <1>3

(* What is stored of a side are the last data of its stream.                *)
LEMMA StoredAreLast ==
  ASSUME NEW w \in Seq(Entry), NEW n \in Nat,
         Len(w) = IF n < Window THEN n ELSE Window,
         \A i \in 1 .. Len(w) : w[i].at = n - Len(w) + i
  PROVE  Stored(w) = LastOf(n)
<1> USE ConstantTypes
<1>1. ASSUME NEW a \in Stored(w) PROVE a \in LastOf(n)
  <2>1. PICK i \in 1 .. Len(w) : a = w[i].at
    BY DEF Stored
  <2>2. a = n - Len(w) + i /\ Len(w) \in Nat
    BY <2>1
  <2> QED
    BY <2>2 DEF LastOf
<1>2. ASSUME NEW a \in LastOf(n) PROVE a \in Stored(w)
  <2>1. a \in 1 .. n /\ a > n - Window
    BY DEF LastOf
  <2>2. a - n + Len(w) \in 1 .. Len(w)
    BY <2>1
  <2>3. w[a - n + Len(w)].at = n - Len(w) + (a - n + Len(w))
    BY <2>2
  <2>4. n - Len(w) + (a - n + Len(w)) = a
    BY <2>1
  <2> QED
    BY <2>2, <2>3, <2>4 DEF Stored
<1> QED
  BY <1>1, <1>2

(* A side asks exactly when a datum of its own makes its join due; the      *)
(* other one has no part in it.                                             *)
LEMMA AsksWhenDue ==
  ASSUME IInv, NEW given \in SUBSET Side, NEW key \in [given -> Key],
         Callback(given, key), NEW r \in Side
  PROVE  /\ sliding'[r] \in Nat
         /\ sliding'[r] = IF Len(seen'[r]) < Window THEN Step + Len(seen'[r])
                                                   ELSE (Len(seen'[r]) - Window) % Step
         /\ r \in given /\ Due(Len(seen'[r])) =>
              Stored(window'[1]) \X Stored(window'[2]) \subseteq met'
<1> USE ConstantTypes
<1> DEFINE n == Len(seen[r])
           m == Len(seen'[r])
           s == [q \in Side |-> IF q \in given THEN sliding[q] + 1 ELSE sliding[q]]
           asking == ShouldJoin(window', s)
<1>1. n \in Nat /\ m = IF r \in given THEN n + 1 ELSE n
  <2>1. seen[r] \in Seq(Key)
    BY DEF IInv, TypeOK
  <2>2. m = IF r \in given THEN n + 1 ELSE n
    BY StreamsGrow
  <2> QED
    BY <2>1, <2>2
<1>2. Len(window'[r]) = IF m < Window THEN m ELSE Window
  BY WindowsSlide
<1>3. sliding[r] \in Nat /\ sliding[r] = IF n < Window THEN Step + n ELSE (n - Window) % Step
  BY DEF IInv, TypeOK, OwnPace
<1>4. s[r] = IF r \in given THEN sliding[r] + 1 ELSE sliding[r]
  OBVIOUS
<1>5. sliding'[r] = IF r \in asking THEN 0 ELSE s[r]
  BY DEF Callback, Reset
<1>6. asking # {} => met' = met \cup (Stored(window'[1]) \X Stored(window'[2]))
  BY DEF Callback
<1>7. r \in asking <=> m >= Window /\ s[r] >= Step
  BY <1>1, <1>2 DEF ShouldJoin
<1> HIDE DEF n, m, s, asking
<1>8. n >= Window => /\ (n - Window) % Step \in Nat /\ (n - Window) % Step < Step
  <2> HAVE n >= Window
  <2>1. n - Window \in Nat
    BY <1>1
  <2> QED
    BY <2>1, ModRange
<1> DEFINE AtOwnPace == /\ sliding'[r] \in Nat
                        /\ sliding'[r] = IF m < Window THEN Step + m ELSE (m - Window) % Step
                        /\ r \in given /\ Due(m) => r \in asking
<1>9. AtOwnPace
  <2>1. CASE r \notin given
    BY <1>1, <1>3, <1>4, <1>5, <1>7, <1>8, <2>1
  <2>2. CASE r \in given /\ m < Window
    BY <1>1, <1>3, <1>4, <1>5, <1>7, <2>2 DEF Due
  <2>3. CASE r \in given /\ m = Window
    <3>1. s[r] >= Step /\ r \in asking
      BY <1>1, <1>3, <1>4, <1>7, <2>3
    <3>2. (m - Window) % Step = 0
      BY <2>3
    <3> QED
      BY <1>5, <2>3, <3>1, <3>2
  <2>4. CASE r \in given /\ m > Window
    <3>1. m = n + 1 /\ n >= Window /\ s[r] = ((n - Window) % Step) + 1
      BY <1>1, <1>3, <1>4, <2>4
    <3> DEFINE k == (n - Window) % Step
    <3>2. k \in Nat /\ k < Step /\ s[r] = k + 1
      BY <1>8, <3>1
    <3>3. (m - Window) % Step = IF k + 1 = Step THEN 0 ELSE k + 1
      <4>1. n - Window \in Nat /\ m - Window = (n - Window) + 1
        BY <1>1, <3>1
      <4> QED
        BY <4>1, ModNext
    <3> HIDE DEF k
    <3>4. r \in asking <=> k + 1 = Step
      BY <1>1, <1>7, <2>4, <3>1, <3>2
    <3>5. sliding'[r] = (m - Window) % Step /\ sliding'[r] \in Nat
      BY <1>5, <3>2, <3>3, <3>4
    <3>6. Due(m) => r \in asking
      BY <3>2, <3>3, <3>4 DEF Due
    <3> QED
      BY <1>1, <2>4, <3>5, <3>6
  <2> QED
    BY <1>1, <2>1, <2>2, <2>3, <2>4
<1> QED
  BY <1>6, <1>9 DEF m

(* The trail gets one element more, which says where both streams are.      *)
LEMMA TrailAppends ==
  ASSUME IInv, NEW given \in SUBSET Side, NEW key \in [given -> Key],
         Callback(given, key)
  PROVE  /\ trail' \in Seq(Nat \X Nat) /\ Len(trail') = Len(trail) + 1
         /\ \A c \in 1 .. Len(trail) : trail'[c] = trail[c]
         /\ \A r \in Side : trail'[Len(trail) + 1][r] = Len(seen'[r])
<1> DEFINE last == <<Len(seen'[1]), Len(seen'[2])>>
<1>1. last \in Nat \X Nat
  <2>1. seen'[1] \in Seq(Key) /\ seen'[2] \in Seq(Key)
    BY StreamsGrow DEF Side
  <2> QED
    BY <2>1
<1>2. \A r \in Side : last[r] = Len(seen'[r])
  BY DEF Side
<1>3. trail \in Seq(Nat \X Nat) /\ trail' = Append(trail, last)
  BY DEF IInv, TypeOK, Callback
<1> HIDE DEF last
<1> QED
  BY <1>1, <1>2, <1>3

(* Elements of the trail are pairs of lengths.                              *)
LEMMA TrailTypes ==
  ASSUME IInv, NEW c \in 1 .. Len(trail), NEW r \in Side
  PROVE  trail[c][r] \in Nat
<1>1. trail[c] \in Nat \X Nat
  BY DEF IInv, TypeOK
<1> QED
  BY <1>1 DEF Side

(* No stream is longer in the trail than it is now.                         *)
LEMMA TrailBounded ==
  ASSUME IInv, NEW c \in 1 .. Len(trail), NEW r \in Side
  PROVE  trail[c][r] <= Len(seen[r])
<1>1. trail \in Seq(Nat \X Nat) /\ Len(trail) \in 1 .. Len(trail) /\ trail # <<>>
      /\ c \in 1 .. Len(trail)
  <2>1. trail \in Seq(Nat \X Nat)
    BY DEF IInv, TypeOK
  <2> QED
    BY <2>1
<1>2. trail[c][r] <= trail[Len(trail)][r] /\ Len(seen[r]) = trail[Len(trail)][r]
  BY <1>1 DEF IInv, TrailGrows
<1> QED
  BY <1>2

(* A callback makes no stream shorter.                                      *)
LEMMA StepTrailGrows ==
  ASSUME IInv, NEW given \in SUBSET Side, NEW key \in [given -> Key],
         Callback(given, key)
  PROVE  TrailGrows'
<1>1. trail \in Seq(Nat \X Nat)
  BY DEF IInv, TypeOK
<1>2. /\ trail' \in Seq(Nat \X Nat) /\ Len(trail') = Len(trail) + 1
      /\ \A c \in 1 .. Len(trail) : trail'[c] = trail[c]
      /\ \A r \in Side : trail'[Len(trail) + 1][r] = Len(seen'[r])
  BY TrailAppends
<1>3. ASSUME NEW r \in Side, NEW b \in 1 .. Len(trail'), NEW a \in 1 .. b
      PROVE  trail'[a][r] <= trail'[b][r]
  <2>1. Len(seen[r]) \in Nat /\ Len(seen'[r]) \in Nat /\ Len(seen[r]) <= Len(seen'[r])
    <3>1. seen[r] \in Seq(Key)
      BY DEF IInv, TypeOK
    <3>2. seen'[r] \in Seq(Key) /\ Len(seen'[r]) = IF r \in given THEN Len(seen[r]) + 1 ELSE Len(seen[r])
      BY StreamsGrow
    <3> QED
      BY <3>1, <3>2
  <2>2. CASE b <= Len(trail)
    <3>1. b \in 1 .. Len(trail) /\ a \in 1 .. Len(trail)
      BY <1>1, <2>2
    <3> QED
      BY <1>2, <3>1 DEF IInv, TrailGrows
  <2>3. CASE b = Len(trail) + 1 /\ a <= Len(trail)
    <3>1. a \in 1 .. Len(trail)
      BY <1>1, <2>3
    <3>2. trail[a][r] <= Len(seen[r]) /\ trail[a][r] \in Nat
      BY <3>1, TrailBounded, TrailTypes
    <3>3. trail'[a][r] = trail[a][r] /\ trail'[b][r] = Len(seen'[r])
      BY <1>2, <2>3, <3>1
    <3> QED
      BY <2>1, <3>2, <3>3
  <2>4. CASE a = b /\ b = Len(trail) + 1
    BY <1>2, <2>1, <2>4
  <2> QED
    BY <1>1, <1>2, <2>2, <2>3, <2>4
<1>4. trail' # <<>>
  BY <1>1, <1>2
<1> QED
  BY <1>2, <1>3, <1>4 DEF TrailGrows

(* The callback that brings a stream to a new length is the one to name for *)
(* it; for the lengths before nothing changes.                              *)
LEMMA StepMetWhenDue ==
  ASSUME IInv, NEW given \in SUBSET Side, NEW key \in [given -> Key],
         Callback(given, key)
  PROVE  MetWhenDue'
<1>1. trail \in Seq(Nat \X Nat) /\ Len(trail) \in Nat
  BY DEF IInv, TypeOK
<1>2. /\ trail' \in Seq(Nat \X Nat) /\ Len(trail') = Len(trail) + 1
      /\ \A c \in 1 .. Len(trail) : trail'[c] = trail[c]
      /\ \A r \in Side : trail'[Len(trail) + 1][r] = Len(seen'[r])
  BY TrailAppends
<1>3. met \subseteq met'
  BY DEF Callback
<1>4. \A r \in Side : Stored(window'[r]) = LastOf(Len(seen'[r]))
  <2> TAKE r \in Side
  <2>1. Len(seen'[r]) \in Nat
    <3>1. seen'[r] \in Seq(Key)
      BY StreamsGrow
    <3> QED
      BY <3>1
  <2> QED
    BY <2>1, WindowsSlide, StoredAreLast
<1> SUFFICES ASSUME NEW r \in Side, NEW n \in 1 .. Len(seen'[r])
             PROVE  \E c \in 1 .. Len(trail') :
                      /\ trail'[c][r] = n
                      /\ \A b \in 1 .. Len(trail') : trail'[b][r] >= n => c <= b
                      /\ Due(n) => LastOf(trail'[c][1]) \X LastOf(trail'[c][2]) \subseteq met'
  BY DEF MetWhenDue
<1>5. /\ Len(seen[r]) \in Nat
      /\ Len(seen'[r]) = IF r \in given THEN Len(seen[r]) + 1 ELSE Len(seen[r])
  <2>1. seen[r] \in Seq(Key)
    BY DEF IInv, TypeOK
  <2>2. Len(seen'[r]) = IF r \in given THEN Len(seen[r]) + 1 ELSE Len(seen[r])
    BY StreamsGrow
  <2> QED
    BY <2>1, <2>2
<1>6. CASE n <= Len(seen[r])
  <2>1. n \in 1 .. Len(seen[r])
    BY <1>5, <1>6
  <2>2. PICK c \in 1 .. Len(trail) :
           /\ trail[c][r] = n
           /\ \A b \in 1 .. Len(trail) : trail[b][r] >= n => c <= b
           /\ Due(n) => LastOf(trail[c][1]) \X LastOf(trail[c][2]) \subseteq met
    BY <2>1 DEF IInv, MetWhenDue
  <2>3. c \in 1 .. Len(trail') /\ trail'[c] = trail[c]
    BY <1>1, <1>2
  <2>4. ASSUME NEW b \in 1 .. Len(trail'), trail'[b][r] >= n PROVE c <= b
    <3>1. CASE b \in 1 .. Len(trail)
      BY <1>2, <2>2, <2>4, <3>1
    <3>2. CASE b = Len(trail) + 1
      BY <1>1, <3>2
    <3> QED
      BY <1>1, <1>2, <3>1, <3>2
  <2> QED
    BY <1>3, <2>2, <2>3, <2>4
<1>7. CASE n > Len(seen[r])
  <2>1. r \in given /\ n = Len(seen'[r])
    BY <1>5, <1>7
  <2> DEFINE c == Len(trail) + 1
  <2>2. c \in 1 .. Len(trail') /\ trail'[c][r] = n
    BY <1>1, <1>2, <2>1
  <2>3. ASSUME NEW b \in 1 .. Len(trail'), trail'[b][r] >= n PROVE c <= b
    <3>1. SUFFICES ASSUME b \in 1 .. Len(trail) PROVE FALSE
      BY <1>1, <1>2
    <3>2. trail'[b] = trail[b] /\ trail[b][r] \in Nat /\ trail[b][r] <= Len(seen[r])
      BY <1>2, <3>1, TrailTypes, TrailBounded
    <3> QED
      BY <1>5, <1>7, <2>3, <3>2
  <2>4. ASSUME Due(n)
        PROVE  LastOf(trail'[c][1]) \X LastOf(trail'[c][2]) \subseteq met'
    <3>1. Stored(window'[1]) \X Stored(window'[2]) \subseteq met'
      BY <2>1, <2>4, AsksWhenDue
    <3>2. 1 \in Side /\ 2 \in Side
      BY DEF Side
    <3>3. trail'[c][1] = Len(seen'[1]) /\ trail'[c][2] = Len(seen'[2])
      BY <1>2, <3>2
    <3>4. Stored(window'[1]) = LastOf(Len(seen'[1])) /\ Stored(window'[2]) = LastOf(Len(seen'[2]))
      BY <1>4, <3>2
    <3> QED
      BY <3>1, <3>3, <3>4
  <2> HIDE DEF c
  <2> QED
    BY <2>2, <2>3, <2>4
<1> QED
  BY <1>5, <1>6, <1>7

(* Types, of what windows and the record of comparisons hold.               *)
LEMMA StepTypeOK ==
  ASSUME IInv, NEW given \in SUBSET Side, NEW key \in [given -> Key],
         Callback(given, key)
  PROVE  TypeOK'
<1>1. ASSUME NEW r \in Side
      PROVE  /\ window'[r] \in Seq(Entry) /\ sliding'[r] \in Nat
             /\ seen'[r] \in Seq(Key) /\ Len(seen'[r]) <= MaxData
  BY StreamsGrow, WindowsSlide, AsksWhenDue
<1>2. trail' \in Seq(Nat \X Nat)
  BY TrailAppends
<1>3. met' \subseteq (1 .. MaxData) \X (1 .. MaxData)
  <2>1. ASSUME NEW r \in Side PROVE \A a \in Stored(window'[r]) : a \in 1 .. MaxData
    <3> TAKE a \in Stored(window'[r])
    <3>1. window'[r] \in Seq(Entry)
      BY <1>1
    <3>2. PICK i \in 1 .. Len(window'[r]) : a = window'[r][i].at
      BY DEF Stored
    <3>3. window'[r][i] \in Entry
      BY <3>1
    <3> QED
      BY <3>2, <3>3 DEF Entry
  <2>2. Stored(window'[1]) \subseteq 1 .. MaxData /\ Stored(window'[2]) \subseteq 1 .. MaxData
    BY <2>1 DEF Side
  <2>3. met \subseteq (1 .. MaxData) \X (1 .. MaxData)
    BY DEF IInv, TypeOK
  <2>4. met' \subseteq met \cup (Stored(window'[1]) \X Stored(window'[2]))
    BY DEF Callback
  <2> QED
    BY <2>2, <2>3, <2>4
<1> QED
  BY <1>1, <1>2, <1>3 DEF TypeOK

(* An enclave before its first datum.                                       *)
LEMMA InitIInv == Init => IInv
<1> USE ConstantTypes
<1> SUFFICES ASSUME Init PROVE IInv
  OBVIOUS
<1>1. ASSUME NEW r \in Side
      PROVE  window[r] = <<>> /\ seen[r] = <<>> /\ sliding[r] = Step /\ Len(seen[r]) = 0 /\ Len(window[r]) = 0
  BY DEF Init
<1>2. trail = <<>> /\ Len(trail) = 0 /\ met = {}
  BY DEF Init
<1>3. TypeOK
  <2>1. ASSUME NEW r \in Side
        PROVE  /\ window[r] \in Seq(Entry) /\ sliding[r] \in Nat
               /\ seen[r] \in Seq(Key) /\ Len(seen[r]) <= MaxData
    <3>1. sliding[r] \in Nat /\ Len(seen[r]) <= MaxData
      BY <1>1
    <3>2. <<>> \in Seq(Entry) /\ <<>> \in Seq(Key)
      OBVIOUS
    <3> QED
      BY <1>1, <3>1, <3>2
  <2>2. trail \in Seq(Nat \X Nat) /\ met \subseteq (1 .. MaxData) \X (1 .. MaxData)
    BY <1>2
  <2> QED
    BY <2>1, <2>2 DEF TypeOK
<1>4. OwnPace
  <2>1. ASSUME NEW r \in Side
        PROVE  Len(seen[r]) < Window /\ sliding[r] = Step + Len(seen[r])
    BY <1>1
  <2> QED
    BY <2>1 DEF OwnPace
<1>5. WindowHoldsLast
  <2>1. ASSUME NEW r \in Side
        PROVE  /\ Len(seen[r]) < Window /\ Len(window[r]) = Len(seen[r])
               /\ 1 .. Len(window[r]) = {}
    BY <1>1
  <2> QED
    BY <2>1 DEF WindowHoldsLast
<1>6. TrailGrows
  BY <1>1, <1>2 DEF TrailGrows
<1>7. MetWhenDue
  BY <1>1, <1>2 DEF MetWhenDue
<1> QED
  BY <1>3, <1>4, <1>5, <1>6, <1>7 DEF IInv

(* Every step preserves the inductive invariant.                            *)
LEMMA NextIInv == IInv /\ [Next]_vars => IInv'
<1> SUFFICES ASSUME IInv, [Next]_vars PROVE IInv'
  OBVIOUS
<1>1. ASSUME NEW given \in (SUBSET Side) \ {{}}, NEW key \in [given -> Key],
             Callback(given, key)
      PROVE  IInv'
  <2>1. given \in SUBSET Side /\ key \in [given -> Key]
    OBVIOUS
  <2>2. TypeOK' /\ TrailGrows' /\ MetWhenDue'
    BY <1>1, <2>1, StepTypeOK, StepTrailGrows, StepMetWhenDue
  <2>3. OwnPace'
    BY <1>1, <2>1, AsksWhenDue DEF OwnPace
  <2>4. WindowHoldsLast'
    BY <1>1, <2>1, WindowsSlide DEF WindowHoldsLast
  <2> QED
    BY <2>2, <2>3, <2>4 DEF IInv
<1>2. CASE UNCHANGED vars
  <2>1. TypeOK' /\ OwnPace'
    BY <1>2 DEF IInv, vars, TypeOK, OwnPace
  <2>2. WindowHoldsLast'
    BY <1>2 DEF IInv, vars, WindowHoldsLast
  <2>3. TrailGrows'
    BY <1>2 DEF IInv, vars, TrailGrows
  <2>4. MetWhenDue'
    BY <1>2 DEF IInv, vars, MetWhenDue
  <2> QED
    BY <2>1, <2>2, <2>3, <2>4 DEF IInv
<1>3. CASE Flush
  BY <1>2, <1>3 DEF Flush
<1> QED
  BY <1>1, <1>2, <1>3 DEF Next

(* The inductive invariant holds of every run of a join.                    *)
THEOREM Invariance == Spec => []IInv
<1>1. Init => IInv
  BY InitIInv
<1>2. IInv /\ [Next]_vars => IInv'
  BY NextIInv
<1> QED
  BY <1>1, <1>2, PTL DEF Spec

(* Windows hold data of their streams, counters are naturals, and only      *)
(* positions in the streams are compared.                                   *)
THEOREM TypeCorrect == Spec => []TypeOK
<1>1. IInv => TypeOK
  BY DEF IInv
<1> QED
  BY <1>1, Invariance, PTL

(* A side of a join asks at its own pace, whatever the other one does.      *)
THEOREM EachSideAtItsPace == Spec => []OwnPace
<1>1. IInv => OwnPace
  BY DEF IInv
<1> QED
  BY <1>1, Invariance, PTL

(* Of the lengths a side goes through in Step data, full, one makes a join  *)
(* due.  The callback that reached it compared all that was in the windows, *)
(* and what is together before and after is together then.                  *)
LEMMA IInvNoPairMissed == IInv => NoPairMissed
<1> USE ConstantTypes
<1> SUFFICES ASSUME IInv, NEW b \in 1 .. Len(trail), NEW a \in 1 .. b,
                    NEW r \in Side, trail[b][r] - trail[a][r] >= Step,
                    trail[b][r] - Window >= Step - 1
             PROVE  Together(a, b) \subseteq met
  BY DEF NoPairMissed
<1>1. trail \in Seq(Nat \X Nat) /\ Len(trail) \in Nat
  BY DEF IInv, TypeOK
<1>2. a \in 1 .. Len(trail)
  BY <1>1
<1> DEFINE x == trail[a][r]
           y == trail[b][r]
<1>3. x \in Nat /\ y \in Nat /\ y - x >= Step
  BY <1>2, TrailTypes
<1>4. y - Window \in Nat
  BY <1>3
<1>5. PICK k \in Nat : k = (y - Window) % Step /\ k < Step /\ k <= y - Window
  BY <1>4, ModRange
<1> DEFINE v == y - k
<1>6. v \in Nat /\ v >= Window /\ v <= y /\ v > x /\ Due(v)
  <2> HIDE DEF x, y
  <2>1. v \in Nat /\ v >= Window /\ v <= y /\ v > x /\ v - Window = (y - Window) - k
    BY <1>3, <1>4, <1>5
  <2>2. ((y - Window) - k) % Step = 0
    BY <1>4, <1>5, ModBelow
  <2> QED
    BY <2>1, <2>2 DEF Due
<1>7. y <= Len(seen[r])
  BY TrailBounded
<1>8. v \in 1 .. Len(seen[r])
  <2>1. seen[r] \in Seq(Key)
    BY DEF IInv, TypeOK
  <2>2. v >= 1 /\ v <= Len(seen[r])
    BY <1>3, <1>6, <1>7, <2>1
  <2> QED
    BY <1>6, <2>1, <2>2
<1> HIDE DEF v
<1>9. PICK c \in 1 .. Len(trail) :
         /\ trail[c][r] = v
         /\ \A d \in 1 .. Len(trail) : trail[d][r] >= v => c <= d
         /\ LastOf(trail[c][1]) \X LastOf(trail[c][2]) \subseteq met
  BY <1>6, <1>8 DEF IInv, MetWhenDue
<1>10. c <= b
  BY <1>3, <1>6, <1>9
<1>11. a <= c
  <2>1. SUFFICES ASSUME c < a PROVE FALSE
    BY <1>1, <1>9
  <2>2. c \in 1 .. a
    BY <1>9, <2>1
  <2>3. trail[c][r] <= trail[a][r]
    BY <1>2, <2>2 DEF IInv, TrailGrows
  <2> QED
    BY <1>3, <1>6, <1>9, <2>3
<1>12. ASSUME NEW q \in Side, NEW m \in Still(a, b, q)
       PROVE  m \in LastOf(trail[c][q])
  <2>1. a \in 1 .. c /\ c \in 1 .. b
    BY <1>9, <1>10, <1>11
  <2>2. trail[a][q] <= trail[c][q] /\ trail[c][q] <= trail[b][q]
    BY <1>9, <2>1 DEF IInv, TrailGrows
  <2>3. trail[a][q] \in Nat /\ trail[b][q] \in Nat /\ trail[c][q] \in Nat
    BY <1>2, <1>9, TrailTypes
  <2>4. m \in Nat /\ m >= 1 /\ m <= trail[a][q] /\ m > trail[b][q] - Window
    BY <2>3 DEF Still
  <2>5. m <= trail[c][q] /\ m > trail[c][q] - Window
    <3> DEFINE before == trail[a][q]
               between == trail[c][q]
               behind == trail[b][q]
    <3>1. m <= before /\ m > behind - Window
      BY <2>4
    <3>2. before <= between /\ between <= behind
      BY <2>2
    <3>3. before \in Nat /\ between \in Nat /\ behind \in Nat
      BY <2>3
    <3> HIDE DEF before, between, behind
    <3>4. m <= between
      BY <2>4, <3>1, <3>2, <3>3
    <3>5. m > between - Window
      BY <2>4, <3>1, <3>2, <3>3
    <3> QED
      BY <3>4, <3>5 DEF between
  <2> QED
    BY <2>3, <2>4, <2>5 DEF LastOf
<1>13. ASSUME NEW p \in Together(a, b) PROVE p \in met
  <2>1. p = <<p[1], p[2]>> /\ p[1] \in Still(a, b, 1) /\ p[2] \in Still(a, b, 2)
    BY DEF Together
  <2>2. p[1] \in LastOf(trail[c][1]) /\ p[2] \in LastOf(trail[c][2])
    BY <1>12, <2>1 DEF Side
  <2>3. p \in LastOf(trail[c][1]) \X LastOf(trail[c][2])
    BY <2>1, <2>2
  <2> QED
    BY <1>9, <2>3
<1> QED
  BY <1>13

(* Two data that stay in the windows long enough are compared: the join     *)
(* misses no pair, whatever the sizes of windows and steps.                 *)
THEOREM JoinMissesNoPair == Spec => []NoPairMissed
<1>1. IInv => NoPairMissed
  BY IInvNoPairMissed
<1> QED
  BY <1>1, Invariance, PTL
-------------------------------------------------------------------------------
(* Positions of a nested loop, and what it has emitted when it has been      *)
(* through i data of u, and with the next one through j data of v.          *)
Pair == Entry \X Entry

Passed(i, j, a, b) == a <= i \/ (a = i + 1 /\ b <= j)

Before(p, q) == p[1].at < q[1].at \/ (p[1].at = q[1].at /\ p[2].at < q[2].at)

Rises(w) == \A i \in 1 .. Len(w) : \A k \in 1 .. Len(w) : i < k => w[i].at < w[k].at

Emitted(s, u, v, i, j) ==
  /\ s \in Seq(Pair)
  /\ \A n \in 1 .. Len(s) : \E a \in 1 .. Len(u), b \in 1 .. Len(v) :
       s[n] = <<u[a], v[b]>> /\ u[a].key = v[b].key /\ Passed(i, j, a, b)
  /\ \A a \in 1 .. Len(u), b \in 1 .. Len(v) :
       u[a].key = v[b].key /\ Passed(i, j, a, b)
         => \E n \in 1 .. Len(s) : s[n] = <<u[a], v[b]>>
  /\ \A n \in 1 .. Len(s) - 1 : Before(s[n], s[n + 1])

(* The results after each round of the inner loop, and of the outer one.    *)
InnerRun(f, results, d, w) ==
  /\ f[0] = results
  /\ \A j \in 1 .. Len(w) :
       f[j] = IF w[j].key = d.key THEN Append(f[j - 1], <<d, w[j]>>) ELSE f[j - 1]
  /\ Matches(results, d, w) = f[Len(w)]

OuterRun(f, w) ==
  /\ f[0] = <<>>
  /\ \A i \in 1 .. Len(w[1]) : f[i] = Matches(f[i - 1], w[1][i], w[2])
  /\ NestedLoopJoin(w) = f[Len(w[1])]

(* The inner loop has a run.                                                *)
LEMMA InnerLoop ==
  ASSUME NEW results \in Seq(Pair), NEW d \in Entry, NEW w \in Seq(Entry)
  PROVE  \E f : InnerRun(f, results, d, w)
<1> DEFINE N == Len(w)
           G == [p \in Seq(Pair) \X (1 .. N) |->
                   IF w[p[2]].key = d.key THEN Append(p[1], <<d, w[p[2]]>>) ELSE p[1]]
<1>1. N \in Nat /\ \A j \in 1 .. N : w[j] \in Entry
  OBVIOUS
<1>2. G \in [Seq(Pair) \X (1 .. N) -> Seq(Pair)]
  <2>1. ASSUME NEW s \in Seq(Pair), NEW j \in 1 .. N
        PROVE  (IF w[j].key = d.key THEN Append(s, <<d, w[j]>>) ELSE s) \in Seq(Pair)
    <3>1. <<d, w[j]>> \in Pair
      BY <1>1 DEF Pair
    <3> QED
      BY <3>1
  <2> QED
    BY <2>1
<1>3. PICK f \in [0 .. N -> Seq(Pair)] :
         f[0] = results /\ \A j \in 1 .. N : f[j] = G[<<f[j - 1], j>>]
  <2> DEFINE S == Seq(Pair)
  <2>1. results \in S /\ N \in Nat /\ G \in [S \X (1 .. N) -> S]
    BY <1>1, <1>2
  <2> HIDE DEF G, N, S
  <2>2. PICK f : f \in LoopRuns(S, results, N, G)
    BY <2>1, LoopHasRun
  <2>3. f \in [0 .. N -> S] /\ f[0] = results /\ \A j \in 1 .. N : f[j] = G[<<f[j - 1], j>>]
    BY <2>2 DEF LoopRuns
  <2> QED
    BY <2>3 DEF S
<1>4. ASSUME NEW j \in 1 .. N
      PROVE  f[j] = IF w[j].key = d.key THEN Append(f[j - 1], <<d, w[j]>>) ELSE f[j - 1]
  <2>1. f[j - 1] \in Seq(Pair)
    BY <1>1
  <2>2. <<f[j - 1], j>> \in Seq(Pair) \X (1 .. N)
    BY <2>1
  <2>3. G[<<f[j - 1], j>>] = IF w[j].key = d.key THEN Append(f[j - 1], <<d, w[j]>>) ELSE f[j - 1]
    BY <2>2
  <2> QED
    BY <1>3, <2>3
<1> DEFINE Loop(g) == g = [j \in 0 .. Len(w) |->
                             IF j = 0 THEN results
                             ELSE IF w[j].key = d.key THEN Append(g[j - 1], <<d, w[j]>>)
                             ELSE g[j - 1]]
<1>5. Loop(f)
  <2>1. ASSUME NEW j \in 0 .. N
        PROVE  f[j] = IF j = 0 THEN results
                      ELSE IF w[j].key = d.key THEN Append(f[j - 1], <<d, w[j]>>)
                      ELSE f[j - 1]
    <3>1. CASE j = 0
      BY <1>3, <3>1
    <3>2. CASE j \in 1 .. N
      <4>1. j # 0
        BY <3>2
      <4>2. f[j] = IF w[j].key = d.key THEN Append(f[j - 1], <<d, w[j]>>) ELSE f[j - 1]
        BY <1>4, <3>2
      <4> QED
        BY <4>1, <4>2, Zenon
    <3> QED
      BY <1>1, <3>1, <3>2
  <2> HIDE DEF G
  <2> QED
    BY <2>1
<1> DEFINE loop == CHOOSE g : Loop(g)
<1>6. Loop(loop)
  <2> HIDE DEF Loop
  <2> QED
    BY <1>5
<1>7. Matches(results, d, w) = loop[Len(w)]
  BY Zenon DEF Matches
<1>8. /\ loop[0] = results
      /\ \A j \in 1 .. Len(w) :
           loop[j] = IF w[j].key = d.key THEN Append(loop[j - 1], <<d, w[j]>>) ELSE loop[j - 1]
  <2> HIDE DEF loop, G
  <2>1. \A j \in 0 .. Len(w) :
          loop[j] = IF j = 0 THEN results
                    ELSE IF w[j].key = d.key THEN Append(loop[j - 1], <<d, w[j]>>)
                    ELSE loop[j - 1]
    BY <1>6, Zenon
  <2>2. 0 \in 0 .. Len(w) /\ \A j \in 1 .. Len(w) : j \in 0 .. Len(w) /\ j # 0
    BY <1>1
  <2> QED
    BY <2>1, <2>2, Zenon
<1> HIDE DEF loop
<1> QED
  BY <1>7, <1>8 DEF InnerRun

(* One comparison of the inner loop.                                        *)
LEMMA Compared ==
  ASSUME NEW u \in Seq(Entry), NEW v \in Seq(Entry), Rises(u), Rises(v),
         NEW i \in Nat, i + 1 <= Len(u), NEW j \in Nat, j + 1 <= Len(v),
         NEW s, Emitted(s, u, v, i, j)
  PROVE  Emitted(IF v[j + 1].key = u[i + 1].key THEN Append(s, <<u[i + 1], v[j + 1]>>) ELSE s,
                 u, v, i, j + 1)
<1> DEFINE x == i + 1
           y == j + 1
           e == <<u[x], v[y]>>
<1>1. x \in 1 .. Len(u) /\ y \in 1 .. Len(v) /\ u[x] \in Entry /\ v[y] \in Entry
  OBVIOUS
<1>2. ASSUME NEW a \in 1 .. Len(u), NEW b \in 1 .. Len(v)
      PROVE  Passed(i, y, a, b) <=> Passed(i, j, a, b) \/ (a = x /\ b = y)
  BY DEF Passed
<1>3. /\ s \in Seq(Pair) /\ Len(s) \in Nat
      /\ \A n \in 1 .. Len(s) - 1 : Before(s[n], s[n + 1])
  BY DEF Emitted
<1>4. ASSUME NEW n \in 1 .. Len(s)
      PROVE  \E a \in 1 .. Len(u), b \in 1 .. Len(v) :
               s[n] = <<u[a], v[b]>> /\ u[a].key = v[b].key /\ Passed(i, j, a, b)
  BY DEF Emitted
<1>5. ASSUME NEW a \in 1 .. Len(u), NEW b \in 1 .. Len(v), u[a].key = v[b].key, Passed(i, j, a, b)
      PROVE  \E n \in 1 .. Len(s) : s[n] = <<u[a], v[b]>>
  BY <1>5 DEF Emitted
<1>6. CASE v[y].key # u[x].key
  <2>1. ASSUME NEW n \in 1 .. Len(s)
        PROVE  \E a \in 1 .. Len(u), b \in 1 .. Len(v) :
                 s[n] = <<u[a], v[b]>> /\ u[a].key = v[b].key /\ Passed(i, y, a, b)
    BY <1>2, <1>4
  <2>2. ASSUME NEW a \in 1 .. Len(u), NEW b \in 1 .. Len(v), u[a].key = v[b].key, Passed(i, y, a, b)
        PROVE  \E n \in 1 .. Len(s) : s[n] = <<u[a], v[b]>>
    <3>1. Passed(i, j, a, b)
      BY <1>2, <1>6, <2>2
    <3> QED
      BY <1>5, <2>2, <3>1
  <2> HIDE DEF x, y
  <2>3. Emitted(s, u, v, i, y)
    BY <1>3, <2>1, <2>2 DEF Emitted
  <2> QED
    BY <1>6, <2>3 DEF x, y
<1>7. CASE v[y].key = u[x].key
  <2> DEFINE t == Append(s, e)
  <2>1. e \in Pair
    BY <1>1 DEF Pair
  <2> HIDE DEF e, x, y
  <2>2. /\ t \in Seq(Pair) /\ Len(t) = Len(s) + 1 /\ t[Len(s) + 1] = e
        /\ \A n \in 1 .. Len(s) : t[n] = s[n]
    BY <1>3, <2>1
  <2> HIDE DEF t
  <2>3. ASSUME NEW n \in 1 .. Len(t)
        PROVE  \E a \in 1 .. Len(u), b \in 1 .. Len(v) :
                 t[n] = <<u[a], v[b]>> /\ u[a].key = v[b].key /\ Passed(i, y, a, b)
    <3>1. CASE n \in 1 .. Len(s)
      <4>1. t[n] = s[n]
        BY <2>2, <3>1
      <4>2. PICK a \in 1 .. Len(u), b \in 1 .. Len(v) :
               s[n] = <<u[a], v[b]>> /\ u[a].key = v[b].key /\ Passed(i, j, a, b)
        BY <1>4, <3>1
      <4> QED
        BY <1>2, <4>1, <4>2
    <3>2. CASE n = Len(s) + 1
      <4>1. t[n] = <<u[x], v[y]>>
        BY <2>2, <3>2 DEF e
      <4>2. Passed(i, y, x, y)
        BY <1>1, <1>2
      <4> QED
        BY <1>1, <1>7, <4>1, <4>2
    <3>3. n \in 1 .. Len(s) \/ n = Len(s) + 1
      BY <1>3, <2>2
    <3> QED
      BY <3>1, <3>2, <3>3, Zenon
  <2>4. ASSUME NEW a \in 1 .. Len(u), NEW b \in 1 .. Len(v), u[a].key = v[b].key, Passed(i, y, a, b)
        PROVE  \E n \in 1 .. Len(t) : t[n] = <<u[a], v[b]>>
    <3>1. CASE Passed(i, j, a, b)
      <4>1. PICK n \in 1 .. Len(s) : s[n] = <<u[a], v[b]>>
        BY <1>5, <2>4, <3>1
      <4>2. n \in 1 .. Len(t) /\ t[n] = s[n]
        BY <1>3, <2>2, <4>1
      <4> QED
        BY <4>1, <4>2
    <3>2. CASE a = x /\ b = y
      <4>1. Len(s) + 1 \in 1 .. Len(t)
        BY <1>3, <2>2
      <4> QED
        BY <2>2, <3>2, <4>1 DEF e
    <3> QED
      BY <1>2, <2>4, <3>1, <3>2
  <2>5. ASSUME NEW n \in 1 .. Len(t) - 1 PROVE Before(t[n], t[n + 1])
    <3>1. CASE n \in 1 .. Len(s) - 1
      <4>1. t[n] = s[n] /\ t[n + 1] = s[n + 1]
        <5>1. n \in 1 .. Len(s) /\ n + 1 \in 1 .. Len(s)
          BY <1>3, <3>1
        <5> QED
          BY <2>2, <5>1
      <4> QED
        BY <1>3, <3>1, <4>1
    <3>2. CASE n = Len(s)
      <4>1. n \in 1 .. Len(s) /\ t[n] = s[n] /\ t[n + 1] = e
        BY <2>2, <3>2
      <4>2. PICK a \in 1 .. Len(u), b \in 1 .. Len(v) :
               s[n] = <<u[a], v[b]>> /\ Passed(i, j, a, b)
        BY <1>4, <4>1
      <4>3. a < x \/ (a = x /\ b < y)
        BY <4>2 DEF Passed, x, y
      <4>4. u[a].at < u[x].at \/ (u[a].at = u[x].at /\ v[b].at < v[y].at)
        <5>1. CASE a < x
          BY <1>1, <5>1 DEF Rises
        <5>2. CASE a = x /\ b < y
          BY <1>1, <5>2 DEF Rises
        <5> QED
          BY <4>3, <5>1, <5>2
      <4>5. Before(<<u[a], v[b]>>, <<u[x], v[y]>>)
        BY <4>4 DEF Before
      <4> QED
        BY <4>1, <4>2, <4>5 DEF e
    <3> QED
      BY <1>3, <2>2, <3>1, <3>2
  <2>6. Emitted(t, u, v, i, y)
    BY <2>2, <2>3, <2>4, <2>5 DEF Emitted
  <2> QED
    BY <1>7, <2>6 DEF t, e, x, y
<1> QED
  BY <1>6, <1>7

(* The inner loop, from one datum of the first window to the next.          *)
LEMMA MatchesEmitted ==
  ASSUME NEW u \in Seq(Entry), NEW v \in Seq(Entry), Rises(u), Rises(v),
         NEW i \in Nat, i + 1 <= Len(u), NEW s, Emitted(s, u, v, i, 0)
  PROVE  Emitted(Matches(s, u[i + 1], v), u, v, i + 1, 0)
<1> DEFINE d == u[i + 1]
<1>1. d \in Entry /\ Len(v) \in Nat
  OBVIOUS
<1>2. s \in Seq(Pair)
  BY DEF Emitted
<1>3. PICK f : InnerRun(f, s, d, v)
  <2> HIDE DEF d
  <2> QED
    BY <1>1, <1>2, InnerLoop
<1> USE DEF InnerRun
<1> DEFINE T == {j \in Nat : j <= Len(v) => Emitted(f[j], u, v, i, j)}
<1>4. 0 \in T
  BY <1>3
<1>5. ASSUME NEW j \in Nat, j \in T PROVE j + 1 \in T
  <2> SUFFICES ASSUME j + 1 <= Len(v) PROVE Emitted(f[j + 1], u, v, i, j + 1)
    OBVIOUS
  <2>1. Emitted(f[j], u, v, i, j)
    BY <1>1, <1>5
  <2>2. j + 1 \in 1 .. Len(v) /\ (j + 1) - 1 = j
    BY <1>1
  <2>3. f[j + 1] = IF v[j + 1].key = d.key THEN Append(f[j], <<d, v[j + 1]>>) ELSE f[j]
    BY <1>3, <2>2
  <2>4. Emitted(IF v[j + 1].key = d.key THEN Append(f[j], <<d, v[j + 1]>>) ELSE f[j], u, v, i, j + 1)
    BY <2>1, Compared
  <2> QED
    BY <2>3, <2>4
<1>6. Len(v) \in T
  <2> HIDE DEF T
  <2> QED
    BY <1>1, <1>4, <1>5, Induction
<1>7. Emitted(f[Len(v)], u, v, i, Len(v))
  BY <1>1, <1>6
<1>8. ASSUME NEW a \in 1 .. Len(u), NEW b \in 1 .. Len(v)
      PROVE  Passed(i, Len(v), a, b) <=> Passed(i + 1, 0, a, b)
  BY <1>1 DEF Passed
<1>9. Emitted(f[Len(v)], u, v, i + 1, 0)
  BY <1>7, <1>8 DEF Emitted
<1> QED
  BY <1>3, <1>9

(* The inner loop emits pairs.                                              *)
LEMMA MatchesType ==
  ASSUME NEW results \in Seq(Pair), NEW d \in Entry, NEW w \in Seq(Entry)
  PROVE  Matches(results, d, w) \in Seq(Pair)
<1>1. PICK f : InnerRun(f, results, d, w)
  BY InnerLoop
<1>2. Len(w) \in Nat /\ \A j \in 1 .. Len(w) : <<d, w[j]>> \in Pair
  BY DEF Pair
<1> DEFINE T == {j \in Nat : j <= Len(w) => f[j] \in Seq(Pair)}
<1>3. 0 \in T
  BY <1>1 DEF InnerRun
<1>4. ASSUME NEW j \in Nat, j \in T PROVE j + 1 \in T
  <2> SUFFICES ASSUME j + 1 <= Len(w) PROVE f[j + 1] \in Seq(Pair)
    OBVIOUS
  <2>1. f[j] \in Seq(Pair)
    BY <1>2, <1>4
  <2>2. j + 1 \in 1 .. Len(w) /\ (j + 1) - 1 = j
    BY <1>2
  <2>3. f[j + 1] = IF w[j + 1].key = d.key THEN Append(f[j], <<d, w[j + 1]>>) ELSE f[j]
    BY <1>1, <2>2 DEF InnerRun
  <2>4. <<d, w[j + 1]>> \in Pair
    BY <1>2, <2>2
  <2>5. Append(f[j], <<d, w[j + 1]>>) \in Seq(Pair)
    BY <2>1, <2>4
  <2> QED
    BY <2>1, <2>3, <2>5
<1>5. Len(w) \in T
  <2> HIDE DEF T
  <2> QED
    BY <1>2, <1>3, <1>4, Induction
<1> QED
  BY <1>1, <1>2, <1>5 DEF InnerRun

(* The outer loop has a run.                                                *)
LEMMA OuterLoop ==
  ASSUME NEW w, w[1] \in Seq(Entry), w[2] \in Seq(Entry)
  PROVE  \E f : OuterRun(f, w)
<1> DEFINE N == Len(w[1])
           S == Seq(Pair)
           G == [p \in S \X (1 .. N) |-> Matches(p[1], w[1][p[2]], w[2])]
<1>1. N \in Nat /\ \A i \in 1 .. N : w[1][i] \in Entry
  OBVIOUS
<1>2. <<>> \in S
  OBVIOUS
<1> HIDE DEF S
<1>3. ASSUME NEW s \in S, NEW i \in 1 .. N PROVE Matches(s, w[1][i], w[2]) \in S
  BY <1>1, MatchesType DEF S
<1> HIDE DEF N
<1>4. G \in [S \X (1 .. N) -> S]
  BY <1>3
<1> HIDE DEF G
<1>5. PICK f : f \in LoopRuns(S, <<>>, N, G)
  BY <1>1, <1>2, <1>4, LoopHasRun
<1>6. f \in [0 .. N -> S] /\ f[0] = <<>> /\ \A i \in 1 .. N : f[i] = G[<<f[i - 1], i>>]
  BY <1>5 DEF LoopRuns
<1>7. ASSUME NEW i \in 1 .. N PROVE f[i] = Matches(f[i - 1], w[1][i], w[2])
  <2>1. f[i - 1] \in S
    BY <1>1, <1>6
  <2>2. G[<<f[i - 1], i>>] = Matches(f[i - 1], w[1][i], w[2])
    BY <2>1 DEF G
  <2> QED
    BY <1>6, <2>2
<1> DEFINE Loop(g) == g = [i \in 0 .. Len(w[1]) |->
                             IF i = 0 THEN <<>> ELSE Matches(g[i - 1], w[1][i], w[2])]
<1>8. Loop(f)
  <2>1. ASSUME NEW i \in 0 .. N
        PROVE  f[i] = IF i = 0 THEN <<>> ELSE Matches(f[i - 1], w[1][i], w[2])
    <3>1. CASE i = 0
      BY <1>6, <3>1
    <3>2. CASE i \in 1 .. N
      <4>1. i # 0
        BY <3>2
      <4>2. f[i] = Matches(f[i - 1], w[1][i], w[2])
        BY <1>7, <3>2
      <4> QED
        BY <4>1, <4>2, Zenon
    <3> QED
      BY <1>1, <3>1, <3>2
  <2>2. f = [i \in 0 .. N |-> IF i = 0 THEN <<>> ELSE Matches(f[i - 1], w[1][i], w[2])]
    BY <1>6, <2>1
  <2> QED
    BY <2>2 DEF N
<1> DEFINE loop == CHOOSE g : Loop(g)
<1>9. Loop(loop)
  <2> HIDE DEF Loop
  <2> QED
    BY <1>8
<1>10. NestedLoopJoin(w) = loop[Len(w[1])]
  BY Zenon DEF NestedLoopJoin
<1> HIDE DEF loop
<1>11. \A i \in 0 .. N :
         loop[i] = IF i = 0 THEN <<>> ELSE Matches(loop[i - 1], w[1][i], w[2])
  BY <1>9, Zenon DEF N
<1>12. 0 \in 0 .. N /\ \A i \in 1 .. N : i \in 0 .. N /\ i # 0
  BY <1>1
<1>13. loop[0] = <<>> /\ \A i \in 1 .. N : loop[i] = Matches(loop[i - 1], w[1][i], w[2])
  BY <1>11, <1>12, Zenon
<1> QED
  BY <1>10, <1>13, Zenon DEF OuterRun, N

(* A nested loop through windows whose data come in the order of their      *)
(* streams emits the pairs of equal keys, in the order of the streams.      *)
LEMMA JoinEmitted ==
  ASSUME NEW w, w[1] \in Seq(Entry), w[2] \in Seq(Entry), Rises(w[1]), Rises(w[2])
  PROVE  Emitted(NestedLoopJoin(w), w[1], w[2], Len(w[1]), 0)
<1> DEFINE u == w[1]
           v == w[2]
<1>1. PICK f : OuterRun(f, w)
  BY OuterLoop
<1>2. /\ f[0] = <<>> /\ NestedLoopJoin(w) = f[Len(u)] /\ Len(u) \in Nat
      /\ \A i \in 1 .. Len(u) : f[i] = Matches(f[i - 1], u[i], v)
  BY <1>1 DEF OuterRun
<1>3. u \in Seq(Entry) /\ v \in Seq(Entry) /\ Rises(u) /\ Rises(v)
  OBVIOUS
<1> HIDE DEF u, v
<1> DEFINE T == {i \in Nat : i <= Len(u) => Emitted(f[i], u, v, i, 0)}
<1>4. 0 \in T
  <2>1. ASSUME NEW a \in 1 .. Len(u), NEW b \in 1 .. Len(v) PROVE ~ Passed(0, 0, a, b)
    <3>1. Len(v) \in Nat /\ a \in Nat /\ a > 0 /\ b \in Nat /\ b > 0
      BY <1>3
    <3> QED
      BY <3>1 DEF Passed
  <2>2. <<>> \in Seq(Pair) /\ Len(<<>>) = 0
    OBVIOUS
  <2>3. Emitted(<<>>, u, v, 0, 0)
    BY <2>1, <2>2 DEF Emitted
  <2> QED
    BY <1>2, <2>3
<1>5. ASSUME NEW i \in Nat, i \in T PROVE i + 1 \in T
  <2> SUFFICES ASSUME i + 1 <= Len(u) PROVE Emitted(f[i + 1], u, v, i + 1, 0)
    OBVIOUS
  <2>1. Emitted(f[i], u, v, i, 0)
    BY <1>2, <1>5
  <2>2. i + 1 \in 1 .. Len(u) /\ (i + 1) - 1 = i
    BY <1>2
  <2>3. f[i + 1] = Matches(f[i], u[i + 1], v)
    BY <1>2, <2>2
  <2>4. Emitted(Matches(f[i], u[i + 1], v), u, v, i + 1, 0)
    BY <1>3, <2>1, MatchesEmitted
  <2> QED
    BY <2>3, <2>4
<1>6. Len(u) \in T
  <2> HIDE DEF T
  <2> QED
    BY <1>2, <1>4, <1>5, Induction
<1>7. Emitted(f[Len(u)], u, v, Len(u), 0)
  BY <1>2, <1>6
<1> QED
  BY <1>2, <1>7 DEF u, v
-------------------------------------------------------------------------------
(* A datum that comes in brings its key, and those that stay keep theirs.   *)
LEMMA StepKeysKept ==
  ASSUME JoinInv, NEW given \in SUBSET Side, NEW key \in [given -> Key],
         Callback(given, key)
  PROVE  KeysKept'
<1> USE ConstantTypes
<1>1. IInv /\ KeysKept
  BY DEF JoinInv
<1> SUFFICES ASSUME NEW r \in Side, NEW i \in 1 .. Len(window'[r])
             PROVE  window'[r][i].key = seen'[r][window'[r][i].at]
  BY DEF KeysKept
<1> DEFINE n == Len(seen[r])
           w == window[r]
           d == [key |-> key[r], at |-> n + 1]
<1>2. /\ n \in Nat /\ w \in Seq(Entry) /\ Len(w) <= Window /\ Len(w) <= n
      /\ \A k \in 1 .. Len(w) : w[k].at = n - Len(w) + k
  <2>1. seen[r] \in Seq(Key) /\ w \in Seq(Entry)
    BY <1>1 DEF IInv, TypeOK
  <2>2. /\ Len(w) = IF n < Window THEN n ELSE Window
        /\ \A k \in 1 .. Len(w) : w[k].at = n - Len(w) + k
    BY <1>1 DEF IInv, WindowHoldsLast
  <2>3. n \in Nat
    BY <2>1
  <2> HIDE DEF n
  <2>4. Len(w) <= Window /\ Len(w) <= n
    BY <2>2, <2>3
  <2> QED
    BY <2>1, <2>2, <2>3, <2>4
<1>3. ASSUME NEW k \in 1 .. Len(w)
      PROVE  w[k].at \in 1 .. n /\ w[k].key = seen'[r][w[k].at]
  <2>1. w[k].at \in 1 .. n
    <3> HIDE DEF n, w
    <3>1. Len(w) \in Nat /\ Len(w) <= n /\ n \in Nat
      BY <1>2
    <3>2. w[k].at = n - Len(w) + k
      BY <1>2, Zenon
    <3> QED
      BY <3>1, <3>2
  <2>2. w[k].key = seen[r][w[k].at]
    BY <1>1 DEF KeysKept
  <2>3. seen'[r][w[k].at] = seen[r][w[k].at]
    BY <1>1, <2>1, StreamsGrow
  <2> QED
    BY <2>1, <2>2, <2>3
<1>4. CASE r \in given
  <2>1. Len(seen'[r]) = n + 1 /\ n + 1 <= MaxData
    BY <1>1, <1>4, StreamsGrow
  <2>2. window'[r] = Slide(w, d)
    BY <1>4, <2>1 DEF Callback
  <2>3. seen'[r][n + 1] = key[r]
    <3>1. seen'[r] = Append(seen[r], key[r])
      BY <1>4 DEF Callback
    <3>2. seen[r] \in Seq(Key) /\ key[r] \in Key
      BY <1>1, <1>4 DEF IInv, TypeOK
    <3> QED
      BY <3>1, <3>2
  <2>4. d \in Entry /\ d.key = key[r] /\ d.at = n + 1
    BY <1>2, <1>4, <2>1 DEF Entry
  <2> HIDE DEF d, w, n
  <2> DEFINE s == Slide(w, d)
  <2>5. /\ s \in Seq(Entry) /\ s[Len(s)] = d
        /\ Len(s) = IF Len(w) + 1 < Window THEN Len(w) + 1 ELSE Window
        /\ \A k \in 1 .. Len(s) - 1 : s[k] = w[Len(w) - Len(s) + 1 + k]
    BY <1>2, <2>4, SlideLast
  <2> HIDE DEF s
  <2>6. i \in 1 .. Len(s) /\ window'[r] = s
    BY <2>2 DEF s
  <2>7. CASE i = Len(s)
    BY <2>3, <2>4, <2>5, <2>6, <2>7
  <2>8. CASE i \in 1 .. Len(s) - 1
    <3> DEFINE k == Len(w) - Len(s) + 1 + i
    <3>1. k \in 1 .. Len(w)
      BY <1>2, <2>5, <2>8
    <3>2. s[i] = w[k]
      BY <2>5, <2>8
    <3> HIDE DEF k
    <3> QED
      BY <1>3, <2>6, <3>1, <3>2
  <2>9. i = Len(s) \/ i \in 1 .. Len(s) - 1
    BY <2>5, <2>6
  <2> QED
    BY <2>7, <2>8, <2>9
<1>5. CASE r \notin given
  <2>1. window'[r] = w
    BY <1>5 DEF Callback
  <2> QED
    BY <1>3, <2>1
<1> QED
  BY <1>4, <1>5

(* After a callback the sides that asked in it are those it gave a datum,   *)
(* that are full, and whose counter starts again.                           *)
LEMMA AskedNow ==
  ASSUME IInv, NEW given \in SUBSET Side, NEW key \in [given -> Key],
         Callback(given, key), NEW r \in Side
  PROVE  Asked(r)' <=> r \in given /\ Len(seen'[r]) >= Window /\ sliding'[r] = 0
<1> DEFINE n == Len(trail)
<1>1. trail \in Seq(Nat \X Nat) /\ n \in Nat
  BY DEF IInv, TypeOK
<1>2. /\ Len(trail') = n + 1 /\ trail'[n + 1][r] = Len(seen'[r])
      /\ \A c \in 1 .. n : trail'[c] = trail[c]
  BY TrailAppends
<1>3. (IF n + 1 = 1 THEN 0 ELSE trail'[n][r]) = Len(seen[r])
  <2>1. CASE n = 0
    <3>1. trail = <<>>
      BY <1>1, <2>1
    <3> QED
      BY <2>1, <3>1 DEF IInv, TrailGrows
  <2>2. CASE n # 0
    <3>1. trail # <<>> /\ n \in 1 .. n /\ n + 1 # 1
      BY <1>1, <2>2
    <3>2. trail'[n] = trail[n]
      BY <1>2, <3>1
    <3>3. Len(seen[r]) = trail[n][r]
      BY <3>1 DEF IInv, TrailGrows
    <3> QED
      BY <3>1, <3>2, <3>3
  <2> QED
    BY <2>1, <2>2
<1>4. Len(seen'[r]) > Len(seen[r]) <=> r \in given
  <2>1. Len(seen[r]) \in Nat
    BY DEF IInv, TypeOK
  <2>2. Len(seen'[r]) = IF r \in given THEN Len(seen[r]) + 1 ELSE Len(seen[r])
    BY StreamsGrow
  <2> QED
    BY <2>1, <2>2
<1> HIDE DEF n
<1>5. n + 1 > 0 /\ (n + 1) - 1 = n
  BY <1>1
<1>6. Asked(r)' <=> /\ Len(seen'[r]) > (IF n + 1 = 1 THEN 0 ELSE trail'[n][r])
                    /\ Len(seen'[r]) >= Window /\ sliding'[r] = 0
  BY <1>2, <1>5 DEF Asked
<1> QED
  BY <1>3, <1>4, <1>6

(* A callback emits a join if a side asks, and nothing otherwise.           *)
LEMMA StepEmittedIsJoin ==
  ASSUME JoinInv, NEW given \in SUBSET Side, NEW key \in [given -> Key],
         Callback(given, key)
  PROVE  EmittedIsJoin'
<1> USE ConstantTypes
<1> DEFINE s == [q \in Side |-> IF q \in given THEN sliding[q] + 1 ELSE sliding[q]]
           asking == ShouldJoin(window', s)
<1>1. IInv
  BY DEF JoinInv
<1>2. /\ sliding' = Reset(asking, s)
      /\ emitted' = IF asking = {} THEN <<>> ELSE NestedLoopJoin(window')
  BY DEF Callback
<1>3. ASSUME NEW r \in Side PROVE r \in asking <=> Asked(r)'
  <2> DEFINE m == Len(seen'[r])
  <2>1. Asked(r)' <=> r \in given /\ m >= Window /\ sliding'[r] = 0
    BY <1>1, AskedNow
  <2>2. /\ m \in Nat /\ Len(window'[r]) = IF m < Window THEN m ELSE Window
        /\ (r \notin given => m = Len(seen[r]))
    <3>1. seen'[r] \in Seq(Key) /\ (r \notin given => m = Len(seen[r]))
      BY <1>1, StreamsGrow
    <3>2. Len(window'[r]) = IF m < Window THEN m ELSE Window
      BY <1>1, WindowsSlide
    <3> QED
      BY <3>1, <3>2
  <2>3. s[r] = IF r \in given THEN sliding[r] + 1 ELSE sliding[r]
    OBVIOUS
  <2>4. sliding'[r] = IF r \in asking THEN 0 ELSE s[r]
    BY <1>2 DEF Reset
  <2>5. r \in asking <=> Len(window'[r]) >= Window /\ s[r] >= Step
    BY DEF ShouldJoin
  <2>6. sliding[r] \in Nat
    BY <1>1 DEF IInv, TypeOK
  <2>7. ASSUME r \notin given, m >= Window PROVE sliding[r] < Step
    <3>1. Len(seen[r]) >= Window /\ Len(seen[r]) \in Nat
      BY <2>2, <2>7
    <3>2. sliding[r] = (Len(seen[r]) - Window) % Step
      <4>1. sliding[r] = IF Len(seen[r]) < Window THEN Step + Len(seen[r])
                                                  ELSE (Len(seen[r]) - Window) % Step
        BY <1>1 DEF IInv, OwnPace
      <4>2. ~ (Len(seen[r]) < Window)
        BY <3>1
      <4> QED
        BY <4>1, <4>2
    <3>3. Len(seen[r]) - Window \in Nat
      BY <3>1
    <3> QED
      BY <3>2, <3>3, ModRange
  <2> HIDE DEF m, s, asking
  <2>8. Len(window'[r]) >= Window <=> m >= Window
    BY <2>2
  <2>9. CASE r \in given
    <3>1. s[r] = sliding[r] + 1 /\ s[r] # 0
      BY <2>3, <2>6, <2>9
    <3> QED
      BY <2>1, <2>4, <2>5, <2>8, <2>9, <3>1
  <2>10. CASE r \notin given
    <3>1. ~ Asked(r)'
      BY <2>1, <2>10
    <3>2. ~ (m >= Window /\ s[r] >= Step)
      BY <2>3, <2>6, <2>7, <2>10
    <3> QED
      BY <2>5, <2>8, <3>1, <3>2
  <2> QED
    BY <2>9, <2>10
<1>4. asking \subseteq Side
  BY DEF ShouldJoin
<1> HIDE DEF s, asking
<1>5. (asking = {}) <=> ~ (\E r \in Side : Asked(r)')
  BY <1>3, <1>4
<1>6. emitted' = IF \E r \in Side : Asked(r)' THEN NestedLoopJoin(window') ELSE <<>>
  BY <1>2, <1>5
<1> QED
  BY <1>6 DEF EmittedIsJoin

(* The invariant of what the joins emit holds of every run.                 *)
THEOREM JoinInvariance == Spec => []JoinInv
<1>1. Init => JoinInv
  <2> SUFFICES ASSUME Init PROVE JoinInv
    OBVIOUS
  <2>1. IInv
    BY InitIInv
  <2>2. KeysKept
    <3>1. \A r \in Side : Len(window[r]) = 0
      BY DEF Init
    <3> QED
      BY <3>1 DEF KeysKept
  <2>3. EmittedIsJoin
    <3>1. emitted = <<>> /\ Len(trail) = 0
      BY DEF Init
    <3>2. \A r \in Side : ~ Asked(r)
      BY <3>1 DEF Asked
    <3> QED
      BY <3>1, <3>2 DEF EmittedIsJoin
  <2> QED
    BY <2>1, <2>2, <2>3 DEF JoinInv
<1>2. JoinInv /\ [Next]_vars => JoinInv'
  <2> SUFFICES ASSUME JoinInv, [Next]_vars PROVE JoinInv'
    OBVIOUS
  <2>1. IInv'
    BY NextIInv DEF JoinInv
  <2>2. ASSUME NEW given \in (SUBSET Side) \ {{}}, NEW key \in [given -> Key],
               Callback(given, key)
        PROVE  KeysKept' /\ EmittedIsJoin'
    BY <2>2, StepKeysKept, StepEmittedIsJoin
  <2>3. CASE UNCHANGED vars
    <3>1. KeysKept /\ EmittedIsJoin
      BY DEF JoinInv
    <3>2. KeysKept'
      BY <2>3, <3>1 DEF vars, KeysKept
    <3>3. \A r \in Side : Asked(r)' <=> Asked(r)
      BY <2>3 DEF vars, Asked
    <3>4. EmittedIsJoin'
      BY <2>3, <3>1, <3>3 DEF vars, EmittedIsJoin
    <3> QED
      BY <2>1, <3>2, <3>4 DEF JoinInv
  <2>4. ASSUME NEW given \in (SUBSET Side) \ {{}}, NEW key \in [given -> Key],
               Callback(given, key)
        PROVE  JoinInv'
    BY <2>1, <2>2, <2>4 DEF JoinInv
  <2> QED
    BY <2>3, <2>4 DEF Next, Flush
<1> QED
  BY <1>1, <1>2, PTL DEF Spec

(* What an entry of a window says of its stream.                            *)
LEMMA EntriesOfStream ==
  ASSUME JoinInv, NEW r \in Side
  PROVE  /\ window[r] \in Seq(Entry) /\ Rises(window[r])
         /\ Stored(window[r]) = LastOf(Len(seen[r]))
         /\ \A i \in 1 .. Len(window[r]) : window[r][i].key = seen[r][window[r][i].at]
<1> DEFINE n == Len(seen[r])
           w == window[r]
<1>1. n \in Nat /\ w \in Seq(Entry)
  <2>1. seen[r] \in Seq(Key)
    BY DEF JoinInv, IInv, TypeOK
  <2> QED
    BY <2>1 DEF JoinInv, IInv, TypeOK
<1>2. /\ Len(w) = IF n < Window THEN n ELSE Window
      /\ \A i \in 1 .. Len(w) : w[i].at = n - Len(w) + i
  BY DEF JoinInv, IInv, WindowHoldsLast
<1>3. \A i \in 1 .. Len(w) : w[i].key = seen[r][w[i].at]
  BY DEF JoinInv, KeysKept
<1> HIDE DEF n, w
<1>4. Stored(w) = LastOf(n)
  BY <1>1, <1>2, StoredAreLast
<1>5. Rises(w)
  <2>1. Len(w) \in Nat
    BY <1>1
  <2> QED
    BY <1>1, <1>2, <2>1 DEF Rises
<1> QED
  BY <1>1, <1>3, <1>4, <1>5 DEF n, w

(* The pairs that a join has emitted, as positions in the streams.          *)
LEMMA JoinedPairs ==
  ASSUME JoinInv, NEW r \in Side, Asked(r)
  PROVE  JoinIsComplete
<1> DEFINE u == window[1]
           v == window[2]
           e == emitted
<1>1. 1 \in Side /\ 2 \in Side
  BY DEF Side
<1>2. /\ u \in Seq(Entry) /\ Rises(u) /\ Stored(u) = LastOf(Len(seen[1]))
      /\ \A i \in 1 .. Len(u) : u[i].key = seen[1][u[i].at]
  BY <1>1, EntriesOfStream
<1>3. /\ v \in Seq(Entry) /\ Rises(v) /\ Stored(v) = LastOf(Len(seen[2]))
      /\ \A i \in 1 .. Len(v) : v[i].key = seen[2][v[i].at]
  BY <1>1, EntriesOfStream
<1>4. e = NestedLoopJoin(window)
  BY DEF JoinInv, EmittedIsJoin
<1>5. Emitted(e, u, v, Len(u), 0)
  BY <1>2, <1>3, <1>4, JoinEmitted
<1> HIDE DEF u, v, e
<1>6. ASSUME NEW n \in 1 .. Len(e)
      PROVE  \E a \in 1 .. Len(u), b \in 1 .. Len(v) :
               e[n] = <<u[a], v[b]>> /\ u[a].key = v[b].key
  BY <1>5 DEF Emitted
<1>7. ASSUME NEW a \in 1 .. Len(u), NEW b \in 1 .. Len(v), u[a].key = v[b].key
      PROVE  \E n \in 1 .. Len(e) : e[n] = <<u[a], v[b]>>
  <2>1. Passed(Len(u), 0, a, b)
    BY DEF Passed
  <2> QED
    BY <1>5, <1>7, <2>1 DEF Emitted
<1>8. \A n \in 1 .. Len(e) - 1 : Before(e[n], e[n + 1])
  BY <1>5 DEF Emitted
<1>9. ASSUME NEW p \in Joined
      PROVE  p \in Current /\ seen[1][p[1]] = seen[2][p[2]]
  <2>1. PICK n \in 1 .. Len(e) : p = <<e[n][1].at, e[n][2].at>>
    BY DEF Joined, e
  <2>2. PICK a \in 1 .. Len(u), b \in 1 .. Len(v) :
           e[n] = <<u[a], v[b]>> /\ u[a].key = v[b].key
    BY <1>6
  <2>3. p = <<u[a].at, v[b].at>>
    BY <2>1, <2>2
  <2>4. u[a].at \in LastOf(Len(seen[1])) /\ v[b].at \in LastOf(Len(seen[2]))
    <3>1. u[a].at \in Stored(u) /\ v[b].at \in Stored(v)
      BY DEF Stored
    <3> QED
      BY <1>2, <1>3, <3>1
  <2>5. seen[1][u[a].at] = seen[2][v[b].at]
    BY <1>2, <1>3, <2>2
  <2> QED
    BY <2>3, <2>4, <2>5 DEF Current
<1>10. ASSUME NEW p \in Current, seen[1][p[1]] = seen[2][p[2]]
       PROVE  p \in Joined
  <2>1. p[1] \in Stored(u) /\ p[2] \in Stored(v) /\ p = <<p[1], p[2]>>
    BY <1>2, <1>3 DEF Current
  <2>2. PICK a \in 1 .. Len(u) : p[1] = u[a].at
    BY <2>1 DEF Stored
  <2>3. PICK b \in 1 .. Len(v) : p[2] = v[b].at
    BY <2>1 DEF Stored
  <2>4. u[a].key = v[b].key
    BY <1>2, <1>3, <1>10, <2>2, <2>3
  <2>5. PICK n \in 1 .. Len(e) : e[n] = <<u[a], v[b]>>
    BY <1>7, <2>4
  <2>6. p = <<e[n][1].at, e[n][2].at>>
    BY <2>1, <2>2, <2>3, <2>5
  <2> QED
    BY <2>6 DEF Joined, e
<1>11. Joined = {p \in Current : seen[1][p[1]] = seen[2][p[2]]}
  BY <1>9, <1>10
<1> QED
  BY <1>8, <1>11 DEF JoinIsComplete, Before, e

(* A join emits every pair of equal keys of the last Window data of both    *)
(* streams, once and in their order, and every other callback nothing,      *)
(* whatever the windows, the steps, the streams and their alternation.      *)
THEOREM JoinsAreComplete == Spec => []JoinIsComplete
<1>1. JoinInv => JoinIsComplete
  <2> SUFFICES ASSUME JoinInv PROVE JoinIsComplete
    OBVIOUS
  <2>1. CASE \E r \in Side : Asked(r)
    BY <2>1, JoinedPairs
  <2>2. CASE ~ \E r \in Side : Asked(r)
    BY <2>2 DEF JoinInv, EmittedIsJoin, JoinIsComplete
  <2> QED
    BY <2>1, <2>2
<1> QED
  BY <1>1, JoinInvariance, PTL
===============================================================================
