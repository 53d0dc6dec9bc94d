----------------------------- MODULE HotCallProofs ----------------------------
(***************************************************************************)
(* Proofs about HotCall for any number of requesters and of retries: the    *)
(* inductive invariant, and that a hot call implements SyncCall.            *)
(***************************************************************************)
EXTENDS HotCall, TLAPS

USE DEF Place, Onward

(* A requester is neither of the other two threads.                         *)
LEMMA Threads ==
  /\ Responder \in Thread /\ Main \in Thread /\ Responder # Main
  /\ Nobody \notin Thread
  /\ \A r \in Requester : r \in Thread /\ r # Responder /\ r # Main
BY HotCallAssumption DEF HotCallAssumption, Thread

(* No thread is anywhere and no call is made at the start.                  *)
LEMMA InitIInv == Init => IInv
<1> SUFFICES ASSUME Init PROVE IInv
  OBVIOUS
<1>1. TypeOK
  <2>1. /\ lock \in Thread \cup {Nobody}
        /\ {busy, runFunction, isDone, keepPolling, executed} \subseteq BOOLEAN
    BY DEF Init
  <2>4. {call, taken} \subseteq Calls
    BY DEF Init, Calls, NoCall
  <2>2. retries \in [Requester -> 0 .. MaxRetries + 1]
    BY HotCallAssumption DEF Init, HotCallAssumption
  <2>3. /\ pc \in [Thread -> {"idle", "lockPoll", "run"}]
        /\ after \in [Thread -> {"none"}]
    BY DEF Init
  <2> QED
    BY <2>1, <2>2, <2>3, <2>4 DEF TypeOK
<1>2. LockHeld
  BY Threads DEF Init, LockHeld, At, Section
<1>3. TriesLeft
  BY HotCallAssumption, Threads DEF Init, TriesLeft, HotCallAssumption
<1>4. OneCall
  BY Threads DEF Init, OneCall, Waiting, Working, At
<1> QED
  BY <1>1, <1>2, <1>3, <1>4 DEF IInv
-------------------------------------------------------------------------------
(* The threads of a step, by where they are: taking the lock leads into its *)
(* section, releasing it back out, and the steps under it keep the lock.    *)

(* Taking the lock moves the thread on, and nothing else.                   *)
LEMMA LockMoves ==
  ASSUME IInv, NEW t \in Thread, Lock(t)
  PROVE  /\ IInv'
         /\ At(t)' = SectionOf[At(t)] /\ At(t) \in DOMAIN SectionOf
         /\ \A q \in Thread \ {t} : At(q)' = At(q)
         /\ UNCHANGED callVars
<1> USE Threads DEF Lock, SectionOf
<1>1. pc[t] \in DOMAIN SectionOf /\ lock = Nobody /\ lock' = t
  OBVIOUS
<1>2. pc' = [pc EXCEPT ![t] = SectionOf[pc[t]]] /\ DOMAIN pc = Thread
  BY DEF IInv, TypeOK
<1>3. At(t)' = SectionOf[At(t)] /\ At(t) = pc[t] /\ pc'[t] # "unlock"
  BY <1>1, <1>2 DEF At
<1>4. \A q \in Thread \ {t} : At(q)' = At(q) /\ pc'[q] = pc[q]
  BY <1>2 DEF At
<1>5. UNCHANGED callVars /\ after' = after /\ retries' = retries /\ taken' = taken
  OBVIOUS
<1>6. TypeOK'
  BY <1>1, <1>5 DEF IInv, TypeOK, callVars
<1>7. LockHeld'
  <2>1. \A q \in Thread : pc'[q] \in Section <=> lock' = q
    BY <1>1, <1>2, <1>4 DEF IInv, LockHeld, Section
  <2>2. \A q \in Thread : pc'[q] = "unlock" <=> after'[q] # "none"
    BY <1>1, <1>3, <1>4, <1>5 DEF IInv, LockHeld
  <2> QED
    BY <2>1, <2>2, <1>1, <1>3, <1>4 DEF IInv, LockHeld
<1>8. TriesLeft'
  BY <1>1, <1>3, <1>4, <1>5 DEF IInv, TriesLeft
<1>9. OneCall'
  BY <1>1, <1>3, <1>4, <1>5
  DEF IInv, OneCall, Waiting, Working, Handled, Known, callVars, LockHeld
<1> QED
  BY <1>1, <1>3, <1>4, <1>5, <1>6, <1>7, <1>8, <1>9 DEF IInv

(* Releasing it changes no flag and nothing of where the thread is.         *)
LEMMA UnlockMoves ==
  ASSUME IInv, NEW t \in Thread, Unlock(t)
  PROVE  /\ IInv'
         /\ \A q \in Thread : At(q)' = At(q)
         /\ UNCHANGED callVars
<1> USE Threads DEF Unlock
<1>1. /\ pc[t] = "unlock" /\ lock = t /\ lock' = Nobody
      /\ pc' = [pc EXCEPT ![t] = after[t]] /\ DOMAIN pc = Thread
      /\ after' = [after EXCEPT ![t] = "none"] /\ DOMAIN after = Thread
  BY DEF IInv, TypeOK, LockHeld, Section
<1>2. after[t] \in {"idle", "lockTest", "lockCheck", "lockPoll", "callback", "ended"}
  BY <1>1 DEF IInv, TypeOK, LockHeld
<1>3. At(t) = after[t] /\ pc'[t] = after[t] /\ At(t)' = after[t]
  BY <1>1, <1>2 DEF At
<1>4. \A q \in Thread \ {t} : At(q)' = At(q) /\ pc'[q] = pc[q] /\ after'[q] = after[q]
  BY <1>1 DEF At
<1>5. UNCHANGED callVars /\ retries' = retries /\ taken' = taken
  OBVIOUS
<1>6. TypeOK'
  BY <1>1, <1>2, <1>5 DEF IInv, TypeOK, callVars
<1>7. LockHeld'
  <2>1. \A q \in Thread : pc'[q] \in Section <=> lock' = q
    BY <1>1, <1>2, <1>3, <1>4 DEF IInv, LockHeld, Section
  <2>2. \A q \in Thread : pc'[q] = "unlock" <=> after'[q] # "none"
    BY <1>1, <1>2, <1>3, <1>4 DEF IInv, LockHeld
  <2> QED
    BY <2>1, <2>2, <1>3, <1>4 DEF IInv, LockHeld
<1>8. TriesLeft'
  BY <1>3, <1>4, <1>5 DEF IInv, TriesLeft
<1>9. OneCall'
  BY <1>3, <1>4, <1>5 DEF IInv, OneCall, Waiting, Working, Handled, Known, callVars
<1> QED
  BY <1>3, <1>4, <1>5, <1>6, <1>7, <1>8, <1>9 DEF IInv

(* Where the threads can be after a step under the lock by t to next.       *)
LeftFor(t, next) ==
  /\ At(t)' = next
  /\ \A q \in Thread \ {t} : At(q)' = At(q)
  /\ UNCHANGED lock
  /\ pc' \in [Thread -> Place]
  /\ after' \in [Thread -> Onward]
  /\ LockHeld'

(* A step under the lock ends in front of the release, and holds the lock.  *)
LEMMA LeaveKeepsLock ==
  ASSUME IInv, NEW t \in Thread, pc[t] \in Section \ {"unlock"}, NEW next, Leave(t, next),
         \/ t \in Requester /\ next \in {"idle", "lockTest", "lockCheck"}
         \/ t = Responder /\ next \in {"lockPoll", "callback", "ended"}
         \/ t = Main /\ next = "ended"
  PROVE  LeftFor(t, next)
<1> USE Threads DEF Leave
<1>1. /\ lock = t /\ lock' = t
      /\ pc' = [pc EXCEPT ![t] = "unlock"] /\ DOMAIN pc = Thread
      /\ after' = [after EXCEPT ![t] = next] /\ DOMAIN after = Thread
  BY DEF IInv, TypeOK, LockHeld
<1>2. pc'[t] = "unlock" /\ after'[t] = next /\ At(t)' = next
  BY <1>1 DEF At
<1>3. \A q \in Thread \ {t} : At(q)' = At(q) /\ pc'[q] = pc[q] /\ after'[q] = after[q]
  BY <1>1 DEF At
<1>4. LockHeld'
  <2>1. \A q \in Thread : pc'[q] \in Section <=> lock' = q
    BY <1>1, <1>2, <1>3 DEF IInv, LockHeld, Section
  <2>2. \A q \in Thread : pc'[q] = "unlock" <=> after'[q] # "none"
    BY <1>2, <1>3 DEF IInv, LockHeld
  <2> QED
    BY <2>1, <2>2, <1>2, <1>3 DEF IInv, LockHeld
<1> QED
  BY <1>1, <1>2, <1>3, <1>4 DEF LeftFor, IInv, TypeOK
-------------------------------------------------------------------------------
(* Every step keeps the invariant.                                          *)

(* A new call starts to try.                                                *)
LEMMA RequestCallStep ==
  ASSUME IInv, NEW r \in Requester, RequestCall(r)
  PROVE  IInv' /\ At(r) = "idle" /\ At(r)' = "lockTest"
         /\ \A q \in Thread \ {r} : At(q)' = At(q)
<1> USE Threads, HotCallAssumption DEF RequestCall, HotCallAssumption
<1>1. /\ pc[r] = "idle" /\ after[r] = "none" /\ lock # r
      /\ pc' = [pc EXCEPT ![r] = "lockTest"] /\ DOMAIN pc = Thread
      /\ retries' = [retries EXCEPT ![r] = 0] /\ DOMAIN retries = Requester
  BY DEF IInv, TypeOK, LockHeld, Section
<1>2. pc'[r] = "lockTest" /\ At(r) = "idle" /\ At(r)' = "lockTest"
  BY <1>1 DEF At
<1>3. \A q \in Thread \ {r} : At(q)' = At(q) /\ pc'[q] = pc[q]
  BY <1>1 DEF At
<1>4. UNCHANGED <<lock, callVars, after, taken>>
  OBVIOUS
<1>5. TypeOK'
  BY <1>1, <1>4 DEF IInv, TypeOK, callVars
<1>6. LockHeld'
  <2>1. \A q \in Thread : pc'[q] \in Section <=> lock' = q
    BY <1>1, <1>2, <1>3, <1>4 DEF IInv, LockHeld, Section
  <2>2. \A q \in Thread : pc'[q] = "unlock" <=> after'[q] # "none"
    BY <1>1, <1>2, <1>3, <1>4 DEF IInv, LockHeld
  <2> QED
    BY <2>1, <2>2, <1>2, <1>3 DEF IInv, LockHeld
<1>7. TriesLeft'
  BY <1>1, <1>3 DEF IInv, TriesLeft
<1>8. OneCall'
  BY <1>2, <1>3, <1>4 DEF IInv, OneCall, Waiting, Working, Handled, Known, callVars
<1> QED
  BY <1>2, <1>3, <1>5, <1>6, <1>7, <1>8 DEF IInv

(* An accepted call finds the struct free, and fills it; any other one goes *)
(* on trying while it has tries left.                                       *)
LEMMA TestStep ==
  ASSUME IInv, NEW r \in Requester, Test(r)
  PROVE  /\ IInv'
         /\ At(r) = "test" /\ \A q \in Thread \ {r} : At(q)' = At(q)
         /\ IF busy THEN At(r)' \in {"idle", "lockTest"} /\ UNCHANGED <<isDone, executed, call>>
            ELSE At(r)' = "lockCheck" /\ ~isDone' /\ ~executed'
<1> USE Threads, HotCallAssumption DEF HotCallAssumption
<1>1. /\ pc[r] = "test" /\ At(r) = "test" /\ retries \in [Requester -> 0 .. MaxRetries + 1]
      /\ retries[r] <= MaxRetries /\ busy \in BOOLEAN
  BY DEF Test, At, IInv, TypeOK, TriesLeft
<1>2. ASSUME ~busy PROVE IInv' /\ LeftFor(r, "lockCheck") /\ ~isDone' /\ ~executed'
  <2>1. /\ busy' = TRUE /\ isDone' = FALSE /\ runFunction' = TRUE
        /\ executed' = FALSE /\ call' \in Calls /\ call'.of = r
        /\ Leave(r, "lockCheck") /\ UNCHANGED <<retries, keepPolling, taken>>
    BY <1>2 DEF Test, Fill, Calls
  <2>2. LeftFor(r, "lockCheck")
    BY <1>1, <2>1, LeaveKeepsLock DEF Section
  <2>3. /\ \A q \in Requester : ~Waiting(q)
        /\ ~Working
    BY <1>2 DEF IInv, OneCall
  <2>4. /\ \A q \in Requester : Waiting(q)' => q = r
        /\ ~Working' /\ Waiting(r)' /\ ~Handled'
    BY <2>1, <2>2, <2>3 DEF LeftFor, Waiting, Working, Handled
  <2>5. TypeOK'
    BY <2>1, <2>2 DEF LeftFor, IInv, TypeOK
  <2>6. OneCall' /\ TriesLeft'
    BY <2>1, <2>2, <2>4 DEF LeftFor, OneCall, TriesLeft, IInv
  <2> QED
    BY <2>1, <2>2, <2>5, <2>6 DEF IInv, LeftFor
<1>3. ASSUME busy
      PROVE /\ IInv' /\ UNCHANGED <<isDone, executed, call>>
            /\ \E next \in {"idle", "lockTest"} : LeftFor(r, next)
  <2> DEFINE next == IF retries[r] + 1 > MaxRetries THEN "idle" ELSE "lockTest"
  <2>1. /\ retries' = [retries EXCEPT ![r] = @ + 1]
        /\ Leave(r, next)
        /\ UNCHANGED <<callVars, taken>>
    BY <1>3 DEF Test, callVars
  <2>2. LeftFor(r, next)
    BY <1>1, <2>1, LeaveKeepsLock DEF Section
  <2>3. TypeOK'
    BY <1>1, <2>1, <2>2 DEF LeftFor, IInv, TypeOK, callVars
  <2>4. TriesLeft'
    BY <1>1, <2>1, <2>2 DEF LeftFor, IInv, TriesLeft
  <2>5. /\ \A q \in Requester : Waiting(q)' <=> Waiting(q)
        /\ Working' <=> Working
        /\ Handled' <=> Handled
    BY <1>1, <2>1, <2>2 DEF LeftFor, Waiting, Working, Handled, callVars
  <2>6. OneCall'
    BY <2>1, <2>5 DEF IInv, OneCall, Known, callVars
  <2> QED
    BY <2>1, <2>2, <2>3, <2>4, <2>6 DEF IInv, LeftFor, callVars
<1> QED
  BY <1>1, <1>2, <1>3 DEF LeftFor

(* A call whose answer is there returns and frees the struct.               *)
LEMMA CheckStep ==
  ASSUME IInv, NEW r \in Requester, Check(r)
  PROVE  /\ IInv'
         /\ At(r) = "check" /\ \A q \in Thread \ {r} : At(q)' = At(q)
         /\ At(r)' = IF isDone THEN "idle" ELSE "lockCheck"
         /\ UNCHANGED <<isDone, executed, call>>
<1> USE Threads
<1> DEFINE next == IF isDone THEN "idle" ELSE "lockCheck"
<1>1. /\ pc[r] = "check" /\ At(r) = "check" /\ Waiting(r) /\ busy
      /\ UNCHANGED <<isDone, runFunction, keepPolling, call, executed, retries, taken>>
      /\ busy' = IF isDone THEN FALSE ELSE busy
      /\ Leave(r, next)
  BY DEF Check, At, Waiting, IInv, OneCall
<1>2. LeftFor(r, next)
  BY <1>1, LeaveKeepsLock DEF Section
<1>3. TypeOK'
  BY <1>1, <1>2 DEF LeftFor, IInv, TypeOK
<1>4. TriesLeft'
  BY <1>1, <1>2 DEF LeftFor, IInv, TriesLeft
<1>5. OneCall'
  <2>1. \A q \in Requester : Waiting(q) => q = r
    BY <1>1 DEF IInv, OneCall
  <2>2. \A q \in Requester : Waiting(q)' <=> q = r /\ ~isDone
    BY <1>2, <2>1 DEF LeftFor, Waiting
  <2>3. (Working' <=> Working) /\ (Handled' <=> Handled) /\ (Known' <=> Known)
    BY <1>1, <1>2 DEF LeftFor, Working, Handled, Known
  <2>4. isDone => ~runFunction
    BY <1>1 DEF IInv, OneCall
  <2> QED
    BY <1>1, <2>1, <2>2, <2>3, <2>4 DEF IInv, OneCall
<1> QED
  BY <1>1, <1>2, <1>3, <1>4, <1>5 DEF IInv, LeftFor

(* The responder takes a call only while one is accepted and not executed.  *)
LEMMA PollStep ==
  ASSUME IInv, Poll
  PROVE  /\ IInv'
         /\ At(Responder) = "poll" /\ At(Responder)' \in {"lockPoll", "callback", "ended"}
         /\ \A q \in Thread \ {Responder} : At(q)' = At(q)
         /\ UNCHANGED callVars
<1> USE Threads
<1> DEFINE next == IF ~keepPolling THEN "ended"
                   ELSE IF runFunction THEN "callback" ELSE "lockPoll"
<1>1. /\ pc[Responder] = "poll" /\ At(Responder) = "poll" /\ ~Working
      /\ UNCHANGED <<callVars, retries>>
      /\ Leave(Responder, next)
      /\ taken' = IF keepPolling /\ runFunction THEN call ELSE taken
  BY DEF Poll, At, Working
<1>2. LeftFor(Responder, next)
  BY <1>1, LeaveKeepsLock DEF Section
<1>3. TypeOK'
  BY <1>1, <1>2 DEF LeftFor, IInv, TypeOK, callVars
<1>4. TriesLeft'
  BY <1>1, <1>2 DEF LeftFor, IInv, TriesLeft
<1>5. OneCall'
  <2>1. \A q \in Requester : Waiting(q)' <=> Waiting(q)
    BY <1>2 DEF LeftFor, Waiting
  <2>2. /\ Working' => keepPolling /\ runFunction
        /\ Handled' <=> Handled
    BY <1>1, <1>2 DEF LeftFor, Working, Handled, callVars
  <2> QED
    BY <1>1, <2>1, <2>2 DEF IInv, OneCall, Known, callVars
<1> QED
  BY <1>1, <1>2, <1>3, <1>4, <1>5 DEF IInv, LeftFor, callVars

(* The callback runs without the lock, if the table has the call; the call  *)
(* in the struct stays its own.                                             *)
LEMMA CallbackStep ==
  ASSUME IInv, Callback
  PROVE  /\ IInv'
         /\ At(Responder) = "callback" /\ At(Responder)' = "lockDone"
         /\ \A q \in Thread \ {Responder} : At(q)' = At(q)
         /\ UNCHANGED <<isDone, call>>
         /\ ~isDone /\ ~executed /\ (executed' <=> Known)
<1> USE Threads DEF Callback
<1>1. /\ pc[Responder] = "callback" /\ after[Responder] = "none" /\ lock # Responder
      /\ pc' = [pc EXCEPT ![Responder] = "lockDone"] /\ DOMAIN pc = Thread
  BY DEF IInv, TypeOK, LockHeld, Section
<1>2. /\ pc'[Responder] = "lockDone" /\ At(Responder) = "callback" /\ At(Responder)' = "lockDone"
  BY <1>1 DEF At
<1>3. \A q \in Thread \ {Responder} : At(q)' = At(q) /\ pc'[q] = pc[q]
  BY <1>1 DEF At
<1>4. /\ UNCHANGED <<lock, busy, runFunction, isDone, keepPolling, call, after, retries, taken>>
      /\ executed' = (executed \/ taken.id < NumEntries)
  OBVIOUS
<1>5. TypeOK'
  BY <1>1, <1>4 DEF IInv, TypeOK
<1>6. LockHeld'
  <2>1. \A q \in Thread : pc'[q] \in Section <=> lock' = q
    BY <1>1, <1>2, <1>3, <1>4 DEF IInv, LockHeld, Section
  <2>2. \A q \in Thread : pc'[q] = "unlock" <=> after'[q] # "none"
    BY <1>1, <1>2, <1>3, <1>4 DEF IInv, LockHeld
  <2> QED
    BY <2>1, <2>2, <1>2, <1>3 DEF IInv, LockHeld
<1>7. TriesLeft'
  BY <1>3, <1>4 DEF IInv, TriesLeft
<1> HIDE DEF Callback
<1>8. /\ \A q \in Requester : Waiting(q)' <=> Waiting(q)
      /\ Working /\ Working' /\ Handled' /\ (Known' <=> Known)
  BY <1>2, <1>3, <1>4 DEF Waiting, Working, Handled, Known
<1>9. OneCall /\ taken = call /\ runFunction /\ busy /\ ~isDone
  <2>1. OneCall /\ isDone \in BOOLEAN /\ runFunction \in BOOLEAN
    BY DEF IInv, TypeOK
  <2>2. taken = call /\ runFunction
    BY <1>8, <2>1 DEF OneCall
  <2>3. busy
    BY <2>1, <2>2 DEF OneCall
  <2> QED
    BY <2>1, <2>2, <2>3, Zenon DEF OneCall
<1>10. ~Handled /\ ~executed
  BY <1>2, <1>9 DEF IInv, OneCall, TypeOK, Handled
<1>11. executed' <=> Known
  BY <1>4, <1>9, <1>10 DEF Known
<1>12. OneCall'
  BY <1>4, <1>8, <1>9, <1>11 DEF OneCall
<1> QED
  BY <1>2, <1>3, <1>4, <1>5, <1>6, <1>7, <1>9, <1>10, <1>11, <1>12 DEF IInv

(* The answer is given to the call that was handled.                        *)
LEMMA SetDoneStep ==
  ASSUME IInv, SetDone
  PROVE  /\ IInv'
         /\ At(Responder) = "setDone" /\ At(Responder)' = "lockPoll"
         /\ \A q \in Thread \ {Responder} : At(q)' = At(q)
         /\ isDone' = TRUE /\ UNCHANGED <<executed, call>>
<1> USE Threads
<1>1. /\ pc[Responder] = "setDone" /\ At(Responder) = "setDone" /\ Working
      /\ isDone' = TRUE /\ runFunction' = FALSE /\ taken' = NoCall
      /\ Leave(Responder, "lockPoll")
      /\ UNCHANGED <<busy, keepPolling, call, executed, retries>>
  BY DEF SetDone, At, Working
<1>2. LeftFor(Responder, "lockPoll")
  BY <1>1, LeaveKeepsLock DEF Section
<1>3. TypeOK'
  <2>1. NoCall \in Calls
    BY DEF Calls, NoCall
  <2> QED
    BY <1>1, <1>2, <2>1 DEF LeftFor, IInv, TypeOK
<1>4. TriesLeft'
  BY <1>1, <1>2 DEF LeftFor, IInv, TriesLeft
<1>5. OneCall'
  <2>1. \A q \in Requester : Waiting(q)' <=> Waiting(q)
    BY <1>2 DEF LeftFor, Waiting
  <2>2. ~Working' /\ Handled /\ Handled' /\ (Known' <=> Known)
    BY <1>1, <1>2 DEF LeftFor, Working, Handled, Known
  <2> QED
    BY <1>1, <2>1, <2>2 DEF IInv, OneCall
<1> QED
  BY <1>1, <1>2, <1>3, <1>4, <1>5 DEF IInv, LeftFor

(* Stopping the responder touches no call.                                  *)
LEMMA BeginStopStep ==
  ASSUME IInv, BeginStop
  PROVE  IInv' /\ UNCHANGED callVars /\ \A q \in Thread \ {Main} : At(q)' = At(q)
<1> USE Threads DEF BeginStop
<1>1. /\ pc[Main] = "run" /\ after[Main] = "none" /\ lock # Main
      /\ pc' = [pc EXCEPT ![Main] = "lockStop"] /\ DOMAIN pc = Thread
  BY DEF IInv, TypeOK, LockHeld, Section
<1>2. pc'[Main] = "lockStop" /\ At(Main)' = "lockStop"
  BY <1>1 DEF At
<1>3. \A q \in Thread \ {Main} : At(q)' = At(q) /\ pc'[q] = pc[q]
  BY <1>1 DEF At
<1>4. UNCHANGED <<lock, callVars, after, retries, taken>>
  OBVIOUS
<1>5. TypeOK'
  BY <1>1, <1>4 DEF IInv, TypeOK, callVars
<1>6. LockHeld'
  <2>1. \A q \in Thread : pc'[q] \in Section <=> lock' = q
    BY <1>1, <1>2, <1>3, <1>4 DEF IInv, LockHeld, Section
  <2>2. \A q \in Thread : pc'[q] = "unlock" <=> after'[q] # "none"
    BY <1>1, <1>2, <1>3, <1>4 DEF IInv, LockHeld
  <2> QED
    BY <2>1, <2>2, <1>2, <1>3 DEF IInv, LockHeld
<1>7. TriesLeft' /\ OneCall'
  BY <1>2, <1>3, <1>4 DEF IInv, TriesLeft, OneCall, Waiting, Working, Handled, Known, callVars
<1> QED
  BY <1>3, <1>4, <1>5, <1>6, <1>7 DEF IInv

(* Clearing keepPolling touches none either.                                *)
LEMMA ClearFlagStep ==
  ASSUME IInv, ClearFlag
  PROVE  /\ IInv' /\ UNCHANGED <<isDone, executed, call>>
         /\ \A q \in Thread \ {Main} : At(q)' = At(q)
<1> USE Threads
<1>1. /\ pc[Main] = "clear" /\ keepPolling' = FALSE /\ Leave(Main, "ended")
      /\ UNCHANGED <<busy, runFunction, isDone, call, executed, retries, taken>>
  BY DEF ClearFlag
<1>2. LeftFor(Main, "ended")
  BY <1>1, LeaveKeepsLock DEF Section
<1>3. TypeOK'
  BY <1>1, <1>2 DEF LeftFor, IInv, TypeOK
<1>4. TriesLeft' /\ OneCall'
  BY <1>1, <1>2 DEF LeftFor, IInv, TriesLeft, OneCall, Waiting, Working, Handled, Known
<1> QED
  BY <1>1, <1>2, <1>3, <1>4 DEF IInv, LeftFor

(* Every step of any thread keeps the invariant.                            *)
LEMMA StepIInv == IInv /\ [Next]_vars => IInv'
<1> SUFFICES ASSUME IInv, [Next]_vars PROVE IInv'
  OBVIOUS
<1>1. ASSUME NEW r \in Requester, RequestCall(r) \/ GoesOn(r) PROVE IInv'
  BY <1>1, Threads, RequestCallStep, LockMoves, TestStep, CheckStep, UnlockMoves DEF GoesOn
<1>2. ASSUME WaitForCall PROVE IInv'
  BY <1>2, Threads, LockMoves, PollStep, CallbackStep, SetDoneStep, UnlockMoves DEF WaitForCall
<1>3. ASSUME BeginStop \/ StopResponder PROVE IInv'
  BY <1>3, Threads, BeginStopStep, LockMoves, ClearFlagStep, UnlockMoves DEF StopResponder
<1>4. ASSUME UNCHANGED vars PROVE IInv'
  <2>1. /\ UNCHANGED <<lock, busy, runFunction, isDone, keepPolling, call, executed>>
        /\ UNCHANGED <<pc, after, retries, taken>>
    BY <1>4 DEF vars, callVars
  <2> QED
    BY <2>1
    DEF IInv, TypeOK, LockHeld, TriesLeft, OneCall, At, Waiting, Working, Handled, Known
<1> QED
  BY <1>1, <1>2, <1>3, <1>4 DEF Next

(* The struct holds one call at a time and belongs to the requester that    *)
(* made it, whatever the number of requesters: the inductive invariant.     *)
THEOREM Invariance == Spec => []IInv
<1>1. Init => IInv
  BY InitIInv
<1>2. IInv /\ [Next]_vars => IInv'
  BY StepIInv
<1> QED
  BY <1>1, <1>2, PTL DEF Spec
-------------------------------------------------------------------------------
(* The refinement: what a step does to one requester's call is what it does *)
(* to SyncCall.                                                             *)

(* A step that moves one call.                                              *)
LEMMA OneMoves ==
  ASSUME NEW r \in Requester, NEW to, StatusOf(r)' = to,
         \A q \in Requester \ {r} : StatusOf(q)' = StatusOf(q)
  PROVE  CallStatus' = [CallStatus EXCEPT ![r] = to] /\ CallStatus[r] = StatusOf(r)
BY DEF CallStatus

(* A step that moves no call.                                               *)
LEMMA NoneMoves ==
  ASSUME \A q \in Requester : StatusOf(q)' = StatusOf(q), Serving' = Serving
  PROVE  UNCHANGED Promise!vars
BY DEF CallStatus, Promise!vars

(* The call of a requester that has not moved itself has not moved, unless  *)
(* it is answered.                                                          *)
LEMMA Unmoved ==
  ASSUME NEW q \in Requester, At(q)' = At(q),
         UNCHANGED <<isDone, executed, call>>, At(Responder)' = At(Responder)
  PROVE  StatusOf(q)' = StatusOf(q) /\ Serving' = Serving
BY DEF StatusOf, Waiting, Handled, Known, Serving

(* Every step is a step of SyncCall, or none.                               *)
LEMMA StepRefines == IInv /\ [Next]_vars => [Promise!Next]_(Promise!vars)
<1> SUFFICES ASSUME IInv, [Next]_vars PROVE Promise!Next \/ UNCHANGED Promise!vars
  OBVIOUS
<1> USE Threads
<1>1. ASSUME NEW r \in Requester, RequestCall(r) PROVE Promise!Next
  <2>1. /\ At(r) = "idle" /\ At(r)' = "lockTest"
        /\ UNCHANGED <<isDone, executed, call>>
        /\ \A q \in Thread \ {r} : At(q)' = At(q)
    BY <1>1, RequestCallStep DEF RequestCall, callVars
  <2>2. StatusOf(r) = "idle" /\ StatusOf(r)' = "calling"
    BY <2>1 DEF StatusOf, Waiting
  <2>3. Promise!Call(r)
    BY <2>1, <2>2, OneMoves, Unmoved DEF Promise!Call, Promise!Become, Serving
  <2> QED
    BY <2>3 DEF Promise!Next
<1>2. ASSUME NEW r \in Requester, Test(r) PROVE Promise!Next \/ UNCHANGED Promise!vars
  <2>1. /\ At(r) = "test" /\ \A q \in Thread \ {r} : At(q)' = At(q)
        /\ Serving' = Serving
    BY <1>2, TestStep DEF Serving
  <2>2. StatusOf(r) = "calling" /\ CallStatus[r] = "calling"
    BY <2>1 DEF StatusOf, Waiting, CallStatus
  <2>3. ASSUME ~busy PROVE Promise!Accept(r) \/ Promise!Admit(r)
    <3>1. At(r)' = "lockCheck" /\ ~isDone' /\ ~executed'
      BY <1>2, <2>3, TestStep
    <3>2. /\ \A q \in Requester : ~Waiting(q)
          /\ ~Working
      BY <2>3 DEF IInv, OneCall
    <3>3. StatusOf(r)' = IF Known' THEN "accepted" ELSE "unknown"
      BY <2>1, <3>1, <3>2 DEF StatusOf, Waiting, Working, Handled
    <3>4. \A q \in Requester \ {r} : StatusOf(q)' = StatusOf(q)
      BY <2>1, <3>2 DEF StatusOf, Waiting
    <3>5. Promise!NobodyInService
      BY <3>2 DEF CallStatus, StatusOf, Promise!NobodyInService, Promise!InService
    <3>6. Promise!Become(r, "calling", IF Known' THEN "accepted" ELSE "unknown")
      BY <2>1, <2>2, <3>3, <3>4, OneMoves DEF Promise!Become
    <3> QED
      BY <3>5, <3>6 DEF Promise!Accept, Promise!Admit
  <2>4. ASSUME busy, At(r)' = "idle" PROVE Promise!Refuse(r)
    <3>1. UNCHANGED <<isDone, executed, call>>
      BY <1>2, <2>4, TestStep
    <3>2. StatusOf(r)' = "idle"
      BY <2>4 DEF StatusOf
    <3>3. ~Promise!NobodyInService
      BY <2>4 DEF IInv, OneCall, CallStatus, StatusOf, Waiting,
                  Promise!NobodyInService, Promise!InService
    <3>4. \A q \in Requester \ {r} : StatusOf(q)' = StatusOf(q)
      BY <2>1, <3>1, Unmoved
    <3> QED
      BY <2>1, <2>2, <3>2, <3>3, <3>4, OneMoves DEF Promise!Refuse, Promise!Become
  <2>5. ASSUME busy, At(r)' = "lockTest" PROVE UNCHANGED Promise!vars
    <3>1. UNCHANGED <<isDone, executed, call>>
      BY <1>2, <2>5, TestStep
    <3>2. StatusOf(r)' = "calling"
      BY <2>5 DEF StatusOf, Waiting
    <3>3. \A q \in Requester \ {r} : StatusOf(q)' = StatusOf(q)
      BY <2>1, <3>1, Unmoved
    <3> QED
      BY <2>1, <2>2, <3>2, <3>3, NoneMoves
  <2>6. busy => At(r)' \in {"idle", "lockTest"}
    BY <1>2, TestStep
  <2> QED
    BY <2>3, <2>4, <2>5, <2>6 DEF Promise!Next, Promise!Serve
<1>3. ASSUME NEW r \in Requester, Check(r) PROVE Promise!Next \/ UNCHANGED Promise!vars
  <2>1. /\ At(r) = "check" /\ \A q \in Thread \ {r} : At(q)' = At(q)
        /\ At(r)' = IF isDone THEN "idle" ELSE "lockCheck"
        /\ UNCHANGED <<isDone, executed, call>> /\ Serving' = Serving
    BY <1>3, CheckStep DEF Serving
  <2>2. \A q \in Requester \ {r} : StatusOf(q)' = StatusOf(q)
    BY <2>1, Unmoved
  <2>3. ASSUME isDone PROVE Promise!Return(r)
    <3>1. Waiting(r) /\ busy /\ Handled
      BY <2>1, <2>3 DEF Waiting, Handled, IInv, OneCall
    <3>2. StatusOf(r) \in {"executed", "passed"} /\ StatusOf(r)' = "idle"
      BY <2>1, <2>3, <3>1 DEF StatusOf, Waiting, IInv, OneCall
    <3> QED
      BY <2>1, <2>2, <3>2, OneMoves DEF Promise!Return, Promise!Become
  <2>4. ASSUME ~isDone PROVE UNCHANGED Promise!vars
    <3>1. StatusOf(r)' = StatusOf(r)
      BY <2>1, <2>4 DEF StatusOf, Waiting, Handled, Known
    <3> QED
      BY <2>1, <2>2, <3>1, NoneMoves
  <2> QED
    BY <2>3, <2>4 DEF Promise!Next, Promise!Serve
<1>4. ASSUME NEW t \in Thread, Lock(t) PROVE UNCHANGED Promise!vars
  <2>1. /\ At(t) \in DOMAIN SectionOf /\ At(t)' = SectionOf[At(t)]
        /\ \A q \in Thread \ {t} : At(q)' = At(q)
        /\ UNCHANGED <<isDone, executed, call>>
    BY <1>4, LockMoves DEF callVars
  <2>2. At(t) \notin {"callback", "ended"} /\ At(t)' \notin {"callback", "ended", "idle"}
    BY <2>1 DEF SectionOf
  <2>3. (At(t)' \in {"lockCheck", "check"}) <=> (At(t) \in {"lockCheck", "check"})
    BY <2>1 DEF SectionOf
  <2>4. (At(t)' \in {"lockDone", "setDone"}) <=> (At(t) \in {"lockDone", "setDone"})
    BY <2>1 DEF SectionOf
  <2>5. At(t) # "idle"
    BY <2>1 DEF SectionOf
  <2>6. \A q \in Requester : Waiting(q)' <=> Waiting(q)
    BY <2>1, <2>3 DEF Waiting
  <2>7. (At(Responder)' \in {"lockDone", "setDone"}) <=> (At(Responder) \in {"lockDone", "setDone"})
    BY <2>1, <2>4
  <2>8. \A q \in Requester : At(q)' = "idle" <=> At(q) = "idle"
    BY <2>1, <2>2, <2>5
  <2>9. \A q \in Requester : StatusOf(q)' = StatusOf(q)
    BY <2>1, <2>6, <2>7, <2>8 DEF StatusOf, Handled, Known
  <2>10. Serving' = Serving
    BY <2>1, <2>2 DEF Serving
  <2> QED
    BY <2>9, <2>10, NoneMoves
<1>5. ASSUME NEW t \in Thread, Unlock(t) PROVE UNCHANGED Promise!vars
  BY <1>5, UnlockMoves, Unmoved, NoneMoves DEF callVars, Serving
<1>6. ASSUME Poll PROVE Promise!Next \/ UNCHANGED Promise!vars
  <2>1. /\ At(Responder) = "poll" /\ At(Responder)' \in {"lockPoll", "callback", "ended"}
        /\ \A q \in Requester : At(q)' = At(q)
        /\ UNCHANGED <<isDone, executed, call>>
    BY <1>6, PollStep DEF callVars
  <2>2. \A q \in Requester : StatusOf(q)' = StatusOf(q)
    BY <2>1 DEF StatusOf, Waiting, Handled, Known
  <2>3. Serving = "serving"
    BY <2>1 DEF Serving
  <2>4. CASE Serving' = "serving"
    BY <2>2, <2>3, <2>4, NoneMoves
  <2>5. CASE Serving' = "ended"
    BY <2>2, <2>3, <2>5 DEF Promise!Next, Promise!End, CallStatus
  <2> QED
    BY <2>4, <2>5 DEF Serving
<1>7. ASSUME Callback PROVE Promise!Next
  <2>1. /\ At(Responder) = "callback" /\ At(Responder)' = "lockDone"
        /\ \A q \in Requester : At(q)' = At(q)
        /\ ~isDone /\ ~executed /\ (executed' <=> Known)
        /\ UNCHANGED <<isDone, call>>
    BY <1>7, CallbackStep
  <2>2. PICK r \in Requester : Waiting(r) /\ call.of = r
    BY <2>1 DEF IInv, OneCall, Working
  <2>3. \A q \in Requester \ {r} : ~Waiting(q)
    BY <2>2 DEF IInv, OneCall
  <2>4. /\ Waiting(r)' /\ \A q \in Requester \ {r} : ~Waiting(q)'
        /\ ~Handled /\ Handled' /\ (Known' <=> Known)
    BY <2>1, <2>2, <2>3 DEF Waiting, Handled, Known
  <2>5. /\ StatusOf(r) = IF Known THEN "accepted" ELSE "unknown"
        /\ StatusOf(r)' = IF Known THEN "executed" ELSE "passed"
    BY <2>1, <2>2, <2>4 DEF StatusOf, Waiting
  <2>6. \A q \in Requester \ {r} : StatusOf(q)' = StatusOf(q)
    BY <2>1, <2>3, <2>4 DEF StatusOf
  <2>7. Serving = "serving" /\ Serving' = "serving"
    BY <2>1 DEF Serving
  <2>8. Promise!Execute(r) \/ Promise!Pass(r)
    BY <2>5, <2>6, <2>7, OneMoves DEF Promise!Execute, Promise!Pass, Promise!Become
  <2> QED
    BY <2>8 DEF Promise!Next, Promise!Serve
<1>8. ASSUME SetDone PROVE UNCHANGED Promise!vars
  <2>1. /\ At(Responder) = "setDone" /\ At(Responder)' = "lockPoll"
        /\ \A q \in Requester : At(q)' = At(q)
        /\ isDone' = TRUE /\ UNCHANGED <<executed, call>>
    BY <1>8, SetDoneStep
  <2>2. \A q \in Requester : StatusOf(q)' = StatusOf(q)
    BY <2>1 DEF StatusOf, Waiting, Handled, Known
  <2>3. Serving' = Serving
    BY <2>1 DEF Serving
  <2> QED
    BY <2>2, <2>3, NoneMoves
<1>9. ASSUME BeginStop \/ ClearFlag PROVE UNCHANGED Promise!vars
  <2>1. UNCHANGED <<isDone, executed, call>> /\ \A q \in Thread \ {Main} : At(q)' = At(q)
    BY <1>9, BeginStopStep, ClearFlagStep DEF callVars
  <2>2. Serving' = Serving
    BY <2>1 DEF Serving
  <2> QED
    BY <2>1, <2>2, Unmoved, NoneMoves
<1>10. ASSUME UNCHANGED vars PROVE UNCHANGED Promise!vars
  BY <1>10
  DEF vars, callVars, Promise!vars, CallStatus, StatusOf, Serving, Waiting, Handled, Known, At
<1> QED
  BY <1>1, <1>2, <1>3, <1>4, <1>5, <1>6, <1>7, <1>8, <1>9, <1>10
  DEF Next, GoesOn, WaitForCall, StopResponder

(* Nobody calls, and the responder serves, at the start.                    *)
LEMMA InitRefines == Init => Promise!Init
<1> SUFFICES ASSUME Init PROVE Promise!Init
  OBVIOUS
<1>1. \A r \in Requester : StatusOf(r) = "idle"
  BY Threads DEF Init, StatusOf, At
<1>2. Serving = "serving"
  BY Threads DEF Init, Serving, At
<1> QED
  BY <1>1, <1>2 DEF Promise!Init, CallStatus

(* A hot call is a synchronous call: the struct, its lock and its flags     *)
(* implement SyncCall, for calls the table has and for those it has not.    *)
THEOREM HotCallImplementsSyncCall == Spec => ImplementsSyncCall
<1>1. IInv /\ [Next]_vars => [Promise!Next]_(Promise!vars)
  BY StepRefines
<1> QED
  BY <1>1, InitRefines, Invariance, PTL DEF Spec, ImplementsSyncCall
===============================================================================
