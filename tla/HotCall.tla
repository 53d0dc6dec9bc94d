------------------------------- MODULE HotCall --------------------------------
(***************************************************************************)
(* hot_calls.h: requesters hand a call to a polling responder through one   *)
(* struct under a spinlock, and poll it for the answer.                     *)
(*                                                                          *)
(*   HotCall_requestCall   try MaxRetries + 1 times to find the struct not  *)
(*                         busy; then poll until isDone                     *)
(*   HotCall_waitForCall   poll for runFunction; call back without the lock *)
(*                         if the table has the callID; answer in any case  *)
(*   StopResponder         clear keepPolling                                *)
(*                                                                          *)
(* A thread takes the lock, does what it does under it, and releases it, in *)
(* three steps; after names what it goes on with then.                      *)
(***************************************************************************)
EXTENDS Integers, FiniteSets

CONSTANTS Requester,   \* the threads that make calls
          MaxRetries,  \* MAX_RETRIES: 10
          CallID,      \* the ids they ask for, in the table or not
          NumEntries   \* numEntries: the length of the responder's table

CONSTANTS Responder, Main, Nobody   \* the other threads; no thread

ASSUME HotCallAssumption ==
  /\ MaxRetries \in Nat
  /\ CallID \subseteq Nat /\ NumEntries \in Nat
  /\ Responder # Main /\ Nobody \notin {Responder, Main}
  /\ {Responder, Main, Nobody} \cap Requester = {}

Thread == Requester \cup {Responder, Main}

VARIABLES
  lock,         \* spinlock: the thread that holds it
  busy, runFunction, isDone, keepPolling,   \* the flags of the HotCall
  call,         \* callID, and data: whose they are
  executed,     \* has the callback been called for the call in the struct?
  pc,           \* what each thread does next ...
  after,        \* ... and, while it holds the lock, once it has released it
  retries,      \* numRetries of each requester
  taken         \* the responder's copies of callID and data

callVars == <<busy, runFunction, isDone, keepPolling, call, executed>>
vars == <<lock, callVars, pc, after, retries, taken>>

NoCall == [id |-> 0, of |-> Nobody]

Init ==
  /\ lock = Nobody
  /\ busy = FALSE /\ runFunction = FALSE /\ isDone = FALSE
  /\ keepPolling = TRUE
  /\ call = NoCall /\ executed = FALSE
  /\ pc = [t \in Thread |-> IF t \in Requester THEN "idle"
                            ELSE IF t = Responder THEN "lockPoll" ELSE "run"]
  /\ after = [t \in Thread |-> "none"]
  /\ retries = [r \in Requester |-> 0]
  /\ taken = NoCall
-------------------------------------------------------------------------------
(* sgx_spin_lock and sgx_spin_unlock around a section.                      *)
SectionOf == [lockTest |-> "test", lockCheck |-> "check", lockPoll |-> "poll",
              lockDone |-> "setDone", lockStop |-> "clear"]

Lock(t) ==
  /\ pc[t] \in DOMAIN SectionOf
  /\ lock = Nobody
  /\ lock' = t
  /\ pc' = [pc EXCEPT ![t] = SectionOf[pc[t]]]
  /\ UNCHANGED <<callVars, after, retries, taken>>

Unlock(t) ==
  /\ pc[t] = "unlock"
  /\ lock' = Nobody
  /\ pc' = [pc EXCEPT ![t] = after[t]]
  /\ after' = [after EXCEPT ![t] = "none"]
  /\ UNCHANGED <<callVars, retries, taken>>

Leave(t, next) ==
  /\ pc' = [pc EXCEPT ![t] = "unlock"]
  /\ after' = [after EXCEPT ![t] = next]
  /\ UNCHANGED lock
-------------------------------------------------------------------------------
(* HotCall_requestCall.                                                     *)
RequestCall(r) ==
  /\ pc[r] = "idle"
  /\ retries' = [retries EXCEPT ![r] = 0]
  /\ pc' = [pc EXCEPT ![r] = "lockTest"]
  /\ UNCHANGED <<lock, callVars, after, taken>>

(* The id is the requester's argument, and comes into play here.            *)
Fill(r) ==
  /\ \E id \in CallID : call' = [id |-> id, of |-> r]
  /\ executed' = FALSE

(* Mutation: busy is not looked at.                                         *)
TestNothing(r) ==
  /\ pc[r] = "test"
  /\ busy' = TRUE /\ isDone' = FALSE /\ runFunction' = TRUE
  /\ Fill(r)
  /\ Leave(r, "lockCheck")
  /\ UNCHANGED <<keepPolling, retries, taken>>

(* Mutation: isDone keeps the answer to the call before.                    *)
TestStale(r) ==
  /\ pc[r] = "test"
  /\ IF ~busy
     THEN /\ busy' = TRUE /\ runFunction' = TRUE
          /\ Fill(r)
          /\ Leave(r, "lockCheck")
          /\ UNCHANGED <<isDone, retries>>
     ELSE /\ retries' = [retries EXCEPT ![r] = @ + 1]
          /\ Leave(r, IF retries[r] + 1 > MaxRetries THEN "idle" ELSE "lockTest")
          /\ UNCHANGED <<busy, isDone, runFunction, call, executed>>
  /\ UNCHANGED <<keepPolling, taken>>

Test(r) ==
  /\ pc[r] = "test"
  /\ IF ~busy
     THEN /\ busy' = TRUE /\ isDone' = FALSE /\ runFunction' = TRUE
          /\ Fill(r)
          /\ Leave(r, "lockCheck")
          /\ UNCHANGED retries
     ELSE /\ retries' = [retries EXCEPT ![r] = @ + 1]
          /\ Leave(r, IF retries[r] + 1 > MaxRetries THEN "idle" ELSE "lockTest")
          /\ UNCHANGED <<busy, isDone, runFunction, call, executed>>
  /\ UNCHANGED <<keepPolling, taken>>

Check(r) ==
  /\ pc[r] = "check"
  /\ IF isDone
     THEN busy' = FALSE /\ Leave(r, "idle")
     ELSE UNCHANGED busy /\ Leave(r, "lockCheck")
  /\ UNCHANGED <<isDone, runFunction, keepPolling, call, executed, retries, taken>>

(* A call goes on once it has been made.                                    *)
GoesOn(r) == Lock(r) \/ Test(r) \/ Check(r) \/ Unlock(r)
-------------------------------------------------------------------------------
(* HotCall_waitForCall.                                                     *)
Poll ==
  /\ pc[Responder] = "poll"
  /\ IF ~keepPolling THEN Leave(Responder, "ended") /\ UNCHANGED taken
     ELSE IF runFunction THEN Leave(Responder, "callback") /\ taken' = call
     ELSE Leave(Responder, "lockPoll") /\ UNCHANGED taken
  /\ UNCHANGED <<callVars, retries>>

(* A call the table does not have is passed over, and answered all the same. *)
Callback ==
  /\ pc[Responder] = "callback"
  /\ executed' = (executed \/ taken.id < NumEntries)
  /\ pc' = [pc EXCEPT ![Responder] = "lockDone"]
  /\ UNCHANGED <<lock, busy, runFunction, isDone, keepPolling, call, after, retries, taken>>

(* Mutation: runFunction stays set.                                         *)
SetDoneOnly ==
  /\ pc[Responder] = "setDone"
  /\ isDone' = TRUE
  /\ taken' = NoCall
  /\ Leave(Responder, "lockPoll")
  /\ UNCHANGED <<busy, runFunction, keepPolling, call, executed, retries>>

(* Mutation: a responder that was stopped under the call leaves at once.    *)
SetDoneUnlessStopped ==
  /\ pc[Responder] = "setDone"
  /\ IF keepPolling
     THEN isDone' = TRUE /\ runFunction' = FALSE /\ Leave(Responder, "lockPoll")
     ELSE UNCHANGED <<isDone, runFunction>> /\ Leave(Responder, "ended")
  /\ taken' = NoCall
  /\ UNCHANGED <<busy, keepPolling, call, executed, retries>>

(* The unlock is the one at the end of the loop.                            *)
SetDone ==
  /\ pc[Responder] = "setDone"
  /\ isDone' = TRUE /\ runFunction' = FALSE
  /\ taken' = NoCall
  /\ Leave(Responder, "lockPoll")
  /\ UNCHANGED <<busy, keepPolling, call, executed, retries>>

WaitForCall == Lock(Responder) \/ Poll \/ Callback \/ SetDone \/ Unlock(Responder)
-------------------------------------------------------------------------------
(* StopResponder, called at any time.                                       *)
BeginStop ==
  /\ pc[Main] = "run"
  /\ pc' = [pc EXCEPT ![Main] = "lockStop"]
  /\ UNCHANGED <<lock, callVars, after, retries, taken>>

ClearFlag ==
  /\ pc[Main] = "clear"
  /\ keepPolling' = FALSE
  /\ Leave(Main, "ended")
  /\ UNCHANGED <<busy, runFunction, isDone, call, executed, retries, taken>>

StopResponder == Lock(Main) \/ ClearFlag \/ Unlock(Main)

Next == (\E r \in Requester : RequestCall(r) \/ GoesOn(r)) \/ WaitForCall \/ BeginStop \/ StopResponder

Spec == Init /\ [][Next]_vars

(* Every thread runs, and none finds the spinlock taken for ever: a thread  *)
(* that has released it pauses before it tries again.  Whether another call *)
(* is made, or the responder is stopped, is open.                           *)
FairSpec ==
  /\ Spec
  /\ \A r \in Requester : WF_vars(GoesOn(r)) /\ SF_vars(Lock(r))
  /\ WF_vars(WaitForCall) /\ SF_vars(Lock(Responder))
  /\ WF_vars(StopResponder)
-------------------------------------------------------------------------------
Place == {"idle", "lockTest", "test", "lockCheck", "check", "unlock", "run", "lockPoll", "poll",
          "callback", "lockDone", "setDone", "lockStop", "clear", "ended"}
Onward == {"none", "idle", "lockTest", "lockCheck", "lockPoll", "callback", "ended"}

Calls == [id : CallID \cup {0}, of : Requester \cup {Nobody}]

TypeOK ==
  /\ lock \in Thread \cup {Nobody}
  /\ {busy, runFunction, isDone, keepPolling, executed} \subseteq BOOLEAN
  /\ pc \in [Thread -> Place]
  /\ after \in [Thread -> Onward]
  /\ retries \in [Requester -> 0 .. MaxRetries + 1]
  /\ {call, taken} \subseteq Calls

Section == {"test", "check", "poll", "setDone", "clear", "unlock"}

(* Where a thread is, taking no notice of whether it has released the lock. *)
At(t) == IF pc[t] = "unlock" THEN after[t] ELSE pc[t]

(* A requester whose call was accepted and has not returned yet.            *)
Waiting(r) == At(r) \in {"lockCheck", "check"}

Working == At(Responder) \in {"callback", "lockDone", "setDone"}

(* Threads exclude each other, and each is where only it can be.            *)
LockHeld ==
  /\ \A t \in Thread : pc[t] \in Section <=> lock = t
  /\ \A t \in Thread : pc[t] = "unlock" <=> after[t] # "none"
  /\ \A r \in Requester : At(r) \in {"idle", "lockTest", "test", "lockCheck", "check"}
  /\ At(Responder) \in {"lockPoll", "poll", "callback", "lockDone", "setDone", "ended"}
  /\ At(Main) \in {"run", "lockStop", "clear", "ended"}

Known == call.id < NumEntries

(* The responder is through with the call in the struct.                    *)
Handled == isDone \/ At(Responder) \in {"lockDone", "setDone"}

(* busy belongs to the one requester whose call is in the struct, and the   *)
(* flags say how far its call has come; the callback has been called for a  *)
(* call that is handled and that the table has, and for no other.           *)
OneCall ==
  /\ busy <=> \E r \in Requester : Waiting(r)
  /\ \A r \in Requester : Waiting(r) => call.of = r
  /\ busy => runFunction # isDone
  /\ runFunction => busy
  /\ Working => taken = call /\ runFunction
  /\ busy => (executed <=> Handled /\ Known)

(* A requester that may still try again has a try left.                     *)
TriesLeft ==
  \A r \in Requester : At(r) \in {"lockTest", "test"} => retries[r] <= MaxRetries

IInv == TypeOK /\ LockHeld /\ TriesLeft /\ OneCall

(* How far a call has come: executed from the end of the callback, passed   *)
(* over from the same point.                                                *)
StatusOf(r) ==
  IF At(r) = "idle" THEN "idle"
  ELSE IF ~Waiting(r) THEN "calling"
  ELSE IF executed THEN "executed"
  ELSE IF Known THEN "accepted"
  ELSE IF Handled THEN "passed"
  ELSE "unknown"

CallStatus == [r \in Requester |-> StatusOf(r)]
Serving    == IF At(Responder) = "ended" THEN "ended" ELSE "serving"

Promise == INSTANCE SyncCall WITH status <- CallStatus, responder <- Serving

(* The struct keeps the promise of SyncCall: a call the table has is        *)
(* executed once before it returns, one it has not returns unexecuted,      *)
(* nobody takes another one's answer or overwrites its call, and a          *)
(* requester gives up only when it finds another call being served.  A      *)
(* retry that finds the struct busy is no step of SyncCall.                 *)
ImplementsSyncCall == Promise!Init /\ [][Promise!Next]_(Promise!vars)

(* Every call returns, accepted or refused, unless main stops the responder *)
(* first; and one the responder has begun returns in any case.              *)
Answered ==
  /\ \A r \in Requester : pc[r] = "lockTest" ~> (pc[r] = "idle" \/ ~keepPolling)
  /\ \A r \in Requester : (Working /\ taken.of = r) ~> (pc[r] = "idle")
===============================================================================
