------------------------------- MODULE SyncCall -------------------------------
(***************************************************************************)
(* What a hot call promises to the threads that make one.  Calls are served *)
(* one at a time.  An accepted call that the responder knows is executed    *)
(* once, by somebody else, before it returns; one it does not know returns  *)
(* unexecuted, and its caller is not told.  A call is refused only while    *)
(* another one is being served.  Nothing is promised about calls that are   *)
(* made once the responder has been stopped.                                *)
(***************************************************************************)

CONSTANT Requester

VARIABLES status,     \* of each requester: idle, calling, or as InService says
          responder   \* "serving" or "ended"

vars == <<status, responder>>

Init ==
  /\ status = [r \in Requester |-> "idle"]
  /\ responder = "serving"

InService(r) == status[r] \in {"accepted", "executed", "unknown", "passed"}

NobodyInService == \A r \in Requester : ~InService(r)

Become(r, from, to) ==
  /\ status[r] = from
  /\ status' = [status EXCEPT ![r] = to]
  /\ UNCHANGED responder

Call(r)    == Become(r, "idle", "calling")
Refuse(r)  == ~NobodyInService /\ Become(r, "calling", "idle")
Accept(r)  == NobodyInService /\ Become(r, "calling", "accepted")
Admit(r)   == NobodyInService /\ Become(r, "calling", "unknown")
Execute(r) == responder = "serving" /\ Become(r, "accepted", "executed")
Pass(r)    == responder = "serving" /\ Become(r, "unknown", "passed")
Return(r)  == Become(r, "executed", "idle") \/ Become(r, "passed", "idle")

End ==
  /\ responder = "serving"
  /\ responder' = "ended"
  /\ UNCHANGED status

Serve(r) == Accept(r) \/ Admit(r) \/ Execute(r) \/ Pass(r) \/ Return(r)

Next == (\E r \in Requester : Call(r) \/ Refuse(r) \/ Serve(r)) \/ End

Spec == Init /\ [][Next]_vars
===============================================================================
