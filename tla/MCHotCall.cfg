\* Three requesters that call again and again, with one retry: a call can be
\* accepted at once, after a retry, or refused; main may stop the responder at
\* any time, also before a call, under one, and between two.  The table has one
\* entry, so that a call asks for it or for one that is not there.
SPECIFICATION FairSpec
CONSTANTS
  Requester = {r1, r2, r3}
  Responder = responder
  Main = main
  Nobody = nobody
  MaxRetries = 1
  CallID = {0, 1}
  NumEntries = 1
INVARIANT
  IInv
PROPERTIES
  ImplementsSyncCall
  Answered
