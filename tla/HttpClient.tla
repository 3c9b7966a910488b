------------------------------ MODULE HttpClient ------------------------------
(***************************************************************************)
(* Plain HTTP requests of a context (request_http_raw, request_http and    *)
(* request_http_bytes in src/context.rs): each waits for a token of the    *)
(* shared bucket and then goes through the transport.  The other waiters   *)
(* of the bucket are CGI requests, whose way is that of ApiContext.        *)
(***************************************************************************)
EXTENDS TokenBucket, Transport

ASSUME WaitersAssumption == Requests \subseteq Waiters

vars == <<limiter, transport>>

Init == LimiterInit /\ TransportInit

\* A call waits for its token.
Call(w) == Ask(w) /\ UNCHANGED transport

Wait(w) == Acquire(w) /\ UNCHANGED transport

\* With the token the request is built and executed: Cookie and User-Agent
\* are data of the kind of request.
Run(r) == waiting[r] = "granted" /\ Proceed(r) /\ UNCHANGED limiter

\* The token may be cancelled at any time, the limiter does not look at it.
CancelCall(r) == waiting[r] # "idle" /\ Cancel(r) /\ UNCHANGED limiter

\* The caller drops the future wherever it is suspended.
DropWaiting(w) == DropWaiter(w) /\ UNCHANGED transport
DropRunning(r) == DropRequest(r) /\ UNCHANGED limiter

Next ==
    \/ \E w \in Waiters : Call(w) \/ Wait(w) \/ DropWaiting(w)
    \/ \E r \in Requests : Run(r) \/ CancelCall(r) \/ DropRunning(r)
    \/ PassTime /\ UNCHANGED transport
    \/ \E o \in Origins : AllowOrigin(o) /\ UNCHANGED limiter

Spec == Init /\ [][Next]_vars

\* The runtime polls every woken future, timers fire, and the network answers
\* or its timeout (TransportConfig::total_timeout) ends the wait.
Fairness ==
    /\ \A w \in Waiters : WF_vars(Wait(w))
    /\ \A r \in Requests : WF_vars(Run(r))
    /\ WF_vars(PassTime /\ UNCHANGED transport)

FairSpec == Spec /\ Fairness

Over(w) == waiting[w] = "dropped" \/ IF w \in Requests THEN pc[w] = "done" ELSE waiting[w] = "granted"

\* Every call ends, for all racing callers of the bucket, late timers, lost
\* answers, redirects and retries.
EveryCallEnds == \A w \in Waiters : waiting[w] = "asking" ~> Over(w)
=============================================================================
