----------------------------- MODULE MCHttpClient -----------------------------
(***************************************************************************)
(* Instances of HttpClient for TLC: the kinds of request the modules of    *)
(* the crate send.                                                         *)
(***************************************************************************)
EXTENDS HttpClient

CONSTANTS home, other, mock, unknown

Base == [method |-> "GET", body |-> FALSE, cookie |-> "none", token |-> FALSE,
         retry |-> "SafeRead", redirects |-> "FollowValidated", limit |-> NoLimit,
         origin |-> home]

\* A CGI read, a CGI write, a download, an upload part, a login poll, an
\* OAuth request with a limit, a request to a host nobody allowed.
CgiRead  == [Base EXCEPT !.method = "POST", !.body = TRUE, !.cookie = "caller"]
CgiWrite == [CgiRead EXCEPT !.retry = "Write"]
Anonymous == [Base EXCEPT !.cookie = "empty"]
Upload   == [Base EXCEPT !.method = "PUT", !.body = TRUE, !.token = TRUE, !.retry = "Write"]
Poll     == [Base EXCEPT !.retry = "AuthPoll", !.redirects = "None"]
Oauth    == [CgiWrite EXCEPT !.limit = 1, !.retry = "AuthPoll"]
Mock     == [CgiRead EXCEPT !.origin = mock]

\* What request_http lets a caller send: a GET with a body, cookies and a token.
GetWithBody == [Base EXCEPT !.body = TRUE, !.cookie = "caller", !.token = TRUE]

AllKinds == {CgiRead, CgiWrite, Anonymous, Upload, Poll, Oauth, Mock, GetWithBody}

\* The bucket is contended while the request is a simple poll; for the other
\* kinds the other callers have given up before.
Scenario ==
    \E r \in Requests :
        waiting = [w \in Waiters |->
            IF request[r] = Poll \/ w \in Requests THEN "idle" ELSE "dropped"]

MCInit ==
    /\ TransportInit
    /\ Scenario
    /\ tokens = Full /\ clock = 0 /\ last = 0
    /\ wake = [w \in Waiters |-> 0]
    /\ grants = <<>>

MCSpec == MCInit /\ [][Next]_vars /\ Fairness
===============================================================================
