------------------------------ MODULE Transport ------------------------------
(***************************************************************************)
(* The default HTTP transport (src/transport/default_http.rs and the       *)
(* checks of src/transport/mod.rs): a request is sent, redirected hop by   *)
(* hop to validated origins, its body collected up to a limit, and a safe  *)
(* read tried again after a transient failure.  The caller may cancel or   *)
(* drop it at any await.  Addresses are abstracted to their origins,       *)
(* header lists to the fields the redirect rules tell apart.               *)
(***************************************************************************)
EXTENDS Naturals

CONSTANTS
    Requests,      \* concurrent calls of execute
    Kinds,         \* what they may be asked to send, records of Kind
    Origins,       \* scheme, host and port
    ProductionHosts, \* origins allowed by is_allowed_host and https
    Configured,    \* origins allow_origin may be called with
    Statuses,      \* status codes servers answer
    RetryMax,      \* TransportConfig::retry_max
    MaxRedirects,  \* TransportConfig::max_redirects
    NoLimit,       \* max_response_bytes: None
    NoSend,        \* nothing was sent yet
    MaxBody        \* bound: chunks of a response body

Methods == {"GET", "HEAD", "POST", "PUT", "DELETE", "PATCH"}
Kind == [method : Methods, body : BOOLEAN, cookie : {"none", "caller", "empty"},
         token : BOOLEAN, retry : {"SafeRead", "AuthPoll", "Write"},
         redirects : {"FollowValidated", "None"}, limit : Nat \cup {NoLimit},
         origin : Origins]

ASSUME TransportAssumption ==
    /\ Kinds \subseteq Kind
    /\ ProductionHosts \subseteq Origins /\ Configured \subseteq Origins
    /\ Statuses \subseteq Nat
    /\ RetryMax \in Nat /\ MaxRedirects \in Nat /\ MaxBody \in Nat
    /\ NoLimit \notin Nat

VARIABLES
    extras,     \* ReqwestApiTransport::extra_origins
    request,    \* TransportRequest of each call
    cancelled,  \* its cancellation token
    pc,         \* where each call is
    extra,      \* extra_used
    hop,        \* locals of execute_attempt
    result,     \* what execute returned
    wire,       \* history: the last HTTP request put on the wire
    sends,      \* history: how many were
    abroad,     \* history: this attempt has been to another origin
    effects     \* history: how often a server may have carried it out

transport == <<extras, request, cancelled, pc, extra, hop, result, wire, sends,
               abroad, effects>>

-----------------------------------------------------------------------------
\* Data

Hop == [origin : Origins, method : Methods, body : BOOLEAN,
        cookie : {"none", "caller", "empty"}, token : BOOLEAN,
        hops : 0 .. MaxRedirects, status : Statuses \cup {0}, size : 0 .. MaxBody]

\* What a server sees: reqwest adds the cookies of its jar when the request
\* has no Cookie header.
Wire == [origin : Origins, method : Methods, body : BOOLEAN,
         cookie : {"jar", "caller", "empty"}, token : BOOLEAN, abroad : BOOLEAN]

\* Every NetworkErrorKind, and the errors of the transport itself.
NetworkKinds == {"timeout", "connect", "builder", "body", "other"}
Errors == NetworkKinds \cup {"denied", "invalid", "redirect", "too_large", "cancelled"}
Results == {"none", "ok", "dropped"} \cup Errors

\* QmError::is_retryable, for the errors the transport can end with.
IsRetryable(e) == e \in {"timeout", "connect", "body", "other"}

\* is_retryable_status and is_redirect_status
IsRetryableStatus(s) == s = 429 \/ s >= 500
IsRedirectStatus(s) == s \in {301, 302, 303, 307, 308}

RedirectsAsGet(s, m) == s \in 301 .. 303 /\ m \notin {"GET", "HEAD"}

\* validate_url with the extra origins of now.
Validated(o) == o \in ProductionHosts \cup extras

\* The locals at the head of execute_attempt.
FirstHop(k) == [origin |-> k.origin, method |-> k.method, body |-> k.body,
                cookie |-> k.cookie, token |-> k.token,
                hops |-> 0, status |-> 0, size |-> 0]

HasSecretHeaders(h) == h.cookie # "none" \/ h.token

\* Mutant of StripSecretHeaders: the token is forgotten.
StripCookieOnly(h, k) == [h EXCEPT !.cookie = IF k.cookie # "none" THEN "empty" ELSE "none"]

\* strip_secret_headers, and the empty Cookie header that keeps the jar out
\* when the caller gave cookies.
StripSecretHeaders(h, k) ==
    [h EXCEPT !.token = FALSE,
              !.cookie = IF k.cookie # "none" THEN "empty" ELSE "none"]

AsGet(h, s) == IF RedirectsAsGet(s, h.method)
               THEN [h EXCEPT !.method = "GET", !.body = FALSE] ELSE h

MaxExtra(r) == IF request[r].retry = "SafeRead" THEN RetryMax ELSE 0

Goto(r, l) == pc' = [pc EXCEPT ![r] = l]

-----------------------------------------------------------------------------
TransportTypeOK ==
    /\ extras \subseteq Configured
    /\ request \in [Requests -> Kinds]
    /\ cancelled \in [Requests -> BOOLEAN]
    /\ pc \in [Requests -> {"new", "send", "wait", "body", "sleep", "done"}]
    /\ extra \in [Requests -> 0 .. RetryMax]
    /\ hop \in [Requests -> Hop]
    /\ result \in [Requests -> Results]
    /\ wire \in [Requests -> Wire \cup {NoSend}]
    /\ sends \in [Requests -> Nat]
    /\ abroad \in [Requests -> BOOLEAN]
    /\ effects \in [Requests -> Nat]

TransportInit ==
    /\ extras = {}
    /\ request \in [Requests -> Kinds]
    /\ cancelled = [r \in Requests |-> FALSE]
    /\ pc = [r \in Requests |-> "new"]
    /\ extra = [r \in Requests |-> 0]
    /\ hop = [r \in Requests |-> FirstHop(request[r])]
    /\ result = [r \in Requests |-> "none"]
    /\ wire = [r \in Requests |-> NoSend]
    /\ sends = [r \in Requests |-> 0]
    /\ abroad = [r \in Requests |-> FALSE]
    /\ effects = [r \in Requests |-> 0]

-----------------------------------------------------------------------------
\* The ends of an attempt, in the loop of execute

Return(r, outcome) ==
    /\ Goto(r, "done")
    /\ result' = [result EXCEPT ![r] = outcome]
    /\ UNCHANGED extra

Again(r) ==
    /\ extra' = [extra EXCEPT ![r] = @ + 1]
    /\ Goto(r, "sleep")
    /\ UNCHANGED result

\* Mutant of Conclude: any request is tried again.
ConcludeAny(r, outcome, transient) ==
    IF transient /\ extra[r] < RetryMax THEN Again(r) ELSE Return(r, outcome)

\* The four arms of the match on execute_attempt.
Conclude(r, outcome, transient) ==
    IF transient /\ extra[r] < MaxExtra(r) THEN Again(r) ELSE Return(r, outcome)

Fail(r, e) == Conclude(r, e, IsRetryable(e))

-----------------------------------------------------------------------------
\* Actions

\* The head of execute: the address is parsed and validated.
Execute(r) ==
    /\ pc[r] = "new"
    /\ \/ Validated(request[r].origin) /\ Goto(r, "send") /\ UNCHANGED <<extra, result>>
       \/ ~Validated(request[r].origin) /\ Return(r, "denied")
    /\ UNCHANGED <<extras, request, cancelled, hop, wire, sends, abroad, effects>>

OnWire(r) == [origin |-> hop[r].origin, method |-> hop[r].method, body |-> hop[r].body,
              cookie |-> IF hop[r].cookie = "none" THEN "jar" ELSE hop[r].cookie,
              token |-> hop[r].token, abroad |-> abroad[r]]

\* How often a server carries the request out that it received: not at all if
\* a redirect has turned it into another one.
CarriedOut(r, times) == \E n \in IF hop[r].method = request[r].method THEN times ELSE {0} :
                            effects' = [effects EXCEPT ![r] = @ + n]

\* The head of the loop of execute_attempt, and send up to its await.  Each
\* origin was validated when it was chosen, and none is ever taken back.
Send(r) ==
    /\ pc[r] = "send"
    /\ ~cancelled[r]
    /\ Validated(hop[r].origin)
    /\ wire' = [wire EXCEPT ![r] = OnWire(r)]
    /\ sends' = [sends EXCEPT ![r] = @ + 1]
    /\ Goto(r, "wait")
    /\ UNCHANGED <<extras, request, cancelled, extra, hop, result, abroad, effects>>

\* Mutant of SendRefused: a cancelled call still sends its next hop.
SendAnyway(r) ==
    /\ pc[r] = "send" /\ cancelled[r]
    /\ wire' = [wire EXCEPT ![r] = OnWire(r)]
    /\ sends' = [sends EXCEPT ![r] = @ + 1]
    /\ Goto(r, "wait")
    /\ UNCHANGED <<extras, request, cancelled, extra, hop, result, abroad, effects>>

\* The early return of send.
SendRefused(r) ==
    /\ pc[r] = "send"
    /\ cancelled[r]
    /\ Fail(r, "cancelled")
    /\ UNCHANGED <<extras, request, cancelled, hop, wire, sends, abroad, effects>>

\* No answer: whether the server carried the request out is unknown after a
\* timeout or a broken connection, and it did not when none was made.
NoAnswer(r, e) ==
    /\ pc[r] = "wait"
    /\ ~cancelled[r]
    /\ e \in NetworkKinds \ {"body"}
    /\ CarriedOut(r, IF e \in {"timeout", "other"} THEN {0, 1} ELSE {0})
    /\ Fail(r, e)
    /\ UNCHANGED <<extras, request, cancelled, hop, wire, sends, abroad>>

\* An answer that is not a redirect to follow, or has no Location.
Answer(r, s) ==
    /\ pc[r] = "wait"
    /\ ~cancelled[r]
    /\ CarriedOut(r, {1})
    /\ hop' = [hop EXCEPT ![r].status = s]
    /\ Goto(r, "body")
    /\ UNCHANGED <<extras, request, cancelled, extra, result, wire, sends, abroad>>

\* The next hop of a redirect to origin o.
Follow(r, s, o) ==
    LET cross == o # hop[r].origin
        kept  == IF cross THEN StripSecretHeaders(hop[r], request[r]) ELSE hop[r]
    IN  /\ hop' = [hop EXCEPT ![r] = [AsGet(kept, s) EXCEPT !.origin = o, !.hops = @ + 1]]
        /\ abroad' = [abroad EXCEPT ![r] = @ \/ cross]
        /\ Goto(r, "send")
        /\ UNCHANGED <<extra, result>>

\* A redirect with 307 or 308 to another origin would carry body and secrets.
PreservesContent(r, s, o) ==
    o # hop[r].origin /\ s \in {307, 308} /\ (hop[r].body \/ HasSecretHeaders(hop[r]))

TooManyRedirects(r) == hop[r].hops >= MaxRedirects

\* A redirect with a Location that names origin o.
Redirected(r, s, o) ==
    /\ pc[r] = "wait"
    /\ ~cancelled[r]
    /\ request[r].redirects = "FollowValidated" /\ IsRedirectStatus(s)
    /\ \/ TooManyRedirects(r) /\ Fail(r, "redirect") /\ UNCHANGED <<hop, abroad>>
       \/ /\ ~TooManyRedirects(r) /\ ~Validated(o)
          /\ Fail(r, "denied") /\ UNCHANGED <<hop, abroad>>
       \/ /\ ~TooManyRedirects(r) /\ Validated(o) /\ PreservesContent(r, s, o)
          /\ Fail(r, "redirect") /\ UNCHANGED <<hop, abroad>>
       \/ /\ ~TooManyRedirects(r) /\ Validated(o) /\ ~PreservesContent(r, s, o)
          /\ Follow(r, s, o)
    /\ CarriedOut(r, IF RedirectsAsGet(s, hop[r].method) THEN {0, 1} ELSE {0})
    /\ UNCHANGED <<extras, request, cancelled, wire, sends>>

\* One whose Location cannot be parsed.
RedirectedNowhere(r, s) ==
    /\ pc[r] = "wait"
    /\ ~cancelled[r]
    /\ request[r].redirects = "FollowValidated" /\ IsRedirectStatus(s)
    /\ Fail(r, IF TooManyRedirects(r) THEN "redirect" ELSE "invalid")
    /\ CarriedOut(r, IF RedirectsAsGet(s, hop[r].method) THEN {0, 1} ELSE {0})
    /\ UNCHANGED <<extras, request, cancelled, hop, wire, sends, abroad>>

\* A chunk of the body, or a Content-Length, beyond the limit.
TooLarge(r) ==
    /\ pc[r] = "body"
    /\ ~cancelled[r]
    /\ request[r].limit # NoLimit
    /\ Fail(r, "too_large")
    /\ UNCHANGED <<extras, request, cancelled, hop, wire, sends, abroad, effects>>

\* A chunk within the limit.
Chunk(r) ==
    /\ pc[r] = "body"
    /\ ~cancelled[r]
    /\ hop[r].size < MaxBody
    /\ request[r].limit # NoLimit => hop[r].size < request[r].limit
    /\ hop' = [hop EXCEPT ![r].size = @ + 1]
    /\ UNCHANGED <<extras, request, cancelled, pc, extra, result, wire, sends, abroad, effects>>

\* The end of the body: the attempt is a response.
BodyEnds(r) ==
    /\ pc[r] = "body"
    /\ ~cancelled[r]
    /\ Conclude(r, "ok", IsRetryableStatus(hop[r].status))
    /\ UNCHANGED <<extras, request, cancelled, hop, wire, sends, abroad, effects>>

\* The connection fails in the middle of the body.
BodyFails(r, e) ==
    /\ pc[r] = "body"
    /\ ~cancelled[r]
    /\ e \in {"body", "timeout"}
    /\ Fail(r, e)
    /\ UNCHANGED <<extras, request, cancelled, hop, wire, sends, abroad, effects>>

\* The biased select! of send, collect_body and sleep_or_cancel.
Interrupted(r) ==
    /\ pc[r] \in {"wait", "body", "sleep"}
    /\ cancelled[r]
    /\ CarriedOut(r, IF pc[r] = "wait" THEN {0, 1} ELSE {0})
    /\ Return(r, "cancelled")
    /\ UNCHANGED <<extras, request, cancelled, hop, wire, sends, abroad>>

\* After the delay: a new attempt from the start.
Retry(r) ==
    /\ pc[r] = "sleep"
    /\ ~cancelled[r]
    /\ hop' = [hop EXCEPT ![r] = FirstHop(request[r])]
    /\ abroad' = [abroad EXCEPT ![r] = FALSE]
    /\ Goto(r, "send")
    /\ UNCHANGED <<extras, request, cancelled, extra, result, wire, sends, effects>>

\* The caller: cancels the token, drops the future, configures an origin.
Cancel(r) ==
    /\ pc[r] # "done" /\ ~cancelled[r]
    /\ cancelled' = [cancelled EXCEPT ![r] = TRUE]
    /\ UNCHANGED <<extras, request, pc, extra, hop, result, wire, sends, abroad, effects>>

DropRequest(r) ==
    /\ pc[r] \in {"wait", "body", "sleep"}
    /\ CarriedOut(r, IF pc[r] = "wait" THEN {0, 1} ELSE {0})
    /\ Return(r, "dropped")
    /\ UNCHANGED <<extras, request, cancelled, hop, wire, sends, abroad>>

AllowOrigin(o) ==
    /\ o \in Configured \ extras
    /\ extras' = extras \cup {o}
    /\ UNCHANGED <<request, cancelled, pc, extra, hop, result, wire, sends, abroad, effects>>

-----------------------------------------------------------------------------
\* What the transport does by itself once the network answers or gives up.
Proceed(r) ==
    \/ Execute(r) \/ Send(r) \/ SendRefused(r)
    \/ \E e \in NetworkKinds : NoAnswer(r, e) \/ BodyFails(r, e)
    \/ \E s \in Statuses : Answer(r, s) \/ RedirectedNowhere(r, s)
    \/ \E s \in Statuses, o \in Origins : Redirected(r, s, o)
    \/ TooLarge(r) \/ Chunk(r) \/ BodyEnds(r) \/ Interrupted(r) \/ Retry(r)

TransportNext ==
    \/ \E r \in Requests : Proceed(r) \/ Cancel(r) \/ DropRequest(r)
    \/ \E o \in Origins : AllowOrigin(o)

TransportSpec == TransportInit /\ [][TransportNext]_transport

-----------------------------------------------------------------------------
\* Once an attempt has left the origin it was given for, cookies and token of
\* the caller are on no wire any more, not even after it came back
\* (strip_secret_headers).  A body is there only if the caller gave it to a GET
\* or HEAD: that of any other request is refused (307, 308) or dropped with
\* its method (301 to 303).  And a request that came with cookies, an empty
\* header included, never goes out with those of the transport's login jar, on
\* no hop and in no retry ("must not reactivate the transport's ambient login
\* jar", :116).
SecretsStayHome ==
    \A r \in Requests : wire[r] # NoSend =>
        /\ wire[r].abroad => wire[r].cookie # "caller" /\ ~wire[r].token
        /\ wire[r].abroad /\ wire[r].body => request[r].method \in {"GET", "HEAD"}
        /\ request[r].cookie # "none" => wire[r].cookie # "jar"

\* A write or a login poll is carried out at most once, whatever is lost,
\* redirected, cancelled or answered with an error ("Write must not be
\* retried", RetryClass).
WriteAtMostOnce ==
    \A r \in Requests : request[r].retry # "SafeRead" => effects[r] <= 1

\* After cancellation nothing more is sent, and no success is reported.
SilentOnceCancelled ==
    [][\A r \in Requests : cancelled[r] =>
          sends'[r] = sends[r] /\ (result'[r] # result[r] => result'[r] # "ok")]_transport
=============================================================================
