-------------------------- MODULE HttpClient_proofs --------------------------
(***************************************************************************)
(* Proofs about HttpClient, for any number of calls, origins, redirects    *)
(* and retries and for any bucket: where secrets go, that a write is       *)
(* carried out once, the silence after a cancellation, and how many tokens *)
(* a window of time can grant.                                             *)
(***************************************************************************)
EXTENDS HttpClient, Integers, TLAPS

-----------------------------------------------------------------------------
\* The transport: the inductive invariant of one call

\* Where the secrets of a call of kind k are while it is at hop h, with b:
\* it has been to another origin.
HopInv(k, h, b) ==
    /\ h.method # k.method => h.method = "GET" /\ ~h.body
    /\ b => h.cookie # "caller" /\ ~h.token
    /\ b /\ h.body => k.method \in {"GET", "HEAD"}
    /\ k.cookie # "none" => h.cookie # "none"

WireInv(k, w) ==
    w # NoSend =>
        /\ w.abroad => w.cookie # "caller" /\ ~w.token
        /\ w.abroad /\ w.body => k.method \in {"GET", "HEAD"}
        /\ k.cookie # "none" => w.cookie # "jar"

\* A write at place l that was carried out is on its way back, or is no
\* write any more.
OnceInv(k, l, h, n) ==
    k.retry # "SafeRead" =>
        /\ n <= 1 /\ l # "sleep"
        /\ l \in {"new", "send", "wait"} /\ h.method = k.method => n = 0

CallInv(r) ==
    /\ HopInv(request[r], hop[r], abroad[r])
    /\ WireInv(request[r], wire[r])
    /\ OnceInv(request[r], pc[r], hop[r], effects[r])

TransportInv == TransportTypeOK /\ \A r \in Requests : CallInv(r)

Places == {"new", "send", "wait", "body", "sleep", "done"}

\* What the fields of a kind and of a hop are.
LEMMA KindFields ==
    ASSUME NEW k \in Kinds
    PROVE  /\ k \in Kind
           /\ k.method \in Methods /\ k.body \in BOOLEAN /\ k.token \in BOOLEAN
           /\ k.cookie \in {"none", "caller", "empty"} /\ k.origin \in Origins
  BY TransportAssumption DEF Kind

LEMMA HopFields ==
    ASSUME NEW h \in Hop
    PROVE  /\ h.origin \in Origins /\ h.method \in Methods /\ h.body \in BOOLEAN
           /\ h.cookie \in {"none", "caller", "empty"} /\ h.token \in BOOLEAN
           /\ h.hops \in 0 .. MaxRedirects /\ h.status \in Statuses \cup {0}
           /\ h.size \in 0 .. MaxBody
  BY DEF Hop

\* An attempt begins at home with what the caller gave.
LEMMA FirstHopInv ==
    ASSUME NEW k \in Kinds
    PROVE  /\ FirstHop(k) \in Hop /\ HopInv(k, FirstHop(k), FALSE)
           /\ FirstHop(k).method = k.method
  BY KindFields, TransportAssumption DEF FirstHop, Hop, HopInv

\* What leaves for another origin has lost its secrets.
LEMMA StripInv ==
    ASSUME NEW k \in Kinds, NEW h \in Hop
    PROVE  /\ StripSecretHeaders(h, k) \in Hop
           /\ StripSecretHeaders(h, k).cookie \in {"none", "empty"}
           /\ k.cookie # "none" => StripSecretHeaders(h, k).cookie = "empty"
           /\ ~StripSecretHeaders(h, k).token
           /\ StripSecretHeaders(h, k).method = h.method
           /\ StripSecretHeaders(h, k).body = h.body
           /\ StripSecretHeaders(h, k).hops = h.hops
  BY DEF StripSecretHeaders, Hop

\* A redirect that makes a GET of a request takes its body.
LEMMA AsGetInv ==
    ASSUME NEW h \in Hop, NEW s
    PROVE  /\ AsGet(h, s) \in Hop
           /\ AsGet(h, s).cookie = h.cookie /\ AsGet(h, s).token = h.token
           /\ AsGet(h, s).hops = h.hops
           /\ RedirectsAsGet(s, h.method) => AsGet(h, s).method = "GET" /\ ~AsGet(h, s).body
           /\ ~RedirectsAsGet(s, h.method) => AsGet(h, s) = h
<1>1. CASE RedirectsAsGet(s, h.method)
  <2>1. AsGet(h, s) = [h EXCEPT !.method = "GET", !.body = FALSE]
    BY <1>1 DEF AsGet
  <2>2. QED
    BY <1>1, <2>1 DEF Hop, Methods
<1>2. CASE ~RedirectsAsGet(s, h.method)
  BY <1>2 DEF AsGet
<1>3. QED
  BY <1>1, <1>2

\* The hop a redirect with status s to origin o leads to from h.
NextHop(k, h, s, o) ==
    LET kept == IF o # h.origin THEN StripSecretHeaders(h, k) ELSE h
    IN  [AsGet(kept, s) EXCEPT !.origin = o, !.hops = @ + 1]

LEMMA NextHopInv ==
    ASSUME NEW k \in Kinds, NEW h \in Hop, NEW b \in BOOLEAN, NEW s, NEW o \in Origins,
           HopInv(k, h, b), IsRedirectStatus(s), h.hops < MaxRedirects,
           ~(o # h.origin /\ s \in {307, 308} /\ (h.body \/ HasSecretHeaders(h)))
    PROVE  /\ NextHop(k, h, s, o) \in Hop
           /\ HopInv(k, NextHop(k, h, s, o), b \/ o # h.origin)
           /\ RedirectsAsGet(s, h.method) => NextHop(k, h, s, o).method = "GET"
           /\ ~RedirectsAsGet(s, h.method) => NextHop(k, h, s, o).method = h.method
<1>0. DEFINE kept == IF o # h.origin THEN StripSecretHeaders(h, k) ELSE h
             g == AsGet(kept, s)
             n == NextHop(k, h, s, o)
<1>1. /\ kept \in Hop /\ kept.method = h.method /\ kept.body = h.body /\ kept.hops = h.hops
      /\ o = h.origin => kept = h
      /\ o # h.origin => kept.cookie \in {"none", "empty"} /\ ~kept.token
      /\ k.cookie # "none" => kept.cookie # "none"
      /\ b => kept.cookie # "caller" /\ ~kept.token
  BY StripInv DEF HopInv
<1> HIDE DEF kept
<1>2. /\ g \in Hop /\ g.cookie = kept.cookie /\ g.token = kept.token /\ g.hops = kept.hops
      /\ RedirectsAsGet(s, kept.method) => g.method = "GET" /\ ~g.body
      /\ ~RedirectsAsGet(s, kept.method) => g = kept
  BY <1>1, AsGetInv
<1>3. n = [g EXCEPT !.origin = o, !.hops = @ + 1]
  BY DEF NextHop, kept
<1> HIDE DEF g, n
<1>4. g.hops \in Nat /\ g.hops + 1 \in 0 .. MaxRedirects
  BY <1>1, <1>2, HopFields, TransportAssumption
<1>5. /\ n \in Hop /\ n.origin = o /\ n.cookie = g.cookie /\ n.token = g.token
      /\ n.method = g.method /\ n.body = g.body
  BY <1>2, <1>3, <1>4 DEF Hop
<1>6. /\ RedirectsAsGet(s, h.method) => n.method = "GET" /\ ~n.body
      /\ ~RedirectsAsGet(s, h.method) => n.method = h.method /\ n.body = h.body
  BY <1>1, <1>2, <1>5
<1>7. n.method # k.method => n.method = "GET" /\ ~n.body
  BY <1>6 DEF HopInv
<1>8. b \/ o # h.origin => n.cookie # "caller" /\ ~n.token
  BY <1>1, <1>2, <1>5
<1>9. b /\ n.body => k.method \in {"GET", "HEAD"}
  BY <1>6 DEF HopInv
<1>10. o # h.origin /\ n.body => k.method \in {"GET", "HEAD"}
  <2>1. SUFFICES ASSUME o # h.origin, n.body PROVE k.method \in {"GET", "HEAD"}
    OBVIOUS
  <2>2. ~RedirectsAsGet(s, h.method) /\ h.body
    BY <1>6, <2>1
  <2>3. s \notin {307, 308}
    BY <2>1, <2>2
  <2>4. h.method \in {"GET", "HEAD"}
    BY <2>2, <2>3 DEF RedirectsAsGet, IsRedirectStatus
  <2>5. QED
    BY <2>2, <2>4 DEF HopInv
<1>11. k.cookie # "none" => n.cookie # "none"
  BY <1>1, <1>2, <1>5
<1>12. QED
  BY <1>5, <1>6, <1>7, <1>8, <1>9, <1>10, <1>11 DEF HopInv, n

-----------------------------------------------------------------------------
\* The transport: what every step has in common

\* The other calls are as they were.
Others(r) ==
    \A q \in Requests \ {r} :
        /\ pc'[q] = pc[q] /\ hop'[q] = hop[q] /\ abroad'[q] = abroad[q]
        /\ wire'[q] = wire[q] /\ effects'[q] = effects[q]

\* A step of one call that leaves its invariant leaves all.
LEMMA CallStep ==
    ASSUME TransportInv, NEW r \in Requests, TransportTypeOK', request' = request, Others(r),
           HopInv(request[r], hop'[r], abroad'[r]), WireInv(request[r], wire'[r]),
           OnceInv(request[r], pc'[r], hop'[r], effects'[r])
    PROVE  TransportInv'
<1>1. ASSUME NEW q \in Requests PROVE CallInv(q)'
  <2>1. CASE q = r
    BY <2>1 DEF CallInv
  <2>2. CASE q # r
    BY <2>2 DEF TransportInv, CallInv, Others
  <2>3. QED
    BY <2>1, <2>2
<1>2. QED
  BY <1>1 DEF TransportInv

\* The variables of a call.
LEMMA CallTypes ==
    ASSUME TransportTypeOK, NEW r \in Requests
    PROVE  /\ request[r] \in Kinds /\ hop[r] \in Hop /\ abroad[r] \in BOOLEAN
           /\ wire[r] \in Wire \cup {NoSend} /\ effects[r] \in Nat /\ pc[r] \in Places
           /\ extra[r] \in 0 .. RetryMax /\ sends[r] \in Nat
  BY DEF TransportTypeOK, Places

\* What an attempt ends with, unless it is tried again, which a write is not.
LEMMA ConcludeFacts ==
    ASSUME TransportTypeOK, NEW r \in Requests, NEW outcome \in Results,
           NEW transient \in BOOLEAN, Conclude(r, outcome, transient)
    PROVE  /\ \E l \in {"sleep", "done"} :
                /\ pc' = [pc EXCEPT ![r] = l]
                /\ request[r].retry # "SafeRead" => l = "done"
           /\ extra' \in [Requests -> 0 .. RetryMax]
           /\ result' = result \/ result' = [result EXCEPT ![r] = outcome]
           /\ result' \in [Requests -> Results]
<1>1. extra[r] \in 0 .. RetryMax /\ RetryMax \in Nat
  BY TransportAssumption DEF TransportTypeOK
<1>2. CASE transient /\ extra[r] < MaxExtra(r)
  <2>1. Again(r)
    BY <1>2 DEF Conclude
  <2>2. request[r].retry = "SafeRead"
    BY <1>1, <1>2 DEF MaxExtra
  <2>3. extra[r] + 1 \in 0 .. RetryMax
    BY <1>1, <1>2, <2>2 DEF MaxExtra
  <2>4. pc' = [pc EXCEPT ![r] = "sleep"] /\ result' = result
    BY <2>1 DEF Again, Goto
  <2>5. extra' \in [Requests -> 0 .. RetryMax]
    BY <2>1, <2>3 DEF Again, TransportTypeOK
  <2>6. QED
    BY <2>2, <2>4, <2>5 DEF TransportTypeOK
<1>3. CASE ~(transient /\ extra[r] < MaxExtra(r))
  <2>1. Return(r, outcome)
    BY <1>3 DEF Conclude
  <2>2. QED
    BY <2>1 DEF Return, Goto, TransportTypeOK
<1>4. QED
  BY <1>2, <1>3

\* What a server has done: a write only as long as it is one.
LEMMA CarriedFacts ==
    ASSUME TransportTypeOK, NEW r \in Requests, NEW times \in SUBSET {0, 1},
           CarriedOut(r, times)
    PROVE  \E n \in {0, 1} : /\ effects' = [effects EXCEPT ![r] = effects[r] + n]
                             /\ effects[r] + n \in Nat
                             /\ hop[r].method # request[r].method => n = 0
                             /\ times = {0} => n = 0
<1>1. effects[r] \in Nat
  BY DEF TransportTypeOK
<1>2. PICK n \in IF hop[r].method = request[r].method THEN times ELSE {0} :
                 effects' = [effects EXCEPT ![r] = effects[r] + n]
  BY DEF CarriedOut
<1>3. n \in {0, 1} /\ (hop[r].method # request[r].method => n = 0) /\ (times = {0} => n = 0)
  BY <1>2
<1>4. effects[r] + n \in Nat
  BY <1>1, <1>3
<1>5. QED
  BY <1>2, <1>3, <1>4

\* A call that waits for its answer has not been carried out as what it was.
LEMMA OnceThere ==
    ASSUME NEW k, NEW l, NEW h, NEW e \in Nat, NEW n \in {0, 1}, OnceInv(k, l, h, e),
           l \in {"wait", "body", "sleep"},
           l # "wait" \/ h.method # k.method => n = 0
    PROVE  OnceInv(k, "done", h, e + n) /\ OnceInv(k, "body", h, e + n)
<1>1. n \in Nat /\ n <= 1 /\ (n = 0 => e + n = e) /\ (e = 0 => e + n = n) /\ e + n \in Nat
  OBVIOUS
<1>2. QED
  BY <1>1 DEF OnceInv

\* An attempt ends as Conclude says: the call sleeps or is done.
LEMMA EndOfAttempt ==
    ASSUME TransportInv, NEW r \in Requests, NEW outcome \in Results, NEW transient \in BOOLEAN,
           Conclude(r, outcome, transient), NEW n \in {0, 1},
           effects' = [effects EXCEPT ![r] = effects[r] + n], effects[r] + n \in Nat,
           OnceInv(request[r], "done", hop[r], effects[r] + n),
           UNCHANGED <<extras, request, cancelled, hop, wire, sends, abroad>>
    PROVE  TransportInv'
<1>1. PICK l \in {"sleep", "done"} : /\ pc' = [pc EXCEPT ![r] = l]
                                     /\ request[r].retry # "SafeRead" => l = "done"
  BY ConcludeFacts DEF TransportInv
<1>2. extra' \in [Requests -> 0 .. RetryMax] /\ result' \in [Requests -> Results]
  BY ConcludeFacts DEF TransportInv
<1>3. OnceInv(request[r], l, hop[r], effects[r] + n)
  BY <1>1 DEF OnceInv
<1>4. pc' \in [Requests -> Places] /\ pc'[r] = l /\ \A q \in Requests \ {r} : pc'[q] = pc[q]
  BY <1>1 DEF TransportInv, TransportTypeOK, Places
<1>5. /\ effects' \in [Requests -> Nat] /\ effects'[r] = effects[r] + n
      /\ \A q \in Requests \ {r} : effects'[q] = effects[q]
  BY DEF TransportInv, TransportTypeOK
<1>6. TransportTypeOK'
  BY <1>2, <1>4, <1>5 DEF TransportInv, TransportTypeOK, Places
<1>7. Others(r)
  BY <1>4, <1>5 DEF Others
<1>8. HopInv(request[r], hop'[r], abroad'[r]) /\ WireInv(request[r], wire'[r])
  BY DEF TransportInv, CallInv
<1>9. OnceInv(request[r], pc'[r], hop'[r], effects'[r])
  BY <1>3, <1>4, <1>5
<1>10. QED
  BY <1>6, <1>7, <1>8, <1>9, CallStep

\* Nothing is carried out in a step that leaves the server alone.
LEMMA EndQuietly ==
    ASSUME TransportInv, NEW r \in Requests, NEW outcome \in Results, NEW transient \in BOOLEAN,
           Conclude(r, outcome, transient),
           UNCHANGED <<extras, request, cancelled, hop, wire, sends, abroad, effects>>
    PROVE  TransportInv'
<1>1. /\ effects' = [effects EXCEPT ![r] = effects[r] + 0] /\ effects[r] + 0 \in Nat
      /\ effects[r] + 0 = effects[r]
  BY DEF TransportInv, TransportTypeOK
<1>2. OnceInv(request[r], "done", hop[r], effects[r] + 0)
  BY <1>1 DEF TransportInv, CallInv, OnceInv
<1>3. QED
  BY <1>1, <1>2, EndOfAttempt

\* The server may have carried the request out before the attempt ended.
LEMMA EndAfter ==
    ASSUME TransportInv, NEW r \in Requests, NEW outcome \in Results, NEW transient \in BOOLEAN,
           Conclude(r, outcome, transient),
           NEW times \in SUBSET {0, 1}, CarriedOut(r, times),
           pc[r] \in {"wait", "body", "sleep"}, pc[r] # "wait" => times = {0},
           UNCHANGED <<extras, request, cancelled, hop, wire, sends, abroad>>
    PROVE  TransportInv'
<1>1. PICK n \in {0, 1} : /\ effects' = [effects EXCEPT ![r] = effects[r] + n]
                          /\ effects[r] + n \in Nat
                          /\ hop[r].method # request[r].method => n = 0
                          /\ times = {0} => n = 0
  BY CarriedFacts DEF TransportInv
<1>2. OnceInv(request[r], pc[r], hop[r], effects[r]) /\ effects[r] \in Nat
  BY CallTypes DEF TransportInv, CallInv
<1>3. OnceInv(request[r], "done", hop[r], effects[r] + n)
  BY <1>1, <1>2, OnceThere
<1>4. QED
  BY <1>1, <1>3, EndOfAttempt

-----------------------------------------------------------------------------
\* The transport: one lemma per action

LEMMA Retryable == \A e \in Errors : IsRetryable(e) \in BOOLEAN /\ e \in Results
  BY DEF IsRetryable, Errors, NetworkKinds, Results

LEMMA ReturnConcludes ==
    ASSUME NEW r, NEW outcome, Return(r, outcome)
    PROVE  Conclude(r, outcome, FALSE)
  BY DEF Conclude

LEMMA ExecuteInv ==
    ASSUME TransportInv, NEW r \in Requests, Execute(r)
    PROVE  TransportInv'
<1>1. CASE Return(r, "denied")
  <2>1. "denied" \in Results /\ FALSE \in BOOLEAN
    BY DEF Results, Errors
  <2>2. UNCHANGED <<extras, request, cancelled, hop, wire, sends, abroad, effects>>
    BY DEF Execute
  <2>3. QED
    BY <1>1, <2>1, <2>2, ReturnConcludes, EndQuietly
<1>2. CASE Goto(r, "send") /\ UNCHANGED <<extra, result>>
  <2>1. /\ pc' = [pc EXCEPT ![r] = "send"] /\ pc[r] = "new"
        /\ UNCHANGED <<extras, request, cancelled, extra, hop, result, wire, sends, abroad, effects>>
    BY <1>2 DEF Execute, Goto
  <2>2. TransportTypeOK'
    BY <2>1 DEF TransportInv, TransportTypeOK
  <2>3. Others(r) /\ pc'[r] = "send"
    BY <2>1 DEF Others, TransportInv, TransportTypeOK
  <2>4. CallInv(r)
    BY DEF TransportInv
  <2>5. /\ HopInv(request[r], hop'[r], abroad'[r]) /\ WireInv(request[r], wire'[r])
        /\ OnceInv(request[r], pc'[r], hop'[r], effects'[r])
    BY <2>1, <2>3, <2>4 DEF CallInv, OnceInv
  <2>6. QED
    BY <2>1, <2>2, <2>3, <2>5, CallStep
<1>3. QED
  BY <1>1, <1>2 DEF Execute

LEMMA SendInv ==
    ASSUME TransportInv, NEW r \in Requests, Send(r)
    PROVE  TransportInv'
<1>1. /\ pc[r] = "send" /\ pc' = [pc EXCEPT ![r] = "wait"] /\ wire' = [wire EXCEPT ![r] = OnWire(r)]
      /\ sends' = [sends EXCEPT ![r] = @ + 1]
      /\ UNCHANGED <<extras, request, cancelled, extra, hop, result, abroad, effects>>
  BY DEF Send, Goto
<1>2. OnWire(r) \in Wire /\ WireInv(request[r], OnWire(r))
  <2>1. hop[r] \in Hop /\ abroad[r] \in BOOLEAN /\ HopInv(request[r], hop[r], abroad[r])
    BY CallTypes DEF TransportInv, CallInv
  <2>2. QED
    BY <2>1, HopFields DEF OnWire, Wire, WireInv, HopInv
<1>3. sends' \in [Requests -> Nat]
  BY <1>1 DEF TransportInv, TransportTypeOK
<1>4. TransportTypeOK'
  BY <1>1, <1>2, <1>3 DEF TransportInv, TransportTypeOK
<1>5. Others(r) /\ pc'[r] = "wait" /\ wire'[r] = OnWire(r)
  BY <1>1 DEF Others, TransportInv, TransportTypeOK
<1>6. CallInv(r)
  BY DEF TransportInv
<1>7. /\ HopInv(request[r], hop'[r], abroad'[r]) /\ WireInv(request[r], wire'[r])
      /\ OnceInv(request[r], pc'[r], hop'[r], effects'[r])
  BY <1>1, <1>2, <1>5, <1>6 DEF CallInv, OnceInv
<1>8. QED
  BY <1>1, <1>4, <1>5, <1>7, CallStep

\* The ends of an attempt at which the server has done nothing more.
LEMMA QuietInv ==
    ASSUME TransportInv, NEW r \in Requests,
           \/ SendRefused(r) \/ TooLarge(r) \/ BodyEnds(r)
           \/ \E e \in NetworkKinds : BodyFails(r, e)
    PROVE  TransportInv'
<1>1. \E outcome \in Results, transient \in BOOLEAN : Conclude(r, outcome, transient)
  <2>1. CASE SendRefused(r)
    BY <2>1, Retryable DEF SendRefused, Fail, Errors
  <2>2. CASE TooLarge(r)
    BY <2>2, Retryable DEF TooLarge, Fail, Errors
  <2>3. CASE BodyEnds(r)
    <3>1. "ok" \in Results /\ IsRetryableStatus(hop[r].status) \in BOOLEAN
      BY DEF Results, IsRetryableStatus
    <3>2. QED
      BY <2>3, <3>1 DEF BodyEnds
  <2>4. ASSUME NEW e \in NetworkKinds, BodyFails(r, e)
        PROVE  \E outcome \in Results, transient \in BOOLEAN : Conclude(r, outcome, transient)
    BY <2>4, Retryable DEF BodyFails, Fail, Errors
  <2>5. QED
    BY <2>1, <2>2, <2>3, <2>4
<1>2. UNCHANGED <<extras, request, cancelled, hop, wire, sends, abroad, effects>>
  BY DEF SendRefused, TooLarge, BodyEnds, BodyFails
<1>3. QED
  BY <1>1, <1>2, EndQuietly

\* The ends of an attempt that is under way.
LEMMA NoAnswerInv ==
    ASSUME TransportInv, NEW r \in Requests, NEW e \in NetworkKinds, NoAnswer(r, e)
    PROVE  TransportInv'
<1>1. e \in Results /\ IsRetryable(e) \in BOOLEAN /\ Conclude(r, e, IsRetryable(e))
  BY Retryable DEF NoAnswer, Fail, Errors
<1>2. PICK times \in SUBSET {0, 1} : CarriedOut(r, times)
  BY DEF NoAnswer
<1>3. /\ pc[r] = "wait"
      /\ UNCHANGED <<extras, request, cancelled, hop, wire, sends, abroad>>
  BY DEF NoAnswer
<1>4. QED
  BY <1>1, <1>2, <1>3, EndAfter

LEMMA InterruptedInv ==
    ASSUME TransportInv, NEW r \in Requests, Interrupted(r) \/ DropRequest(r)
    PROVE  TransportInv'
<1>1. PICK outcome \in Results : Conclude(r, outcome, FALSE)
  BY ReturnConcludes DEF Interrupted, DropRequest, Results, Errors
<1>2. PICK times \in SUBSET {0, 1} : CarriedOut(r, times) /\ (pc[r] # "wait" => times = {0})
  BY DEF Interrupted, DropRequest
<1>3. /\ pc[r] \in {"wait", "body", "sleep"}
      /\ UNCHANGED <<extras, request, cancelled, hop, wire, sends, abroad>>
  BY DEF Interrupted, DropRequest
<1>4. QED
  BY <1>1, <1>2, <1>3, EndAfter

LEMMA NowhereInv ==
    ASSUME TransportInv, NEW r \in Requests, NEW s \in Statuses, RedirectedNowhere(r, s)
    PROVE  TransportInv'
<1>1. PICK e \in Errors : Fail(r, e)
  BY DEF RedirectedNowhere, Errors
<1>2. e \in Results /\ IsRetryable(e) \in BOOLEAN /\ Conclude(r, e, IsRetryable(e))
  BY <1>1, Retryable DEF Fail
<1>3. PICK times \in SUBSET {0, 1} : CarriedOut(r, times)
  BY DEF RedirectedNowhere
<1>4. /\ pc[r] = "wait"
      /\ UNCHANGED <<extras, request, cancelled, hop, wire, sends, abroad>>
  BY DEF RedirectedNowhere
<1>5. QED
  BY <1>2, <1>3, <1>4, EndAfter

LEMMA AnswerInv ==
    ASSUME TransportInv, NEW r \in Requests, NEW s \in Statuses, Answer(r, s)
    PROVE  TransportInv'
<1>0. DEFINE h == [hop[r] EXCEPT !.status = s]
<1>1. /\ pc[r] = "wait" /\ pc' = [pc EXCEPT ![r] = "body"] /\ hop' = [hop EXCEPT ![r] = h]
      /\ UNCHANGED <<extras, request, cancelled, extra, result, wire, sends, abroad>>
      /\ CarriedOut(r, {1})
  BY DEF Answer, Goto
<1>2. hop[r] \in Hop /\ effects[r] \in Nat /\ CallInv(r)
  BY CallTypes DEF TransportInv
<1>3. /\ h \in Hop /\ h.method = hop[r].method /\ h.body = hop[r].body
      /\ h.cookie = hop[r].cookie /\ h.token = hop[r].token
  BY <1>2 DEF Hop
<1> HIDE DEF h
<1>4. PICK n \in {0, 1} : /\ effects' = [effects EXCEPT ![r] = effects[r] + n]
                          /\ effects[r] + n \in Nat
                          /\ hop[r].method # request[r].method => n = 0
  BY <1>1, CarriedFacts DEF TransportInv
<1>5. OnceInv(request[r], "body", h, effects[r] + n)
  <2>1. OnceInv(request[r], pc[r], hop[r], effects[r])
    BY <1>2 DEF CallInv
  <2>2. OnceInv(request[r], "body", hop[r], effects[r] + n)
    BY <1>1, <1>2, <1>4, <2>1, OnceThere
  <2>3. QED
    BY <1>3, <2>2 DEF OnceInv
<1>6. TransportTypeOK'
  BY <1>1, <1>3, <1>4 DEF TransportInv, TransportTypeOK
<1>7. /\ Others(r) /\ pc'[r] = "body" /\ hop'[r] = h /\ effects'[r] = effects[r] + n
  BY <1>1, <1>4 DEF Others, TransportInv, TransportTypeOK
<1>8. HopInv(request[r], hop'[r], abroad'[r]) /\ WireInv(request[r], wire'[r])
  BY <1>1, <1>2, <1>3, <1>7 DEF CallInv, HopInv
<1>9. QED
  BY <1>1, <1>5, <1>6, <1>7, <1>8, CallStep

\* A chunk of the body changes its size only.
LEMMA ChunkInv ==
    ASSUME TransportInv, NEW r \in Requests, Chunk(r)
    PROVE  TransportInv'
<1>0. DEFINE h == [hop[r] EXCEPT !.size = @ + 1]
<1>1. /\ hop' = [hop EXCEPT ![r] = h] /\ hop[r].size < MaxBody
      /\ UNCHANGED <<extras, request, cancelled, pc, extra, result, wire, sends, abroad, effects>>
  BY DEF Chunk
<1>2. hop[r] \in Hop /\ CallInv(r) /\ hop[r].size \in 0 .. MaxBody
  BY CallTypes, HopFields DEF TransportInv
<1>3. hop[r].size + 1 \in 0 .. MaxBody
  BY <1>1, <1>2, TransportAssumption
<1>4. /\ h \in Hop /\ h.method = hop[r].method /\ h.body = hop[r].body
      /\ h.cookie = hop[r].cookie /\ h.token = hop[r].token
  BY <1>2, <1>3 DEF Hop
<1> HIDE DEF h
<1>5. TransportTypeOK'
  BY <1>1, <1>4 DEF TransportInv, TransportTypeOK
<1>6. Others(r) /\ hop'[r] = h
  BY <1>1 DEF Others, TransportInv, TransportTypeOK
<1>7. /\ HopInv(request[r], hop'[r], abroad'[r]) /\ WireInv(request[r], wire'[r])
      /\ OnceInv(request[r], pc'[r], hop'[r], effects'[r])
  BY <1>1, <1>2, <1>4, <1>6 DEF CallInv, HopInv, OnceInv
<1>8. QED
  BY <1>1, <1>5, <1>6, <1>7, CallStep

\* A new attempt begins at home.
LEMMA RetryInv ==
    ASSUME TransportInv, NEW r \in Requests, Retry(r)
    PROVE  TransportInv'
<1>1. /\ pc[r] = "sleep" /\ pc' = [pc EXCEPT ![r] = "send"]
      /\ hop' = [hop EXCEPT ![r] = FirstHop(request[r])] /\ abroad' = [abroad EXCEPT ![r] = FALSE]
      /\ UNCHANGED <<extras, request, cancelled, extra, result, wire, sends, effects>>
  BY DEF Retry, Goto
<1>2. request[r] \in Kinds /\ CallInv(r)
  BY CallTypes DEF TransportInv
<1>3. FirstHop(request[r]) \in Hop /\ HopInv(request[r], FirstHop(request[r]), FALSE)
  BY <1>2, FirstHopInv
<1>4. TransportTypeOK'
  BY <1>1, <1>3 DEF TransportInv, TransportTypeOK
<1>5. /\ Others(r) /\ pc'[r] = "send" /\ hop'[r] = FirstHop(request[r]) /\ abroad'[r] = FALSE
  BY <1>1 DEF Others, TransportInv, TransportTypeOK
<1>6. OnceInv(request[r], pc'[r], hop'[r], effects'[r])
  BY <1>1, <1>2 DEF CallInv, OnceInv
<1>7. HopInv(request[r], hop'[r], abroad'[r]) /\ WireInv(request[r], wire'[r])
  BY <1>1, <1>2, <1>3, <1>5 DEF CallInv
<1>8. QED
  BY <1>1, <1>4, <1>5, <1>6, <1>7, CallStep

\* A redirect is followed: the next hop is sent.
LEMMA FollowInv ==
    ASSUME TransportInv, NEW r \in Requests, NEW s \in Statuses, NEW o \in Origins,
           pc[r] = "wait", IsRedirectStatus(s), ~TooManyRedirects(r), ~PreservesContent(r, s, o),
           Follow(r, s, o),
           CarriedOut(r, IF RedirectsAsGet(s, hop[r].method) THEN {0, 1} ELSE {0}),
           UNCHANGED <<extras, request, cancelled, wire, sends>>
    PROVE  TransportInv'
<1>0. DEFINE k == request[r]
             h == NextHop(request[r], hop[r], s, o)
             b == abroad[r] \/ o # hop[r].origin
<1>1. /\ hop' = [hop EXCEPT ![r] = h] /\ abroad' = [abroad EXCEPT ![r] = b]
      /\ pc' = [pc EXCEPT ![r] = "send"] /\ UNCHANGED <<extra, result>>
  BY DEF Follow, NextHop, Goto
<1>2. /\ k \in Kinds /\ hop[r] \in Hop /\ abroad[r] \in BOOLEAN /\ effects[r] \in Nat
      /\ CallInv(r) /\ hop[r].hops \in 0 .. MaxRedirects
  BY CallTypes, HopFields DEF TransportInv
<1>3. hop[r].hops < MaxRedirects
  BY <1>2, TransportAssumption DEF TooManyRedirects
<1>4. /\ h \in Hop /\ HopInv(k, h, b)
      /\ RedirectsAsGet(s, hop[r].method) => h.method = "GET"
      /\ ~RedirectsAsGet(s, hop[r].method) => h.method = hop[r].method
  BY <1>2, <1>3, NextHopInv DEF CallInv, PreservesContent
<1>5. b \in BOOLEAN
  OBVIOUS
<1>6. PICK n \in {0, 1} : /\ effects' = [effects EXCEPT ![r] = effects[r] + n]
                          /\ effects[r] + n \in Nat
                          /\ hop[r].method # k.method => n = 0
                          /\ ~RedirectsAsGet(s, hop[r].method) => n = 0
  <2>1. CASE RedirectsAsGet(s, hop[r].method)
    <3>1. CarriedOut(r, {0, 1}) /\ {0, 1} \in SUBSET {0, 1}
      BY <2>1
    <3>2. QED
      BY <2>1, <3>1, CarriedFacts DEF TransportInv
  <2>2. CASE ~RedirectsAsGet(s, hop[r].method)
    <3>1. CarriedOut(r, {0}) /\ {0} \in SUBSET {0, 1}
      BY <2>2
    <3>2. QED
      BY <3>1, CarriedFacts DEF TransportInv
  <2>3. QED
    BY <2>1, <2>2
<1> HIDE DEF k, h, b
<1>7. OnceInv(k, "send", h, effects[r] + n)
  <2>1. SUFFICES ASSUME k.retry # "SafeRead"
        PROVE  effects[r] + n <= 1 /\ (h.method = k.method => effects[r] + n = 0)
    BY DEF OnceInv
  <2>2. /\ effects[r] <= 1 /\ (hop[r].method = k.method => effects[r] = 0)
        /\ hop[r].method \in {k.method, "GET"}
    BY <1>2, <2>1 DEF CallInv, OnceInv, HopInv, k
  <2>3. CASE RedirectsAsGet(s, hop[r].method)
    <3>1. hop[r].method = k.method /\ h.method # k.method /\ effects[r] = 0
      BY <1>4, <2>2, <2>3 DEF RedirectsAsGet
    <3>2. QED
      BY <3>1
  <2>4. CASE ~RedirectsAsGet(s, hop[r].method)
    <3>1. n = 0 /\ h.method = hop[r].method /\ effects[r] + n = effects[r]
      BY <1>2, <1>4, <1>6, <2>4
    <3>2. QED
      BY <2>2, <3>1
  <2>5. QED
    BY <2>3, <2>4
<1>8. TransportTypeOK'
  BY <1>1, <1>4, <1>5, <1>6 DEF TransportInv, TransportTypeOK
<1>9. /\ Others(r) /\ pc'[r] = "send" /\ hop'[r] = h /\ abroad'[r] = b
      /\ effects'[r] = effects[r] + n
  BY <1>1, <1>6 DEF Others, TransportInv, TransportTypeOK
<1>10. WireInv(request[r], wire'[r])
  BY <1>2 DEF CallInv
<1>11. HopInv(request[r], hop'[r], abroad'[r]) /\ OnceInv(request[r], pc'[r], hop'[r], effects'[r])
  BY <1>4, <1>7, <1>9 DEF k
<1>12. QED
  BY <1>8, <1>9, <1>10, <1>11, CallStep

LEMMA RedirectedInv ==
    ASSUME TransportInv, NEW r \in Requests, NEW s \in Statuses, NEW o \in Origins,
           Redirected(r, s, o)
    PROVE  TransportInv'
<1>1. /\ pc[r] = "wait" /\ IsRedirectStatus(s)
      /\ CarriedOut(r, IF RedirectsAsGet(s, hop[r].method) THEN {0, 1} ELSE {0})
      /\ UNCHANGED <<extras, request, cancelled, wire, sends>>
  BY DEF Redirected
<1>2. CASE \E e \in Errors : Fail(r, e) /\ UNCHANGED <<hop, abroad>>
  <2>1. PICK e \in Errors : Fail(r, e) /\ UNCHANGED <<hop, abroad>>
    BY <1>2
  <2>2. e \in Results /\ IsRetryable(e) \in BOOLEAN /\ Conclude(r, e, IsRetryable(e))
    BY <2>1, Retryable DEF Fail
  <2>3. PICK times \in SUBSET {0, 1} : CarriedOut(r, times)
    BY <1>1
  <2>4. QED
    BY <1>1, <2>1, <2>2, <2>3, EndAfter
<1>3. CASE ~TooManyRedirects(r) /\ ~PreservesContent(r, s, o) /\ Follow(r, s, o)
  BY <1>1, <1>3, FollowInv
<1>4. QED
  BY <1>2, <1>3 DEF Redirected, Errors

\* The caller's steps outside of an attempt, and no step at all.
LEMMA CallerInv ==
    ASSUME TransportInv, extras' \subseteq Configured, cancelled' \in [Requests -> BOOLEAN],
           UNCHANGED <<request, pc, extra, hop, result, wire, sends, abroad, effects>>
    PROVE  TransportInv'
  BY DEF TransportInv, TransportTypeOK, CallInv

\* Every step of the transport preserves it.
LEMMA ProceedInv ==
    ASSUME TransportInv, NEW r \in Requests, Proceed(r)
    PROVE  TransportInv'
<1>1. CASE Execute(r) \/ Send(r) \/ Chunk(r) \/ Interrupted(r) \/ Retry(r)
  BY <1>1, ExecuteInv, SendInv, ChunkInv, InterruptedInv, RetryInv
<1>2. CASE \/ SendRefused(r) \/ TooLarge(r) \/ BodyEnds(r)
           \/ \E e \in NetworkKinds : BodyFails(r, e)
  BY <1>2, QuietInv
<1>3. ASSUME NEW e \in NetworkKinds, NoAnswer(r, e) PROVE TransportInv'
  BY <1>3, NoAnswerInv
<1>4. ASSUME NEW s \in Statuses, Answer(r, s) \/ RedirectedNowhere(r, s) PROVE TransportInv'
  BY <1>4, AnswerInv, NowhereInv
<1>5. ASSUME NEW s \in Statuses, NEW o \in Origins, Redirected(r, s, o) PROVE TransportInv'
  BY <1>5, RedirectedInv
<1>6. QED
  BY <1>1, <1>2, <1>3, <1>4, <1>5 DEF Proceed

\* Before the first call.
LEMMA TransportInitInv == TransportInit => TransportInv
<1> SUFFICES ASSUME TransportInit PROVE TransportInv
  OBVIOUS
<1>1. \A r \in Requests : /\ request[r] \in Kinds /\ hop[r] = FirstHop(request[r])
                          /\ pc[r] = "new" /\ abroad[r] = FALSE /\ wire[r] = NoSend
                          /\ effects[r] = 0
  BY DEF TransportInit
<1>2. \A r \in Requests : FirstHop(request[r]) \in Hop
  BY <1>1, FirstHopInv
<1>3. TransportTypeOK
  BY <1>2, TransportAssumption DEF TransportInit, TransportTypeOK, Results
<1>4. ASSUME NEW r \in Requests PROVE CallInv(r)
  <2>1. HopInv(request[r], FirstHop(request[r]), FALSE)
    BY <1>1, FirstHopInv
  <2>2. HopInv(request[r], hop[r], abroad[r])
    BY <1>1, <2>1
  <2>3. WireInv(request[r], wire[r]) /\ OnceInv(request[r], pc[r], hop[r], effects[r])
    BY <1>1 DEF WireInv, OnceInv
  <2>4. QED
    BY <2>2, <2>3 DEF CallInv
<1>5. QED
  BY <1>3, <1>4 DEF TransportInv

LEMMA TransportNextInv == TransportInv /\ [Next]_vars => TransportInv'
<1> SUFFICES ASSUME TransportInv, [Next]_vars PROVE TransportInv'
  OBVIOUS
<1>1. CASE UNCHANGED transport
  BY <1>1, CallerInv DEF transport, TransportInv, TransportTypeOK
<1>2. ASSUME NEW r \in Requests, Run(r) PROVE TransportInv'
  BY <1>2, ProceedInv DEF Run
<1>3. ASSUME NEW r \in Requests, CancelCall(r) PROVE TransportInv'
  <2>1. /\ cancelled' \in [Requests -> BOOLEAN]
        /\ UNCHANGED <<extras, request, pc, extra, hop, result, wire, sends, abroad, effects>>
    BY <1>3 DEF CancelCall, Cancel, TransportInv, TransportTypeOK
  <2>2. QED
    BY <2>1, CallerInv DEF TransportInv, TransportTypeOK
<1>4. ASSUME NEW r \in Requests, DropRunning(r) PROVE TransportInv'
  BY <1>4, InterruptedInv DEF DropRunning
<1>5. ASSUME NEW o \in Origins, AllowOrigin(o) PROVE TransportInv'
  <2>1. /\ extras' \subseteq Configured
        /\ UNCHANGED <<request, cancelled, pc, extra, hop, result, wire, sends, abroad, effects>>
    BY <1>5 DEF AllowOrigin, TransportInv, TransportTypeOK
  <2>2. QED
    BY <2>1, CallerInv DEF TransportInv, TransportTypeOK
<1>6. ASSUME NEW w \in Waiters, Call(w) \/ Wait(w) \/ DropWaiting(w) PROVE UNCHANGED transport
  BY <1>6 DEF Call, Wait, DropWaiting
<1>7. QED
  BY <1>1, <1>2, <1>3, <1>4, <1>5, <1>6 DEF Next, vars

\* Every variable of the transport keeps its type: attempts, hops and bodies
\* stay within the bounds of TransportConfig.
THEOREM TransportTypes == Spec => []TransportTypeOK
<1>1. Init => TransportInv
  BY TransportInitInv DEF Init
<1>2. TransportInv => TransportTypeOK
  BY DEF TransportInv
<1>3. QED
  BY <1>1, <1>2, TransportNextInv, PTL DEF Spec

\* Cookies and tokens stay with the origin they were given for, and so does the
\* body of anything but a GET or HEAD; a caller's cookies keep those of the jar
\* away: for any origins and any number of redirects and retries.
THEOREM SecretsStayHomeHolds == Spec => []SecretsStayHome
<1>1. Init => TransportInv
  BY TransportInitInv DEF Init
<1>2. TransportInv => SecretsStayHome
  BY DEF TransportInv, CallInv, WireInv, SecretsStayHome
<1>3. QED
  BY <1>1, <1>2, TransportNextInv, PTL DEF Spec

\* A write or a login poll is carried out at most once, however many retries
\* reads are allowed.
THEOREM WriteAtMostOnceHolds == Spec => []WriteAtMostOnce
<1>1. Init => TransportInv
  BY TransportInitInv DEF Init
<1>2. TransportInv => WriteAtMostOnce
  BY DEF TransportInv, CallInv, OnceInv, WriteAtMostOnce
<1>3. QED
  BY <1>1, <1>2, TransportNextInv, PTL DEF Spec

Quiet(r) == sends'[r] = sends[r] /\ (result'[r] # result[r] => result'[r] # "ok")

\* A cancelled call sends nothing and ends without an answer.
LEMMA FailQuietly ==
    ASSUME TransportTypeOK, NEW r \in Requests, NEW q \in Requests, NEW e \in Errors,
           Fail(q, e), UNCHANGED sends
    PROVE  Quiet(r)
<1>1. e \in Results /\ IsRetryable(e) \in BOOLEAN /\ Conclude(q, e, IsRetryable(e))
  BY Retryable DEF Fail
<1>2. result' = result \/ result' = [result EXCEPT ![q] = e]
  BY <1>1, ConcludeFacts
<1>3. e # "ok"
  BY DEF Errors, NetworkKinds
<1>4. QED
  BY <1>2, <1>3 DEF Quiet, TransportTypeOK

LEMMA ProceedQuietly ==
    ASSUME TransportTypeOK, NEW r \in Requests, cancelled[r], NEW q \in Requests, Proceed(q)
    PROVE  Quiet(r)
<1>1. CASE Execute(q)
  BY <1>1 DEF Execute, Return, Quiet, TransportTypeOK
<1>2. CASE Send(q)
  BY <1>2 DEF Send, Quiet, TransportTypeOK
<1>3. CASE SendRefused(q)
  BY <1>3, FailQuietly DEF SendRefused, Errors
<1>4. ASSUME NEW e \in NetworkKinds, NoAnswer(q, e) \/ BodyFails(q, e) PROVE Quiet(r)
  BY <1>4, FailQuietly DEF NoAnswer, BodyFails, Errors
<1>5. ASSUME NEW s \in Statuses, Answer(q, s) PROVE Quiet(r)
  BY <1>5 DEF Answer, Quiet
<1>6. ASSUME NEW s \in Statuses, RedirectedNowhere(q, s) PROVE Quiet(r)
  BY <1>6, FailQuietly DEF RedirectedNowhere, Errors
<1>7. ASSUME NEW s \in Statuses, NEW o \in Origins, Redirected(q, s, o) PROVE Quiet(r)
  <2>1. CASE \E e \in Errors : Fail(q, e)
    BY <1>7, <2>1, FailQuietly DEF Redirected
  <2>2. CASE Follow(q, s, o)
    BY <1>7, <2>2 DEF Redirected, Follow, Quiet
  <2>3. QED
    BY <1>7, <2>1, <2>2 DEF Redirected, Errors
<1>8. CASE TooLarge(q)
  BY <1>8, FailQuietly DEF TooLarge, Errors
<1>9. CASE Chunk(q) \/ Retry(q)
  BY <1>9 DEF Chunk, Retry, Quiet
<1>10. CASE BodyEnds(q)
  <2>1. q # r /\ UNCHANGED sends
    BY <1>10 DEF BodyEnds
  <2>2. "ok" \in Results /\ IsRetryableStatus(hop[q].status) \in BOOLEAN
    BY DEF Results, IsRetryableStatus
  <2>3. result' = result \/ result' = [result EXCEPT ![q] = "ok"]
    BY <1>10, <2>2, ConcludeFacts DEF BodyEnds
  <2>4. QED
    BY <2>1, <2>3 DEF Quiet, TransportTypeOK
<1>11. CASE Interrupted(q)
  BY <1>11 DEF Interrupted, Return, Quiet, TransportTypeOK
<1>12. QED
  BY <1>1, <1>2, <1>3, <1>4, <1>5, <1>6, <1>7, <1>8, <1>9, <1>10, <1>11 DEF Proceed

LEMMA StepQuietly ==
    ASSUME TransportTypeOK, [Next]_vars, NEW r \in Requests, cancelled[r]
    PROVE  Quiet(r)
<1>1. CASE UNCHANGED transport
  BY <1>1 DEF transport, Quiet
<1>2. ASSUME NEW q \in Requests, Run(q) PROVE Quiet(r)
  BY <1>2, ProceedQuietly DEF Run
<1>3. ASSUME NEW q \in Requests, CancelCall(q) PROVE Quiet(r)
  BY <1>3 DEF CancelCall, Cancel, Quiet
<1>4. ASSUME NEW q \in Requests, DropRunning(q) PROVE Quiet(r)
  BY <1>4 DEF DropRunning, DropRequest, Return, Quiet, TransportTypeOK
<1>5. ASSUME NEW o \in Origins, AllowOrigin(o) PROVE Quiet(r)
  BY <1>5 DEF AllowOrigin, Quiet
<1>6. ASSUME NEW w \in Waiters, Call(w) \/ Wait(w) \/ DropWaiting(w) PROVE UNCHANGED transport
  BY <1>6 DEF Call, Wait, DropWaiting
<1>7. QED
  BY <1>1, <1>2, <1>3, <1>4, <1>5, <1>6 DEF Next, vars

\* After its cancellation a call sends nothing more and reports no success,
\* wherever it is and whatever the others do.
THEOREM SilentOnceCancelledHolds == Spec => SilentOnceCancelled
<1>1. Init => TransportInv
  BY TransportInitInv DEF Init
<1>2. TransportInv /\ [Next]_vars =>
         [\A r \in Requests : cancelled[r] =>
            sends'[r] = sends[r] /\ (result'[r] # result[r] => result'[r] # "ok")]_transport
  BY StepQuietly DEF TransportInv, Quiet
<1>3. QED
  BY <1>1, <1>2, TransportNextInv, PTL DEF Spec, SilentOnceCancelled

-----------------------------------------------------------------------------
\* The bucket: arithmetic

LEMMA Product == ASSUME NEW a \in Nat, NEW b \in Nat PROVE a * b \in Nat
  OBVIOUS

LEMMA OneMore == ASSUME NEW a \in Int, NEW b \in Int PROVE (a + 1) * b = a * b + b /\ a * b \in Int
  OBVIOUS

LEMMA NoMore == ASSUME NEW a \in Int, NEW b \in Int PROVE (a - a) * b = 0 /\ b * (a - a) = 0
  OBVIOUS

LEMMA AtMostIs ==
    ASSUME NEW a \in Int, NEW b \in Int
    PROVE  /\ AtMost(a, b) \in {a, b} /\ AtMost(a, b) <= a /\ AtMost(a, b) <= b
           /\ a <= b => AtMost(a, b) = a
  BY DEF AtMost

\* One tick later a value capped at f has grown by one tick at most.
LEMMA AtMostGrows ==
    ASSUME NEW a \in Int, NEW f \in Int, NEW d \in Nat
    PROVE  AtMost(a + d, f) <= AtMost(a, f) + d
  BY DEF AtMost

LEMMA Later ==
    ASSUME NEW u \in Int, NEW v \in Nat, NEW f \in Nat, NEW d \in Nat,
           NEW l \in Int, NEW m \in Int, u + l <= f + v, m <= l + d
    PROVE  u + m <= f + (v + d)
  OBVIOUS

-----------------------------------------------------------------------------
\* The bucket: the inductive invariant

\* What LimiterTypeOK says of the bucket itself.
BucketTypes ==
    /\ tokens \in Nat /\ tokens <= Full
    /\ clock \in Nat /\ last \in Nat /\ last <= clock
    /\ grants \in Seq(Nat)
    /\ \A i \in DOMAIN grants : grants[i] \in Nat /\ grants[i] <= clock

BucketInv == BucketTypes /\ Paid /\ WindowRule

LEMMA FullNat == Full \in Nat /\ Unit \in Nat /\ Rate \in Nat
<1>1. Capacity \in Nat /\ Unit \in Nat /\ Rate \in Nat
  BY BucketAssumption
<1>2. QED
  BY <1>1, Product DEF Full

\* The level lies within the bucket, and exceeds what was left in it.
LEMMA LevelFacts ==
    ASSUME BucketTypes
    PROVE  Level \in Nat /\ Level <= Full
<1>1. Full \in Nat /\ Rate \in Nat
  BY FullNat
<1>2. clock - last \in Nat /\ tokens \in Nat
  BY DEF BucketTypes
<1>3. (clock - last) * Rate \in Nat
  BY <1>1, <1>2, Product
<1>4. tokens + (clock - last) * Rate \in Nat
  BY <1>2, <1>3
<1>5. QED
  BY <1>1, <1>4, AtMostIs DEF Level, Refilled

\* A bucket computed just now holds what it was computed to hold.
LEMMA LevelNow ==
    ASSUME NEW t \in Nat, t <= Full, tokens' = t, last' = clock, clock' = clock, clock \in Nat
    PROVE  Level' = t
<1>1. (clock' - last') * Rate = 0
  BY FullNat, NoMore
<1>2. Level' = AtMost(t + 0, Full)
  BY <1>1 DEF Level, Refilled
<1>3. t + 0 = t /\ t \in Int /\ Full \in Int
  BY FullNat
<1>4. QED
  BY <1>2, <1>3, AtMostIs

LEMMA TakeInv ==
    ASSUME BucketInv, NEW w \in Waiters, Take(w)
    PROVE  BucketInv'
<1>1. /\ Level >= Unit /\ tokens' = Level - Unit /\ last' = clock /\ clock' = clock
      /\ grants' = Append(grants, clock)
  BY DEF Take, Level
<1>2. Level \in Nat /\ Level <= Full /\ Unit \in Nat /\ Full \in Nat /\ Rate \in Nat
  BY LevelFacts, FullNat DEF BucketInv
<1>3. Level - Unit \in Nat /\ Level - Unit <= Full
  BY <1>1, <1>2
<1>4. clock \in Nat /\ grants \in Seq(Nat) /\ Len(grants) \in Nat
      /\ \A i \in DOMAIN grants : grants[i] \in Nat /\ grants[i] <= clock
  BY DEF BucketInv, BucketTypes
<1>5. Level' = Level - Unit
  BY <1>1, <1>3, <1>4, LevelNow
<1>6. /\ grants' \in Seq(Nat) /\ Len(grants') = Len(grants) + 1
      /\ DOMAIN grants' = 1 .. Len(grants) + 1 /\ DOMAIN grants = 1 .. Len(grants)
      /\ grants'[Len(grants) + 1] = clock
      /\ \A i \in 1 .. Len(grants) : grants'[i] = grants[i]
  BY <1>1, <1>4
<1>7. BucketTypes'
  <2>1. ASSUME NEW i \in DOMAIN grants' PROVE grants'[i] \in Nat /\ grants'[i] <= clock
    <3>1. CASE i = Len(grants) + 1
      BY <1>4, <1>6, <3>1
    <3>2. CASE i \in 1 .. Len(grants)
      BY <1>4, <1>6, <3>2
    <3>3. QED
      BY <1>4, <1>6, <3>1, <3>2
  <2>2. tokens' \in Nat /\ tokens' <= Full /\ clock' \in Nat /\ last' \in Nat /\ last' <= clock'
    BY <1>1, <1>3, <1>4
  <2>3. QED
    BY <1>1, <1>6, <2>1, <2>2 DEF BucketTypes, Full
<1>8. Paid'
  <2>1. ASSUME NEW i \in DOMAIN grants'
        PROVE  (Len(grants') - i + 1) * Unit + Level' <= Full + Rate * (clock' - grants'[i])
    <3>1. CASE i = Len(grants) + 1
      <4>1. Len(grants') - i + 1 = 1 /\ 1 * Unit = Unit
        BY <1>2, <1>4, <1>6, <3>1
      <4>2. Rate * (clock' - grants'[i]) = 0
        BY <1>1, <1>2, <1>4, <1>6, <3>1, NoMore
      <4>3. QED
        BY <1>2, <1>5, <4>1, <4>2
    <3>2. CASE i \in 1 .. Len(grants)
      <4>1. PICK x \in Int : x = Len(grants) - i + 1
        BY <1>4, <3>2
      <4>2. PICK g \in Nat : g = clock - grants[i]
        BY <1>4, <1>6, <3>2
      <4>3. x * Unit + Level <= Full + Rate * g
        BY <1>6, <3>2, <4>1, <4>2 DEF BucketInv, Paid
      <4>4. Len(grants') - i + 1 = x + 1 /\ clock' - grants'[i] = g
        BY <1>1, <1>4, <1>6, <3>2, <4>1, <4>2
      <4>5. (x + 1) * Unit = x * Unit + Unit /\ x * Unit \in Int /\ Rate * g \in Nat
        BY <1>2, OneMore, Product
      <4>6. x * Unit + Unit + (Level - Unit) <= Full + Rate * g
        BY <1>2, <4>3, <4>5
      <4>7. QED
        BY <1>5, <4>4, <4>5, <4>6
    <3>3. QED
      BY <1>4, <1>6, <3>1, <3>2
  <2>2. QED
    BY <2>1 DEF Paid, Full
<1>9. WindowRule'
  <2>1. ASSUME NEW i \in DOMAIN grants', NEW j \in DOMAIN grants', i <= j
        PROVE  (j - i + 1) * Unit <= Full + Rate * (grants'[j] - grants'[i])
    <3>1. CASE j = Len(grants) + 1
      <4>1. (Len(grants') - i + 1) * Unit + Level' <= Full + Rate * (clock' - grants'[i])
        BY <1>8 DEF Paid, Full
      <4>2. j = Len(grants') /\ grants'[j] = clock'
        BY <1>1, <1>6, <3>1
      <4>3. grants'[i] \in Nat /\ grants'[i] <= clock' /\ clock' \in Nat
        BY <1>7 DEF BucketTypes
      <4>4. PICK x \in Int : x = j - i + 1
        BY <1>4, <1>6
      <4>5. PICK g \in Nat : g = clock' - grants'[i]
        BY <4>3
      <4>6. /\ x * Unit + Level' <= Full + Rate * g
            /\ x * Unit \in Int /\ Rate * g \in Nat
        <5>1. Len(grants') - i + 1 = x /\ clock' - grants'[i] = g
          BY <4>2, <4>4, <4>5
        <5>2. x * Unit + Level' <= Full + Rate * g
          BY <4>1, <5>1
        <5>3. x * Unit \in Int
          BY <1>2, OneMore
        <5>4. Rate * g \in Nat
          BY <1>2, Product
        <5>5. QED
          BY <5>2, <5>3, <5>4
      <4>7. x * Unit <= Full + Rate * g
        BY <1>2, <1>3, <1>5, <4>6
      <4>8. QED
        BY <4>2, <4>4, <4>5, <4>7
    <3>2. CASE j \in 1 .. Len(grants)
      <4>1. i \in 1 .. Len(grants)
        BY <1>4, <1>6, <2>1, <3>2
      <4>2. (j - i + 1) * Unit <= Full + Rate * (grants[j] - grants[i])
        BY <1>6, <2>1, <3>2, <4>1 DEF BucketInv, WindowRule
      <4>3. QED
        BY <1>6, <3>2, <4>1, <4>2
    <3>3. QED
      BY <1>4, <1>6, <3>1, <3>2
  <2>2. QED
    BY <2>1 DEF WindowRule, Full
<1>10. QED
  BY <1>7, <1>8, <1>9 DEF BucketInv

\* Who falls asleep leaves the level as it is.
LEMMA FallAsleepInv ==
    ASSUME BucketInv, NEW w \in Waiters, FallAsleep(w)
    PROVE  BucketInv'
<1>1. tokens' = Level /\ last' = clock /\ clock' = clock /\ grants' = grants
  BY DEF FallAsleep, Level
<1>2. Level \in Nat /\ Level <= Full /\ Full \in Nat /\ clock \in Nat
  BY LevelFacts, FullNat DEF BucketInv, BucketTypes
<1>3. Level' = Level
  BY <1>1, <1>2, LevelNow
<1>4. BucketTypes'
  BY <1>1, <1>2 DEF BucketInv, BucketTypes, Full
<1>5. Paid'
  <2>1. ASSUME NEW i \in DOMAIN grants
        PROVE  (Len(grants) - i + 1) * Unit + Level <= Full + Rate * (clock - grants[i])
    BY DEF BucketInv, Paid
  <2>2. QED
    BY <1>1, <1>3, <2>1 DEF Paid, Full
<1>6. WindowRule'
  BY <1>1 DEF BucketInv, WindowRule, Full
<1>7. QED
  BY <1>4, <1>5, <1>6 DEF BucketInv

\* A tick adds to the level at most what it adds to every window.
LEMMA PassTimeInv ==
    ASSUME BucketInv, PassTime
    PROVE  BucketInv'
<1>1. clock' = clock + 1 /\ tokens' = tokens /\ last' = last /\ grants' = grants
  BY DEF PassTime
<1>2. /\ clock \in Nat /\ tokens \in Nat /\ last \in Nat /\ clock - last \in Nat
      /\ grants \in Seq(Nat) /\ Len(grants) \in Nat /\ DOMAIN grants = 1 .. Len(grants)
      /\ \A i \in DOMAIN grants : grants[i] \in Nat /\ grants[i] <= clock
      /\ Full \in Nat /\ Rate \in Nat /\ Unit \in Nat
  BY FullNat DEF BucketInv, BucketTypes
<1>3. BucketTypes'
  BY <1>1, <1>2 DEF BucketInv, BucketTypes, Full
<1>4. Level \in Nat /\ Level' \in Nat /\ Level' <= Level + Rate
  <2>1. PICK d \in Nat : d = clock - last
    BY <1>2
  <2>2. (d + 1) * Rate = d * Rate + Rate /\ d * Rate \in Nat
    BY <1>2, OneMore, Product
  <2>3. clock' - last' = d + 1
    BY <1>1, <1>2, <2>1
  <2>4. Level' = AtMost(tokens + (d + 1) * Rate, Full) /\ Level = AtMost(tokens + d * Rate, Full)
    BY <1>1, <2>1, <2>3 DEF Level, Refilled, Full
  <2>5. PICK a \in Nat : a = tokens + d * Rate
    BY <1>2, <2>2
  <2>6. tokens + (d + 1) * Rate = a + Rate
    BY <1>2, <2>2, <2>5
  <2>7. Level' <= Level + Rate
    BY <1>2, <2>4, <2>5, <2>6, AtMostGrows
  <2>8. a + Rate \in Int /\ Level' \in {a + Rate, Full} /\ Level \in {a, Full}
    BY <1>2, <2>4, <2>5, <2>6, AtMostIs
  <2>9. QED
    BY <1>2, <2>5, <2>7, <2>8
<1>5. Paid'
  <2>1. ASSUME NEW i \in DOMAIN grants
        PROVE  (Len(grants) - i + 1) * Unit + Level' <= Full + Rate * (clock' - grants[i])
    <3>1. PICK x \in Int : x = Len(grants) - i + 1
      BY <1>2
    <3>2. PICK g \in Nat : g = clock - grants[i]
      BY <1>2
    <3>3. x * Unit + Level <= Full + Rate * g
      BY <3>1, <3>2 DEF BucketInv, Paid
    <3>4. clock' - grants[i] = g + 1
      BY <1>1, <1>2, <3>2
    <3>5. (g + 1) * Rate = g * Rate + Rate
      BY <1>2, OneMore
    <3>6. Rate * (g + 1) = Rate * g + Rate /\ Rate * g \in Nat /\ x * Unit \in Int
      BY <1>2, <3>5, OneMore, Product
    <3>7. PICK u \in Int, v \in Nat : u = x * Unit /\ v = Rate * g
      BY <3>6
    <3>8. u + Level <= Full + v /\ Level' <= Level + Rate
      BY <1>4, <3>3, <3>7
    <3>9. u + Level' <= Full + (v + Rate)
      <4>1. PICK l \in Int, m \in Int : l = Level /\ m = Level'
        BY <1>4
      <4>2. PICK f \in Nat, d \in Nat : f = Full /\ d = Rate
        BY <1>2
      <4>3. u + l <= f + v /\ m <= l + d
        BY <3>8, <4>1, <4>2
      <4>4. u + m <= f + (v + d)
        BY <4>3, Later
      <4>5. QED
        BY <4>1, <4>2, <4>4
    <3>10. Rate * (g + 1) = v + Rate
      BY <3>6, <3>7
    <3>11. QED
      BY <3>1, <3>4, <3>7, <3>9, <3>10
  <2>2. QED
    BY <1>1, <2>1 DEF Paid, Full
<1>6. WindowRule'
  BY <1>1 DEF BucketInv, WindowRule, Full
<1>7. QED
  BY <1>3, <1>5, <1>6 DEF BucketInv

\* A step that does not touch the bucket.
LEMMA BucketStill ==
    ASSUME BucketInv, UNCHANGED <<tokens, last, clock, grants>>
    PROVE  BucketInv'
  BY DEF BucketInv, BucketTypes, Paid, WindowRule, Level, Refilled, Full

LEMMA BucketNextInv == BucketInv /\ [Next]_vars => BucketInv'
<1> SUFFICES ASSUME BucketInv, [Next]_vars PROVE BucketInv'
  OBVIOUS
<1>1. CASE UNCHANGED limiter
  BY <1>1, BucketStill DEF limiter
<1>2. ASSUME NEW w \in Waiters, Call(w) \/ DropWaiting(w) PROVE BucketInv'
  BY <1>2, BucketStill DEF Call, Ask, DropWaiting, DropWaiter
<1>3. ASSUME NEW w \in Waiters, Wait(w) PROVE BucketInv'
  <2>1. CASE WakeUp(w)
    BY <2>1, BucketStill DEF WakeUp
  <2>2. QED
    BY <1>3, <2>1, TakeInv, FallAsleepInv DEF Wait, Acquire
<1>4. CASE PassTime
  BY <1>4, PassTimeInv
<1>5. ASSUME NEW r \in Requests, Run(r) \/ CancelCall(r) \/ DropRunning(r)
      PROVE  UNCHANGED limiter
  BY <1>5 DEF Run, CancelCall, DropRunning
<1>6. QED
  BY <1>1, <1>2, <1>3, <1>4, <1>5 DEF Next, vars

\* The bucket begins full and nothing is granted.
LEMMA BucketInitInv == Init => BucketInv
<1> SUFFICES ASSUME Init PROVE BucketInv
  OBVIOUS
<1>1. tokens = Full /\ clock = 0 /\ last = 0 /\ grants = <<>> /\ Full \in Nat
  BY FullNat DEF Init, LimiterInit
<1>2. QED
  BY <1>1 DEF BucketInv, BucketTypes, Paid, WindowRule

\* No window of time grants more than a full bucket and what the window
\* refills, for any rate, capacity and number of racing callers.
THEOREM WindowRuleHolds == Spec => []WindowRule
<1>1. BucketInv => WindowRule
  BY DEF BucketInv
<1>2. QED
  BY <1>1, BucketInitInv, BucketNextInv, PTL DEF Spec
=============================================================================
