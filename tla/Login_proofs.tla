---------------------------- MODULE Login_proofs ----------------------------
(***************************************************************************)
(* Proofs about the logins by a QR code that keep no connection open.      *)
(*   - OAuth, for every set of attempts and every bound: types, the        *)
(*     cookies of an attempt, that a code is not replayed, and the silence *)
(*     after a cancellation.                                               *)
(*   - QrLogin, for every interval, timeout and back-off: the list of      *)
(*     events of a call, and the distance between two polls.               *)
(***************************************************************************)
EXTENDS OAuth, QrLogin, Integers, TLAPS

-----------------------------------------------------------------------------
\* Operators

\* The cookies the server sets belong to the attempt it answers.
LEMMA SetCookiesOwn ==
    ASSUME NEW a \in Attempts
    PROVE  SetCookies(a) \in SUBSET Cookie /\ \A c \in SetCookies(a) : c[2] = a
  BY DEF SetCookies, Cookie

\* Cookies::set replaces values of a name, it invents none.
LEMMA AbsorbedFrom ==
    ASSUME NEW old, NEW new
    PROVE  \A c \in Absorbed(old, new) : c \in old \/ c \in new
  BY DEF Absorbed

\* What the call of an attempt is doing, and where an answer leads it.
Successors ==
    {<<"create", "idle">>, <<"artwork", "idle">>, <<"poll", "idle">>, <<"poll", "check_sig">>,
     <<"check_sig", "authorize">>, <<"authorize", "exchange">>, <<"exchange", "publish">>}

LEMMA AcceptedAnswers ==
    ASSUME NEW a, \/ QrCreated(a) \/ ArtworkArrived(a) \/ StillWaiting(a) \/ UserConfirmed(a)
                  \/ SigChecked(a) \/ CodeGranted(a) \/ CodeExchanged(a)
    PROVE  \E next : Accept(a, next) /\ <<step[a], next>> \in Successors
<1>1. CASE QrCreated(a)
  BY <1>1 DEF QrCreated, Successors
<1>2. CASE ArtworkArrived(a)
  BY <1>2 DEF ArtworkArrived, Successors
<1>3. CASE StillWaiting(a)
  BY <1>3 DEF StillWaiting, Successors
<1>4. CASE UserConfirmed(a)
  BY <1>4 DEF UserConfirmed, Successors
<1>5. CASE SigChecked(a)
  BY <1>5 DEF SigChecked, Successors
<1>6. CASE CodeGranted(a)
  BY <1>6 DEF CodeGranted, Successors
<1>7. CASE CodeExchanged(a)
  BY <1>7 DEF CodeExchanged, Successors
<1>8. QED
  BY <1>1, <1>2, <1>3, <1>4, <1>5, <1>6, <1>7

-----------------------------------------------------------------------------
\* The inductive invariant

\* A call has its own cookies, and those of its step only; what is on the
\* wire was sent with them.
CookiesInv ==
    \A a \in Attempts :
        /\ \A c \in cookies[a] : c[2] = a
        /\ step[a] \in {"create", "artwork"} => cookies[a] = {}
        /\ step[a] = "poll" => cookies[a] = {<<"qrsig", a>>}
        /\ asked[a] => step[a] \in Steps /\ header[a] \in {{}, cookies[a]}
        /\ asked[a] /\ step[a] = "poll" => header[a] = cookies[a]

\* A request begins unsent and as it was given; only a step that follows
\* redirects changes it.  The code goes out once, and once more per redirect.
SendsInv ==
    \A a \in Attempts :
        /\ step[a] \notin Steps => sends[a] = 0 /\ redirects[a] = 0
        /\ form[a] # "given" => Follows(step[a])
        /\ step[a] = "exchange" => sends[a] <= redirects[a] + 1
        /\ step[a] = "exchange" /\ ~asked[a] /\ form[a] = "given" => sends[a] <= redirects[a]

OAuthInv == OAuthTypeOK /\ CookiesInv /\ SendsInv

\* It holds before any window of the client is opened.
THEOREM InitInv == OAuthInit => OAuthInv
  BY OAuthAssumption DEF OAuthInit, OAuthInv, OAuthTypeOK, CookiesInv, SendsInv, Steps, Follows

\* The ways a call begins.
LEMMA StartInv ==
    ASSUME OAuthInv, NEW a \in Attempts, NEW first \in Steps, NEW initial \in SUBSET Cookie,
           \A c \in initial : c[2] = a,
           first \in {"create", "artwork"} => initial = {},
           first = "poll" => initial = {<<"qrsig", a>>},
           Start(a, first, initial)
    PROVE  OAuthInv'
<1>1. OAuthTypeOK'
  BY OAuthAssumption DEF OAuthInv, OAuthTypeOK, Start, running
<1>2. CookiesInv'
  BY DEF OAuthInv, OAuthTypeOK, CookiesInv, Start, Steps
<1>3. SendsInv'
  BY DEF OAuthInv, OAuthTypeOK, CookiesInv, SendsInv, Start, Steps, Follows, running
<1>4. QED
  BY <1>1, <1>2, <1>3 DEF OAuthInv

LEMMA CallInv ==
    ASSUME OAuthInv, NEW a \in Attempts,
           CreateDesktopQr(a) \/ DownloadArtwork(a) \/ PollDesktopQr(a) \/ ExchangeOAuthCode(a)
    PROVE  OAuthInv'
<1>1. CASE CreateDesktopQr(a)
  BY <1>1, StartInv DEF CreateDesktopQr, Steps
<1>2. CASE DownloadArtwork(a)
  BY <1>2, StartInv DEF DownloadArtwork, Steps
<1>3. CASE PollDesktopQr(a)
  <2>1. {<<"qrsig", a>>} \in SUBSET Cookie /\ \A c \in {<<"qrsig", a>>} : c[2] = a
    BY DEF Cookie
  <2>2. QED
    BY <1>3, <2>1, StartInv DEF PollDesktopQr, Steps
<1>4. CASE ExchangeOAuthCode(a)
  <2>1. {<<"browser", a>>} \in SUBSET Cookie /\ \A c \in {<<"browser", a>>} : c[2] = a
    BY DEF Cookie
  <2>2. PICK initial \in {{}, {<<"browser", a>>}} : Start(a, "exchange", initial)
    BY <1>4 DEF ExchangeOAuthCode
  <2>3. initial \in SUBSET Cookie /\ \A c \in initial : c[2] = a
    BY <2>1, <2>2
  <2>4. QED
    BY <2>2, <2>3, StartInv DEF Steps
<1>5. QED
  BY <1>1, <1>2, <1>3, <1>4

\* A call that returns leaves nothing of its request.
LEMMA ReturnInv ==
    ASSUME OAuthInv, NEW a \in Attempts, Return(a),
           asked' \in [Attempts -> BOOLEAN], jar' \subseteq Cookie, sessions' \subseteq Attempts,
           stop' \in [Attempts -> BOOLEAN], ~asked'[a],
           \A b \in Attempts \ {a} : asked'[b] = asked[b],
           UNCHANGED <<qrsig, calls, header>>
    PROVE  OAuthInv'
<1>1. OAuthTypeOK'
  <2>1. 0 \in 0 .. ReadRetries /\ 0 \in 0 .. MaxRedirects /\ 0 \in Nat
    BY OAuthAssumption
  <2>2. /\ step' \in [Attempts -> Steps \cup {"idle", "publish"}]
        /\ cookies' \in [Attempts -> SUBSET Cookie]
    BY DEF OAuthInv, OAuthTypeOK, Return
  <2>3. /\ extra' \in [Attempts -> 0 .. ReadRetries] /\ redirects' \in [Attempts -> 0 .. MaxRedirects]
        /\ form' \in [Attempts -> {"given", "get", "bare"}] /\ sends' \in [Attempts -> Nat]
    BY <2>1 DEF OAuthInv, OAuthTypeOK, Return, NewRequest
  <2>4. QED
    BY <2>2, <2>3 DEF OAuthInv, OAuthTypeOK
<1>2. CookiesInv'
  BY DEF OAuthInv, OAuthTypeOK, CookiesInv, Return, Steps
<1>3. SendsInv'
  BY DEF OAuthInv, OAuthTypeOK, SendsInv, Return, NewRequest, Steps, Follows
<1>4. QED
  BY <1>1, <1>2, <1>3 DEF OAuthInv

LEMMA SendInv ==
    ASSUME OAuthInv, NEW a \in Attempts, SendRequest(a)
    PROVE  OAuthInv'
<1>1. CASE stop[a]
  <2>1. /\ Return(a) /\ ~asked[a] /\ asked' = asked /\ stop' = stop /\ jar' = jar
        /\ sessions' = sessions /\ UNCHANGED <<qrsig, calls, header>>
    BY <1>1 DEF SendRequest
  <2>2. QED
    BY <2>1, ReturnInv DEF OAuthInv, OAuthTypeOK
<1>2. CASE ~stop[a]
  <2>1. /\ step[a] \in Steps /\ ~asked[a]
        /\ asked' = [asked EXCEPT ![a] = TRUE]
        /\ header' = [header EXCEPT ![a] = CookieHeader(a)]
        /\ UNCHANGED <<step, cookies, qrsig, stop, extra, redirects, form, calls, jar, sessions>>
    BY <1>2 DEF SendRequest
  <2> DEFINE n == IF form[a] = "given" THEN 1 ELSE 0
  <2>2. sends' = [sends EXCEPT ![a] = sends[a] + n] /\ n \in {0, 1} /\ (form[a] # "given" => n = 0)
    BY <1>2 DEF SendRequest
  <2> HIDE DEF n
  <2>3. CookieHeader(a) \in {{}, cookies[a]} /\ (form[a] = "given" => CookieHeader(a) = cookies[a])
    BY DEF CookieHeader
  <2>4. sends[a] \in Nat /\ redirects[a] \in Nat /\ cookies[a] \in SUBSET Cookie
    BY OAuthAssumption DEF OAuthInv, OAuthTypeOK
  <2>5. OAuthTypeOK'
    <3>1. sends' \in [Attempts -> Nat]
      <4>1. sends[a] + n \in Nat
        BY <2>2, <2>4
      <4>2. QED
        BY <2>2, <4>1 DEF OAuthInv, OAuthTypeOK
    <3>2. header' \in [Attempts -> SUBSET Cookie] /\ asked' \in [Attempts -> BOOLEAN]
      BY <2>1, <2>3, <2>4 DEF OAuthInv, OAuthTypeOK
    <3>3. QED
      BY <2>1, <3>1, <3>2 DEF OAuthInv, OAuthTypeOK
  <2>6. CookiesInv'
    BY <2>1, <2>3 DEF OAuthInv, OAuthTypeOK, CookiesInv, SendsInv, Follows
  <2>7. SendsInv'
    <3>1. /\ sends'[a] = sends[a] + n /\ asked'[a]
          /\ \A b \in Attempts \ {a} : sends'[b] = sends[b] /\ asked'[b] = asked[b]
      BY <2>1, <2>2 DEF OAuthInv, OAuthTypeOK
    <3>2. step[a] = "exchange" => sends[a] + n <= redirects[a] + 1
      BY <2>1, <2>2, <2>4 DEF OAuthInv, SendsInv
    <3>3. QED
      BY <2>1, <3>1, <3>2 DEF OAuthInv, SendsInv
  <2>8. QED
    BY <2>5, <2>6, <2>7 DEF OAuthInv
<1>3. QED
  BY <1>1, <1>2

LEMMA NoAnswerInv ==
    ASSUME OAuthInv, NEW a \in Attempts, NoAnswerCame(a)
    PROVE  OAuthInv'
<1>0. asked' = [asked EXCEPT ![a] = FALSE] /\ UNCHANGED <<qrsig, stop, calls, jar, header, sessions>>
  BY DEF NoAnswerCame
<1>1. CASE Return(a)
  BY <1>0, <1>1, ReturnInv DEF OAuthInv, OAuthTypeOK
<1>2. CASE ~Return(a)
  <2>1. /\ extra[a] < Replays(step[a])
        /\ extra' = [extra EXCEPT ![a] = @ + 1]
        /\ redirects' = [redirects EXCEPT ![a] = 0]
        /\ form' = [form EXCEPT ![a] = "given"]
        /\ UNCHANGED <<step, cookies, sends>> /\ asked[a]
    BY <1>2 DEF NoAnswerCame
  <2>2. Replays(step[a]) \in Nat /\ Replays(step[a]) <= ReadRetries
        /\ (step[a] = "exchange" => Replays(step[a]) = 0)
    BY OAuthAssumption DEF Replays
  <2>3. extra[a] \in Nat /\ step[a] # "exchange" /\ extra[a] + 1 \in 0 .. ReadRetries
    BY <2>1, <2>2, OAuthAssumption DEF OAuthInv, OAuthTypeOK
  <2>4. OAuthTypeOK'
    BY <1>0, <2>1, <2>3, OAuthAssumption DEF OAuthInv, OAuthTypeOK
  <2>5. CookiesInv'
    BY <1>0, <2>1 DEF OAuthInv, OAuthTypeOK, CookiesInv
  <2>6. SendsInv'
    BY <1>0, <2>1, <2>3 DEF OAuthInv, OAuthTypeOK, CookiesInv, SendsInv
  <2>7. QED
    BY <2>4, <2>5, <2>6 DEF OAuthInv
<1>3. QED
  BY <1>1, <1>2

LEMMA RedirectedInv ==
    ASSUME OAuthInv, NEW a \in Attempts, Redirected(a)
    PROVE  OAuthInv'
<1>1. jar' \subseteq Cookie
  BY SetCookiesOwn, AbsorbedFrom DEF OAuthInv, OAuthTypeOK, Redirected
<1>2. PICK f \in Redirections(step[a], form[a]) : form' = [form EXCEPT ![a] = f]
  BY DEF Redirected
<1>3. f \in {"given", "get", "bare"} /\ (f = "given" => form[a] = "given")
  BY <1>2 DEF Redirections, OAuthInv, OAuthTypeOK
<1>4. /\ asked[a] /\ Follows(step[a]) /\ redirects[a] < MaxRedirects
      /\ asked' = [asked EXCEPT ![a] = FALSE] /\ redirects' = [redirects EXCEPT ![a] = @ + 1]
      /\ UNCHANGED <<step, cookies, qrsig, stop, extra, sends, calls, header, sessions>>
  BY DEF Redirected
<1>5. redirects[a] \in Nat /\ redirects[a] + 1 \in 0 .. MaxRedirects
  BY <1>4, OAuthAssumption DEF OAuthInv, OAuthTypeOK
<1>6. OAuthTypeOK'
  BY <1>1, <1>2, <1>3, <1>4, <1>5 DEF OAuthInv, OAuthTypeOK
<1>7. CookiesInv'
  BY <1>4 DEF OAuthInv, OAuthTypeOK, CookiesInv
<1>8. SendsInv'
  <2>1. sends[a] \in Nat /\ step[a] \in Steps
    BY <1>4 DEF OAuthInv, OAuthTypeOK, CookiesInv
  <2>2. QED
    BY <1>2, <1>4, <1>5, <2>1 DEF OAuthInv, OAuthTypeOK, SendsInv
<1>9. QED
  BY <1>6, <1>7, <1>8 DEF OAuthInv

LEMMA BadAnswerInv ==
    ASSUME OAuthInv, NEW a \in Attempts, BadAnswer(a)
    PROVE  OAuthInv'
<1>1. jar' \subseteq Cookie
  BY SetCookiesOwn, AbsorbedFrom DEF OAuthInv, OAuthTypeOK, BadAnswer
<1>2. QED
  BY <1>1, ReturnInv DEF OAuthInv, OAuthTypeOK, BadAnswer

LEMMA AcceptInv ==
    ASSUME OAuthInv, NEW a \in Attempts, NEW next, <<step[a], next>> \in Successors,
           Accept(a, next)
    PROVE  OAuthInv'
<1>0. next \in {"idle", "check_sig", "authorize", "exchange", "publish"}
  BY DEF Successors
<1>1. /\ Absorbed(jar, SetCookies(a)) \subseteq Cookie
      /\ Absorbed(cookies[a], SetCookies(a)) \subseteq Cookie
      /\ \A c \in Absorbed(cookies[a], SetCookies(a)) : c[2] = a
  BY SetCookiesOwn, AbsorbedFrom DEF OAuthInv, OAuthTypeOK, CookiesInv
<1>2. /\ asked' = [asked EXCEPT ![a] = FALSE] /\ jar' \subseteq Cookie
      /\ UNCHANGED <<stop, calls, header, sessions>>
  BY <1>1 DEF Accept
<1>3. CASE Return(a) /\ UNCHANGED qrsig
  BY <1>2, <1>3, ReturnInv DEF OAuthInv, OAuthTypeOK
<1>4. CASE ~(Return(a) /\ UNCHANGED qrsig)
  <2>1. /\ step' = [step EXCEPT ![a] = next]
        /\ cookies' = [cookies EXCEPT ![a] =
             IF next = "idle" THEN {} ELSE Absorbed(cookies[a], SetCookies(a))]
        /\ qrsig' = [qrsig EXCEPT ![a] = qrsig[a] \/ step[a] = "create"]
        /\ NewRequest(a)
    BY <1>4 DEF Accept
  <2>2. OAuthTypeOK'
    BY <1>0, <1>1, <1>2, <2>1, OAuthAssumption DEF OAuthInv, OAuthTypeOK, NewRequest, Steps
  <2>3. CookiesInv'
    BY <1>0, <1>1, <1>2, <2>1 DEF OAuthInv, OAuthTypeOK, CookiesInv, Steps
  <2>4. SendsInv'
    BY <1>0, <1>2, <2>1 DEF OAuthInv, OAuthTypeOK, SendsInv, NewRequest
  <2>5. QED
    BY <2>2, <2>3, <2>4 DEF OAuthInv
<1>5. QED
  BY <1>3, <1>4

LEMMA PublishInv ==
    ASSUME OAuthInv, NEW a \in Attempts, Publish(a) \/ DropAttempt(a) \/ CancelAttempt(a)
    PROVE  OAuthInv'
<1>1. CASE Publish(a)
  <2>1. ~asked[a]
    BY <1>1 DEF Publish, OAuthInv, CookiesInv, Steps
  <2>2. QED
    BY <1>1, <2>1, ReturnInv DEF OAuthInv, OAuthTypeOK, Publish
<1>2. CASE DropAttempt(a)
  BY <1>2, ReturnInv DEF OAuthInv, OAuthTypeOK, DropAttempt
<1>3. CASE CancelAttempt(a)
  BY <1>3 DEF OAuthInv, OAuthTypeOK, CookiesInv, SendsInv, CancelAttempt, running
<1>4. QED
  BY <1>1, <1>2, <1>3

\* Every step of every attempt preserves it.
THEOREM NextInv == OAuthInv /\ [OAuthNext]_oauth => OAuthInv'
<1> SUFFICES ASSUME OAuthInv, [OAuthNext]_oauth PROVE OAuthInv'
  OBVIOUS
<1>1. CASE UNCHANGED oauth
  BY <1>1 DEF OAuthInv, OAuthTypeOK, CookiesInv, SendsInv, oauth, running
<1>2. ASSUME NEW a \in Attempts,
             CreateDesktopQr(a) \/ DownloadArtwork(a) \/ PollDesktopQr(a) \/ ExchangeOAuthCode(a)
      PROVE  OAuthInv'
  BY <1>2, CallInv
<1>3. ASSUME NEW a \in Attempts, Works(a) PROVE OAuthInv'
  <2>1. CASE SendRequest(a)
    BY <2>1, SendInv
  <2>2. CASE NoAnswerCame(a)
    BY <2>2, NoAnswerInv
  <2>3. CASE BadAnswer(a)
    BY <2>3, BadAnswerInv
  <2>4. CASE Publish(a)
    BY <2>4, PublishInv
  <2>5. CASE \/ QrCreated(a) \/ ArtworkArrived(a) \/ StillWaiting(a) \/ UserConfirmed(a)
             \/ SigChecked(a) \/ CodeGranted(a) \/ CodeExchanged(a)
    BY <2>5, AcceptedAnswers, AcceptInv
  <2>6. CASE Redirected(a)
    BY <2>6, RedirectedInv
  <2>7. QED
    BY <1>3, <2>1, <2>2, <2>3, <2>4, <2>5, <2>6 DEF Works
<1>4. ASSUME NEW a \in Attempts, CancelAttempt(a) \/ DropAttempt(a) PROVE OAuthInv'
  BY <1>4, PublishInv
<1>5. QED
  BY <1>1, <1>2, <1>3, <1>4 DEF OAuthNext

-----------------------------------------------------------------------------
\* Every variable keeps its type; no request is replayed more often than the
\* transport may.
THEOREM OAuthTypes == OAuthSpec => []OAuthTypeOK
<1>1. OAuthInv => OAuthTypeOK
  BY DEF OAuthInv
<1>2. QED
  BY <1>1, InitInv, NextInv, PTL DEF OAuthSpec

\* No request of an attempt carries a cookie of another attempt, for any
\* number of windows, and a poll carries nothing but its qrsig.
THEOREM OnlyOwnCookiesHolds == OAuthSpec => []OnlyOwnCookies
<1>1. OAuthInv => OnlyOwnCookies
  BY DEF OAuthInv, CookiesInv, OnlyOwnCookies
<1>2. QED
  BY <1>1, InitInv, NextInv, PTL DEF OAuthSpec

\* A code is sent again only where a redirect asked for it, for any number of
\* redirects and of retries of reads.
THEOREM CodeNotReplayedHolds == OAuthSpec => []CodeNotReplayed
<1>1. OAuthInv => CodeNotReplayed
  BY DEF OAuthInv, SendsInv, CodeNotReplayed
<1>2. QED
  BY <1>1, InitInv, NextInv, PTL DEF OAuthSpec

Silent(a) ==
    /\ a \in sessions' => a \in sessions
    /\ sends'[a] <= sends[a]
    /\ asked'[a] => asked[a]

\* One step of one attempt leaves the others, and itself once cancelled, silent.
LEMMA StepSilent ==
    ASSUME OAuthTypeOK, [OAuthNext]_oauth, NEW b \in Attempts, stop[b]
    PROVE  Silent(b)
<1>1. CASE UNCHANGED oauth
  BY <1>1 DEF Silent, oauth, running, OAuthTypeOK
<1>2. ASSUME NEW a \in Attempts,
             CreateDesktopQr(a) \/ DownloadArtwork(a) \/ PollDesktopQr(a) \/ ExchangeOAuthCode(a)
      PROVE  Silent(b)
  BY <1>2 DEF CreateDesktopQr, DownloadArtwork, PollDesktopQr, ExchangeOAuthCode, Start, Silent,
              OAuthTypeOK, running
<1>3. ASSUME NEW a \in Attempts, Works(a) PROVE Silent(b)
  <2>1. CASE SendRequest(a)
    BY <2>1 DEF SendRequest, Return, NewRequest, Silent, OAuthTypeOK
  <2>2. CASE NoAnswerCame(a) \/ Redirected(a) \/ BadAnswer(a) \/ Publish(a)
    BY <2>2 DEF NoAnswerCame, Redirected, BadAnswer, Publish, Return, NewRequest, Silent, OAuthTypeOK
  <2>3. ASSUME NEW next, Accept(a, next) PROVE Silent(b)
    BY <2>3 DEF Accept, Return, NewRequest, Silent, OAuthTypeOK
  <2>4. QED
    BY <1>3, <2>1, <2>2, <2>3, AcceptedAnswers DEF Works
<1>4. ASSUME NEW a \in Attempts, CancelAttempt(a) \/ DropAttempt(a) PROVE Silent(b)
  BY <1>4 DEF CancelAttempt, DropAttempt, Return, NewRequest, Silent, OAuthTypeOK, running
<1>5. QED
  BY <1>1, <1>2, <1>3, <1>4 DEF OAuthNext

\* After its cancellation an attempt sends nothing new and publishes no
\* session, wherever in its requests the cancellation falls.
THEOREM SilentAfterCancelHolds == OAuthSpec => SilentAfterCancel
<1>1. OAuthInv /\ [OAuthNext]_oauth =>
         [\A a \in Attempts : stop[a] =>
            /\ a \in sessions' => a \in sessions
            /\ sends'[a] <= sends[a]
            /\ asked'[a] => asked[a]]_oauth
  BY StepSilent DEF OAuthInv, Silent
<1>2. QED
  BY <1>1, InitInv, NextInv, PTL DEF OAuthSpec, SilentAfterCancel

-----------------------------------------------------------------------------
\* QrLogin: the inductive invariant

\* A request is on its way.
Busy == qrPc = "poll" \/ Exchanging

\* The types the proofs need: 2 ^ n is an integer to the provers, no more.
QrTypes ==
    /\ setup.repeat \in BOOLEAN
    /\ deadline \in Int \cup {NoTime}
    /\ lastEvent \in Events \cup {NoEvent}
    /\ needInterval \in BOOLEAN
    /\ qrPc \in {"idle", "fetch", "head", "pause", "backoff", "poll",
                "check_sig", "authorize", "login"}
    /\ mode \in {"next", "iter"}
    /\ events \in Seq(Events)
    /\ wakeAt \in Int /\ qrClock \in Nat /\ notBefore \in Int
    /\ errorRetries \in Nat

\* A call that runs has collected no terminal event; next_event has collected
\* none at all, and the last event of iter_events is the one it remembers.
CollectInv ==
    /\ qrPc # "idle" =>
          /\ outcome = "none"
          /\ \A i \in DOMAIN events : events[i] \notin Terminal
          /\ mode = "next" => events = <<>>
          /\ mode = "iter" /\ events # <<>> => lastEvent = events[Len(events)]
    /\ \A i \in 1 .. Len(events) - 1 :
          /\ events[i] \notin Terminal
          /\ setup.repeat \/ events[i] # events[i + 1]
    /\ mode = "iter" /\ outcome = "ok" => events # <<>> /\ events[Len(events)] \in Terminal

\* The pause that is due ends no earlier than the server allows, or with the
\* time of the login; without one the server may be asked.
PauseInv ==
    /\ qrPc \notin {"idle", "fetch"} => deadline # NoTime
    /\ needInterval =>
          /\ deadline # NoTime /\ notBefore <= deadline
          /\ notBefore <= qrClock + Delay(lastEvent)
    /\ Busy => ~needInterval
    /\ qrPc = "backoff" => ~needInterval /\ notBefore = wakeAt
    /\ qrPc = "pause" => needInterval /\ (notBefore <= wakeAt \/ deadline <= wakeAt)
    /\ ~needInterval /\ qrPc # "backoff" => notBefore <= qrClock

QrInv == QrTypes /\ CollectInv /\ PauseInv

-----------------------------------------------------------------------------
\* QrLogin: operators

\* The pause after an event is one of the two intervals.
LEMMA DelayType == ASSUME NEW e PROVE Delay(e) \in Nat
  BY QrAssumption DEF Delay

\* A sleep ends when its delay has passed or at the deadline, whichever comes
\* first.
LEMMA UntilBounds ==
    ASSUME QrTypes, deadline # NoTime, NEW d \in Int
    PROVE  /\ Until(d) \in Int
           /\ Until(d) <= deadline /\ Until(d) <= qrClock + d
           /\ Until(d) = qrClock + d \/ Until(d) = deadline
  BY QrAssumption DEF QrTypes, Until, Least

\* The back-off after an error is a number of ticks.
LEMMA BackoffType == ASSUME NEW n \in Nat PROVE Backoff(n) \in Int
  BY QrAssumption DEF Backoff, Least

-----------------------------------------------------------------------------
\* QrLogin: the invariant holds at first, and every step keeps it

\* A session just created has collected nothing and owes no pause.
LEMMA QrInitial == QrInit => QrInv
<1> SUFFICES ASSUME QrInit PROVE QrInv
  OBVIOUS
<1>1. events = <<>> /\ events \in Seq(Events) /\ Len(events) = 0 /\ setup.repeat \in BOOLEAN
  BY DEF QrInit, Setups
<1>2. QrTypes
  <2>1. /\ deadline \in Int \cup {NoTime} /\ lastEvent \in Events \cup {NoEvent}
        /\ needInterval \in BOOLEAN /\ mode \in {"next", "iter"}
    BY DEF QrInit
  <2>2. /\ qrPc \in {"idle", "fetch", "head", "pause", "backoff", "poll",
                      "check_sig", "authorize", "login"}
        /\ wakeAt \in Int /\ qrClock \in Nat /\ notBefore \in Int /\ errorRetries \in Nat
    BY DEF QrInit
  <2>3. QED
    BY <1>1, <2>1, <2>2 DEF QrTypes
<1>3. CollectInv
  BY <1>1 DEF QrInit, CollectInv
<1>4. PauseInv
  BY QrAssumption DEF QrInit, PauseInv, Busy, Exchanging
<1>5. QED
  BY <1>2, <1>3, <1>4 DEF QrInv

\* A call that goes on or ends with an event that is new, or that may be
\* repeated, leaves a list in order.
LEMMA Collected ==
    ASSUME QrTypes, CollectInv, qrPc # "idle", NEW event \in Events, Yield(event),
           UNCHANGED <<setup, mode>>, qrPc' \in {"idle", "head"},
           event \notin Terminal => lastEvent' = event,
           \/ event \in Terminal
           \/ event # lastEvent \/ setup.repeat
    PROVE  CollectInv' /\ events' \in Seq(Events)
<1> DEFINE n == Len(events)
<1>1. /\ n \in Nat /\ events' \in Seq(Events) /\ Len(events') = n + 1
      /\ \A i \in 1 .. n : events'[i] = events[i]
      /\ events'[n + 1] = event /\ DOMAIN events' = 1 .. n + 1 /\ DOMAIN events = 1 .. n
  BY DEF QrTypes, Yield
<1>2. \A i \in 1 .. n : events'[i] \notin Terminal
  BY <1>1 DEF CollectInv
<1>3. ASSUME NEW i \in 1 .. n
      PROVE  setup.repeat \/ events'[i] # events'[i + 1]
  <2>1. CASE i < n
    BY <1>1, <2>1 DEF CollectInv
  <2>2. CASE i = n
    <3>1. events[n] = lastEvent \/ mode = "next"
      BY <1>1, <2>2 DEF CollectInv, QrTypes
    <3>2. mode # "next"
      BY <1>1, <2>2 DEF CollectInv
    <3>3. QED
      BY <1>1, <1>2, <2>2, <3>1, <3>2
  <2>3. i < n \/ i = n
    <3>1. n \in Int /\ i \in 1 .. n
      BY <1>1
    <3>2. QED
      BY <3>1
  <2>4. QED
    BY <2>1, <2>2, <2>3
<1>4. qrPc' # "idle" => event \notin Terminal /\ mode = "iter" /\ outcome' = "none"
  BY DEF Yield, End, CollectInv
<1>5. mode = "iter" /\ outcome' = "ok" => event \in Terminal
  BY DEF Yield, End, CollectInv
<1>6. events' # <<>>
  BY <1>1
<1>7. QED
  BY <1>1, <1>2, <1>3, <1>4, <1>5, <1>6 DEF CollectInv

\* The loop of next_event deals with the event of a poll or of an exchange.
LEMMA Reported ==
    ASSUME QrInv, Busy, NEW event \in Events, Report(event)
    PROVE  QrInv'
<1>1. ~needInterval /\ deadline # NoTime /\ notBefore <= qrClock /\ qrPc # "idle"
  BY DEF QrInv, PauseInv, Busy, Exchanging
<1>2. /\ qrPc' \in {"idle", "head"} /\ lastEvent' = event
      /\ needInterval' \in BOOLEAN
      /\ event \in Terminal => ~needInterval'
      /\ event \notin Terminal => needInterval'
  <2>1. qrPc' \in {"idle", "head"} /\ lastEvent' = event
    BY <1>1 DEF Report, Yield, End
  <2>2. needInterval' = (needInterval \/ event \notin Terminal)
    BY DEF Report
  <2>3. QED
    BY <1>1, <2>1, <2>2, Zenon
<1>3. CollectInv' /\ events' \in Seq(Events)
  <2>1. CASE event = lastEvent /\ ~setup.repeat /\ event \notin Terminal
    BY <1>1, <2>1 DEF Report, QrInv, CollectInv, QrTypes
  <2>2. CASE ~(event = lastEvent /\ ~setup.repeat /\ event \notin Terminal)
    BY <1>1, <1>2, <2>2, Collected DEF Report, QrInv
  <2>3. QED
    BY <2>1, <2>2
<1>4. Delay(event) \in Nat /\ Delay(lastEvent)' = Delay(event)
  BY <1>2, DelayType DEF Delay
<1>5. /\ notBefore' = IF event \in Terminal THEN qrClock ELSE Until(Delay(event))
      /\ UNCHANGED <<setup, deadline, mode, wakeAt, qrClock>> /\ errorRetries' = 0
  BY DEF Report
<1>6. Until(Delay(event)) \in Int /\ Until(Delay(event)) <= deadline
      /\ Until(Delay(event)) <= qrClock + Delay(event)
  BY <1>1, <1>4, UntilBounds DEF QrInv
<1>7. QrTypes'
  BY <1>2, <1>3, <1>5, <1>6 DEF QrInv, QrTypes
<1>8. PauseInv'
  <2>1. /\ qrPc' \in {"idle", "head"} /\ deadline' # NoTime /\ qrClock' = qrClock
        /\ needInterval' => notBefore' <= deadline' /\ notBefore' <= qrClock' + Delay(lastEvent)'
        /\ ~needInterval' => notBefore' <= qrClock'
    <3>1. CASE event \in Terminal
      <4>1. /\ qrClock \in Int /\ notBefore' = qrClock /\ ~needInterval'
            /\ qrClock' = qrClock /\ deadline' = deadline
        BY <1>2, <1>5, <3>1 DEF QrInv, QrTypes
      <4>2. QED
        BY <1>1, <1>2, <4>1
    <3>2. CASE event \notin Terminal
      BY <1>1, <1>2, <1>4, <1>5, <1>6, <3>2
    <3>3. QED
      BY <3>1, <3>2
  <2>2. QED
    BY <2>1 DEF PauseInv, Busy, Exchanging
<1>9. QED
  BY <1>3, <1>7, <1>8 DEF QrInv

\* A step that collects no event and ends no call.
LEMMA NothingCollected ==
    ASSUME CollectInv, UNCHANGED <<setup, mode, events>>,
           \/ UNCHANGED <<lastEvent, outcome>> /\ qrPc # "idle"
           \/ UNCHANGED <<lastEvent, outcome>> /\ qrPc' = "idle"
           \/ qrPc' = "idle" /\ outcome' # "ok"
    PROVE  CollectInv'
  BY DEF CollectInv

\* When the loop may go on, the pause is over.
LEMMA PauseOver ==
    ASSUME QrInv, Ready
    PROVE  deadline # NoTime /\ notBefore <= qrClock /\ qrPc # "idle" /\ qrPc \in {"head", "pause"}
<1>1. qrPc \in {"head", "pause"} /\ deadline # NoTime
  BY DEF Ready, QrInv, PauseInv
<1>2. /\ deadline \in Int /\ wakeAt \in Int /\ qrClock \in Int /\ notBefore \in Int
      /\ needInterval \in BOOLEAN
  BY <1>1 DEF QrInv, QrTypes
<1>3. CASE qrPc = "head" /\ ~needInterval
  BY <1>1, <1>3 DEF QrInv, PauseInv
<1>4. CASE qrPc = "pause" /\ qrClock >= wakeAt
  BY <1>1, <1>2, <1>4 DEF QrInv, PauseInv
<1>5. QED
  BY <1>1, <1>3, <1>4 DEF Ready

\* No step of the session, of its caller or of the clock breaks the invariant.
LEMMA QrStepKeeps == QrInv /\ [QrNext]_qrLogin => QrInv'
<1> SUFFICES ASSUME QrInv, [QrNext]_qrLogin
             PROVE  QrInv'
  OBVIOUS
<1> USE DEF QrInv
<1>1. ASSUME NEW m \in {"next", "iter"}, Begin(m)
      PROVE  QrInv'
  <2>1. CollectInv'
    <3>1. events' = <<>> /\ Len(events') = 0 /\ outcome' = "none" /\ setup' = setup
      BY <1>1 DEF Begin
    <3>2. QED
      BY <3>1 DEF CollectInv
  <2>2. QrTypes'
    <3>1. events' \in Seq(Events)
      BY <1>1 DEF Begin
    <3>2. CASE m = "iter"
      <4>1. /\ deadline' \in Int \cup {NoTime} /\ lastEvent' \in Events \cup {NoEvent}
            /\ needInterval' \in BOOLEAN /\ mode' \in {"next", "iter"}
            /\ qrPc' = "fetch" /\ errorRetries' \in Nat
        <5>1. /\ deadline' = NoTime /\ lastEvent' = NoEvent /\ needInterval' = FALSE
              /\ mode' = "iter" /\ qrPc' = "fetch" /\ errorRetries' = 0
          BY <1>1, <3>2 DEF Begin
        <5>2. QED
          BY <5>1
      <4>2. wakeAt' \in Int /\ qrClock' \in Nat /\ notBefore' \in Int /\ setup'.repeat \in BOOLEAN
        BY <1>1, <3>2 DEF Begin, QrTypes
      <4>3. QED
        BY <3>1, <4>1, <4>2 DEF QrTypes
    <3>3. CASE m = "next"
      BY <1>1, <3>1, <3>3 DEF Begin, QrTypes
    <3>4. QED
      BY <3>2, <3>3
  <2>3. PauseInv'
    <3>1. qrPc = "idle" /\ qrPc' = "fetch" /\ qrClock' = qrClock /\ qrClock \in Nat
      BY <1>1 DEF Begin, QrTypes
    <3>2. CASE m = "iter"
      BY <1>1, <3>1, <3>2 DEF Begin, PauseInv, Busy, Exchanging
    <3>3. CASE m = "next"
      BY <1>1, <3>1, <3>3 DEF Begin, PauseInv, Busy, Exchanging, Delay
    <3>4. QED
      BY <3>2, <3>3
  <2>4. QED
    BY <2>1, <2>2, <2>3
<1>2. CASE Fetched
  <2>1. CollectInv'
    BY <1>2, NothingCollected DEF Fetched
  <2>2. QrTypes'
    BY <1>2, QrAssumption DEF Fetched, QrTypes
  <2>3. PauseInv'
    BY <1>2, QrAssumption DEF Fetched, QrTypes, PauseInv, Busy, Exchanging, Delay
  <2>4. QED
    BY <2>1, <2>2, <2>3
<1>3. CASE FetchFails
  <2>1. CollectInv'
    BY <1>3, NothingCollected DEF FetchFails, End, session
  <2>2. QrTypes' /\ PauseInv'
    BY <1>3 DEF FetchFails, End, session, QrTypes, PauseInv, Busy, Exchanging, Delay
  <2>3. QED
    BY <2>1, <2>2
<1>4. CASE Pause
  <2>1. CollectInv'
    BY <1>4, NothingCollected DEF Pause, session
  <2>2. deadline # NoTime /\ Delay(lastEvent) \in Nat
    BY <1>4, DelayType DEF Pause, PauseInv
  <2>3. QrTypes'
    BY <1>4, <2>2, UntilBounds DEF Pause, session, QrTypes
  <2>4. notBefore' <= wakeAt' \/ deadline' <= wakeAt'
    <3>1. /\ deadline \in Int /\ qrClock \in Int /\ notBefore \in Int
          /\ needInterval /\ notBefore <= qrClock + Delay(lastEvent) /\ notBefore <= deadline
      BY <1>4, <2>2 DEF Pause, QrTypes, PauseInv
    <3>2. CASE qrClock >= deadline
      BY <1>4, <3>1, <3>2 DEF Pause, session
    <3>3. CASE ~(qrClock >= deadline)
      <4>1. wakeAt' = Until(Delay(lastEvent)) /\ notBefore' = notBefore /\ deadline' = deadline
        BY <1>4, <3>3 DEF Pause, session
      <4>2. \/ Until(Delay(lastEvent)) = qrClock + Delay(lastEvent)
            \/ Until(Delay(lastEvent)) = deadline
        BY <2>2, UntilBounds
      <4>3. QED
        BY <2>2, <3>1, <4>1, <4>2
    <3>4. QED
      BY <3>2, <3>3
  <2>5. PauseInv'
    BY <1>4, <2>4 DEF Pause, session, PauseInv, Busy, Exchanging, Delay
  <2>6. QED
    BY <2>1, <2>3, <2>5
<1>5. CASE Poll
  <2>1. CollectInv'
    BY <1>5, NothingCollected DEF Poll, Ready
  <2>2. QrTypes'
    BY <1>5 DEF Poll, QrTypes
  <2>3. PauseInv'
    BY <1>5, PauseOver DEF Poll, PauseInv, Busy, Exchanging
  <2>4. QED
    BY <2>1, <2>2, <2>3
<1>6. CASE NoTimeLeft
  <2>1. qrPc' = "idle" /\ needInterval' = FALSE
    BY <1>6 DEF NoTimeLeft, Yield, End, Terminal
  <2>2. CollectInv' /\ events' \in Seq(Events)
    BY <1>6, <2>1, Collected DEF NoTimeLeft, Ready, Terminal, Events
  <2>3. QrTypes'
    BY <1>6, <2>1, <2>2 DEF NoTimeLeft, QrTypes
  <2>4. PauseInv'
    BY <1>6, <2>1, PauseOver DEF NoTimeLeft, PauseInv, Busy, Exchanging
  <2>5. QED
    BY <2>2, <2>3, <2>4
<1>7. ASSUME NEW code, Answered(code) \/ Exchanged
      PROVE  QrInv'
  BY <1>7, Reported DEF Answered, Exchanged, Busy, Exchanging, Events, Terminal
<1>8. ASSUME NEW code, Confirmed(code) \/ Exchange
      PROVE  QrInv'
  <2>1. qrPc' \in {"check_sig", "authorize", "login"} /\ Busy
        /\ UNCHANGED <<session, mode, events, outcome, wakeAt, qrClock, notBefore>>
    BY <1>8 DEF Confirmed, Exchange, FirstStep, NextStep, Busy, Exchanging
  <2>2. CollectInv'
    BY <2>1, NothingCollected DEF Busy, Exchanging, session
  <2>3. QrTypes' /\ PauseInv'
    BY <2>1 DEF session, QrTypes, PauseInv, Busy, Exchanging, Delay
  <2>4. QED
    BY <2>2, <2>3
<1>9. CASE Backs
  <2>1. CollectInv'
    BY <1>9, NothingCollected DEF Backs, Exchanging
  <2>2. deadline # NoTime /\ ~needInterval
    BY <1>9 DEF Backs, PauseInv, Busy, Exchanging
  <2>3. Backoff(errorRetries) \in Int
    BY BackoffType DEF QrTypes
  <2>4. wakeAt' \in Int /\ errorRetries' \in Nat
    BY <1>9, <2>2, <2>3, UntilBounds, QrAssumption DEF Backs, QrTypes, Least
  <2>5. QrTypes' /\ PauseInv'
    BY <1>9, <2>2, <2>4 DEF Backs, QrTypes, PauseInv, Busy, Exchanging
  <2>6. QED
    BY <2>1, <2>5
<1>10. CASE Resume
  <2>1. CollectInv'
    BY <1>10, NothingCollected DEF Resume, session
  <2>2. QrTypes' /\ PauseInv'
    BY <1>10 DEF Resume, session, QrTypes, PauseInv, Busy, Exchanging
  <2>3. QED
    BY <2>1, <2>2
<1>11. CASE Fails
  <2>1. CollectInv'
    BY <1>11, NothingCollected DEF Fails, End, Exchanging, session
  <2>2. QrTypes' /\ PauseInv'
    BY <1>11 DEF Fails, End, session, QrTypes, PauseInv, Busy, Exchanging
  <2>3. QED
    BY <2>1, <2>2
<1>12. CASE DeadlinePasses
  <2>1. qrPc' = "idle"
    BY <1>12 DEF DeadlinePasses, Yield, End, Terminal
  <2>2. CollectInv' /\ events' \in Seq(Events)
    BY <1>12, <2>1, Collected DEF DeadlinePasses, session, Terminal, Events, Exchanging
  <2>3. QrTypes' /\ PauseInv'
    BY <1>12, <2>1, <2>2 DEF DeadlinePasses, session, QrTypes, PauseInv, Busy, Exchanging
  <2>4. QED
    BY <2>2, <2>3
<1>13. CASE DropCall
  <2>1. CollectInv'
    BY <1>13, NothingCollected DEF DropCall, End, session
  <2>2. QrTypes' /\ PauseInv'
    BY <1>13 DEF DropCall, End, session, QrTypes, PauseInv, Busy, Exchanging, Delay
  <2>3. QED
    BY <2>1, <2>2
<1>14. CASE QrTick
  <2>1. CollectInv'
    BY <1>14 DEF QrTick, session, CollectInv
  <2>2. Delay(lastEvent) \in Nat /\ Delay(lastEvent)' = Delay(lastEvent)
    BY <1>14, DelayType DEF QrTick, session, Delay
  <2>3. QrTypes' /\ PauseInv'
    BY <1>14, <2>2 DEF QrTick, session, QrTypes, PauseInv, Busy, Exchanging
  <2>4. QED
    BY <2>1, <2>3
<1>15. CASE UNCHANGED qrLogin
  BY <1>15 DEF qrLogin, session, QrTypes, CollectInv, PauseInv, Busy, Exchanging, Delay
<1>16. QED
  BY <1>1, <1>2, <1>3, <1>4, <1>5, <1>6, <1>7, <1>8, <1>9, <1>10, <1>11, <1>12, <1>13,
     <1>14, <1>15 DEF QrNext, QrStep

-----------------------------------------------------------------------------
\* QrLogin: theorems

\* Whatever the server answers and wherever calls are dropped, a session knows
\* the last event of its list, and a pause that is due covers the interval its
\* last answer called for.
THEOREM QrInvariance == QrSpec => []QrInv
  BY QrInitial, QrStepKeeps, PTL DEF QrSpec

\* wait_qrcode_login answers with the last event of a list that has no other
\* terminal one.
LEMMA LastIsOutcome ==
    ASSUME NEW list \in Seq(Events), list # <<>>, list[Len(list)] \in Terminal,
           \A i \in 1 .. Len(list) - 1 : list[i] \notin Terminal
    PROVE  WaitOutcome(list) \in Terminal
<1> DEFINE I == {i \in 1 .. Len(list) : list[i] \in Terminal}
<1>1. I = {Len(list)} /\ Len(list) \in Nat /\ I # {}
  OBVIOUS
<1>2. Min(I) \in I
  <2>1. \E x \in I : \A y \in I : x =< y
    BY <1>1
  <2>2. QED
    BY <2>1 DEF Min
<1>3. SelectInSeq(list, LAMBDA e : e \in Terminal) = Min(I)
  BY <1>1 DEF SelectInSeq
<1>4. QED
  BY <1>1, <1>2, <1>3 DEF WaitOutcome

\* The list of iter_events ends with its only terminal event, and repeats none
\* unless it was asked to, so that wait_qrcode_login never answers FlowEnded.
THEOREM ListWellFormedHolds == QrSpec => []ListWellFormed
<1>1. QrInv => ListWellFormed
  BY LastIsOutcome DEF QrInv, QrTypes, CollectInv, ListWellFormed
<1>2. QED
  BY <1>1, QrInvariance, PTL

\* The server is asked again only after the interval its last answer called
\* for, also when the call that paused was dropped, and never after the
\* deadline.
THEOREM PollsSpacedHolds == QrSpec => PollsSpaced
<1>1. ASSUME QrInv, [QrNext]_qrLogin, qrPc' = "poll", qrPc # "poll"
      PROVE  qrClock >= notBefore /\ deadline # NoTime /\ qrClock < deadline
  <2>1. Poll
    BY <1>1 DEF QrNext, QrStep, Begin, Fetched, FetchFails, End, Pause, NoTimeLeft, Yield,
       Answered, Report, Confirmed, FirstStep, Exchange, NextStep, Exchanged, Backs, Resume,
       Fails, DeadlinePasses, DropCall, QrTick, qrLogin
  <2>2. QED
    BY <1>1, <2>1 DEF Poll, Ready, QrInv, QrTypes, PauseInv
<1>2. QED
  BY <1>1, QrInvariance, PTL DEF QrSpec, PollsSpaced
=============================================================================
