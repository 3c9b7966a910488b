-------------------------------- MODULE OAuth --------------------------------
(***************************************************************************)
(* Sign-in by OAuth: create_desktop_qr, poll_desktop_qr,                   *)
(* complete_desktop_sign_in and exchange_oauth_code of src/auth.rs, and    *)
(* artwork::download, which is as anonymous as they are.  The attempts of  *)
(* several windows share one client and the cookie jar of its transport;   *)
(* the host polls, cancels, tries again, or redeems the code of a browser. *)
(* A cookie is its name and the attempt the server gave it to.             *)
(***************************************************************************)
EXTENDS Naturals

CONSTANTS
    Attempts,    \* login attempts of one client
    ReadRetries, \* retry_max of the transport, for SafeRead only
    MaxRedirects, \* max_redirects of the transport
    MaxCalls     \* bound: calls of one attempt

ASSUME OAuthAssumption == ReadRetries \in Nat /\ MaxRedirects \in Nat /\ MaxCalls \in Nat

VARIABLES
    step,     \* what each attempt is doing
    asked,    \* its request is on the wire
    cookies,  \* Cookies of the running call
    qrsig,    \* the host holds the qrsig of the attempt's challenge
    stop,     \* the cancellation token of the attempt
    extra,    \* replays of the running request by the transport
    calls,    \* calls made by the host
    jar,      \* cookies in the transport's own store
    header,   \* Cookie header of the last request of each attempt
    redirects, \* redirects the transport followed in this attempt at it
    form,     \* what the redirects left of the running request
    sends,    \* history: how often it was sent as it was given
    sessions  \* attempts whose host got a session

\* The running request in the transport.
running == <<extra, redirects, form, sends>>
oauth == <<step, asked, cookies, qrsig, stop, running, calls, jar, header, sessions>>

Steps == {"create", "artwork", "poll", "check_sig", "authorize", "exchange"}
Cookie == {"qrsig", "login_sig", "p_skey", "browser", "key"} \X Attempts

OAuthTypeOK ==
    /\ step \in [Attempts -> Steps \cup {"idle", "publish"}]
    /\ asked \in [Attempts -> BOOLEAN]
    /\ cookies \in [Attempts -> SUBSET Cookie]
    /\ qrsig \in [Attempts -> BOOLEAN]
    /\ stop \in [Attempts -> BOOLEAN]
    /\ extra \in [Attempts -> 0 .. ReadRetries]
    /\ calls \in [Attempts -> 0 .. MaxCalls]
    /\ jar \subseteq Cookie
    /\ header \in [Attempts -> SUBSET Cookie]
    /\ redirects \in [Attempts -> 0 .. MaxRedirects]
    /\ form \in [Attempts -> {"given", "get", "bare"}]
    /\ sends \in [Attempts -> Nat]
    /\ sessions \subseteq Attempts

OAuthInit ==
    /\ step = [a \in Attempts |-> "idle"]
    /\ asked = [a \in Attempts |-> FALSE]
    /\ cookies = [a \in Attempts |-> {}]
    /\ qrsig = [a \in Attempts |-> FALSE]
    /\ stop = [a \in Attempts |-> FALSE]
    /\ extra = [a \in Attempts |-> 0]
    /\ calls = [a \in Attempts |-> 0]
    /\ jar = {}
    /\ header = [a \in Attempts |-> {}]
    /\ redirects = [a \in Attempts |-> 0]
    /\ form = [a \in Attempts |-> "given"]
    /\ sends = [a \in Attempts |-> 0]
    /\ sessions = {}

-----------------------------------------------------------------------------
\* Cookies::set and Cookies::absorb: a name has one value.
Absorbed(old, new) == {c \in old : \A d \in new : c[1] # d[1]} \cup new

\* What the server sets in its answer to a request.
SetCookies(a) ==
    CASE step[a] = "create"    -> {<<"qrsig", a>>}
      [] step[a] = "poll"      -> {<<"login_sig", a>>}
      [] step[a] = "check_sig" -> {<<"p_skey", a>>}
      [] step[a] = "exchange"  -> {<<"key", a>>}
      [] OTHER                 -> {}

\* Mutant of Replays: the exchange is an ordinary read.
ReplaysAll(s) == IF s = "poll" THEN 0 ELSE ReadRetries

\* Only reads are replayed; all but the creation and the picture are AuthPoll.
Replays(s) == IF s \in {"create", "artwork"} THEN ReadRetries ELSE 0

\* Mutant of CookieHeader: no header when there is no cookie.
CookieUnlessEmpty(a) == IF cookies[a] = {} \/ form[a] = "bare" THEN jar ELSE cookies[a]

\* Every request has a Cookie header of its own, an empty one included: the
\* jar adds nothing to it, nor does it when a redirect has emptied the header.
CookieHeader(a) == IF form[a] = "bare" THEN {} ELSE cookies[a]

\* The transport begins with the next request from its start.
NewRequest(a) ==
    /\ extra' = [extra EXCEPT ![a] = 0]
    /\ redirects' = [redirects EXCEPT ![a] = 0]
    /\ form' = [form EXCEPT ![a] = "given"]
    /\ sends' = [sends EXCEPT ![a] = 0]

\* A call begins with the cookies of its attempt, and only if it is not
\* cancelled.
Start(a, first, initial) ==
    /\ step[a] = "idle"
    /\ calls[a] < MaxCalls
    /\ calls' = [calls EXCEPT ![a] = @ + 1]
    /\ IF stop[a] THEN UNCHANGED <<step, cookies>>
       ELSE /\ step' = [step EXCEPT ![a] = first]
            /\ cookies' = [cookies EXCEPT ![a] = initial]
    /\ UNCHANGED <<asked, qrsig, stop, running, jar, header, sessions>>

CreateDesktopQr(a) == Start(a, "create", {})

DownloadArtwork(a) == Start(a, "artwork", {})

PollDesktopQr(a) == qrsig[a] /\ Start(a, "poll", {<<"qrsig", a>>})

\* exchange_oauth_code called by the host, with the cookies of its browser.
ExchangeOAuthCode(a) ==
    \E initial \in {{}, {<<"browser", a>>}} : Start(a, "exchange", initial)

\* The call returns to the host.
Return(a) ==
    /\ step' = [step EXCEPT ![a] = "idle"]
    /\ cookies' = [cookies EXCEPT ![a] = {}]
    /\ NewRequest(a)

\* The transport sends the request, unless its token is cancelled.
SendRequest(a) ==
    /\ step[a] \in Steps /\ ~asked[a]
    /\ IF stop[a] THEN Return(a) /\ UNCHANGED <<asked, header>>
       ELSE /\ asked' = [asked EXCEPT ![a] = TRUE]
            /\ header' = [header EXCEPT ![a] = CookieHeader(a)]
            /\ sends' = [sends EXCEPT ![a] = @ + IF form[a] = "given" THEN 1 ELSE 0]
            /\ UNCHANGED <<step, cookies, extra, redirects, form>>
    /\ UNCHANGED <<qrsig, stop, calls, jar, sessions>>

\* No answer, or one the transport does not take: a read is sent again after
\* a pause that notices a cancellation, for the rest the call fails.
NoAnswerCame(a) ==
    /\ asked[a]
    /\ asked' = [asked EXCEPT ![a] = FALSE]
    /\ IF extra[a] < Replays(step[a]) /\ ~stop[a]
       THEN /\ extra' = [extra EXCEPT ![a] = @ + 1]
            /\ redirects' = [redirects EXCEPT ![a] = 0]
            /\ form' = [form EXCEPT ![a] = "given"]
            /\ UNCHANGED <<step, cookies, sends>>
       ELSE Return(a)
    /\ UNCHANGED <<qrsig, stop, calls, jar, header, sessions>>

\* The steps that leave RedirectMode at FollowValidated.
Follows(s) == s \in {"create", "exchange"}

\* What a followed redirect makes of a request: as it was after a 307 or 308
\* of the same origin, a GET without the code after a 301, 302 or 303, and
\* elsewhere without its cookies too.
Redirections(s, f) ==
    {f, "bare"} \cup IF s = "exchange" /\ f = "given" THEN {"get"} ELSE {}

\* A redirect the transport follows.  One that it refuses, because it leads
\* too far, nowhere or with the content to another origin, is a BadAnswer.
Redirected(a) ==
    /\ asked[a] /\ Follows(step[a])
    /\ redirects[a] < MaxRedirects
    /\ asked' = [asked EXCEPT ![a] = FALSE]
    /\ redirects' = [redirects EXCEPT ![a] = @ + 1]
    /\ \E f \in Redirections(step[a], form[a]) : form' = [form EXCEPT ![a] = f]
    /\ \E set \in SUBSET SetCookies(a) : jar' = Absorbed(jar, set)
    /\ UNCHANGED <<step, cookies, qrsig, stop, extra, sends, calls, header, sessions>>

\* The answer has a wrong status, address, size, header or body: a protocol
\* error.  The jar keeps its cookies nevertheless.
BadAnswer(a) ==
    /\ asked[a]
    /\ asked' = [asked EXCEPT ![a] = FALSE]
    /\ \E set \in SUBSET SetCookies(a) : jar' = Absorbed(jar, set)
    /\ Return(a)
    /\ UNCHANGED <<qrsig, stop, calls, header, sessions>>

\* Only check_sig and authorize leave the token to the next request.
ChecksToken(s) == s \notin {"check_sig", "authorize"}

\* An answer passes all checks of its step: the call ends or goes on.
Accept(a, next) ==
    /\ asked[a]
    /\ asked' = [asked EXCEPT ![a] = FALSE]
    /\ jar' = Absorbed(jar, SetCookies(a))
    /\ IF stop[a] /\ ChecksToken(step[a])
       THEN Return(a) /\ UNCHANGED qrsig
       ELSE /\ step' = [step EXCEPT ![a] = next]
            /\ cookies' = [cookies EXCEPT ![a] =
                 IF next = "idle" THEN {} ELSE Absorbed(@, SetCookies(a))]
            /\ qrsig' = [qrsig EXCEPT ![a] = @ \/ step[a] = "create"]
            /\ NewRequest(a)
    /\ UNCHANGED <<stop, calls, header, sessions>>

\* The final address must be that of the endpoint: back from another origin.
QrCreated(a) ==
    /\ step[a] = "create" /\ (form[a] = "bare" => redirects[a] > 1)
    /\ Accept(a, "idle")

ArtworkArrived(a) == step[a] = "artwork" /\ Accept(a, "idle")
StillWaiting(a)   == step[a] = "poll" /\ Accept(a, "idle")
UserConfirmed(a)  == step[a] = "poll" /\ Accept(a, "check_sig")
SigChecked(a)     == step[a] = "check_sig" /\ Accept(a, "authorize")
CodeGranted(a)    == step[a] = "authorize" /\ Accept(a, "exchange")
CodeExchanged(a)  == step[a] = "exchange" /\ Accept(a, "publish")

\* Mutant of Publish: the token is not looked at again.
PublishAnyway(a) ==
    /\ step[a] = "publish"
    /\ Return(a)
    /\ sessions' = sessions \cup {a}
    /\ UNCHANGED <<asked, qrsig, stop, calls, jar, header>>

\* The session is complete; a last look at the token.
Publish(a) ==
    /\ step[a] = "publish"
    /\ Return(a)
    /\ sessions' = IF stop[a] THEN sessions ELSE sessions \cup {a}
    /\ UNCHANGED <<asked, qrsig, stop, calls, jar, header>>

\* The host closes the window of the attempt, or drops the future.
CancelAttempt(a) ==
    /\ ~stop[a] /\ calls[a] > 0
    /\ stop' = [stop EXCEPT ![a] = TRUE]
    /\ UNCHANGED <<step, asked, cookies, qrsig, running, calls, jar, header, sessions>>

DropAttempt(a) ==
    /\ step[a] # "idle"
    /\ asked' = [asked EXCEPT ![a] = FALSE]
    /\ Return(a)
    /\ UNCHANGED <<qrsig, stop, calls, jar, header, sessions>>

Works(a) ==
    \/ SendRequest(a) \/ NoAnswerCame(a) \/ Redirected(a) \/ BadAnswer(a) \/ Publish(a)
    \/ QrCreated(a) \/ ArtworkArrived(a) \/ StillWaiting(a) \/ UserConfirmed(a)
    \/ SigChecked(a) \/ CodeGranted(a) \/ CodeExchanged(a)

OAuthNext ==
    \E a \in Attempts :
        \/ CreateDesktopQr(a) \/ DownloadArtwork(a) \/ PollDesktopQr(a) \/ ExchangeOAuthCode(a)
        \/ Works(a) \/ CancelAttempt(a) \/ DropAttempt(a)

OAuthSpec == OAuthInit /\ [][OAuthNext]_oauth

-----------------------------------------------------------------------------
\* Whatever the windows of one client do at the same time, no request of an
\* attempt carries a cookie of another one, not even through the shared jar,
\* and a poll carries nothing but its qrsig ("轮询只发送该挑战的 qrsig",
\* docs/modules.md).
OnlyOwnCookies ==
    \A a \in Attempts : asked[a] =>
        /\ \A c \in header[a] : c[2] = a
        /\ step[a] \in {"create", "artwork"} => header[a] = {}
        /\ step[a] = "poll" => header[a] = {<<"qrsig", a>>}

\* An authorization code is sent again only where the server it was given to
\* redirected it within its origin and asked for it again: never after an
\* answer that was lost, late or broken ("No automatic replay after network
\* failure", auth.rs; "库负责固定端点、Web 请求格式、不自动重试", docs/modules.md).
CodeNotReplayed == \A a \in Attempts : step[a] = "exchange" => sends[a] <= redirects[a] + 1

\* After its cancellation an attempt sends nothing new and publishes no
\* session, wherever in its four requests the cancellation falls.
SilentAfterCancel ==
    [][\A a \in Attempts : stop[a] =>
         /\ a \in sessions' => a \in sessions
         /\ sends'[a] <= sends[a]
         /\ asked'[a] => asked[a]]_oauth
=============================================================================
