------------------------------- MODULE QrLogin -------------------------------
(***************************************************************************)
(* A QR code login by HTTP polling: QRCodeLoginSession of                  *)
(* src/modules/login_utils.rs with the polls and exchanges of QQ and       *)
(* WeChat in src/modules/login.rs.  The caller is a GUI that calls         *)
(* next_event again and again, or one that waits for the whole list, and   *)
(* may drop the future at any await.  Time passes in ticks.                *)
(***************************************************************************)
EXTENDS Naturals, Sequences, SequencesExt

CONSTANTS
    Interval,        \* PollInterval::default
    ScannedInterval, \* scanned_interval()
    ErrorInterval,   \* error_interval()
    Timeout,         \* timeout_seconds
    MaxBackoffExp,   \* MAX_BACKOFF_EXP
    NoTime,          \* an Instant that is not set
    NoEvent,         \* last_event: None
    MaxQrClock       \* bound: ticks before which calls begin

ASSUME QrAssumption ==
    /\ Interval \in Nat /\ ScannedInterval \in Nat /\ ErrorInterval \in Nat
    /\ Timeout \in Nat /\ Timeout > 0
    /\ MaxBackoffExp \in Nat /\ MaxQrClock \in Nat
    /\ NoTime \notin Nat

VARIABLES
    setup,        \* what the session was created with
    have,         \* qrcode is Some
    deadline,     \* deadline, counted from the first poll
    lastEvent,    \* last_event
    errorRetries, \* error_retries
    needInterval, \* need_interval
    qrPc,         \* where the call is suspended
    mode,         \* next_event, or iter_events, which wait_qrcode_login calls
    events,       \* what iter_events has collected, or the event of next_event
    outcome,      \* how the last call ended
    wakeAt,       \* when its sleep ends
    qrClock,      \* Instant::now()
    notBefore     \* history: when the interval after the last answer ends

session == <<setup, have, deadline, lastEvent, errorRetries, needInterval>>
qrLogin == <<session, qrPc, mode, events, outcome, wakeAt, qrClock, notBefore>>

Terminal == {"Done", "Refuse", "Timeout"}
Events == {"Scan", "Conf"} \cup Terminal

Setups == [kind : {"Qq", "Wx"}, repeat : BOOLEAN]

\* The requests of an exchange: check_sig, authorize and QQLogin for QQ, Login
\* for WeChat.
FirstStep(kind) == IF kind = "Qq" THEN "check_sig" ELSE "login"
NextStep(step) == IF step = "check_sig" THEN "authorize" ELSE "login"
Exchanging == qrPc \in {"check_sig", "authorize", "login"}

QrTypeOK ==
    /\ setup \in Setups
    /\ have \in BOOLEAN
    /\ deadline \in Nat \cup {NoTime}
    /\ lastEvent \in Events \cup {NoEvent}
    /\ errorRetries \in 0 .. MaxBackoffExp
    /\ needInterval \in BOOLEAN
    /\ qrPc \in {"idle", "fetch", "head", "pause", "backoff", "poll",
                "check_sig", "authorize", "login"}
    /\ mode \in {"next", "iter"}
    /\ events \in Seq(Events)
    /\ outcome \in {"none", "ok", "error", "dropped"}
    /\ wakeAt \in Nat /\ qrClock \in Nat /\ notBefore \in Nat

QrInit ==
    /\ setup \in Setups
    /\ have = FALSE
    /\ deadline = NoTime
    /\ lastEvent = NoEvent
    /\ errorRetries = 0
    /\ needInterval = FALSE
    /\ qrPc = "idle"
    /\ mode = "next"
    /\ events = <<>>
    /\ outcome = "none"
    /\ wakeAt = 0 /\ qrClock = 0 /\ notBefore = 0

-----------------------------------------------------------------------------
Least(a, b) == IF a <= b THEN a ELSE b

\* error_backoff_secs: an exponential back-off with two caps.
Backoff(retries) == Least(2 ^ Least(retries, MaxBackoffExp) * Interval, ErrorInterval)

\* The pause after an event.
Delay(event) == IF event = "Conf" THEN ScannedInterval ELSE Interval

\* When a sleep of sleep_until ends: the deadline cuts it short.
Until(delay) == Least(qrClock + delay, deadline)

\* The state of the server a poll reports, from its status code; NoEvent for
\* a code the client does not know.
EventOfCode(code) ==
    CASE code \in {0, 405}  -> "Done"
      [] code \in {66, 408} -> "Scan"
      [] code \in {67, 404} -> "Conf"
      [] code \in {65, 402} -> "Timeout"
      [] code \in {68, 403} -> "Refuse"
      [] OTHER              -> NoEvent

-----------------------------------------------------------------------------
\* A call begins: iter_events forgets the earlier poll state, the code of
\* the session is fetched once.
Begin(m) ==
    /\ qrPc = "idle"
    /\ qrClock < MaxQrClock
    /\ mode' = m
    /\ events' = <<>>
    /\ outcome' = "none"
    /\ IF m = "iter"
       THEN /\ deadline' = NoTime
            /\ lastEvent' = NoEvent
            /\ errorRetries' = 0
            /\ needInterval' = FALSE
            /\ notBefore' = qrClock
       ELSE UNCHANGED <<deadline, lastEvent, errorRetries, needInterval, notBefore>>
    /\ qrPc' = "fetch"
    /\ UNCHANGED <<setup, have, wakeAt, qrClock>>

\* get_qrcode answers, at once if the code is cached, and the deadline is set
\* if there is none.
Fetched ==
    /\ qrPc = "fetch"
    /\ have' = TRUE
    /\ deadline' = IF deadline = NoTime THEN qrClock + Timeout ELSE deadline
    /\ qrPc' = "head"
    /\ UNCHANGED <<setup, lastEvent, errorRetries, needInterval, mode, events, outcome,
                   wakeAt, qrClock, notBefore>>

\* The call returns.
End(result) ==
    /\ qrPc' = "idle"
    /\ outcome' = result

FetchFails ==
    /\ qrPc = "fetch" /\ ~have
    /\ End("error")
    /\ UNCHANGED <<session, mode, events, wakeAt, qrClock, notBefore>>

\* next_event returns an event; iter_events collects it, and calls again
\* unless it is terminal.
Yield(event) ==
    /\ events' = Append(events, event)
    /\ IF mode = "iter" /\ event \notin Terminal
       THEN qrPc' = "head" /\ UNCHANGED outcome
       ELSE End("ok")

\* The head of the loop of next_event: the pause that is still due.
Pause ==
    /\ qrPc = "head" /\ needInterval
    /\ qrPc' = "pause"
    /\ wakeAt' = IF qrClock >= deadline THEN qrClock ELSE Until(Delay(lastEvent))
    /\ UNCHANGED <<session, mode, events, outcome, qrClock, notBefore>>

Ready == \/ qrPc = "head" /\ ~needInterval
         \/ qrPc = "pause" /\ qrClock >= wakeAt

\* Mutant of Poll: the deadline is looked at before the pause only.
PollUnchecked ==
    /\ Ready
    /\ needInterval' = FALSE
    /\ qrPc' = "poll"
    /\ UNCHANGED <<setup, have, deadline, lastEvent, errorRetries, mode, events, outcome,
                   wakeAt, qrClock, notBefore>>

\* After it the server is asked, for what is left of the time.
Poll ==
    /\ Ready
    /\ qrClock < deadline
    /\ needInterval' = FALSE
    /\ qrPc' = "poll"
    /\ UNCHANGED <<setup, have, deadline, lastEvent, errorRetries, mode, events, outcome,
                   wakeAt, qrClock, notBefore>>

NoTimeLeft ==
    /\ Ready
    /\ qrClock >= deadline
    /\ needInterval' = FALSE
    /\ Yield("Timeout")
    /\ UNCHANGED <<setup, have, deadline, lastEvent, errorRetries, mode, wakeAt, qrClock,
                   notBefore>>

\* Mutants of Report: the pause is due only after an event that is returned;
\* last_event is not kept.
ReportEager(event) ==
    /\ errorRetries' = 0
    /\ notBefore' = IF event \in Terminal THEN qrClock ELSE Until(Delay(event))
    /\ \/ /\ event = lastEvent /\ ~setup.repeat /\ event \notin Terminal
          /\ qrPc' = "head"
          /\ UNCHANGED <<lastEvent, needInterval, events, outcome>>
       \/ /\ ~(event = lastEvent /\ ~setup.repeat /\ event \notin Terminal)
          /\ lastEvent' = event
          /\ needInterval' = (needInterval \/ event \notin Terminal)
          /\ Yield(event)
    /\ UNCHANGED <<setup, have, deadline, mode, wakeAt, qrClock>>
ReportForgetful(event) ==
    /\ errorRetries' = 0
    /\ notBefore' = IF event \in Terminal THEN qrClock ELSE Until(Delay(event))
    /\ needInterval' = (needInterval \/ event \notin Terminal)
    /\ Yield(event)
    /\ UNCHANGED <<setup, have, deadline, lastEvent, mode, wakeAt, qrClock>>

\* What the loop of next_event does with an event: one that repeats the last
\* is swallowed, unless it ends the login or the caller wants repeats.
Report(event) ==
    /\ errorRetries' = 0
    /\ needInterval' = (needInterval \/ event \notin Terminal)
    /\ notBefore' = IF event \in Terminal THEN qrClock ELSE Until(Delay(event))
    /\ IF event = lastEvent /\ ~setup.repeat /\ event \notin Terminal
       THEN qrPc' = "head" /\ UNCHANGED <<lastEvent, events, outcome>>
       ELSE lastEvent' = event /\ Yield(event)
    /\ UNCHANGED <<setup, have, deadline, mode, wakeAt, qrClock>>

\* A poll answers; a confirmed login still has to be exchanged for a
\* credential.
Answered(code) ==
    /\ qrPc = "poll"
    /\ EventOfCode(code) \in Events \ {"Done"}
    /\ Report(EventOfCode(code))

Confirmed(code) ==
    /\ qrPc = "poll"
    /\ EventOfCode(code) = "Done"
    /\ qrPc' = FirstStep(setup.kind)
    /\ UNCHANGED <<session, mode, events, outcome, wakeAt, qrClock, notBefore>>

Exchange ==
    /\ Exchanging /\ qrPc # "login"
    /\ qrPc' = NextStep(qrPc)
    /\ UNCHANGED <<session, mode, events, outcome, wakeAt, qrClock, notBefore>>

\* The credential arrives: validate_result has accepted it.
Exchanged ==
    /\ qrPc = "login"
    /\ Report("Done")

\* A network error that may pass: the loop backs off and polls again.  The
\* count stops where it no longer changes the back-off.
Backs ==
    /\ qrPc = "poll" \/ Exchanging
    /\ errorRetries' = Least(errorRetries + 1, MaxBackoffExp)
    /\ qrPc' = "backoff"
    /\ wakeAt' = IF qrClock >= deadline THEN qrClock ELSE Until(Backoff(errorRetries))
    /\ notBefore' = wakeAt'
    /\ UNCHANGED <<setup, have, deadline, lastEvent, needInterval, mode, events, outcome,
                   qrClock>>

Resume ==
    /\ qrPc = "backoff"
    /\ qrClock >= wakeAt
    /\ qrPc' = "head"
    /\ UNCHANGED <<session, mode, events, outcome, wakeAt, qrClock, notBefore>>

\* Any other error ends the call: an answer that cannot be parsed, a code
\* that is unknown, a login refused by the server, a WeChat long poll that
\* ran into its own timeout.
Fails ==
    /\ qrPc = "poll" \/ Exchanging
    /\ End("error")
    /\ notBefore' = qrClock
    /\ UNCHANGED <<session, mode, events, wakeAt, qrClock>>

\* tokio::time::timeout drops the poll or the exchange.
DeadlinePasses ==
    /\ qrPc = "poll" \/ Exchanging
    /\ qrClock >= deadline
    /\ Yield("Timeout")
    /\ UNCHANGED <<session, mode, wakeAt, qrClock, notBefore>>

\* The caller drops the future: what the session holds stays as it is.
DropCall ==
    /\ qrPc # "idle"
    /\ End("dropped")
    /\ notBefore' = IF needInterval THEN notBefore ELSE qrClock
    /\ UNCHANGED <<session, mode, events, wakeAt, qrClock>>

\* Time passes while the call is suspended; timers fire in time.
QrTick ==
    /\ \/ qrPc = "fetch" /\ qrClock < MaxQrClock
       \/ qrPc \in {"pause", "backoff"} /\ qrClock < wakeAt
       \/ (qrPc = "poll" \/ Exchanging) /\ qrClock < deadline
       \/ qrPc = "idle" /\ qrClock < MaxQrClock
    /\ qrClock' = qrClock + 1
    /\ UNCHANGED <<session, qrPc, mode, events, outcome, wakeAt, notBefore>>

-----------------------------------------------------------------------------
\* One code for each event, and one nobody knows.
Codes == {0, 66, 67, 65, 68}

QrStep ==
    \/ Fetched \/ FetchFails \/ Pause \/ Poll \/ NoTimeLeft
    \/ \E code \in Codes : Answered(code) \/ Confirmed(code)
    \/ Exchange \/ Exchanged \/ Backs \/ Resume \/ Fails \/ DeadlinePasses

QrNext == (\E m \in {"next", "iter"} : Begin(m)) \/ QrStep \/ DropCall \/ QrTick

QrSpec == QrInit /\ [][QrNext]_qrLogin

-----------------------------------------------------------------------------
\* wait_qrcode_login over a list of iter_events.
WaitOutcome(list) ==
    IF \E i \in DOMAIN list : list[i] \in Terminal
    THEN list[SelectInSeq(list, LAMBDA e : e \in Terminal)] ELSE "FlowEnded"

\* What iter_events returns ends with its only terminal event, so that
\* wait_qrcode_login never answers FlowEnded, and repeats no event unless
\* emit_repeat is set, whatever order the server answers in and however many
\* errors lie between ("不会产出与上一次相同的事件", login_utils.rs:236).
ListWellFormed ==
    /\ \A i \in 1 .. Len(events) - 1 :
          /\ events[i] \notin Terminal
          /\ setup.repeat \/ events[i] # events[i + 1]
    /\ (mode = "iter" /\ outcome = "ok") => WaitOutcome(events) \in Terminal

\* The server is not asked again before the interval that its last answer or
\* error called for has passed, even if the caller dropped the call that was
\* pausing; nor once the time of the login is over.
PollsSpaced ==
    [][qrPc' = "poll" /\ qrPc # "poll" =>
          /\ qrClock >= notBefore
          /\ deadline # NoTime /\ qrClock < deadline]_qrLogin

=============================================================================
