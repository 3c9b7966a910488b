----------------------------- MODULE MobileLogin -----------------------------
(***************************************************************************)
(* The login of the mobile app: checking_mobile_qrcode_observed in         *)
(* src/modules/login.rs over MqttClient in src/mqtt.rs, against a broker   *)
(* that redirects, publishes with any QoS, repeats what was not            *)
(* acknowledged, closes the connection or says nothing at all.  Packets    *)
(* are records; their bytes are the business of MqttPackets.               *)
(***************************************************************************)
EXTENDS Naturals, Sequences, SequencesExt

CONSTANTS
    LifeTime,     \* timeout of the whole attempt
    OwnKeepAlive, \* the keep-alive period of the client
    KeepAlives,   \* those a broker may ask for instead; 0 is none
    MaxHops,      \* redirects followed by connect
    Ids,          \* packet identifiers the broker uses
    Messages,     \* what it may publish
    NoMessage,    \* nothing
    NoDeadline,   \* not subscribed yet
    MaxPublished, \* bound: messages the broker publishes
    MaxLink,      \* bound: packets in flight
    MaxMqttClock  \* bound: ticks the broker may stay silent

Types == {"scanned", "cookies", "canceled", "timeout", "loginFailed", "other"}
Message == [type : Types, qos : 0 .. 2, id : Ids]

\* Messages are numbered in the order the broker publishes them in.
Indices == 1 .. MaxPublished
Packet == [kind : {"publish", "pubrel", "pingresp", "disconnect"},
           msg : Indices \cup {NoMessage}, id : Ids \cup {NoMessage}]

ASSUME MobileAssumption ==
    /\ Messages \subseteq Message /\ OwnKeepAlive \in Nat
    /\ LifeTime \in Nat /\ KeepAlives \subseteq Nat /\ MaxHops \in Nat
    /\ MaxPublished \in Nat /\ MaxLink \in Nat /\ MaxMqttClock \in Nat
    /\ NoMessage \notin Indices /\ NoMessage \notin Packet /\ NoDeadline \notin Nat

VARIABLES
    mPc,         \* where the attempt is
    hops,        \* redirect_count
    keepAlive,   \* MqttClient::keep_alive
    link,        \* packets on their way to the client
    pending,     \* pending_messages
    qos2,        \* qos2_pending
    held,        \* the packet whose acknowledgement is being sent
    due,         \* when the interval ticks next
    mDeadline,   \* deadline
    mEvents,     \* events
    mOutcome,    \* how the attempt ended
    mClock,      \* Instant::now()
    published,   \* broker: what it has published
    handshake,   \* broker: how far each message is acknowledged
    delivered,   \* history: messages handed to ingest_mobile_mqtt
    consumed,    \* history: messages taken from the link
    interrupted, \* history: select! dropped next_message during a send
    logins       \* history: exchanges begun

client == <<mPc, hops, keepAlive, pending, qos2, held, due, mDeadline, mEvents, mOutcome>>
broker == <<link, published, handshake>>
past == <<delivered, consumed, interrupted, logins>>
mobileLogin == <<client, broker, mClock, past>>

PublishPacket(n) == [kind |-> "publish", msg |-> n, id |-> published[n].id]
Pubrel(i) == [kind |-> "pubrel", msg |-> NoMessage, id |-> i]
Control(k) == [kind |-> k, msg |-> NoMessage, id |-> NoMessage]

MobileTypeOK ==
    /\ mPc \in {"new", "connect", "connack", "suback", "listen", "ack", "exchange", "over"}
    /\ hops \in 0 .. MaxHops
    /\ keepAlive \in KeepAlives \cup {OwnKeepAlive}
    /\ link \in Seq(Packet) /\ Len(link) <= MaxLink
    /\ pending \in Seq(Indices)
    /\ qos2 \in [Ids -> Indices \cup {NoMessage}]
    /\ held \in Packet \cup {NoMessage}
    /\ due \in Nat /\ mClock \in Nat
    /\ mDeadline \in Nat \cup {NoDeadline}
    /\ mEvents \in Seq({"Scan", "Conf", "Done", "Refuse", "Timeout"})
    /\ mOutcome \in {"none", "ok", "error", "dropped"}
    /\ published \in Seq(Messages)
    /\ handshake \in Seq({"sent", "received", "complete"})
    /\ delivered \in Seq(Indices) /\ consumed \subseteq Indices
    /\ interrupted \in BOOLEAN /\ logins \in Nat

MobileInit ==
    /\ mPc = "new" /\ hops = 0 /\ keepAlive = OwnKeepAlive
    /\ link = <<>> /\ pending = <<>> /\ qos2 = [i \in Ids |-> NoMessage]
    /\ held = NoMessage /\ due = 0 /\ mDeadline = NoDeadline
    /\ mEvents = <<>> /\ mOutcome = "none" /\ mClock = 0
    /\ published = <<>> /\ handshake = <<>>
    /\ delivered = <<>> /\ consumed = {} /\ interrupted = FALSE /\ logins = 0

Over(result) == mPc' = "over" /\ mOutcome' = result

-----------------------------------------------------------------------------
\* The broker

Online == mPc \in {"suback", "listen", "ack", "exchange"}

\* An identifier is free once its last use is acknowledged.
Free(i) == \A n \in DOMAIN published :
              published[n].qos > 0 /\ published[n].id = i => handshake[n] = "complete"

PublishNew(m) ==
    /\ Online /\ Len(published) < MaxPublished /\ Len(link) < MaxLink
    /\ m.qos > 0 => Free(m.id)
    /\ published' = Append(published, m)
    /\ handshake' = Append(handshake, IF m.qos = 0 THEN "complete" ELSE "sent")
    /\ link' = Append(link, [kind |-> "publish", msg |-> Len(published) + 1, id |-> m.id])
    /\ UNCHANGED <<client, mClock, past>>

\* What is not acknowledged is sent again: PUBLISH until PUBACK or PUBREC,
\* PUBREL until PUBCOMP.
Repeat(n) ==
    /\ Online /\ Len(link) < MaxLink
    /\ handshake[n] # "complete"
    /\ link' = Append(link, IF handshake[n] = "sent" THEN PublishPacket(n) ELSE Pubrel(published[n].id))
    /\ UNCHANGED <<client, published, handshake, mClock, past>>

SendControl(kind) ==
    /\ Online /\ Len(link) < MaxLink
    /\ link' = Append(link, Control(kind))
    /\ UNCHANGED <<client, published, handshake, mClock, past>>

-----------------------------------------------------------------------------
\* connect and subscribe: none of this looks at the time

Connect ==
    /\ mPc = "new"
    /\ mPc' = "connect"
    /\ UNCHANGED <<hops, keepAlive, pending, qos2, held, due, mDeadline, mEvents, mOutcome,
                   broker, mClock, past>>

\* The WebSocket is open and CONNECT is sent.
Opened ==
    /\ mPc = "connect"
    /\ mPc' = "connack"
    /\ UNCHANGED <<hops, keepAlive, pending, qos2, held, due, mDeadline, mEvents, mOutcome,
                   broker, mClock, past>>

\* CONNACK: accepted, perhaps with another keep-alive; SUBSCRIBE is sent.
Accepted(k) ==
    /\ mPc = "connack"
    /\ keepAlive' \in {keepAlive, k}
    /\ mPc' = "suback"
    /\ UNCHANGED <<hops, pending, qos2, held, due, mDeadline, mEvents, mOutcome, broker,
                   mClock, past>>

\* CONNACK: use another server; a new connection, up to MaxHops times.
RedirectedTo ==
    /\ mPc = "connack"
    /\ IF hops < MaxHops
       THEN hops' = hops + 1 /\ mPc' = "connect" /\ UNCHANGED mOutcome
       ELSE Over("error") /\ UNCHANGED hops
    /\ UNCHANGED <<keepAlive, pending, qos2, held, due, mDeadline, mEvents, broker, mClock, past>>

\* The connection fails or is closed, CONNACK or SUBACK rejects, a packet
\* cannot be parsed or is too large.
MobileFails ==
    /\ mPc \in {"connect", "connack", "suback", "listen", "ack", "exchange"}
    /\ Over("error")
    /\ UNCHANGED <<hops, keepAlive, pending, qos2, held, due, mDeadline, mEvents, broker,
                   mClock, past>>

\* SUBACK for the identifier of our SUBSCRIBE: the time begins to count and
\* the first event is known.
Subscribed ==
    /\ mPc = "suback" /\ link = <<>>
    /\ mPc' = "listen"
    /\ mDeadline' = mClock + LifeTime
    /\ due' = mClock + keepAlive
    /\ mEvents' = <<"Scan">>
    /\ UNCHANGED <<hops, keepAlive, pending, qos2, held, mOutcome, broker, mClock, past>>

-----------------------------------------------------------------------------
\* Packets, while the client waits for SUBACK or for the next message

Back == IF mDeadline = NoDeadline THEN "suback" ELSE "listen"

\* The deadline comes first in the select!: past it nothing is read.
InTime == mDeadline # NoDeadline => mClock < mDeadline
Reading == InTime /\ (mPc = "suback" \/ (mPc = "listen" /\ pending = <<>>))

\* ingest_mobile_mqtt and handle_mobile_message: what a message does.
Ingest(n) ==
    /\ delivered' = Append(delivered, n)
    /\ CASE published[n].type = "other" ->
              mPc' = "listen" /\ UNCHANGED <<mEvents, mOutcome, logins>>
         [] published[n].type = "scanned" ->
              /\ mEvents' = Append(mEvents, "Conf")
              /\ mPc' = "listen" /\ UNCHANGED <<mOutcome, logins>>
         [] published[n].type \in {"canceled", "timeout"} ->
              /\ mEvents' = Append(mEvents, IF published[n].type = "timeout" THEN "Timeout" ELSE "Refuse")
              /\ Over("ok") /\ UNCHANGED logins
         [] published[n].type = "loginFailed" ->
              Over("error") /\ UNCHANGED <<mEvents, logins>>
         [] published[n].type = "cookies" ->
              \/ mPc' = "exchange" /\ logins' = logins + 1 /\ UNCHANGED <<mEvents, mOutcome>>
              \/ Over("error") /\ UNCHANGED <<mEvents, logins>>

\* Mutant of Take: what arrives before SUBACK is discarded.
TakeSubscribed(n) ==
    IF mDeadline = NoDeadline
    THEN mPc' = "suback" /\ UNCHANGED <<pending, mEvents, mOutcome, delivered, logins>>
    ELSE Ingest(n) /\ UNCHANGED pending

\* A complete message: kept while SUBACK is awaited, else handed on.
Take(n) ==
    IF mDeadline = NoDeadline
    THEN /\ pending' = Append(pending, n)
         /\ mPc' = "suback"
         /\ UNCHANGED <<mEvents, mOutcome, delivered, logins>>
    ELSE Ingest(n) /\ UNCHANGED pending

\* next_message looks at pending_messages first.
NextPending ==
    /\ mPc = "listen" /\ InTime /\ pending # <<>>
    /\ pending' = Tail(pending)
    /\ Ingest(Head(pending))
    /\ UNCHANGED <<hops, keepAlive, qos2, held, due, mDeadline, broker, mClock, consumed, interrupted>>

\* A PUBLISH that needs no acknowledgement.
ReadQos0 ==
    /\ Reading /\ link # <<>> /\ Head(link).kind = "publish"
    /\ published[Head(link).msg].qos = 0
    /\ link' = Tail(link)
    /\ consumed' = consumed \cup {Head(link).msg}
    /\ Take(Head(link).msg)
    /\ UNCHANGED <<hops, keepAlive, qos2, held, due, mDeadline, published, handshake, mClock,
                   interrupted>>

\* A packet that is acknowledged before anything is done with it.
ReadAcked ==
    /\ Reading /\ link # <<>>
    /\ \/ Head(link).kind = "publish" /\ published[Head(link).msg].qos > 0
       \/ Head(link).kind = "pubrel"
    /\ held' = Head(link)
    /\ link' = Tail(link)
    /\ mPc' = "ack"
    /\ consumed' = IF Head(link).kind = "publish" THEN consumed \cup {Head(link).msg} ELSE consumed
    /\ UNCHANGED <<hops, keepAlive, pending, qos2, due, mDeadline, mEvents, mOutcome, published,
                   handshake, mClock, delivered, interrupted, logins>>

\* What the broker learns from PUBACK, PUBREC or PUBCOMP.
Handshaken(p) ==
    [n \in DOMAIN handshake |->
        IF p.kind = "publish" /\ n = p.msg /\ handshake[n] = "sent"
        THEN IF published[n].qos = 1 THEN "complete" ELSE "received"
        ELSE IF p.kind = "pubrel" /\ published[n].id = p.id /\ handshake[n] = "received"
             THEN "complete" ELSE handshake[n]]

\* The broker answers PUBREC with PUBREL.
Answer(p) ==
    LET released == {n \in DOMAIN handshake :
                        handshake[n] = "sent" /\ Handshaken(p)[n] = "received"}
    IN  IF released # {} /\ Len(link) < MaxLink THEN Append(link, Pubrel(p.id)) ELSE link

\* PUBACK is sent: the message is complete.
AckedQos1 ==
    /\ mPc = "ack" /\ InTime /\ held.kind = "publish" /\ published[held.msg].qos = 1
    /\ handshake' = Handshaken(held)
    /\ held' = NoMessage
    /\ Take(held.msg)
    /\ UNCHANGED <<hops, keepAlive, qos2, due, mDeadline, link, published, mClock, consumed, interrupted>>

\* Mutant of AckedQos2: a repeated PUBLISH is delivered, not stored.
AckedQos2Eager ==
    /\ mPc = "ack" /\ InTime /\ held.kind = "publish" /\ published[held.msg].qos = 2
    /\ handshake' = Handshaken(held)
    /\ link' = Answer(held)
    /\ held' = NoMessage
    /\ IF qos2[held.id] = NoMessage
       THEN /\ qos2' = [qos2 EXCEPT ![held.id] = held.msg] /\ mPc' = Back
            /\ UNCHANGED <<pending, mEvents, mOutcome, delivered, logins>>
       ELSE Take(held.msg) /\ UNCHANGED qos2
    /\ UNCHANGED <<hops, keepAlive, due, mDeadline, published, mClock, consumed, interrupted>>

\* PUBREC is sent: the message waits for its PUBREL, a repetition changes
\* nothing (entry(id).or_insert).
AckedQos2 ==
    /\ mPc = "ack" /\ InTime /\ held.kind = "publish" /\ published[held.msg].qos = 2
    /\ handshake' = Handshaken(held)
    /\ link' = Answer(held)
    /\ qos2' = IF qos2[held.id] = NoMessage THEN [qos2 EXCEPT ![held.id] = held.msg] ELSE qos2
    /\ held' = NoMessage
    /\ mPc' = Back
    /\ UNCHANGED <<hops, keepAlive, pending, due, mDeadline, mEvents, mOutcome, published, mClock, past>>

\* PUBCOMP is sent: the message is complete, unless it was before.
AckedPubrel ==
    /\ mPc = "ack" /\ InTime /\ held.kind = "pubrel"
    /\ handshake' = Handshaken(held)
    /\ held' = NoMessage
    /\ qos2' = [qos2 EXCEPT ![held.id] = NoMessage]
    /\ IF qos2[held.id] = NoMessage
       THEN mPc' = Back /\ UNCHANGED <<pending, mEvents, mOutcome, delivered, logins>>
       ELSE Take(qos2[held.id])
    /\ UNCHANGED <<hops, keepAlive, due, mDeadline, link, published, mClock, consumed, interrupted>>

\* PINGRESP and unknown packets are skipped, DISCONNECT ends the attempt.
ReadControl ==
    /\ Reading /\ link # <<>> /\ Head(link).kind \in {"pingresp", "disconnect"}
    /\ link' = Tail(link)
    /\ IF Head(link).kind = "disconnect" THEN Over("error") ELSE UNCHANGED <<mPc, mOutcome>>
    /\ UNCHANGED <<hops, keepAlive, pending, qos2, held, due, mDeadline, mEvents, published,
                   handshake, mClock, past>>

-----------------------------------------------------------------------------
\* The select! loop, the exchange and the caller

Selecting == mDeadline # NoDeadline /\ mPc \in {"listen", "ack"}

\* next_message is ready as long as there is something to read: select! is
\* biased, the ping comes last.
Waiting == mPc = "ack" \/ (pending = <<>> /\ link = <<>>)

\* The tick of the interval drops next_message and sends PINGREQ, whose
\* failure is ignored; an acknowledgement may or may not have been flushed.
Ping ==
    /\ Selecting /\ Waiting
    /\ keepAlive > 0 /\ mClock >= due /\ mClock < mDeadline
    /\ due' = mClock + keepAlive
    /\ mPc' = "listen"
    /\ held' = NoMessage
    /\ interrupted' = (interrupted \/ mPc = "ack")
    /\ handshake' \in {handshake} \cup (IF mPc = "ack" THEN {Handshaken(held)} ELSE {})
    /\ UNCHANGED <<hops, keepAlive, pending, qos2, mDeadline, mEvents, mOutcome, link, published,
                   mClock, delivered, consumed, logins>>

\* Mutant of TimesOut: the loop goes on and may report more.
TimesOutOpen ==
    /\ Selecting /\ mClock >= mDeadline
    /\ mEvents' = Append(mEvents, "Timeout") /\ Len(mEvents) < 4
    /\ UNCHANGED <<mPc, mOutcome, hops, keepAlive, pending, qos2, held, due, mDeadline, broker,
                   mClock, past>>

\* The deadline comes first in the select!.
TimesOut ==
    /\ Selecting /\ mClock >= mDeadline
    /\ mEvents' = Append(mEvents, "Timeout")
    /\ Over("ok")
    /\ UNCHANGED <<hops, keepAlive, pending, qos2, held, due, mDeadline, broker, mClock, past>>

\* The CGI Login answers; its errors are MobileFails.  The deadline does not end it.
LoggedIn ==
    /\ mPc = "exchange"
    /\ mEvents' = Append(mEvents, "Done")
    /\ Over("ok")
    /\ UNCHANGED <<hops, keepAlive, pending, qos2, held, due, mDeadline, broker, mClock, past>>

DropMobileLogin ==
    /\ mPc \notin {"new", "over"}
    /\ Over("dropped")
    /\ UNCHANGED <<hops, keepAlive, pending, qos2, held, due, mDeadline, mEvents, broker, mClock, past>>

\* Time passes while the attempt is suspended; the deadline is met in time, a
\* ping may be late.
MqttTick ==
    /\ \/ mPc \in {"connect", "connack", "exchange"} /\ mClock < MaxMqttClock
       \/ mPc = "ack" /\ mDeadline = NoDeadline /\ mClock < MaxMqttClock
       \/ mPc = "suback" /\ link = <<>> /\ mClock < MaxMqttClock
       \/ Selecting /\ mClock < mDeadline
    /\ mClock' = mClock + 1
    /\ UNCHANGED <<client, broker, past>>

-----------------------------------------------------------------------------
\* What the client does by itself, and what only the broker can bring about.
MqttStep ==
    \/ Connect \/ NextPending \/ ReadQos0 \/ ReadAcked \/ ReadControl
    \/ AckedQos1 \/ AckedQos2 \/ AckedPubrel \/ Ping \/ TimesOut

MobileExchange == mPc = "exchange" /\ (LoggedIn \/ MobileFails)

BrokerStep ==
    \/ Opened \/ RedirectedTo \/ Subscribed \/ MobileFails
    \/ \E k \in KeepAlives : Accepted(k)
    \/ \E m \in Messages : PublishNew(m)
    \/ \E n \in DOMAIN published : Repeat(n)
    \/ \E kind \in {"pingresp", "disconnect"} : SendControl(kind)

MobileNext == MqttStep \/ LoggedIn \/ BrokerStep \/ DropMobileLogin \/ MqttTick

MobileSpec == MobileInit /\ [][MobileNext]_mobileLogin

-----------------------------------------------------------------------------
\* The messages the client has completed, handed on or kept.
Taken == delivered \o pending

\* However the broker repeats and interleaves, no message is delivered twice
\* (QoS 2: PUBREC, PUBREL, PUBCOMP; mqtt.rs:89), except a QoS 1 message whose
\* PUBLISH was repeated, which the protocol allows; those that need no
\* handshake come in the order they were published in.
DeliveredOnce ==
    \A i, j \in DOMAIN Taken : i < j =>
        /\ Taken[i] = Taken[j] => published[Taken[i]].qos = 1
        /\ published[Taken[i]].qos = 0 /\ published[Taken[j]].qos = 0 => Taken[i] < Taken[j]

\* A message that was taken from the link is delivered, kept, or being
\* acknowledged, as long as the ping has not interrupted an acknowledgement:
\* nothing that arrives before SUBACK is lost ("业务消息不能丢弃", mqtt.rs:86).
\* Where it has (mqtt.rs:537), the message is lost and nothing is claimed.
NothingLost ==
    ~interrupted => \A n \in consumed :
        \/ n \in ToSet(delivered) \cup ToSet(pending)
        \/ \E i \in Ids : qos2[i] = n
        \/ held # NoMessage /\ held.msg = n
        \/ mPc = "over"

\* Nothing follows a terminal event, and the list of an attempt that returns it
\* begins with Scan and ends with its only terminal event; the cookies of the
\* broker are exchanged at most once, and Done is reported for that only.
EventsWellFormed ==
    /\ \A i \in DOMAIN mEvents : mEvents[i] \in {"Done", "Refuse", "Timeout"} =>
           i = Len(mEvents) /\ mPc = "over"
    /\ mOutcome = "ok" => mEvents # <<>> /\ Head(mEvents) = "Scan"
                          /\ Last(mEvents) \in {"Done", "Refuse", "Timeout"}
    /\ logins <= 1
    /\ "Done" \in ToSet(mEvents) => logins = 1

\* timeout is the limit of the whole life cycle of the code ("整个二维码生命周期的总时限",
\* login.rs:642), after which the TIMEOUT event ends the attempt (:647): every
\* attempt ends, on a broker that falls silent too.
LifetimeBounded == mPc = "connect" ~> mPc = "over"
=============================================================================
