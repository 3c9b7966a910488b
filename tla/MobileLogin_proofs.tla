------------------------- MODULE MobileLogin_proofs -------------------------
(***************************************************************************)
(* Proofs about the login of the mobile app, for every number of messages, *)
(* identifiers, redirects and ticks, and for a link of any length.         *)
(*   - OnceInv relates what the broker believes acknowledged, the packets  *)
(*     on the wire, what waits for its PUBREL and what was taken; from it, *)
(*     no message is delivered twice.                                      *)
(*   - LossInv adds where a message that was read is; from it, none is     *)
(*     lost.                                                               *)
(*   - EventsInv is about the list of events and the exchange of the code. *)
(***************************************************************************)
EXTENDS MobileLogin, Integers, SequenceTheorems, TLAPS

-----------------------------------------------------------------------------
\* The numbers of the messages that were published.
Known == 1 .. Len(published)

\* The packets that are still to be dealt with: the one whose acknowledgement is
\* being sent, and those on their way.
View == IF mPc = "ack" THEN <<held>> \o link ELSE link

\* What the k-th packet of the view is.
IsPublish(k, n) == View[k].kind = "publish" /\ View[k].msg = n
IsPubrel(k, i) == View[k].kind = "pubrel" /\ View[k].id = i

\* The types the argument needs.  Nothing is kept while a message is
\* acknowledged after SUBACK.
MqttTypes ==
    /\ mPc \in {"new", "connect", "connack", "suback", "listen", "ack", "exchange", "over"}
    /\ mDeadline \in Nat \cup {NoDeadline} /\ mClock \in Nat
    /\ published \in Seq(Message) /\ Len(published) <= MaxPublished
    /\ handshake \in Seq({"sent", "received", "complete"}) /\ Len(handshake) = Len(published)
    /\ link \in Seq(Packet)
    /\ mPc = "ack" => held \in Packet
    /\ delivered \in Seq(Known) /\ pending \in Seq(Known) /\ consumed \subseteq Known
    /\ qos2 \in [Ids -> Indices \cup {NoMessage}]
    /\ mPc \in {"listen", "exchange"} => mDeadline # NoDeadline
    /\ mPc \in {"new", "connect", "connack", "suback"} => mDeadline = NoDeadline
    /\ mPc = "ack" /\ mDeadline # NoDeadline => pending = <<>>

\* The broker uses an identifier for one message at a time; only a QoS 2
\* message is received and not complete.
HandshakeInv ==
    /\ \A n \in Known : published[n].qos = 0 => handshake[n] = "complete"
    /\ \A n \in Known : handshake[n] = "received" => published[n].qos = 2
    /\ \A n, m \in Known :
          n # m /\ published[n].qos > 0 /\ published[m].qos > 0 /\ published[n].id = published[m].id
             => handshake[n] = "complete" \/ handshake[m] = "complete"

\* What waits for its PUBREL is a QoS 2 message.
StoredInv ==
    \A i \in Ids : qos2[i] # NoMessage =>
        /\ qos2[i] \in Known
        /\ published[qos2[i]].qos = 2 /\ published[qos2[i]].id = i
        /\ handshake[qos2[i]] # "sent"

\* The packets on the way to the client are ones the broker may send.
PacketsInv ==
    \A k \in DOMAIN View :
        /\ View[k] \in Packet
        /\ View[k].kind = "publish" => View[k].msg \in Known /\ View[k].id = published[View[k].msg].id
        /\ View[k].kind = "pubrel" => View[k].id \in Ids

\* A PUBLISH behind a PUBREL of its identifier is the first of its message: it
\* has not been seen, neither before the PUBREL nor by the client.
UnseenInv ==
    \A j, k \in DOMAIN View :
        j < k /\ View[j].kind = "pubrel" /\ View[k].kind = "publish" /\ View[j].id = View[k].id
           => /\ qos2[View[k].id] # View[k].msg
              /\ \A l \in DOMAIN View : l < j => ~IsPublish(l, View[k].msg)

\* A message that may still be repeated is not on the wire before a PUBREL of
\* its identifier.
SentInv ==
    \A j \in DOMAIN View, n \in Known :
        IsPubrel(j, published[n].id) /\ handshake[n] = "sent"
           => \A l \in DOMAIN View : l < j => ~IsPublish(l, n)

\* Messages that need no handshake are on the wire in their order.
OrderInv ==
    \A j, k \in DOMAIN View :
        j < k /\ View[j].kind = "publish" /\ View[k].kind = "publish"
              /\ published[View[j].msg].qos = 0 /\ published[View[k].msg].qos = 0
           => View[j].msg < View[k].msg

ViewInv == PacketsInv /\ UnseenInv /\ SentInv /\ OrderInv

\* A QoS 2 message that was taken has left the wire and the store; one that
\* needs no handshake was before all that are on the wire.
TakenInv ==
    \A x \in DOMAIN Taken :
        /\ Taken[x] \in Known
        /\ published[Taken[x]].qos = 2 =>
              /\ handshake[Taken[x]] # "sent"
              /\ qos2[published[Taken[x]].id] # Taken[x]
              /\ \A k \in DOMAIN View : ~IsPublish(k, Taken[x])
        /\ published[Taken[x]].qos = 0 =>
              \A k \in DOMAIN View :
                  View[k].kind = "publish" /\ published[View[k].msg].qos = 0
                     => Taken[x] < View[k].msg

\* What a step needs to know to deliver nothing twice.
OnceInv == MqttTypes /\ HandshakeInv /\ StoredInv /\ ViewInv /\ TakenInv /\ DeliveredOnce

\* The message was delivered or is kept to be.
WasTaken(n) == \E x \in DOMAIN Taken : Taken[x] = n

\* As long as no acknowledgement was interrupted, a QoS 2 message that the
\* broker believes received is stored, and one it believes complete was taken.
LossInv ==
    ~interrupted =>
        /\ \A n \in Known : published[n].qos = 2 =>
              /\ handshake[n] = "received" => qos2[published[n].id] = n
              /\ handshake[n] = "complete" => WasTaken(n)
        /\ \A n \in consumed :
              \/ WasTaken(n)
              \/ \E i \in Ids : qos2[i] = n
              \/ mPc = "ack" /\ held.kind = "publish" /\ held.msg = n
              \/ mPc = "over"

\* The terminal events.
Ends == {"Done", "Refuse", "Timeout"}

\* No terminal event before the end, and no exchange but one.
EventsInv ==
    /\ mPc \in {"exchange", "over"} \/ logins = 0
    /\ mPc = "exchange" => logins = 1
    /\ logins \in 0 .. 1
    /\ mPc # "over" => mOutcome = "none" /\ \A i \in DOMAIN mEvents : mEvents[i] \notin Ends
    /\ \A i \in DOMAIN mEvents : mEvents[i] \in Ends => i = Len(mEvents)
    /\ \A i \in DOMAIN mEvents : mEvents[i] = "Done" => logins = 1
    /\ mDeadline # NoDeadline => Len(mEvents) > 0 /\ mEvents[1] = "Scan"
    /\ mOutcome = "ok" => Len(mEvents) > 0 /\ mEvents[1] = "Scan" /\ mEvents[Len(mEvents)] \in Ends
    /\ mEvents \in Seq({"Scan", "Conf", "Done", "Refuse", "Timeout"})

-----------------------------------------------------------------------------
\* The view is a sequence of packets, and its tail is the link while one is
\* being acknowledged.
LEMMA TypesOfView ==
    ASSUME MqttTypes
    PROVE  /\ View \in Seq(Packet)
           /\ mPc = "ack" => View # <<>> /\ View[1] = held /\ Tail(View) = link
           /\ mPc # "ack" => View = link
<1>1. CASE mPc = "ack"
  <2>1. held \in Packet /\ link \in Seq(Packet) /\ <<held>> \in Seq(Packet) /\ Len(<<held>>) = 1
    BY <1>1 DEF MqttTypes
  <2> DEFINE v == <<held>> \o link
  <2>2. v \in Seq(Packet) /\ Len(v) = 1 + Len(link)
        /\ \A i \in 1 .. 1 + Len(link) : v[i] = IF i <= 1 THEN <<held>>[i] ELSE link[i - 1]
    BY <2>1, ConcatProperties
  <2>3. v # <<>> /\ v[1] = held
    BY <2>1, <2>2
  <2>4. Tail(v) \in Seq(Packet) /\ Len(Tail(v)) = Len(link) /\ \A i \in 1 .. Len(link) : Tail(v)[i] = v[i + 1]
    BY <2>1, <2>2, <2>3, HeadTailProperties
  <2>5. \A i \in 1 .. Len(link) : v[i + 1] = link[i]
    BY <2>1, <2>2
  <2>6. Tail(v) = link
    BY <2>1, <2>4, <2>5, SeqEqual
  <2>7. QED
    BY <1>1, <2>2, <2>3, <2>6 DEF View
<1>2. CASE mPc # "ack"
  BY <1>2 DEF View, MqttTypes
<1>3. QED
  BY <1>1, <1>2

\* A sequence is its head and its tail.
LEMMA HeadBack ==
    ASSUME NEW S, NEW s \in Seq(S), s # <<>>
    PROVE  <<Head(s)>> \o Tail(s) = s
<1>1. Head(s) \in S /\ Tail(s) \in Seq(S) /\ Len(Tail(s)) = Len(s) - 1 /\ Len(s) \in Nat \ {0}
      /\ \A i \in 1 .. Len(Tail(s)) : Tail(s)[i] = s[i + 1]
  BY HeadTailProperties, EmptySeq
<1>2. <<Head(s)>> \in Seq(S) /\ Len(<<Head(s)>>) = 1 /\ Head(s) = s[1]
  BY <1>1
<1> DEFINE v == <<Head(s)>> \o Tail(s)
<1>3. /\ v \in Seq(S) /\ Len(v) = 1 + Len(Tail(s))
      /\ \A i \in 1 .. 1 + Len(Tail(s)) : v[i] = IF i <= 1 THEN <<Head(s)>>[i] ELSE Tail(s)[i - 1]
  BY <1>1, <1>2, ConcatProperties
<1>4. \A i \in 1 .. Len(s) : v[i] = s[i]
  BY <1>1, <1>2, <1>3
<1>5. Len(v) = Len(s)
  BY <1>1, <1>3
<1>6. QED
  BY <1>3, <1>4, <1>5, SeqEqual

\* Handing on the first of what is kept changes nothing of what was taken.
LEMMA MovedOver ==
    ASSUME NEW S, NEW s \in Seq(S), NEW t \in Seq(S), t # <<>>
    PROVE  Append(s, Head(t)) \o Tail(t) = s \o t
<1>1. Head(t) \in S /\ Tail(t) \in Seq(S) /\ <<Head(t)>> \in Seq(S)
  BY HeadTailProperties
<1>2. Append(s, Head(t)) = s \o <<Head(t)>>
  BY <1>1, AppendIsConcat
<1>3. (s \o <<Head(t)>>) \o Tail(t) = s \o (<<Head(t)>> \o Tail(t))
  BY <1>1, ConcatAssociative
<1>4. QED
  BY <1>2, <1>3, HeadBack

\* What is appended to a sequence is appended to what stands before it.
LEMMA AppendedLast ==
    ASSUME NEW S, NEW s \in Seq(S), NEW t \in Seq(S), NEW e \in S
    PROVE  s \o Append(t, e) = Append(s \o t, e)
<1>1. <<e>> \in Seq(S) /\ s \o t \in Seq(S)
  BY ConcatProperties
<1>2. Append(t, e) = t \o <<e>> /\ Append(s \o t, e) = (s \o t) \o <<e>>
  BY <1>1, AppendIsConcat
<1>3. (s \o t) \o <<e>> = s \o (t \o <<e>>)
  BY <1>1, ConcatAssociative
<1>4. QED
  BY <1>2, <1>3

-----------------------------------------------------------------------------
\* A packet the broker adds to the link.
Arrives(p) ==
    /\ p \in Packet
    /\ p.kind = "publish" =>
          p.msg \in Known /\ p.id = published[p.msg].id /\ handshake'[p.msg] = "sent"
    /\ p.kind = "pubrel" =>
          p.id \in Ids /\ \A n \in Known : published[n].id = p.id => handshake'[n] # "sent"

\* The view without its first d packets, and at most one more.
Moves(d) ==
    /\ View' \in Seq(Packet) /\ UNCHANGED published
    /\ \A k \in DOMAIN View' : \/ k + d \in DOMAIN View /\ View'[k] = View[k + d]
                               \/ k = Len(View') /\ Arrives(View'[k])
    /\ \A n \in Known : handshake'[n] = "sent" => handshake[n] = "sent"
    /\ \A i \in Ids : \/ qos2'[i] \in {qos2[i], NoMessage}
                      \/ d = 1 /\ View # <<>> /\ IsPublish(1, qos2'[i])

\* Whatever step moves the view, the order of its packets stays what the broker
\* may send.
LEMMA ViewMoves ==
    ASSUME OnceInv, NEW d \in {0, 1}, Moves(d)
    PROVE  ViewInv'
<1> USE DEF IsPublish, IsPubrel
<1>1. /\ View \in Seq(Packet) /\ View' \in Seq(Packet) /\ published' = published /\ Known' = Known
      /\ DOMAIN View = 1 .. Len(View) /\ DOMAIN View' = 1 .. Len(View')
      /\ Len(View) \in Nat /\ Len(View') \in Nat
  BY TypesOfView, LenProperties DEF OnceInv, Moves, Known
<1>2. \A k \in DOMAIN View' : \/ k + d \in DOMAIN View /\ View'[k] = View[k + d]
                              \/ k = Len(View') /\ Arrives(View'[k])
  BY DEF Moves
<1>3. /\ \A n \in Known : handshake'[n] = "sent" => handshake[n] = "sent"
      /\ Known \subseteq Indices /\ NoMessage \notin Known
  BY MobileAssumption DEF Moves, Known, OnceInv, MqttTypes, Indices
<1>4. PacketsInv'
  BY <1>1, <1>2 DEF PacketsInv, OnceInv, ViewInv, Arrives
<1>5. UnseenInv'
  <2> SUFFICES ASSUME NEW j \in DOMAIN View', NEW k \in DOMAIN View', j < k,
                      View'[j].kind = "pubrel", View'[k].kind = "publish", View'[j].id = View'[k].id
               PROVE  /\ qos2'[View'[k].id] # View'[k].msg
                      /\ \A l \in DOMAIN View' : l < j =>
                            ~(View'[l].kind = "publish" /\ View'[l].msg = View'[k].msg)
    BY DEF UnseenInv
  <2> DEFINE n == View'[k].msg
             i == View'[k].id
  <2>1. j + d \in DOMAIN View /\ View'[j] = View[j + d] /\ j # Len(View')
    BY <1>1, <1>2
  <2>2. /\ View'[k] \in Packet /\ n \in Known /\ i = published[n].id /\ i \in Ids
    BY <1>1, <1>4 DEF PacketsInv
  <2>3. qos2[i] # n /\ \A l \in DOMAIN View : l < j + d => ~IsPublish(l, n)
    <3>1. CASE k + d \in DOMAIN View /\ View'[k] = View[k + d]
      <4>1. j + d < k + d
        BY <1>1
      <4>2. QED
        BY <2>1, <3>1, <4>1 DEF OnceInv, ViewInv, UnseenInv
    <3>2. CASE k = Len(View') /\ Arrives(View'[k])
      <4>1. handshake[n] = "sent" /\ IsPubrel(j + d, published[n].id)
        BY <1>3, <2>1, <2>2, <3>2 DEF Arrives
      <4>2. \A l \in DOMAIN View : l < j + d => ~IsPublish(l, n)
        BY <2>1, <2>2, <4>1 DEF OnceInv, ViewInv, SentInv
      <4>3. qos2[i] # n
        BY <1>3, <2>2, <4>1 DEF OnceInv, StoredInv
      <4>4. QED
        BY <4>2, <4>3
    <3>3. QED
      BY <1>2, <3>1, <3>2
  <2>4. qos2'[i] # n
    <3>1. qos2'[i] \in {qos2[i], NoMessage} \/ (d = 1 /\ View # <<>> /\ IsPublish(1, qos2'[i]))
      BY <2>2 DEF Moves
    <3>2. CASE d = 1 /\ View # <<>> /\ IsPublish(1, qos2'[i])
      <4>1. 1 \in DOMAIN View /\ 1 < j + d
        BY <1>1, <3>2
      <4>2. QED
        BY <2>3, <3>2, <4>1
    <3>3. QED
      BY <1>3, <2>2, <2>3, <3>1, <3>2
  <2>5. ASSUME NEW l \in DOMAIN View', l < j PROVE ~(View'[l].kind = "publish" /\ View'[l].msg = n)
    <3>1. l + d \in DOMAIN View /\ View'[l] = View[l + d] /\ l + d < j + d
      BY <1>1, <1>2, <2>1, <2>5
    <3>2. ~IsPublish(l + d, n)
      BY <2>3, <3>1
    <3>3. QED
      BY <3>1, <3>2
  <2>6. QED
    BY <2>4, <2>5
<1>6. SentInv'
  <2> SUFFICES ASSUME NEW j \in DOMAIN View', NEW n \in Known,
                      View'[j].kind = "pubrel", View'[j].id = published[n].id, handshake'[n] = "sent",
                      NEW l \in DOMAIN View', l < j
               PROVE  ~IsPublish(l, n)'
    BY <1>1 DEF SentInv
  <2>1. j + d \in DOMAIN View /\ View'[j] = View[j + d]
    BY <1>1, <1>2 DEF Arrives
  <2>2. l + d \in DOMAIN View /\ View'[l] = View[l + d] /\ l + d < j + d
    BY <1>1, <1>2, <2>1
  <2>3. ~IsPublish(l + d, n)
    BY <1>3, <2>1, <2>2 DEF OnceInv, ViewInv, SentInv
  <2>4. QED
    BY <2>2, <2>3
<1>7. OrderInv'
  <2> SUFFICES ASSUME NEW j \in DOMAIN View', NEW k \in DOMAIN View', j < k,
                      View'[j].kind = "publish", View'[k].kind = "publish",
                      published[View'[j].msg].qos = 0, published[View'[k].msg].qos = 0
               PROVE  View'[j].msg < View'[k].msg
    BY <1>1 DEF OrderInv
  <2>1. j + d \in DOMAIN View /\ View'[j] = View[j + d]
    BY <1>1, <1>2
  <2>2. ~Arrives(View'[k])
    BY <1>3 DEF Arrives, OnceInv, HandshakeInv
  <2>3. k + d \in DOMAIN View /\ View'[k] = View[k + d] /\ j + d < k + d
    BY <1>1, <1>2, <2>2
  <2>4. QED
    BY <2>1, <2>3 DEF OnceInv, ViewInv, OrderInv
<1>8. QED
  BY <1>4, <1>5, <1>6, <1>7 DEF ViewInv

\* What a message that was taken must not find
LEMMA TakenStays ==
    ASSUME OnceInv, NEW d \in {0, 1}, Moves(d), NEW n \in Known,
           published[n].qos = 2 =>
              /\ handshake[n] # "sent" /\ qos2[published[n].id] # n
              /\ \A k \in DOMAIN View : ~IsPublish(k, n),
           published[n].qos = 0 =>
              \A k \in DOMAIN View :
                  View[k].kind = "publish" /\ published[View[k].msg].qos = 0 => n < View[k].msg
    PROVE  /\ published'[n].qos = 2 =>
                 /\ handshake'[n] # "sent" /\ qos2'[published'[n].id] # n
                 /\ \A k \in DOMAIN View' : ~IsPublish(k, n)'
           /\ published'[n].qos = 0 =>
                 \A k \in DOMAIN View' :
                     View'[k].kind = "publish" /\ published'[View'[k].msg].qos = 0 => n < View'[k].msg
<1> USE DEF IsPublish
<1>1. /\ View \in Seq(Packet) /\ View' \in Seq(Packet) /\ published' = published
      /\ DOMAIN View = 1 .. Len(View) /\ DOMAIN View' = 1 .. Len(View') /\ Len(View) \in Nat
      /\ published[n].id \in Ids /\ NoMessage # n
  <2>1. published[n] \in Message
    BY DEF OnceInv, MqttTypes, Known
  <2>. n \in Indices
    BY MobileAssumption DEF OnceInv, MqttTypes, Known, Indices
  <2>2. View \in Seq(Packet) /\ View' \in Seq(Packet) /\ published' = published
    BY TypesOfView DEF OnceInv, Moves
  <2>3. QED
    BY <2>1, <2>2, LenProperties, MobileAssumption DEF Message
<1>2. /\ \A k \in DOMAIN View' : \/ k + d \in DOMAIN View /\ View'[k] = View[k + d]
                                 \/ k = Len(View') /\ Arrives(View'[k])
      /\ handshake'[n] = "sent" => handshake[n] = "sent"
  BY DEF Moves
<1>3. ASSUME published[n].qos = 2
      PROVE  /\ handshake'[n] # "sent" /\ qos2'[published[n].id] # n
             /\ \A k \in DOMAIN View' : ~IsPublish(k, n)'
  <2>1. handshake'[n] # "sent"
    BY <1>2, <1>3
  <2>2. qos2'[published[n].id] # n
    <3>1. \/ qos2'[published[n].id] \in {qos2[published[n].id], NoMessage}
          \/ View # <<>> /\ IsPublish(1, qos2'[published[n].id])
      BY <1>1 DEF Moves
    <3>2. View # <<>> => 1 \in DOMAIN View
      BY <1>1
    <3>3. QED
      BY <1>1, <1>3, <3>1, <3>2
  <2>3. ASSUME NEW k \in DOMAIN View' PROVE ~IsPublish(k, n)'
    BY <1>2, <1>3, <2>1 DEF Arrives
  <2>4. QED
    BY <2>1, <2>2, <2>3
<1>4. ASSUME published[n].qos = 0, NEW k \in DOMAIN View',
             View'[k].kind = "publish", published[View'[k].msg].qos = 0
      PROVE  n < View'[k].msg
  <2>1. ~Arrives(View'[k])
    BY <1>4 DEF Arrives, OnceInv, HandshakeInv, Moves
  <2>2. k + d \in DOMAIN View /\ View'[k] = View[k + d]
    BY <1>2, <2>1
  <2>3. QED
    BY <1>4, <2>2
<1>5. QED
  BY <1>1, <1>3, <1>4

\* The acknowledgement of a packet moves messages on, never back.
LEMMA HandshakenMoves ==
    ASSUME MqttTypes, HandshakeInv, NEW p \in Packet
    PROVE  /\ Handshaken(p) \in Seq({"sent", "received", "complete"})
           /\ Len(Handshaken(p)) = Len(published)
           /\ \A n \in Known :
                 /\ Handshaken(p)[n] = "sent" => handshake[n] = "sent"
                 /\ handshake[n] = "complete" => Handshaken(p)[n] = "complete"
                 /\ Handshaken(p)[n] = "received" =>
                       /\ published[n].qos = 2
                       /\ \/ handshake[n] = "received" /\ ~(p.kind = "pubrel" /\ published[n].id = p.id)
                          \/ p.kind = "publish" /\ p.msg = n
                 /\ Handshaken(p)[n] = "complete" =>
                       \/ handshake[n] = "complete"
                       \/ p.kind = "publish" /\ p.msg = n /\ published[n].qos = 1
                       \/ p.kind = "pubrel" /\ published[n].id = p.id /\ handshake[n] = "received"
                 /\ p.kind = "publish" /\ p.msg = n => Handshaken(p)[n] # "sent"
<1> DEFINE h == Handshaken(p)
           Value(n) == IF p.kind = "publish" /\ n = p.msg /\ handshake[n] = "sent"
                       THEN IF published[n].qos = 1 THEN "complete" ELSE "received"
                       ELSE IF p.kind = "pubrel" /\ published[n].id = p.id /\ handshake[n] = "received"
                            THEN "complete" ELSE handshake[n]
<1>1. /\ Len(published) \in Nat /\ Known = 1 .. Len(published) /\ DOMAIN handshake = Known
      /\ \A n \in Known : handshake[n] \in {"sent", "received", "complete"}
      /\ \A n \in Known : published[n] \in Message
  BY DEF MqttTypes, Known
<1>2. h = [n \in Known |-> Value(n)]
  BY <1>1 DEF Handshaken
<1>3. \A n \in Known : h[n] = Value(n) /\ Value(n) \in {"sent", "received", "complete"}
  BY <1>1, <1>2
<1>4. h \in Seq({"sent", "received", "complete"}) /\ Len(h) = Len(published)
  BY <1>1, <1>2, <1>3
<1>5. ASSUME NEW n \in Known
      PROVE  /\ h[n] = "sent" => handshake[n] = "sent"
             /\ handshake[n] = "complete" => h[n] = "complete"
             /\ h[n] = "received" =>
                   /\ published[n].qos = 2
                   /\ \/ handshake[n] = "received" /\ ~(p.kind = "pubrel" /\ published[n].id = p.id)
                      \/ p.kind = "publish" /\ p.msg = n
             /\ h[n] = "complete" =>
                   \/ handshake[n] = "complete"
                   \/ p.kind = "publish" /\ p.msg = n /\ published[n].qos = 1
                   \/ p.kind = "pubrel" /\ published[n].id = p.id /\ handshake[n] = "received"
             /\ p.kind = "publish" /\ p.msg = n => h[n] # "sent"
  <2>1. published[n].qos \in 0 .. 2 /\ h[n] = Value(n)
    BY <1>1, <1>3 DEF Message
  <2>2. /\ published[n].qos = 0 => handshake[n] = "complete"
        /\ handshake[n] = "received" => published[n].qos = 2
    BY DEF HandshakeInv
  <2> HIDE DEF h
  <2>3. CASE p.kind = "publish" /\ n = p.msg /\ handshake[n] = "sent"
    BY <2>1, <2>2, <2>3
  <2>4. CASE ~(p.kind = "publish" /\ n = p.msg /\ handshake[n] = "sent")
    BY <2>1, <2>2, <2>4
  <2>5. QED
    BY <2>3, <2>4
<1>6. QED
  BY <1>4, <1>5

\* The identifiers stay exclusive while messages are acknowledged.
LEMMA HandshakeKept ==
    ASSUME MqttTypes, HandshakeInv, UNCHANGED published, NEW p \in Packet,
           handshake' \in {handshake, Handshaken(p)}
    PROVE  HandshakeInv' /\ \A n \in Known : handshake'[n] = "sent" => handshake[n] = "sent"
<1>1. Known' = Known
  BY DEF Known
<1>2. \A n \in Known :
         /\ handshake'[n] = "sent" => handshake[n] = "sent"
         /\ handshake[n] = "complete" => handshake'[n] = "complete"
         /\ handshake'[n] = "received" => published[n].qos = 2
  BY HandshakenMoves DEF HandshakeInv
<1>3. QED
  BY <1>1, <1>2 DEF HandshakeInv

\* What the client may store for a PUBREL.
Stores ==
    \A i \in Ids : \/ qos2'[i] \in {qos2[i], NoMessage}
                   \/ /\ qos2'[i] \in Known
                      /\ published[qos2'[i]].qos = 2 /\ published[qos2'[i]].id = i
                      /\ handshake'[qos2'[i]] # "sent"

\* What the client stores is received, with the identifier it is stored under.
LEMMA StoredKept ==
    ASSUME OnceInv, NEW d \in {0, 1}, Moves(d), Stores
    PROVE  StoredInv'
<1>1. Known' = Known /\ published' = published
  BY DEF Moves, Known
<1> SUFFICES ASSUME NEW i \in Ids, qos2'[i] # NoMessage
             PROVE  /\ qos2'[i] \in Known
                    /\ published[qos2'[i]].qos = 2 /\ published[qos2'[i]].id = i
                    /\ handshake'[qos2'[i]] # "sent"
  BY <1>1 DEF StoredInv
<1>2. CASE qos2'[i] = qos2[i]
  BY <1>2 DEF OnceInv, StoredInv, Moves
<1>3. CASE qos2'[i] # qos2[i]
  BY <1>3 DEF Stores
<1>4. QED
  BY <1>2, <1>3

\* A step that takes no message keeps the invariant.
LEMMA Settles ==
    ASSUME OnceInv, MqttTypes', HandshakeInv', NEW d \in {0, 1}, Moves(d), Stores, Taken' = Taken
    PROVE  OnceInv'
<1>1. StoredInv' /\ ViewInv'
  BY StoredKept, ViewMoves
<1>2. Known' = Known /\ published' = published
  BY DEF Moves, Known
<1>3. TakenInv'
  <2>1. ASSUME NEW x \in DOMAIN Taken
        PROVE  /\ Taken[x] \in Known
               /\ published'[Taken[x]].qos = 2 =>
                     /\ handshake'[Taken[x]] # "sent" /\ qos2'[published'[Taken[x]].id] # Taken[x]
                     /\ \A k \in DOMAIN View' : ~IsPublish(k, Taken[x])'
               /\ published'[Taken[x]].qos = 0 =>
                     \A k \in DOMAIN View' :
                         View'[k].kind = "publish" /\ published'[View'[k].msg].qos = 0
                            => Taken[x] < View'[k].msg
    <3> DEFINE n == Taken[x]
    <3>1. n \in Known
      BY DEF OnceInv, TakenInv
    <3>2. /\ published[n].qos = 2 =>
                /\ handshake[n] # "sent" /\ qos2[published[n].id] # n
                /\ \A k \in DOMAIN View : ~IsPublish(k, n)
          /\ published[n].qos = 0 =>
                \A k \in DOMAIN View :
                    View[k].kind = "publish" /\ published[View[k].msg].qos = 0 => n < View[k].msg
      BY DEF OnceInv, TakenInv
    <3> HIDE DEF n
    <3>3. /\ published'[n].qos = 2 =>
                /\ handshake'[n] # "sent" /\ qos2'[published'[n].id] # n
                /\ \A k \in DOMAIN View' : ~(View'[k].kind = "publish" /\ View'[k].msg = n)
          /\ published'[n].qos = 0 =>
                \A k \in DOMAIN View' :
                    View'[k].kind = "publish" /\ published'[View'[k].msg].qos = 0 => n < View'[k].msg
      BY <3>1, <3>2, TakenStays DEF IsPublish
    <3>4. QED
      BY <3>1, <3>3 DEF n, IsPublish
  <2>2. QED
    BY <1>2, <2>1 DEF TakenInv, IsPublish
<1>4. DeliveredOnce'
  BY <1>2 DEF DeliveredOnce, OnceInv
<1>5. QED
  BY <1>1, <1>3, <1>4 DEF OnceInv

\* What is taken is a message that needs no handshake and was the next packet,
\* one the protocol may deliver again, or one that was stored for this PUBREL.
Takes(d, n) ==
    /\ n \in Known /\ Taken' = Append(Taken, n)
    /\ published[n].qos = 0 => d = 1 /\ View # <<>> /\ IsPublish(1, n)
    /\ published[n].qos = 2 =>
          /\ d = 1 /\ View # <<>> /\ IsPubrel(1, published[n].id)
          /\ qos2[published[n].id] = n /\ qos2'[published[n].id] # n

\* A message that is taken was not taken before, unless its QoS is 1; it leaves
\* the wire and the store, and those without a handshake behind it are younger.
LEMMA TakenNew ==
    ASSUME OnceInv, NEW d \in {0, 1}, Moves(d), NEW n, Takes(d, n)
    PROVE  /\ published[n].qos = 2 =>
                 /\ handshake'[n] # "sent" /\ qos2'[published[n].id] # n
                 /\ \A k \in DOMAIN View' : ~(View'[k].kind = "publish" /\ View'[k].msg = n)
           /\ published[n].qos = 0 =>
                 \A k \in DOMAIN View' :
                     View'[k].kind = "publish" /\ published[View'[k].msg].qos = 0 => n < View'[k].msg
           /\ \A x \in DOMAIN Taken :
                 /\ Taken[x] = n => published[n].qos = 1
                 /\ published[Taken[x]].qos = 0 /\ published[n].qos = 0 => Taken[x] < n
<1> USE DEF IsPublish, IsPubrel
<1>1. /\ View \in Seq(Packet) /\ View' \in Seq(Packet)
      /\ DOMAIN View = 1 .. Len(View) /\ DOMAIN View' = 1 .. Len(View')
      /\ Len(View) \in Nat /\ Len(View') \in Nat
  BY TypesOfView, LenProperties DEF OnceInv, Moves
<1>2. /\ n \in Known /\ published[n] \in Message /\ published[n].id \in Ids /\ n \in Nat
      /\ NoMessage # n
  <2>1. n \in Known
    BY DEF Takes
  <2>2. published[n] \in Message
    BY <2>1 DEF OnceInv, MqttTypes, Known
  <2>3. n \in Indices
    BY <2>1, MobileAssumption DEF OnceInv, MqttTypes, Known, Indices
  <2>4. QED
    BY <2>1, <2>2, <2>3, MobileAssumption DEF Message, Indices
<1>3. /\ \A k \in DOMAIN View' : \/ k + d \in DOMAIN View /\ View'[k] = View[k + d]
                                 \/ k = Len(View') /\ Arrives(View'[k])
      /\ handshake'[n] = "sent" => handshake[n] = "sent"
      /\ View # <<>> => 1 \in DOMAIN View
  BY <1>1, <1>2 DEF Moves
<1>4. ASSUME published[n].qos = 2
      PROVE  /\ handshake'[n] # "sent" /\ qos2'[published[n].id] # n
             /\ \A k \in DOMAIN View' : ~(View'[k].kind = "publish" /\ View'[k].msg = n)
             /\ \A x \in DOMAIN Taken : Taken[x] # n
  <2>1. /\ d = 1 /\ 1 \in DOMAIN View /\ IsPubrel(1, published[n].id)
        /\ qos2[published[n].id] = n /\ qos2'[published[n].id] # n
    BY <1>3, <1>4 DEF Takes
  <2>2. handshake[n] # "sent"
    BY <1>2, <2>1 DEF OnceInv, StoredInv
  <2>3. ASSUME NEW k \in DOMAIN View', View'[k].kind = "publish", View'[k].msg = n
        PROVE  FALSE
    <3>1. k + 1 \in DOMAIN View /\ View'[k] = View[k + 1] /\ 1 < k + 1
      BY <1>1, <1>3, <2>1, <2>2, <2>3 DEF Arrives
    <3>2. View[k + 1].id = published[n].id
      BY <2>3, <3>1 DEF OnceInv, ViewInv, PacketsInv
    <3>3. QED
      BY <2>1, <2>3, <3>1, <3>2 DEF OnceInv, ViewInv, UnseenInv
  <2>4. \A x \in DOMAIN Taken : Taken[x] # n
    BY <1>4, <2>1 DEF OnceInv, TakenInv
  <2>5. QED
    BY <1>3, <2>1, <2>2, <2>3, <2>4
<1>5. ASSUME published[n].qos = 0
      PROVE  /\ \A k \in DOMAIN View' :
                   View'[k].kind = "publish" /\ published[View'[k].msg].qos = 0 => n < View'[k].msg
             /\ \A x \in DOMAIN Taken :
                   Taken[x] # n /\ (published[Taken[x]].qos = 0 => Taken[x] < n)
  <2>1. d = 1 /\ 1 \in DOMAIN View /\ IsPublish(1, n)
    BY <1>3, <1>5 DEF Takes
  <2>2. ASSUME NEW k \in DOMAIN View', View'[k].kind = "publish", published[View'[k].msg].qos = 0
        PROVE  n < View'[k].msg
    <3>1. ~Arrives(View'[k])
      BY <2>2 DEF Arrives, OnceInv, HandshakeInv, Moves
    <3>2. k + 1 \in DOMAIN View /\ View'[k] = View[k + 1] /\ 1 < k + 1
      BY <1>1, <1>3, <2>1, <3>1
    <3>3. QED
      BY <1>5, <2>1, <2>2, <3>2 DEF OnceInv, ViewInv, OrderInv
  <2>3. ASSUME NEW x \in DOMAIN Taken
        PROVE  Taken[x] # n /\ (published[Taken[x]].qos = 0 => Taken[x] < n)
    <3>1. published[Taken[x]].qos = 0 => Taken[x] < n
      BY <1>5, <2>1 DEF OnceInv, TakenInv
    <3>2. QED
      BY <1>2, <1>5, <3>1
  <2>4. QED
    BY <2>2, <2>3
<1>6. published[n].qos \in {0, 1, 2}
  BY <1>2 DEF Message
<1>7. QED
  BY <1>4, <1>5, <1>6

\* A step that takes one message keeps the invariant.
LEMMA TakesOne ==
    ASSUME OnceInv, MqttTypes', HandshakeInv', NEW d \in {0, 1}, Moves(d), Stores,
           NEW n, Takes(d, n)
    PROVE  OnceInv'
<1>1. StoredInv' /\ ViewInv'
  BY StoredKept, ViewMoves
<1>2. Known' = Known /\ published' = published
  BY DEF Moves, Known
<1>3. /\ Taken \in Seq(Known) /\ n \in Known /\ Len(Taken) \in Nat
      /\ Taken' \in Seq(Known) /\ Len(Taken') = Len(Taken) + 1
      /\ DOMAIN Taken = 1 .. Len(Taken) /\ DOMAIN Taken' = 1 .. Len(Taken) + 1
      /\ \A x \in 1 .. Len(Taken) : Taken'[x] = Taken[x]
      /\ Taken'[Len(Taken) + 1] = n
  <2>1. Taken \in Seq(Known) /\ n \in Known /\ Taken' = Append(Taken, n)
    BY ConcatProperties DEF OnceInv, MqttTypes, Taken, Takes
  <2>2. QED
    BY <2>1, AppendProperties, LenProperties
<1> DEFINE Gone(m) == /\ published[m].qos = 2 =>
                            /\ handshake'[m] # "sent" /\ qos2'[published[m].id] # m
                            /\ \A k \in DOMAIN View' : ~(View'[k].kind = "publish" /\ View'[k].msg = m)
                      /\ published[m].qos = 0 =>
                            \A k \in DOMAIN View' :
                                View'[k].kind = "publish" /\ published[View'[k].msg].qos = 0
                                   => m < View'[k].msg
<1>4. Gone(n)
  BY TakenNew
<1>5. ASSUME NEW x \in 1 .. Len(Taken)
      PROVE  Taken[x] \in Known /\ Gone(Taken[x])
  <2> DEFINE m == Taken[x]
  <2>1. m \in Known
    BY <1>3
  <2>2. /\ published[m].qos = 2 =>
              /\ handshake[m] # "sent" /\ qos2[published[m].id] # m
              /\ \A k \in DOMAIN View : ~IsPublish(k, m)
        /\ published[m].qos = 0 =>
              \A k \in DOMAIN View :
                  View[k].kind = "publish" /\ published[View[k].msg].qos = 0 => m < View[k].msg
    BY <1>3 DEF OnceInv, TakenInv
  <2> HIDE DEF m
  <2>3. Gone(m)
    BY <1>2, <2>1, <2>2, TakenStays DEF IsPublish
  <2>4. QED
    BY <2>1, <2>3 DEF m
<1>6. TakenInv'
  <2>1. \A x \in DOMAIN Taken' : Taken'[x] \in Known /\ Gone(Taken'[x])
    BY <1>3, <1>4, <1>5
  <2>2. QED
    BY <1>2, <2>1 DEF TakenInv, IsPublish
<1>7. DeliveredOnce'
  <2> SUFFICES ASSUME NEW i \in DOMAIN Taken', NEW j \in DOMAIN Taken', i < j
               PROVE  /\ Taken'[i] = Taken'[j] => published[Taken'[i]].qos = 1
                      /\ published[Taken'[i]].qos = 0 /\ published[Taken'[j]].qos = 0
                            => Taken'[i] < Taken'[j]
    BY <1>2 DEF DeliveredOnce
  <2>1. i \in 1 .. Len(Taken) /\ Taken'[i] = Taken[i]
    BY <1>3
  <2>2. CASE j \in 1 .. Len(Taken)
    BY <1>3, <2>1, <2>2 DEF OnceInv, DeliveredOnce
  <2>3. CASE j = Len(Taken) + 1
    <3>1. Taken'[j] = n /\ i \in DOMAIN Taken
      BY <1>3, <2>1, <2>3
    <3>2. /\ Taken[i] = n => published[n].qos = 1
          /\ published[Taken[i]].qos = 0 /\ published[n].qos = 0 => Taken[i] < n
      BY <3>1, TakenNew
    <3>3. QED
      BY <2>1, <3>1, <3>2
  <2>4. QED
    BY <1>3, <2>2, <2>3
<1>8. QED
  BY <1>1, <1>6, <1>7 DEF OnceInv

-----------------------------------------------------------------------------
\* Steps that leave the wire and the messages alone

\* Where the link stays, the view stays or loses the packet in hand.
LEMMA ViewChanges ==
    ASSUME MqttTypes, MqttTypes', UNCHANGED <<link, held>>, mPc' = mPc \/ mPc' # "ack"
    PROVE  \/ View' = View
           \/ mPc = "ack" /\ View # <<>> /\ View' = Tail(View)
  BY TypesOfView DEF View

\* Nothing arrives, and the first packet is dealt with or none.
LEMMA Steps ==
    ASSUME OnceInv, MqttTypes', UNCHANGED published,
           View' = View \/ (View # <<>> /\ View' = Tail(View)),
           \A n \in Known : handshake'[n] = "sent" => handshake[n] = "sent",
           \A i \in Ids : qos2'[i] \in {qos2[i], NoMessage}
    PROVE  /\ Stores
           /\ View' = View => Moves(0)
           /\ View' # View => Moves(1)
<1>1. View \in Seq(Packet) /\ View' \in Seq(Packet)
  BY TypesOfView DEF OnceInv
<1>2. CASE View' = View
  <2>1. DOMAIN View' = 1 .. Len(View) /\ \A k \in DOMAIN View' : k + 0 \in DOMAIN View /\ View'[k] = View[k + 0]
    BY <1>1, <1>2, LenProperties
  <2>2. QED
    BY <1>1, <1>2, <2>1 DEF Moves, Stores
<1>3. CASE View # <<>> /\ View' = Tail(View)
  <2>1. /\ DOMAIN View' = 1 .. Len(View') /\ DOMAIN View = 1 .. Len(View)
        /\ Len(View') = Len(View) - 1 /\ Len(View) \in Nat
        /\ \A k \in 1 .. Len(View') : View'[k] = View[k + 1]
    BY <1>1, <1>3, HeadTailProperties, LenProperties
  <2>2. \A k \in DOMAIN View' : k + 1 \in DOMAIN View /\ View'[k] = View[k + 1]
    BY <2>1
  <2>3. QED
    BY <1>1, <2>1, <2>2 DEF Moves, Stores
<1>4. QED
  BY <1>2, <1>3

\* A step that leaves the messages alone keeps the invariant.
LEMMA QuietOnce ==
    ASSUME OnceInv, MqttTypes', UNCHANGED <<published, handshake, link, qos2, held>>,
           Taken' = Taken, mPc' = mPc \/ mPc' # "ack"
    PROVE  OnceInv'
<1>1. View' = View \/ (View # <<>> /\ View' = Tail(View))
  BY ViewChanges DEF OnceInv
<1>2. HandshakeInv'
  BY DEF OnceInv, HandshakeInv, Known
<1>3. Stores /\ (Moves(0) \/ Moves(1))
  BY <1>1, Steps
<1>4. QED
  BY <1>2, <1>3, Settles

\* What is left of LossInv is the same, or about an attempt that is over.
LEMMA QuietLoss ==
    ASSUME LossInv,
           UNCHANGED <<published, handshake, qos2, consumed, interrupted, held>>,
           Taken' = Taken, mPc' = mPc \/ mPc' = "over" \/ (mPc # "ack" /\ mPc # "over")
    PROVE  LossInv'
  BY DEF LossInv, Known, WasTaken

\* connect, subscribe, the deadline, the exchange and the passing of time.
LEMMA QuietStep ==
    ASSUME OnceInv, LossInv,
           \/ Connect \/ Opened \/ RedirectedTo \/ MobileFails \/ Subscribed \/ TimesOut
           \/ LoggedIn \/ DropMobileLogin \/ MqttTick \/ UNCHANGED mobileLogin
           \/ \E k \in KeepAlives : Accepted(k)
    PROVE  OnceInv' /\ LossInv'
<1>1. /\ UNCHANGED <<published, handshake, link, qos2, held, delivered, pending, consumed, interrupted>>
      /\ mPc' = mPc \/ mPc' = "over" \/ (mPc # "ack" /\ mPc # "over" /\ mPc' # "ack")
  BY DEF Connect, Opened, RedirectedTo, MobileFails, Subscribed, TimesOut, LoggedIn,
     DropMobileLogin, MqttTick, Accepted, mobileLogin, client, broker, past, Over
<1>2. /\ mPc' \in {"new", "connect", "connack", "suback", "listen", "ack", "exchange", "over"}
      /\ mDeadline' \in Nat \cup {NoDeadline} /\ mClock' \in Nat
      /\ mPc' \in {"listen", "exchange"} => mDeadline' # NoDeadline
      /\ mPc' \in {"new", "connect", "connack", "suback"} => mDeadline' = NoDeadline
      /\ mPc' = "ack" => mPc = "ack" /\ mDeadline' = mDeadline
  BY MobileAssumption
  DEF OnceInv, MqttTypes, Connect, Opened, RedirectedTo, MobileFails, Subscribed, TimesOut, LoggedIn,
     DropMobileLogin, MqttTick, Accepted, mobileLogin, client, broker, past, Over, Selecting
<1>3. Taken' = Taken /\ Known' = Known
  BY <1>1 DEF Taken, Known
<1>4. MqttTypes'
  BY <1>1, <1>2, <1>3 DEF OnceInv, MqttTypes
<1>5. OnceInv'
  <2>1. mPc' = mPc \/ mPc' # "ack"
    BY <1>1
  <2>2. QED
    BY <1>1, <1>3, <1>4, <2>1, QuietOnce
<1>6. LossInv'
  <2>1. mPc' = mPc \/ mPc' = "over" \/ (mPc # "ack" /\ mPc # "over")
    BY <1>1
  <2>2. QED
    BY <1>1, <1>3, <2>1, QuietLoss
<1>7. QED
  BY <1>5, <1>6

-----------------------------------------------------------------------------
\* Packets that are read, acknowledged and taken

\* ingest_mobile_mqtt goes on, begins the exchange or ends the attempt.
LEMMA IngestLeads ==
    ASSUME MqttTypes, NEW n \in Known, Ingest(n)
    PROVE  /\ mPc' \in {"listen", "exchange", "over"}
           /\ delivered' = Append(delivered, n)
<1>1. published[n] \in Message
  BY DEF MqttTypes, Known
<1>2. published[n].type \in Types
  BY <1>1 DEF Message
<1>3. QED
  BY <1>2 DEF Ingest, Over, Types

\* A complete message is taken last, delivered or kept.
LEMMA TakeLeads ==
    ASSUME MqttTypes, NEW n \in Known, Take(n), mDeadline # NoDeadline => pending = <<>>
    PROVE  /\ Taken' = Append(Taken, n)
           /\ delivered' \in Seq(Known) /\ pending' \in Seq(Known)
           /\ mPc' \in {"suback", "listen", "exchange", "over"}
           /\ mDeadline = NoDeadline => mPc' = "suback"
           /\ mDeadline # NoDeadline => mPc' # "suback"
<1>1. delivered \in Seq(Known) /\ pending \in Seq(Known)
  BY DEF MqttTypes
<1>2. CASE mDeadline = NoDeadline
  <2>1. pending' = Append(pending, n) /\ mPc' = "suback" /\ delivered' = delivered
    BY <1>2 DEF Take
  <2>2. delivered \o Append(pending, n) = Append(delivered \o pending, n)
    BY <1>1, AppendedLast
  <2>3. QED
    BY <1>1, <1>2, <2>1, <2>2, AppendProperties DEF Taken
<1>3. CASE mDeadline # NoDeadline
  <2>1. pending' = <<>> /\ pending = <<>> /\ Ingest(n)
    BY <1>3 DEF Take
  <2>2. delivered' = Append(delivered, n) /\ mPc' \in {"listen", "exchange", "over"}
    BY <2>1, IngestLeads
  <2>3. delivered' \in Seq(Known)
    BY <1>1, <2>2, AppendProperties
  <2>4. delivered' \o <<>> = delivered' /\ delivered \o <<>> = delivered
    BY <1>1, <2>3, ConcatEmptySeq
  <2>5. QED
    BY <1>1, <1>3, <2>1, <2>2, <2>3, <2>4 DEF Taken
<1>4. QED
  BY <1>2, <1>3

\* While the client reads, nothing is held and nothing that is kept comes first.
LEMMA WhileReading ==
    ASSUME MqttTypes, Reading
    PROVE  /\ mPc # "ack" /\ mPc # "over" /\ View = link
           /\ mDeadline # NoDeadline => pending = <<>>
  BY DEF MqttTypes, Reading, View

\* What is taken is taken, and nothing is forgotten.
LEMMA Taken1 ==
    ASSUME MqttTypes, NEW n \in Known, Taken' = Append(Taken, n)
    PROVE  WasTaken(n)' /\ \A m : WasTaken(m) => WasTaken(m)'
<1>1. Taken \in Seq(Known)
  BY ConcatProperties DEF MqttTypes, Taken
<1>2. /\ Taken' \in Seq(Known) /\ Len(Taken') = Len(Taken) + 1 /\ Taken'[Len(Taken) + 1] = n
      /\ \A x \in 1 .. Len(Taken) : Taken'[x] = Taken[x]
      /\ DOMAIN Taken = 1 .. Len(Taken) /\ Len(Taken) \in Nat
      /\ DOMAIN Taken' = 1 .. Len(Taken) + 1
  BY <1>1, AppendProperties, LenProperties
<1>3. QED
  BY <1>2 DEF WasTaken

\* A PUBLISH that needs no acknowledgement is delivered or kept at once.
LEMMA ReadQos0Keeps ==
    ASSUME OnceInv, LossInv, ReadQos0
    PROVE  OnceInv' /\ LossInv'
<1>1. /\ MqttTypes /\ Reading /\ link # <<>> /\ View = link /\ mPc # "ack"
      /\ mDeadline # NoDeadline => pending = <<>>
  BY WhileReading DEF OnceInv, ReadQos0
<1>2. /\ link[1] \in Packet /\ Head(link) = link[1] /\ 1 \in DOMAIN link /\ link' \in Seq(Packet)
      /\ link' = Tail(link)
  BY <1>1, HeadTailProperties, EmptySeq, LenProperties DEF MqttTypes, ReadQos0
<1>3. PICK n \in Known : n = Head(link).msg /\ published[n].qos = 0 /\ IsPublish(1, n)
  BY <1>1, <1>2 DEF ReadQos0, OnceInv, ViewInv, PacketsInv, IsPublish
<1>4. Take(n) /\ UNCHANGED <<mDeadline, mClock, qos2, published, handshake, interrupted>>
      /\ consumed' = consumed \cup {n}
  BY <1>3 DEF ReadQos0
<1>5. /\ Taken' = Append(Taken, n)
      /\ delivered' \in Seq(Known) /\ pending' \in Seq(Known)
      /\ mPc' \in {"suback", "listen", "exchange", "over"}
      /\ mDeadline = NoDeadline => mPc' = "suback"
      /\ mDeadline # NoDeadline => mPc' # "suback"
  BY <1>1, <1>3, <1>4, TakeLeads
<1>6. MqttTypes' /\ HandshakeInv'
  BY <1>1, <1>2, <1>4, <1>5 DEF MqttTypes, Known, HandshakeInv, OnceInv
<1>7. View' = Tail(View) /\ View # <<>>
  BY <1>1, <1>2, <1>5 DEF View
<1>8. Tail(View) # View
  BY <1>1, <1>7, HeadTailProperties DEF MqttTypes
<1>9. Stores /\ Moves(1)
  BY <1>4, <1>6, <1>7, <1>8, Steps
<1>10. Takes(1, n)
  BY <1>3, <1>5, <1>7 DEF Takes
<1>11. OnceInv'
  BY <1>6, <1>9, <1>10, TakesOne
<1>12. LossInv'
  <2>1. Taken' = Append(Taken, n)
    BY <1>5
  <2>2. WasTaken(n)' /\ \A m : WasTaken(m) => WasTaken(m)'
    BY <1>1, <1>3, <2>1, Taken1
  <2>3. Known' = Known /\ mPc # "over"
    BY <1>1, <1>4, WhileReading DEF Known
  <2>4. ASSUME ~interrupted', NEW m \in Known, published[m].qos = 2
        PROVE  /\ handshake[m] = "received" => qos2[published[m].id] = m
               /\ handshake[m] = "complete" => WasTaken(m)'
    BY <1>4, <2>2, <2>4 DEF LossInv
  <2>5. ASSUME ~interrupted', NEW m \in consumed'
        PROVE  WasTaken(m)' \/ \E i \in Ids : qos2[i] = m
    BY <1>1, <1>4, <2>2, <2>3, <2>5 DEF LossInv
  <2>6. QED
    BY <1>4, <2>3, <2>4, <2>5 DEF LossInv
<1>13. QED
  BY <1>11, <1>12

\* A packet in hand is still the first of the view.
LEMMA ReadAckedKeeps ==
    ASSUME OnceInv, LossInv, ReadAcked
    PROVE  OnceInv' /\ LossInv'
<1>1. /\ MqttTypes /\ Reading /\ link # <<>> /\ View = link /\ mPc # "ack" /\ mPc # "over"
      /\ mDeadline # NoDeadline => pending = <<>>
  BY WhileReading DEF OnceInv, ReadAcked
<1>2. /\ UNCHANGED <<pending, qos2, mDeadline, published, handshake, mClock, delivered, interrupted>>
      /\ held' = Head(link) /\ link' = Tail(link) /\ mPc' = "ack"
      /\ consumed' = IF Head(link).kind = "publish" THEN consumed \cup {Head(link).msg} ELSE consumed
  BY DEF ReadAcked
<1>3. Head(link) \in Packet /\ link' \in Seq(Packet) /\ <<Head(link)>> \o Tail(link) = link
  BY <1>1, <1>2, HeadTailProperties, HeadBack DEF MqttTypes
<1>4. Taken' = Taken /\ Known' = Known /\ View' = View
  BY <1>1, <1>2, <1>3 DEF Taken, Known, View
<1>5. MqttTypes'
  <2>1. 1 \in DOMAIN link /\ Head(link) = link[1]
    BY <1>1, LenProperties, EmptySeq DEF MqttTypes
  <2>2. Head(link).kind = "publish" => Head(link).msg \in Known
    BY <1>1, <2>1 DEF OnceInv, ViewInv, PacketsInv
  <2>3. consumed' \subseteq Known
    BY <1>1, <1>2, <2>2 DEF MqttTypes
  <2>4. QED
    BY <1>1, <1>2, <1>3, <1>4, <2>3 DEF MqttTypes
<1>6. HandshakeInv'
  BY <1>2, <1>4 DEF OnceInv, HandshakeInv
<1>7. Stores /\ Moves(0)
  BY <1>2, <1>4, <1>5, Steps
<1>8. OnceInv'
  BY <1>4, <1>5, <1>6, <1>7, Settles
<1>9. LossInv'
  <2>1. \A m : WasTaken(m) <=> WasTaken(m)'
    BY <1>4 DEF WasTaken
  <2>2. QED
    BY <1>1, <1>2, <1>4, <2>1 DEF LossInv
<1>10. QED
  BY <1>8, <1>9

\* PINGRESP, unknown packets and DISCONNECT carry no message.
LEMMA ReadControlKeeps ==
    ASSUME OnceInv, LossInv, ReadControl
    PROVE  OnceInv' /\ LossInv'
<1>1. /\ MqttTypes /\ Reading /\ link # <<>> /\ View = link /\ mPc # "ack" /\ mPc # "over"
  BY WhileReading DEF OnceInv, ReadControl
<1>2. /\ UNCHANGED <<pending, qos2, held, mDeadline, published, handshake, mClock, delivered,
                     consumed, interrupted>>
      /\ link' = Tail(link) /\ mPc' \in {mPc, "over"}
  BY DEF ReadControl, Over, past
<1>3. link' \in Seq(Packet)
  BY <1>1, <1>2, HeadTailProperties DEF MqttTypes
<1>4. Taken' = Taken /\ Known' = Known /\ View' = Tail(View) /\ View # <<>>
  BY <1>1, <1>2 DEF Taken, Known, View
<1>5. MqttTypes'
  BY <1>1, <1>2, <1>3, <1>4 DEF MqttTypes
<1>6. HandshakeInv'
  BY <1>2, <1>4 DEF OnceInv, HandshakeInv
<1>7. Stores /\ (Moves(0) \/ Moves(1))
  BY <1>2, <1>4, <1>5, Steps
<1>8. OnceInv'
  BY <1>4, <1>5, <1>6, <1>7, Settles
<1>9. LossInv'
  BY <1>1, <1>2, <1>4, QuietLoss
<1>10. QED
  BY <1>8, <1>9

\* A message that was kept is handed on as the first one.
LEMMA NextPendingKeeps ==
    ASSUME OnceInv, LossInv, NextPending
    PROVE  OnceInv' /\ LossInv'
<1>1. /\ MqttTypes /\ mPc = "listen" /\ pending # <<>> /\ pending' = Tail(pending)
      /\ Ingest(Head(pending)) /\ mDeadline # NoDeadline
      /\ UNCHANGED <<qos2, held, mDeadline, link, published, handshake, mClock, consumed, interrupted>>
  BY DEF OnceInv, NextPending, broker, MqttTypes
<1>2. /\ Head(pending) \in Known /\ pending' \in Seq(Known) /\ delivered \in Seq(Known)
      /\ Append(delivered, Head(pending)) \o Tail(pending) = delivered \o pending
  BY <1>1, HeadTailProperties, MovedOver DEF MqttTypes
<1>3. mPc' \in {"listen", "exchange", "over"} /\ delivered' = Append(delivered, Head(pending))
  BY <1>1, <1>2, IngestLeads
<1>4. Taken' = Taken /\ Known' = Known /\ delivered' \in Seq(Known)
  BY <1>1, <1>2, <1>3, AppendProperties DEF Taken, Known
<1>5. MqttTypes'
  BY <1>1, <1>2, <1>3, <1>4 DEF MqttTypes
<1>6. OnceInv'
  BY <1>1, <1>3, <1>4, <1>5, QuietOnce
<1>7. LossInv'
  BY <1>1, <1>3, <1>4, QuietLoss
<1>8. QED
  BY <1>6, <1>7


\* What is known of the packet whose acknowledgement is sent.
LEMMA AckLeads ==
    ASSUME OnceInv, mPc = "ack", InTime
    PROVE  /\ MqttTypes /\ HandshakeInv /\ held \in Packet
           /\ View # <<>> /\ View[1] = held /\ Tail(View) = link
           /\ held.kind = "publish" => held.msg \in Known /\ held.id = published[held.msg].id
           /\ held.kind = "pubrel" => held.id \in Ids
           /\ mDeadline # NoDeadline => pending = <<>>
<1>1. MqttTypes /\ HandshakeInv /\ PacketsInv
  BY DEF OnceInv, ViewInv
<1>2. held \in Packet /\ View # <<>> /\ View[1] = held /\ Tail(View) = link /\ View \in Seq(Packet)
  BY <1>1, TypesOfView DEF MqttTypes
<1>3. 1 \in DOMAIN View
  BY <1>2, LenProperties, EmptySeq
<1>4. QED
  BY <1>1, <1>2, <1>3 DEF PacketsInv, MqttTypes

\* PUBACK: the message is taken, and may be again if it was repeated.
LEMMA AckedQos1Keeps ==
    ASSUME OnceInv, LossInv, AckedQos1
    PROVE  OnceInv' /\ LossInv'
<1>1. mPc = "ack" /\ InTime /\ held.kind = "publish" /\ published[held.msg].qos = 1
  BY DEF AckedQos1
<1>2. /\ MqttTypes /\ HandshakeInv /\ held \in Packet /\ View # <<>> /\ Tail(View) = link
      /\ mDeadline # NoDeadline => pending = <<>>
  BY <1>1, AckLeads
<1>3. PICK n \in Known : n = held.msg
  BY <1>1, AckLeads
<1>4. /\ handshake' = Handshaken(held) /\ Take(n)
      /\ UNCHANGED <<qos2, mDeadline, link, published, mClock, consumed, interrupted>>
  BY <1>3 DEF AckedQos1
<1>5. /\ Taken' = Append(Taken, n)
      /\ delivered' \in Seq(Known) /\ pending' \in Seq(Known)
      /\ mPc' \in {"suback", "listen", "exchange", "over"}
      /\ mDeadline = NoDeadline => mPc' = "suback"
      /\ mDeadline # NoDeadline => mPc' # "suback"
  BY <1>2, <1>4, TakeLeads
<1>6. /\ handshake' \in Seq({"sent", "received", "complete"}) /\ Len(handshake') = Len(published)
      /\ HandshakeInv' /\ \A m \in Known : handshake'[m] = "sent" => handshake[m] = "sent"
  BY <1>2, <1>4, HandshakenMoves, HandshakeKept
<1>7. MqttTypes' /\ Known' = Known
  BY <1>2, <1>4, <1>5, <1>6 DEF MqttTypes, Known
<1>8. View' = Tail(View)
  BY <1>2, <1>4, <1>5 DEF View
<1>9. Tail(View) # View
  BY <1>2, TypesOfView, HeadTailProperties
<1>10. Stores /\ Moves(1)
  BY <1>2, <1>4, <1>6, <1>7, <1>8, <1>9, Steps
<1>11. Takes(1, n)
  BY <1>1, <1>3, <1>5 DEF Takes
<1>12. OnceInv'
  BY <1>6, <1>7, <1>10, <1>11, TakesOne
<1>13. LossInv'
  <2>1. Taken' = Append(Taken, n)
    BY <1>5
  <2>2. WasTaken(n)' /\ \A m : WasTaken(m) => WasTaken(m)'
    BY <1>2, <2>1, Taken1
  <2>3. ASSUME NEW m \in Known, published[m].qos = 2
        PROVE  /\ handshake'[m] = "received" => handshake[m] = "received"
               /\ handshake'[m] = "complete" => handshake[m] = "complete"
    BY <1>1, <1>2, <1>4, <2>3, HandshakenMoves
  <2>4. ASSUME ~interrupted', NEW m \in consumed'
        PROVE  WasTaken(m)' \/ \E i \in Ids : qos2[i] = m
    BY <1>1, <1>3, <1>4, <2>2, <2>4 DEF LossInv
  <2>5. ASSUME ~interrupted', NEW m \in Known, published[m].qos = 2
        PROVE  /\ handshake'[m] = "received" => qos2[published[m].id] = m
               /\ handshake'[m] = "complete" => WasTaken(m)'
    BY <1>4, <2>2, <2>3, <2>5 DEF LossInv
  <2>6. QED
    BY <1>4, <1>7, <2>4, <2>5 DEF LossInv
<1>14. QED
  BY <1>12, <1>13

\* PUBCOMP: the message stored for this identifier is taken, or none.
LEMMA AckedPubrelKeeps ==
    ASSUME OnceInv, LossInv, AckedPubrel
    PROVE  OnceInv' /\ LossInv'
<1>1. mPc = "ack" /\ InTime /\ held.kind = "pubrel"
  BY DEF AckedPubrel
<1>2. /\ MqttTypes /\ HandshakeInv /\ held \in Packet /\ View # <<>> /\ View[1] = held /\ Tail(View) = link
      /\ mDeadline # NoDeadline => pending = <<>>
  BY <1>1, AckLeads
<1>3. PICK i \in Ids : i = held.id
  BY <1>1, AckLeads
<1>4. /\ handshake' = Handshaken(held) /\ qos2' = [qos2 EXCEPT ![i] = NoMessage]
      /\ UNCHANGED <<mDeadline, link, published, mClock, consumed, interrupted>>
  BY <1>3 DEF AckedPubrel
<1>5. /\ handshake' \in Seq({"sent", "received", "complete"}) /\ Len(handshake') = Len(published)
      /\ HandshakeInv' /\ \A m \in Known : handshake'[m] = "sent" => handshake[m] = "sent"
  BY <1>2, <1>4, HandshakenMoves, HandshakeKept
<1>6. /\ qos2 \in [Ids -> Indices \cup {NoMessage}] /\ qos2' \in [Ids -> Indices \cup {NoMessage}]
      /\ qos2'[i] = NoMessage /\ \A j \in Ids : j # i => qos2'[j] = qos2[j]
  BY <1>2, <1>4 DEF MqttTypes
<1>7. Tail(View) # View
  BY <1>2, TypesOfView, HeadTailProperties
<1>8. ASSUME NEW m \in Known
      PROVE  m # NoMessage /\ published[m].id \in Ids
  <2>1. published[m] \in Message /\ m \in Indices
    BY <1>2, MobileAssumption DEF MqttTypes, Known, Indices
  <2>2. QED
    BY <2>1, MobileAssumption DEF Message
<1>9. ASSUME ~interrupted, NEW m \in Known, published[m].qos = 2
      PROVE  /\ handshake'[m] = "received" => qos2'[published[m].id] = m
             /\ handshake'[m] = "complete" => WasTaken(m) \/ qos2[i] = m
  <2>1. /\ handshake[m] = "received" => qos2[published[m].id] = m
        /\ handshake[m] = "complete" => WasTaken(m)
    BY <1>9 DEF LossInv
  <2>2. /\ handshake'[m] = "received" => handshake[m] = "received" /\ published[m].id # i
        /\ handshake'[m] = "complete" =>
              handshake[m] = "complete" \/ (published[m].id = i /\ handshake[m] = "received")
    BY <1>1, <1>2, <1>3, <1>4, <1>9, HandshakenMoves
  <2>3. QED
    BY <1>6, <1>8, <2>1, <2>2
<1>10. ASSUME ~interrupted, NEW m \in consumed
       PROVE  \/ WasTaken(m) \/ qos2[i] = m
              \/ \E j \in Ids : qos2'[j] = m
  <2>1. WasTaken(m) \/ \E j \in Ids : qos2[j] = m
    BY <1>1, <1>10 DEF LossInv
  <2>2. QED
    BY <1>6, <2>1
<1>11. CASE qos2[i] = NoMessage
  <2>1. mPc' = Back /\ UNCHANGED <<pending, delivered>>
    BY <1>3, <1>11 DEF AckedPubrel
  <2>2. Taken' = Taken /\ Known' = Known
    BY <1>4, <2>1 DEF Taken, Known
  <2>3. MqttTypes'
    BY <1>2, <1>4, <1>5, <1>6, <2>1, <2>2 DEF MqttTypes, Back
  <2>4. View' = Tail(View)
    BY <1>2, <1>4, <2>1 DEF View, Back
  <2>5. Stores /\ Moves(1)
    BY <1>2, <1>4, <1>5, <1>6, <1>7, <2>3, <2>4, Steps
  <2>6. OnceInv'
    BY <1>5, <2>2, <2>3, <2>5, Settles
  <2>7. \A m : WasTaken(m) => WasTaken(m)'
    BY <2>2 DEF WasTaken
  <2>8. consumed \subseteq Known /\ \A m \in consumed : qos2[i] # m
    BY <1>2, <1>8, <1>11 DEF MqttTypes
  <2>9. \A m \in Known : qos2[i] # m
    BY <1>8, <1>11
  <2>10. LossInv'
    BY <1>4, <1>9, <1>10, <2>2, <2>7, <2>8, <2>9 DEF LossInv
  <2>11. QED
    BY <2>6, <2>10
<1>12. CASE qos2[i] # NoMessage
  <2>1. PICK n \in Known : n = qos2[i] /\ published[n].qos = 2 /\ published[n].id = i
    BY <1>12 DEF OnceInv, StoredInv
  <2>2. Take(n)
    BY <1>3, <1>12, <2>1 DEF AckedPubrel
  <2>3. /\ Taken' = Append(Taken, n)
        /\ delivered' \in Seq(Known) /\ pending' \in Seq(Known)
        /\ mPc' \in {"suback", "listen", "exchange", "over"}
        /\ mDeadline = NoDeadline => mPc' = "suback"
        /\ mDeadline # NoDeadline => mPc' # "suback"
    BY <1>2, <2>2, TakeLeads
  <2>4. MqttTypes' /\ Known' = Known
    BY <1>2, <1>4, <1>5, <1>6, <2>3 DEF MqttTypes, Known
  <2>5. View' = Tail(View)
    BY <1>2, <1>4, <2>3 DEF View
  <2>6. Stores /\ Moves(1)
    BY <1>2, <1>4, <1>5, <1>6, <1>7, <2>4, <2>5, Steps
  <2>7. Takes(1, n)
    BY <1>1, <1>2, <1>3, <1>6, <1>12, <2>1, <2>3 DEF Takes, IsPubrel
  <2>8. OnceInv'
    BY <1>5, <2>4, <2>6, <2>7, TakesOne
  <2>9. WasTaken(n)' /\ \A m : WasTaken(m) => WasTaken(m)'
    <3>1. Taken' = Append(Taken, n)
      BY <2>3
    <3>2. QED
      BY <1>2, <3>1, Taken1
  <2>10. LossInv'
    BY <1>4, <1>9, <1>10, <2>1, <2>4, <2>9 DEF LossInv
  <2>11. QED
    BY <2>8, <2>10
<1>13. QED
  BY <1>11, <1>12


\* PUBREC: the message is stored, or was; the broker may release it.
LEMMA AckedQos2Keeps ==
    ASSUME OnceInv, LossInv, AckedQos2
    PROVE  OnceInv' /\ LossInv'
<1>1. mPc = "ack" /\ InTime /\ held.kind = "publish" /\ published[held.msg].qos = 2
  BY DEF AckedQos2
<1>2. /\ MqttTypes /\ HandshakeInv /\ held \in Packet /\ View # <<>> /\ View[1] = held /\ Tail(View) = link
      /\ mDeadline # NoDeadline => pending = <<>>
  BY <1>1, AckLeads
<1>3. PICK n \in Known : n = held.msg /\ held.id = published[n].id /\ published[n].qos = 2
  BY <1>1, AckLeads
<1>4. \A m \in Known : m # NoMessage /\ published[m].id \in Ids /\ published[m].qos \in 0 .. 2
  <2>1. ASSUME NEW m \in Known PROVE published[m] \in Message /\ m \in Indices
    BY <1>2, MobileAssumption DEF MqttTypes, Known, Indices
  <2>2. QED
    BY <2>1, MobileAssumption DEF Message
<1>5. PICK i \in Ids : i = held.id /\ i = published[n].id
  BY <1>3, <1>4
<1>6. /\ handshake' = Handshaken(held) /\ link' = Answer(held) /\ mPc' = Back
      /\ qos2' = IF qos2[i] = NoMessage THEN [qos2 EXCEPT ![i] = n] ELSE qos2
      /\ UNCHANGED <<pending, delivered, mDeadline, published, mClock, consumed, interrupted>>
  BY <1>3, <1>5 DEF AckedQos2, past
<1>7. /\ handshake' \in Seq({"sent", "received", "complete"}) /\ Len(handshake') = Len(published)
      /\ HandshakeInv' /\ \A m \in Known : handshake'[m] = "sent" => handshake[m] = "sent"
  BY <1>2, <1>6, HandshakenMoves, HandshakeKept
<1>8. /\ qos2 \in [Ids -> Indices \cup {NoMessage}] /\ qos2' \in [Ids -> Indices \cup {NoMessage}]
      /\ n \in Indices
      /\ qos2'[i] = IF qos2[i] = NoMessage THEN n ELSE qos2[i]
      /\ \A j \in Ids : j # i => qos2'[j] = qos2[j]
  <2>1. n \in Indices
    BY <1>2, MobileAssumption DEF MqttTypes, Known, Indices
  <2>2. QED
    BY <1>2, <1>6, <2>1 DEF MqttTypes
<1>9. Taken' = Taken /\ Known' = Known
  BY <1>6 DEF Taken, Known
<1>10. \A m \in Known :
         /\ handshake'[m] = "received" => handshake[m] = "received" \/ m = n
         /\ handshake'[m] = "complete" =>
               handshake[m] = "complete" \/ (m = n /\ published[m].qos = 1)
         /\ handshake[m] = "complete" => handshake'[m] = "complete"
         /\ handshake'[n] # "sent"
  BY <1>1, <1>2, <1>3, <1>6, HandshakenMoves
<1>11. \/ link' = link
       \/ link' = Append(link, Pubrel(i)) /\ Arrives(Pubrel(i))
  <2> DEFINE released == {m \in DOMAIN handshake : handshake[m] = "sent" /\ Handshaken(held)[m] = "received"}
  <2>1. link' = link \/ (released # {} /\ link' = Append(link, Pubrel(i)))
    BY <1>5, <1>6 DEF Answer
  <2>2. ASSUME released # {} PROVE Arrives(Pubrel(i))
    <3>1. PICK m \in Known : handshake[m] = "sent" /\ handshake'[m] = "received"
      BY <1>2, <1>6, <2>2 DEF MqttTypes, Known
    <3>2. m = n /\ handshake[n] = "sent"
      BY <1>10, <3>1
    <3>3. ASSUME NEW k \in Known, published[k].id = i PROVE handshake'[k] # "sent"
      <4>1. CASE k = n
        BY <1>10, <4>1
      <4>2. CASE k # n
        <5>1. handshake[k] = "complete"
          BY <1>2, <1>3, <1>4, <1>5, <3>2, <3>3, <4>2 DEF HandshakeInv
        <5>2. QED
          BY <1>10, <5>1
      <4>3. QED
        BY <4>1, <4>2
    <3>4. Pubrel(i) \in Packet
      BY DEF Pubrel, Packet
    <3>5. QED
      BY <3>3, <3>4 DEF Arrives, Pubrel
  <2>3. QED
    BY <2>1, <2>2
<1>12. link \in Seq(Packet) /\ link' \in Seq(Packet)
  <2>1. link \in Seq(Packet)
    BY <1>2 DEF MqttTypes
  <2>2. Pubrel(i) \in Packet
    BY DEF Pubrel, Packet
  <2>3. Append(link, Pubrel(i)) \in Seq(Packet)
    BY <2>1, <2>2, AppendProperties
  <2>4. QED
    BY <1>11, <2>1, <2>3
<1>13. MqttTypes' /\ View' = link'
  BY <1>2, <1>6, <1>7, <1>8, <1>9, <1>12 DEF MqttTypes, Back, View
<1>14. Moves(1)
  <2>1. /\ View \in Seq(Packet) /\ DOMAIN View = 1 .. Len(View) /\ Len(link) = Len(View) - 1
        /\ Len(View) \in Nat /\ \A k \in 1 .. Len(link) : link[k] = View[k + 1]
        /\ DOMAIN link' = 1 .. Len(link')
    BY <1>2, <1>12, TypesOfView, HeadTailProperties, LenProperties
  <2>2. ASSUME NEW k \in DOMAIN link'
        PROVE  \/ k + 1 \in DOMAIN View /\ link'[k] = View[k + 1]
               \/ k = Len(link') /\ Arrives(link'[k])
    <3>1. CASE link' = link
      BY <2>1, <3>1
    <3>2. CASE link' = Append(link, Pubrel(i)) /\ Arrives(Pubrel(i))
      <4> DEFINE p == Pubrel(i)
      <4>0. p \in Packet
        BY DEF Pubrel, Packet
      <4> HIDE DEF p
      <4>1. /\ Len(link') = Len(link) + 1 /\ link'[Len(link) + 1] = p
            /\ \A l \in 1 .. Len(link) : link'[l] = link[l]
            /\ Len(link) \in Nat /\ Arrives(p)
        BY <1>12, <3>2, <4>0, AppendProperties, LenProperties DEF p
      <4>2. CASE k \in 1 .. Len(link)
        BY <2>1, <4>1, <4>2
      <4>3. CASE k = Len(link) + 1
        BY <3>2, <4>1, <4>3
      <4>4. QED
        BY <2>1, <4>1, <4>2, <4>3
    <3>3. QED
      BY <1>11, <3>1, <3>2
  <2>3. ASSUME NEW j \in Ids
        PROVE  \/ qos2'[j] \in {qos2[j], NoMessage}
               \/ View # <<>> /\ IsPublish(1, qos2'[j])
    BY <1>1, <1>2, <1>3, <1>8 DEF IsPublish
  <2>4. QED
    BY <1>6, <1>7, <1>12, <1>13, <2>2, <2>3 DEF Moves
<1>15. Stores
  BY <1>3, <1>5, <1>8, <1>10 DEF Stores
<1>16. OnceInv'
  BY <1>7, <1>9, <1>13, <1>14, <1>15, Settles
<1>17. LossInv'
  <2> SUFFICES ASSUME ~interrupted
               PROVE  /\ \A m \in Known : published[m].qos = 2 =>
                           /\ handshake'[m] = "received" => qos2'[published[m].id] = m
                           /\ handshake'[m] = "complete" => WasTaken(m)
                      /\ \A m \in consumed : WasTaken(m) \/ \E j \in Ids : qos2'[j] = m
    BY <1>6, <1>9 DEF LossInv, WasTaken
  <2>1. \A m \in Known : published[m].qos = 2 =>
           /\ handshake[m] = "received" => qos2[published[m].id] = m
           /\ handshake[m] = "complete" => WasTaken(m)
    BY DEF LossInv
  <2>2. CASE qos2[i] # NoMessage /\ qos2[i] # n
    <3>1. PICK o \in Known : o = qos2[i] /\ published[o].qos = 2 /\ published[o].id = i /\ handshake[o] # "sent"
      BY <2>2 DEF OnceInv, StoredInv
    <3>2. ~WasTaken(o)
      BY <3>1 DEF WasTaken, OnceInv, TakenInv
    <3>3. handshake[o] # "complete"
      BY <2>1, <3>1, <3>2
    <3>4. handshake[n] = "complete"
      BY <1>2, <1>3, <1>5, <2>2, <3>1, <3>3 DEF HandshakeInv
    <3>5. QED
      BY <1>3, <1>4, <2>1, <3>4, <2>2, <1>8, <1>10, <1>1, <1>5 DEF LossInv
  <2>3. CASE qos2[i] \in {NoMessage, n}
    <3>1. qos2'[i] = n
      BY <1>8, <2>3
    <3>2. ASSUME NEW m \in Known, published[m].qos = 2
          PROVE  /\ handshake'[m] = "received" => qos2'[published[m].id] = m
                 /\ handshake'[m] = "complete" => WasTaken(m)
      BY <1>4, <1>5, <1>8, <1>10, <2>1, <2>3, <3>1, <3>2
    <3>3. ASSUME NEW m \in consumed
          PROVE  WasTaken(m) \/ \E j \in Ids : qos2'[j] = m
      <4>1. m \in Known /\ (WasTaken(m) \/ m = n \/ \E j \in Ids : qos2[j] = m)
        BY <1>1, <1>2, <1>3, <3>3 DEF LossInv, MqttTypes
      <4>2. QED
        BY <1>4, <1>8, <2>3, <3>1, <4>1
    <3>4. QED
      BY <3>2, <3>3
  <2>4. QED
    BY <2>2, <2>3
<1>18. QED
  BY <1>16, <1>17

\* The ping may forget a packet whose acknowledgement has reached the broker.
LEMMA PingKeeps ==
    ASSUME OnceInv, LossInv, Ping
    PROVE  OnceInv' /\ LossInv'
<1>1. /\ MqttTypes /\ HandshakeInv /\ mPc \in {"listen", "ack"} /\ mDeadline # NoDeadline
      /\ mPc' = "listen" /\ (mPc = "ack" => interrupted')  /\ (mPc # "ack" => handshake' = handshake)
      /\ UNCHANGED <<pending, delivered, qos2, mDeadline, link, published, mClock, consumed>>
  BY DEF OnceInv, Ping, Selecting
<1>2. interrupted => interrupted'
  BY DEF Ping
<1>3. /\ handshake' \in Seq({"sent", "received", "complete"}) /\ Len(handshake') = Len(published)
      /\ HandshakeInv' /\ \A m \in Known : handshake'[m] = "sent" => handshake[m] = "sent"
  <2>1. CASE handshake' = handshake
    BY <1>1, <2>1 DEF MqttTypes, HandshakeInv, Known
  <2>2. CASE mPc = "ack" /\ handshake' = Handshaken(held)
    BY <1>1, <2>2, HandshakenMoves, HandshakeKept DEF MqttTypes
  <2>3. QED
    BY <2>1, <2>2 DEF Ping
<1>4. Taken' = Taken /\ Known' = Known
  BY <1>1 DEF Taken, Known
<1>5. MqttTypes'
  BY <1>1, <1>3, <1>4 DEF MqttTypes
<1>6. View' = View \/ (View # <<>> /\ View' = Tail(View))
  BY <1>1, TypesOfView DEF View
<1>7. Stores /\ (Moves(0) \/ Moves(1))
  BY <1>1, <1>3, <1>5, <1>6, Steps
<1>8. OnceInv'
  BY <1>3, <1>4, <1>5, <1>7, Settles
<1>9. LossInv'
  <2>1. \A m : WasTaken(m) => WasTaken(m)'
    BY <1>4 DEF WasTaken
  <2>2. CASE mPc = "ack"
    BY <1>1, <2>2 DEF LossInv
  <2>3. CASE mPc # "ack"
    BY <1>1, <1>2, <1>4, <2>1, <2>3 DEF LossInv
  <2>4. QED
    BY <2>2, <2>3
<1>10. QED
  BY <1>8, <1>9


-----------------------------------------------------------------------------
\* What the broker sends

\* What the broker sends comes last.
LEMMA ViewAppends ==
    ASSUME MqttTypes, NEW p \in Packet, link' = Append(link, p), UNCHANGED <<mPc, held>>
    PROVE  /\ View' = Append(View, p) /\ View' \in Seq(Packet) /\ link' \in Seq(Packet)
           /\ DOMAIN View = 1 .. Len(View) /\ DOMAIN View' = 1 .. Len(View) + 1 /\ Len(View) \in Nat
           /\ Len(View') = Len(View) + 1
           /\ View'[Len(View) + 1] = p /\ \A k \in 1 .. Len(View) : View'[k] = View[k]
<1>1. link \in Seq(Packet) /\ View \in Seq(Packet)
  BY TypesOfView DEF MqttTypes
<1>2. CASE mPc = "ack"
  <2>1. <<held>> \in Seq(Packet)
    BY <1>2 DEF MqttTypes
  <2>2. <<held>> \o Append(link, p) = Append(<<held>> \o link, p)
    BY <1>1, <2>1, AppendedLast
  <2>3. View' = Append(View, p)
    BY <1>2, <2>2 DEF View
  <2>4. QED
    BY <1>1, <2>3, AppendProperties, LenProperties
<1>3. CASE mPc # "ack"
  <2>1. View' = Append(View, p)
    BY <1>3 DEF View
  <2>2. QED
    BY <1>1, <2>1, AppendProperties, LenProperties
<1>4. QED
  BY <1>2, <1>3

\* A packet that may arrive keeps the invariant.
LEMMA Resends ==
    ASSUME OnceInv, LossInv, NEW p \in Packet, Arrives(p), link' = Append(link, p),
           UNCHANGED <<client, published, handshake, mClock, past>>
    PROVE  OnceInv' /\ LossInv'
<1>1. /\ MqttTypes /\ HandshakeInv
      /\ UNCHANGED <<mPc, held, pending, delivered, qos2, mDeadline, published, handshake, mClock,
                     consumed, interrupted>>
  BY DEF OnceInv, client, past
<1>2. /\ View' = Append(View, p) /\ View' \in Seq(Packet) /\ link' \in Seq(Packet)
      /\ DOMAIN View = 1 .. Len(View) /\ DOMAIN View' = 1 .. Len(View) + 1 /\ Len(View) \in Nat
      /\ Len(View') = Len(View) + 1
      /\ View'[Len(View) + 1] = p /\ \A k \in 1 .. Len(View) : View'[k] = View[k]
  BY <1>1, ViewAppends
<1>3. Taken' = Taken /\ Known' = Known
  BY <1>1 DEF Taken, Known
<1>4. MqttTypes' /\ HandshakeInv'
  BY <1>1, <1>2, <1>3 DEF MqttTypes, HandshakeInv
<1>5. ASSUME NEW k \in DOMAIN View'
      PROVE  \/ k + 0 \in DOMAIN View /\ View'[k] = View[k + 0]
             \/ k = Len(View') /\ Arrives(View'[k])
  <2>1. CASE k \in 1 .. Len(View)
    BY <1>2, <2>1
  <2>2. CASE k = Len(View) + 1
    BY <1>2, <2>2
  <2>3. QED
    BY <1>2, <2>1, <2>2
<1>6. Moves(0)
  BY <1>1, <1>2, <1>5 DEF Moves
<1>7. Stores
  BY <1>1 DEF Stores
<1>8. OnceInv'
  BY <1>3, <1>4, <1>6, <1>7, Settles
<1>9. LossInv'
  BY <1>1, <1>3, QuietLoss
<1>10. QED
  BY <1>8, <1>9

\* The broker repeats PUBLISH until PUBACK or PUBREC, PUBREL until PUBCOMP.
LEMMA RepeatKeeps ==
    ASSUME OnceInv, LossInv, NEW n \in DOMAIN published, Repeat(n)
    PROVE  OnceInv' /\ LossInv'
<1>1. MqttTypes /\ HandshakeInv
  BY DEF OnceInv
<1>2. /\ n \in Known /\ published[n] \in Message /\ n \in Indices
      /\ handshake[n] \in {"sent", "received", "complete"}
  <2>1. n \in Known
    BY <1>1, LenProperties DEF MqttTypes, Known
  <2>2. QED
    BY <1>1, <2>1, MobileAssumption DEF MqttTypes, Known, Indices
<1>3. published[n].id \in Ids /\ published[n].qos \in 0 .. 2
  BY <1>2 DEF Message
<1>4. /\ handshake[n] # "complete" /\ UNCHANGED <<client, published, handshake, mClock, past>>
      /\ link' = Append(link, IF handshake[n] = "sent" THEN PublishPacket(n) ELSE Pubrel(published[n].id))
  BY DEF Repeat
<1>5. CASE handshake[n] = "sent"
  <2>1. PublishPacket(n) \in Packet
    BY <1>2, <1>3 DEF PublishPacket, Packet
  <2>2. Arrives(PublishPacket(n))
    BY <1>2, <1>4, <1>5, <2>1 DEF Arrives, PublishPacket
  <2>3. QED
    BY <1>4, <1>5, <2>1, <2>2, Resends
<1>6. CASE handshake[n] # "sent"
  <2>1. handshake[n] = "received" /\ published[n].qos = 2
    BY <1>1, <1>2, <1>4, <1>6 DEF HandshakeInv
  <2>2. Pubrel(published[n].id) \in Packet
    BY <1>3 DEF Pubrel, Packet
  <2>3. ASSUME NEW m \in Known, published[m].id = published[n].id
        PROVE  handshake'[m] # "sent"
    <3>1. published[m] \in Message
      BY <1>1 DEF MqttTypes, Known
    <3>2. published[m].qos \in 0 .. 2
      BY <3>1 DEF Message
    <3>3. QED
      BY <1>1, <1>2, <1>4, <2>1, <2>3, <3>2 DEF HandshakeInv
  <2>4. Arrives(Pubrel(published[n].id))
    BY <1>3, <2>2, <2>3 DEF Arrives, Pubrel
  <2>5. QED
    BY <1>4, <1>6, <2>2, <2>4, Resends
<1>7. QED
  BY <1>5, <1>6

\* PINGRESP and DISCONNECT are no messages.
LEMMA SendControlKeeps ==
    ASSUME OnceInv, LossInv, NEW kind \in {"pingresp", "disconnect"}, SendControl(kind)
    PROVE  OnceInv' /\ LossInv'
<1>1. Control(kind) \in Packet
  BY DEF Control, Packet
<1>2. Arrives(Control(kind))
  BY <1>1 DEF Arrives, Control
<1>3. QED
  BY <1>1, <1>2, Resends DEF SendControl

\* A sequence over a set is one over a larger set.
LEMMA SeqGrows ==
    ASSUME NEW S, NEW T, S \subseteq T, NEW s \in Seq(S)
    PROVE  s \in Seq(T)
  OBVIOUS

\* A new message has a number and an identifier that none on the wire has.
LEMMA PublishNewKeeps ==
    ASSUME OnceInv, LossInv, NEW m \in Messages, PublishNew(m)
    PROVE  OnceInv' /\ LossInv'
<1> USE DEF IsPublish, IsPubrel
<1>1. /\ MqttTypes /\ HandshakeInv /\ StoredInv /\ ViewInv /\ TakenInv
      /\ m \in Message /\ Len(published) < MaxPublished
      /\ m.qos > 0 => Free(m.id)
      /\ published' = Append(published, m)
      /\ handshake' = Append(handshake, IF m.qos = 0 THEN "complete" ELSE "sent")
      /\ UNCHANGED <<mPc, held, pending, delivered, qos2, mDeadline, mClock, consumed, interrupted>>
  BY MobileAssumption DEF OnceInv, PublishNew, client, past
<1>2. PICK N \in Nat : N = Len(published) + 1
  BY <1>1 DEF MqttTypes
<1>3. /\ N \in Indices /\ N # NoMessage /\ m.id \in Ids /\ m.qos \in 0 .. 2
      /\ N \notin Known /\ \A n \in Known : n < N
  BY <1>1, <1>2, MobileAssumption DEF Known, Indices, Message
<1>4. /\ published' \in Seq(Message) /\ Len(published') = N /\ published'[N] = m
      /\ \A n \in Known : published'[n] = published[n]
      /\ Known' = Known \cup {N} /\ Known = 1 .. Len(published)
  BY <1>1, <1>2, AppendProperties DEF MqttTypes, Known
<1>5. /\ handshake' \in Seq({"sent", "received", "complete"}) /\ Len(handshake') = N
      /\ handshake'[N] = IF m.qos = 0 THEN "complete" ELSE "sent"
      /\ \A n \in Known : handshake'[n] = handshake[n]
  BY <1>1, <1>2, <1>4, AppendProperties DEF MqttTypes
<1>6. PICK p \in Packet : p.kind = "publish" /\ p.msg = N /\ p.id = m.id /\ link' = Append(link, p)
  <2> DEFINE p == [kind |-> "publish", msg |-> Len(published) + 1, id |-> m.id]
  <2>1. p \in Packet
    BY <1>2, <1>3 DEF Packet
  <2>2. p.kind = "publish" /\ p.msg = N /\ p.id = m.id
    BY <1>2
  <2>3. link' = Append(link, p)
    BY DEF PublishNew
  <2>4. QED
    BY <2>1, <2>2, <2>3
<1>7. /\ View' \in Seq(Packet) /\ link' \in Seq(Packet)
      /\ DOMAIN View = 1 .. Len(View) /\ DOMAIN View' = 1 .. Len(View) + 1 /\ Len(View) \in Nat
      /\ View'[Len(View) + 1] = p /\ \A k \in 1 .. Len(View) : View'[k] = View[k]
  BY <1>1, <1>6, ViewAppends
<1>8. Taken' = Taken /\ \A x \in DOMAIN Taken : Taken[x] \in Known
  BY <1>1 DEF Taken, TakenInv
<1>9. delivered' \in Seq(Known') /\ pending' \in Seq(Known') /\ consumed' \subseteq Known'
  BY <1>1, <1>4, SeqGrows DEF MqttTypes
<1>10. MqttTypes'
  <2>1. Len(published') <= MaxPublished /\ Len(handshake') = Len(published')
    BY <1>1, <1>2, <1>4, <1>5, MobileAssumption DEF MqttTypes
  <2>2. /\ mPc' \in {"new", "connect", "connack", "suback", "listen", "ack", "exchange", "over"}
        /\ mDeadline' \in Nat \cup {NoDeadline} /\ mClock' \in Nat
        /\ mPc' = "ack" => held' \in Packet
        /\ qos2' \in [Ids -> Indices \cup {NoMessage}]
        /\ mPc' \in {"listen", "exchange"} => mDeadline' # NoDeadline
        /\ mPc' \in {"new", "connect", "connack", "suback"} => mDeadline' = NoDeadline
        /\ mPc' = "ack" /\ mDeadline' # NoDeadline => pending' = <<>>
    BY <1>1 DEF MqttTypes
  <2>3. QED
    BY <1>4, <1>5, <1>7, <1>9, <2>1, <2>2 DEF MqttTypes
<1>11. HandshakeInv'
  <2>1. ASSUME NEW n \in Known, published[n].qos > 0, m.qos > 0, published[n].id = m.id
        PROVE  handshake[n] = "complete"
    BY <1>1, <2>1, LenProperties DEF Free, MqttTypes, Known
  <2>2. ASSUME NEW n \in Known'
        PROVE  /\ published'[n].qos = 0 => handshake'[n] = "complete"
               /\ handshake'[n] = "received" => published'[n].qos = 2
    <3>1. CASE n \in Known
      BY <1>1, <1>4, <1>5, <3>1 DEF HandshakeInv
    <3>2. CASE n = N
      BY <1>4, <1>5, <3>2
    <3>3. QED
      BY <1>4, <2>2, <3>1, <3>2
  <2>3. ASSUME NEW n \in Known', NEW o \in Known', n # o,
               published'[n].qos > 0, published'[o].qos > 0, published'[n].id = published'[o].id
        PROVE  handshake'[n] = "complete" \/ handshake'[o] = "complete"
    <3>1. CASE n \in Known /\ o \in Known
      BY <1>1, <1>4, <1>5, <2>3, <3>1 DEF HandshakeInv
    <3>2. CASE n \in Known /\ o = N
      BY <1>4, <1>5, <2>1, <2>3, <3>2
    <3>3. CASE n = N /\ o \in Known
      BY <1>4, <1>5, <2>1, <2>3, <3>3
    <3>4. QED
      BY <1>4, <2>3, <3>1, <3>2, <3>3
  <2>4. QED
    BY <2>2, <2>3 DEF HandshakeInv
<1>12. StoredInv'
  BY <1>1, <1>3, <1>4, <1>5 DEF StoredInv
<1>13. \A k \in 1 .. Len(View) :
          /\ View[k] \in Packet
          /\ View[k].kind = "publish" => View[k].msg \in Known /\ View[k].id = published[View[k].msg].id
          /\ View[k].kind = "pubrel" => View[k].id \in Ids
  BY <1>1, <1>7 DEF ViewInv, PacketsInv
<1>14. PacketsInv'
  BY <1>3, <1>4, <1>6, <1>7, <1>13 DEF PacketsInv
<1>15. UnseenInv'
  <2> SUFFICES ASSUME NEW j \in DOMAIN View', NEW k \in DOMAIN View', j < k,
                      View'[j].kind = "pubrel", View'[k].kind = "publish", View'[j].id = View'[k].id
               PROVE  /\ qos2[View'[k].id] # View'[k].msg
                      /\ \A l \in DOMAIN View' : l < j =>
                            ~(View'[l].kind = "publish" /\ View'[l].msg = View'[k].msg)
    BY <1>1 DEF UnseenInv
  <2>1. j \in 1 .. Len(View) /\ View'[j] = View[j]
    BY <1>6, <1>7
  <2>2. CASE k \in 1 .. Len(View)
    <3>1. View'[k] = View[k] /\ j \in DOMAIN View /\ k \in DOMAIN View
      BY <1>7, <2>1, <2>2
    <3>2. /\ qos2[View[k].id] # View[k].msg
          /\ \A l \in DOMAIN View : l < j => ~(View[l].kind = "publish" /\ View[l].msg = View[k].msg)
      BY <1>1, <2>1, <3>1 DEF ViewInv, UnseenInv
    <3>3. ASSUME NEW l \in DOMAIN View', l < j PROVE l \in DOMAIN View /\ View'[l] = View[l]
      BY <1>7, <2>1, <3>3
    <3>4. QED
      BY <3>1, <3>2, <3>3
  <2>3. CASE k = Len(View) + 1
    <3>1. View'[k].msg = N /\ View'[k].id = m.id
      BY <1>6, <1>7, <2>3
    <3>2. qos2[m.id] # N
      BY <1>1, <1>3 DEF StoredInv
    <3>3. ASSUME NEW l \in DOMAIN View', l < j, View'[l].kind = "publish" PROVE View'[l].msg # N
      BY <1>3, <1>7, <1>13, <2>1, <3>3
    <3>4. QED
      BY <3>1, <3>2, <3>3
  <2>4. QED
    BY <1>7, <2>2, <2>3
<1>16. SentInv'
  <2> SUFFICES ASSUME NEW j \in DOMAIN View', NEW n \in Known',
                      View'[j].kind = "pubrel", View'[j].id = published'[n].id, handshake'[n] = "sent",
                      NEW l \in DOMAIN View', l < j
               PROVE  ~(View'[l].kind = "publish" /\ View'[l].msg = n)
    BY DEF SentInv
  <2>1. j \in 1 .. Len(View) /\ View'[j] = View[j] /\ l \in 1 .. Len(View) /\ View'[l] = View[l]
    BY <1>6, <1>7
  <2>2. CASE n = N
    BY <1>3, <1>13, <2>1, <2>2
  <2>3. CASE n \in Known
    <3>1. View[j].id = published[n].id /\ handshake[n] = "sent"
      BY <1>4, <1>5, <2>1, <2>3
    <3>2. QED
      BY <1>1, <1>7, <2>1, <2>3, <3>1 DEF ViewInv, SentInv
  <2>4. QED
    BY <1>4, <2>2, <2>3
<1>17. OrderInv'
  <2> SUFFICES ASSUME NEW j \in DOMAIN View', NEW k \in DOMAIN View', j < k,
                      View'[j].kind = "publish", View'[k].kind = "publish",
                      published'[View'[j].msg].qos = 0, published'[View'[k].msg].qos = 0
               PROVE  View'[j].msg < View'[k].msg
    BY DEF OrderInv
  <2>1. /\ j \in 1 .. Len(View) /\ View'[j] = View[j] /\ View[j].msg \in Known
        /\ published[View[j].msg].qos = 0
    BY <1>4, <1>7, <1>13
  <2>2. CASE k \in 1 .. Len(View)
    <3>1. View'[k] = View[k] /\ View[k].msg \in Known /\ published[View[k].msg].qos = 0
      BY <1>4, <1>7, <1>13, <2>2
    <3>2. QED
      BY <1>1, <1>7, <2>1, <2>2, <3>1 DEF ViewInv, OrderInv
  <2>3. CASE k = Len(View) + 1
    BY <1>3, <1>6, <1>7, <2>1, <2>3
  <2>4. QED
    BY <1>7, <2>2, <2>3
<1>18. TakenInv'
  <2> SUFFICES ASSUME NEW x \in DOMAIN Taken
               PROVE  /\ Taken[x] \in Known'
                      /\ published'[Taken[x]].qos = 2 =>
                            /\ handshake'[Taken[x]] # "sent"
                            /\ qos2[published'[Taken[x]].id] # Taken[x]
                            /\ \A k \in DOMAIN View' : ~(View'[k].kind = "publish" /\ View'[k].msg = Taken[x])
                      /\ published'[Taken[x]].qos = 0 =>
                            \A k \in DOMAIN View' :
                                View'[k].kind = "publish" /\ published'[View'[k].msg].qos = 0
                                   => Taken[x] < View'[k].msg
    BY <1>1, <1>8 DEF TakenInv
  <2>1. PICK n \in Known : n = Taken[x]
    BY <1>8
  <2>2. /\ published'[n] = published[n] /\ handshake'[n] = handshake[n] /\ n \in Known' /\ n < N /\ n # N
    BY <1>3, <1>4, <1>5
  <2>3. /\ published[n].qos = 2 =>
              /\ handshake[n] # "sent" /\ qos2[published[n].id] # n
              /\ \A k \in DOMAIN View : ~IsPublish(k, n)
        /\ published[n].qos = 0 =>
              \A k \in DOMAIN View :
                  View[k].kind = "publish" /\ published[View[k].msg].qos = 0 => n < View[k].msg
    BY <1>1, <2>1 DEF TakenInv
  <2>4. ASSUME published[n].qos = 2, NEW k \in DOMAIN View'
        PROVE  ~(View'[k].kind = "publish" /\ View'[k].msg = n)
    BY <1>6, <1>7, <2>2, <2>3, <2>4
  <2>5. ASSUME published[n].qos = 0, NEW k \in DOMAIN View', View'[k].kind = "publish",
               published'[View'[k].msg].qos = 0
        PROVE  n < View'[k].msg
    <3>1. CASE k \in 1 .. Len(View)
      BY <1>4, <1>7, <1>13, <2>3, <2>5, <3>1
    <3>2. CASE k = Len(View) + 1
      BY <1>6, <1>7, <2>2, <3>2
    <3>3. QED
      BY <1>7, <3>1, <3>2
  <2>6. QED
    BY <2>1, <2>2, <2>3, <2>4, <2>5
<1>19. DeliveredOnce'
  BY <1>4, <1>8 DEF OnceInv, DeliveredOnce
<1>20. LossInv'
  <2>1. \A n : WasTaken(n) <=> WasTaken(n)'
    BY <1>8 DEF WasTaken
  <2>2. QED
    BY <1>1, <1>3, <1>4, <1>5, <2>1 DEF LossInv
<1>21. QED
  BY <1>10, <1>11, <1>12, <1>14, <1>15, <1>16, <1>17, <1>18, <1>19, <1>20 DEF OnceInv, ViewInv


-----------------------------------------------------------------------------
\* The events

\* A step that reports nothing and starts or ends nothing.
LEMMA EventsSame ==
    ASSUME EventsInv, UNCHANGED <<mEvents, mOutcome, logins, mDeadline>>,
           mPc' = mPc \/ (mPc \notin {"exchange", "over"} /\ mPc' \notin {"exchange", "over"})
    PROVE  EventsInv'
  BY DEF EventsInv

\* An attempt that fails or is dropped reports nothing.
LEMMA EventsOver ==
    ASSUME EventsInv, UNCHANGED <<mEvents, logins, mDeadline>>, mPc # "over",
           Over("error") \/ Over("dropped")
    PROVE  EventsInv'
  BY DEF EventsInv, Over

\* An event that is reported comes after Scan and after no terminal one.
LEMMA EventAdded ==
    ASSUME EventsInv, NEW e \in {"Scan", "Conf", "Done", "Refuse", "Timeout"}, mPc # "over",
           mDeadline # NoDeadline, mEvents' = Append(mEvents, e)
    PROVE  /\ mEvents' \in Seq({"Scan", "Conf", "Done", "Refuse", "Timeout"})
           /\ DOMAIN mEvents' = 1 .. Len(mEvents) + 1 /\ Len(mEvents') = Len(mEvents) + 1
           /\ Len(mEvents) \in Nat /\ DOMAIN mEvents = 1 .. Len(mEvents)
           /\ mEvents'[Len(mEvents) + 1] = e
           /\ \A i \in 1 .. Len(mEvents) : mEvents'[i] = mEvents[i] /\ mEvents'[i] \notin Ends
           /\ mEvents'[1] = "Scan"
<1>1. mEvents \in Seq({"Scan", "Conf", "Done", "Refuse", "Timeout"}) /\ Len(mEvents) > 0 /\ mEvents[1] = "Scan"
      /\ \A i \in DOMAIN mEvents : mEvents[i] \notin Ends
  BY DEF EventsInv
<1>2. QED
  BY <1>1, AppendProperties, LenProperties

\* A terminal event ends the attempt.
LEMMA EventsEnd ==
    ASSUME EventsInv, NEW e \in Ends, mPc # "over", mDeadline # NoDeadline,
           mEvents' = Append(mEvents, e), Over("ok"), UNCHANGED <<logins, mDeadline>>,
           e = "Done" => logins = 1
    PROVE  EventsInv'
<1>1. e \in {"Scan", "Conf", "Done", "Refuse", "Timeout"}
  BY DEF Ends
<1>2. /\ mEvents' \in Seq({"Scan", "Conf", "Done", "Refuse", "Timeout"})
      /\ DOMAIN mEvents' = 1 .. Len(mEvents) + 1 /\ Len(mEvents') = Len(mEvents) + 1
      /\ Len(mEvents) \in Nat /\ DOMAIN mEvents = 1 .. Len(mEvents)
      /\ mEvents'[Len(mEvents) + 1] = e
      /\ \A i \in 1 .. Len(mEvents) : mEvents'[i] = mEvents[i] /\ mEvents'[i] \notin Ends
      /\ mEvents'[1] = "Scan"
  BY <1>1, EventAdded
<1>3. mPc' = "over" /\ logins \in 0 .. 1 /\ "Done" \in Ends
  BY DEF Over, EventsInv, Ends
<1>4. \A i \in DOMAIN mEvents' : mEvents'[i] \in Ends => i = Len(mEvents')
  BY <1>2
<1>5. \A i \in DOMAIN mEvents' : mEvents'[i] = "Done" => logins' = 1
  BY <1>2, <1>3
<1>6. QED
  BY <1>2, <1>3, <1>4, <1>5 DEF EventsInv

\* What ingest_mobile_mqtt reports.
LEMMA EventsIngest ==
    ASSUME EventsInv, MqttTypes, NEW n \in Known, mPc \notin {"exchange", "over"},
           mDeadline # NoDeadline, mDeadline' = mDeadline, Ingest(n)
    PROVE  EventsInv'
<1>1. published[n] \in Message
  BY DEF MqttTypes, Known
<1>2. published[n].type \in Types
  BY <1>1 DEF Message
<1>3. \/ mPc' = "listen" /\ UNCHANGED <<mEvents, mOutcome, logins>>
      \/ mEvents' = Append(mEvents, "Conf") /\ mPc' = "listen" /\ UNCHANGED <<mOutcome, logins>>
      \/ /\ mEvents' = Append(mEvents, "Timeout") \/ mEvents' = Append(mEvents, "Refuse")
         /\ Over("ok") /\ UNCHANGED logins
      \/ Over("error") /\ UNCHANGED <<mEvents, logins>>
      \/ mPc' = "exchange" /\ logins' = logins + 1 /\ UNCHANGED <<mEvents, mOutcome>>
  BY <1>2 DEF Ingest, Types
<1>4. CASE mPc' = "listen" /\ UNCHANGED <<mEvents, mOutcome, logins>>
  BY <1>4, EventsSame
<1>5. CASE mEvents' = Append(mEvents, "Conf") /\ mPc' = "listen" /\ UNCHANGED <<mOutcome, logins>>
  <2> DEFINE e == "Conf"
  <2>1. e \in {"Scan", "Conf", "Done", "Refuse", "Timeout"} /\ e \notin Ends
    BY DEF Ends
  <2>2. mEvents' = Append(mEvents, e)
    BY <1>5
  <2> HIDE DEF e
  <2>3. /\ mEvents' \in Seq({"Scan", "Conf", "Done", "Refuse", "Timeout"})
        /\ DOMAIN mEvents' = 1 .. Len(mEvents) + 1 /\ Len(mEvents') = Len(mEvents) + 1
        /\ Len(mEvents) \in Nat /\ DOMAIN mEvents = 1 .. Len(mEvents)
        /\ mEvents'[Len(mEvents) + 1] = e
        /\ \A i \in 1 .. Len(mEvents) : mEvents'[i] = mEvents[i] /\ mEvents'[i] \notin Ends
        /\ mEvents'[1] = "Scan"
    BY <2>1, <2>2, EventAdded
  <2>4. \A i \in DOMAIN mEvents' : mEvents'[i] \notin Ends
    BY <2>1, <2>3
  <2>5. logins' = 0 /\ mOutcome' = "none" /\ mPc' = "listen" /\ "Done" \in Ends
    BY <1>5 DEF EventsInv, Ends
  <2>6. QED
    BY <2>3, <2>4, <2>5 DEF EventsInv
<1>6. CASE /\ mEvents' = Append(mEvents, "Timeout") \/ mEvents' = Append(mEvents, "Refuse")
           /\ Over("ok") /\ UNCHANGED logins
  BY <1>6, EventsEnd DEF Ends
<1>7. CASE Over("error") /\ UNCHANGED <<mEvents, logins>>
  BY <1>7, EventsOver
<1>8. CASE mPc' = "exchange" /\ logins' = logins + 1 /\ UNCHANGED <<mEvents, mOutcome>>
  BY <1>8 DEF EventsInv, Ends
<1>9. QED
  BY <1>3, <1>4, <1>5, <1>6, <1>7, <1>8

\* A complete message is kept, which reports nothing, or ingested.
LEMMA EventsTake ==
    ASSUME EventsInv, MqttTypes, NEW n \in Known, mPc \notin {"exchange", "over"},
           mDeadline' = mDeadline, Take(n)
    PROVE  EventsInv'
<1>1. CASE mDeadline = NoDeadline
  BY <1>1, EventsSame DEF Take
<1>2. CASE mDeadline # NoDeadline
  BY <1>2, EventsIngest DEF Take
<1>3. QED
  BY <1>1, <1>2

\* Every step keeps the list of events well formed.
LEMMA EventsKeep ==
    ASSUME OnceInv, EventsInv, [MobileNext]_mobileLogin
    PROVE  EventsInv'
<1>1. MqttTypes
  BY DEF OnceInv
<1>2. CASE Connect \/ Opened \/ MqttTick \/ ReadAcked \/ AckedQos2 \/ Ping \/ UNCHANGED mobileLogin
  <2>1. /\ UNCHANGED <<mEvents, mOutcome, logins, mDeadline>>
        /\ mPc' = mPc \/ (mPc \notin {"exchange", "over"} /\ mPc' \notin {"exchange", "over"})
    BY <1>2 DEF Connect, Opened, MqttTick, ReadAcked, AckedQos2, Ping, mobileLogin, client, past, Reading,
       Back, Selecting
  <2>2. QED
    BY <2>1, EventsSame
<1>3. CASE \/ \E k \in KeepAlives : Accepted(k)
           \/ \E m \in Messages : PublishNew(m)
           \/ \E n \in DOMAIN published : Repeat(n)
           \/ \E kind \in {"pingresp", "disconnect"} : SendControl(kind)
  <2>1. /\ UNCHANGED <<mEvents, mOutcome, logins, mDeadline>>
        /\ mPc' = mPc \/ (mPc \notin {"exchange", "over"} /\ mPc' \notin {"exchange", "over"})
    BY <1>3 DEF Accepted, PublishNew, Repeat, SendControl, client, past
  <2>2. QED
    BY <2>1, EventsSame
<1>4. CASE RedirectedTo
  <2>1. UNCHANGED <<mEvents, logins, mDeadline>> /\ mPc = "connack"
    BY <1>4 DEF RedirectedTo, past
  <2>2. CASE hops < MaxHops
    BY <1>4, <2>1, <2>2, EventsSame DEF RedirectedTo
  <2>3. CASE ~(hops < MaxHops)
    BY <1>4, <2>1, <2>3, EventsOver DEF RedirectedTo
  <2>4. QED
    BY <2>2, <2>3
<1>5. CASE ReadControl
  <2>1. UNCHANGED <<mEvents, logins, mDeadline>> /\ mPc # "over"
    BY <1>1, <1>5, WhileReading DEF ReadControl, past
  <2>2. Over("error") \/ UNCHANGED <<mPc, mOutcome>>
    BY <1>5 DEF ReadControl
  <2>3. QED
    BY <2>1, <2>2, EventsSame, EventsOver
<1>6. CASE MobileFails \/ DropMobileLogin
  <2>1. UNCHANGED <<mEvents, logins, mDeadline>> /\ mPc # "over" /\ (Over("error") \/ Over("dropped"))
    BY <1>6 DEF MobileFails, DropMobileLogin, past
  <2>2. QED
    BY <2>1, EventsOver
<1>7. CASE Subscribed
  <2>1. /\ mPc = "suback" /\ mPc' = "listen" /\ mEvents' = <<"Scan">> /\ UNCHANGED <<mOutcome, logins>>
    BY <1>7 DEF Subscribed, past
  <2> DEFINE e == "Scan"
  <2>2. e \in {"Scan", "Conf", "Done", "Refuse", "Timeout"} /\ e \notin Ends /\ mEvents' = <<e>>
    BY <2>1 DEF Ends
  <2>3. DOMAIN mEvents' = {1} /\ Len(mEvents') = 1 /\ mEvents'[1] = e
        /\ mEvents' \in Seq({"Scan", "Conf", "Done", "Refuse", "Timeout"})
    BY <2>2
  <2>4. logins' = 0 /\ mOutcome' = "none" /\ "Done" \in Ends
    BY <2>1 DEF EventsInv, Ends
  <2>5. \A i \in DOMAIN mEvents' : mEvents'[i] \notin Ends
    BY <2>2, <2>3
  <2>6. QED
    BY <2>1, <2>3, <2>4, <2>5 DEF EventsInv
<1>8. CASE TimesOut
  <2>1. /\ mPc # "over" /\ mDeadline # NoDeadline /\ mEvents' = Append(mEvents, "Timeout") /\ Over("ok")
        /\ UNCHANGED <<logins, mDeadline>> /\ "Timeout" \in Ends
    BY <1>8 DEF TimesOut, Selecting, past, Ends
  <2>2. QED
    BY <2>1, EventsEnd
<1>9. CASE LoggedIn
  <2>1. /\ mPc # "over" /\ mDeadline # NoDeadline /\ mEvents' = Append(mEvents, "Done") /\ Over("ok")
        /\ UNCHANGED <<logins, mDeadline>> /\ "Done" \in Ends /\ logins = 1
    BY <1>1, <1>9 DEF LoggedIn, past, Ends, MqttTypes, EventsInv
  <2>2. QED
    BY <2>1, EventsEnd
<1>10. CASE NextPending
  <2>1. /\ mPc \notin {"exchange", "over"} /\ mDeadline # NoDeadline /\ mDeadline' = mDeadline
        /\ Ingest(Head(pending)) /\ pending # <<>> /\ pending \in Seq(Known)
    BY <1>1, <1>10 DEF NextPending, MqttTypes
  <2>2. Head(pending) \in Known
    BY <2>1, HeadTailProperties
  <2>3. QED
    BY <1>1, <2>1, <2>2, EventsIngest
<1>11. CASE ReadQos0
  <2>1. Reading /\ link # <<>> /\ View = link /\ Head(link).kind = "publish"
        /\ Take(Head(link).msg) /\ mDeadline' = mDeadline /\ mPc \notin {"exchange", "over"}
    BY <1>1, <1>11, WhileReading DEF ReadQos0, Reading
  <2>2. 1 \in DOMAIN link /\ Head(link) = link[1]
    BY <1>1, <2>1, LenProperties, EmptySeq DEF MqttTypes
  <2>3. Head(link).msg \in Known
    BY <2>1, <2>2 DEF OnceInv, ViewInv, PacketsInv
  <2>4. QED
    BY <1>1, <2>1, <2>3, EventsTake
<1>12. CASE AckedQos1
  <2>1. mPc = "ack" /\ InTime /\ held.kind = "publish" /\ Take(held.msg) /\ mDeadline' = mDeadline
    BY <1>12 DEF AckedQos1
  <2>2. held.msg \in Known
    BY <2>1, AckLeads
  <2>3. QED
    BY <1>1, <2>1, <2>2, EventsTake
<1>13. CASE AckedPubrel
  <2>1. mPc = "ack" /\ InTime /\ held.kind = "pubrel" /\ mDeadline' = mDeadline
    BY <1>13 DEF AckedPubrel
  <2>2. held.id \in Ids
    BY <2>1, AckLeads
  <2>3. CASE qos2[held.id] = NoMessage
    <3>1. UNCHANGED <<mEvents, mOutcome, logins>> /\ mPc' \notin {"exchange", "over"}
      BY <1>13, <2>3 DEF AckedPubrel, Back
    <3>2. QED
      BY <2>1, <3>1, EventsSame
  <2>4. CASE qos2[held.id] # NoMessage
    <3>1. Take(qos2[held.id]) /\ qos2[held.id] \in Known
      BY <1>13, <2>2, <2>4 DEF AckedPubrel, OnceInv, StoredInv
    <3>2. QED
      BY <1>1, <2>1, <3>1, EventsTake
  <2>5. QED
    BY <2>3, <2>4
<1>14. QED
  BY <1>2, <1>3, <1>4, <1>5, <1>6, <1>7, <1>8, <1>9, <1>10, <1>11, <1>12, <1>13
  DEF MobileNext, MqttStep, BrokerStep

-----------------------------------------------------------------------------
\* Before connect there is no message and no event.
LEMMA MobileStarts ==
    ASSUME MobileInit
    PROVE  OnceInv /\ LossInv /\ EventsInv
<1>1. /\ mPc = "new" /\ link = <<>> /\ pending = <<>> /\ delivered = <<>> /\ published = <<>>
      /\ handshake = <<>> /\ consumed = {} /\ mDeadline = NoDeadline /\ mClock = 0
      /\ qos2 = [i \in Ids |-> NoMessage] /\ mEvents = <<>> /\ logins = 0 /\ mOutcome = "none"
  BY DEF MobileInit
<1>2. Known = {} /\ View = <<>> /\ Taken = <<>> /\ Len(published) = 0
  BY <1>1 DEF Known, View, Taken
<1>3. MqttTypes
  BY <1>1, <1>2, MobileAssumption DEF MqttTypes
<1>4. HandshakeInv /\ StoredInv
  BY <1>1, <1>2 DEF HandshakeInv, StoredInv
<1>5. ViewInv
  BY <1>2 DEF ViewInv, PacketsInv, UnseenInv, SentInv, OrderInv
<1>6. TakenInv /\ DeliveredOnce
  BY <1>2 DEF TakenInv, DeliveredOnce
<1>7. LossInv
  BY <1>1, <1>2 DEF LossInv
<1>8. EventsInv
  BY <1>1 DEF EventsInv, Ends
<1>9. QED
  BY <1>3, <1>4, <1>5, <1>6, <1>7, <1>8 DEF OnceInv

\* Every step of the client, of the broker and of the caller keeps the invariant.
LEMMA MobileKeeps ==
    ASSUME OnceInv, LossInv, [MobileNext]_mobileLogin
    PROVE  OnceInv' /\ LossInv'
<1>1. CASE \/ Connect \/ Opened \/ RedirectedTo \/ MobileFails \/ Subscribed \/ TimesOut
           \/ LoggedIn \/ DropMobileLogin \/ MqttTick \/ UNCHANGED mobileLogin
           \/ \E k \in KeepAlives : Accepted(k)
  BY <1>1, QuietStep
<1>2. CASE NextPending
  BY <1>2, NextPendingKeeps
<1>3. CASE ReadQos0
  BY <1>3, ReadQos0Keeps
<1>4. CASE ReadAcked
  BY <1>4, ReadAckedKeeps
<1>5. CASE ReadControl
  BY <1>5, ReadControlKeeps
<1>6. CASE AckedQos1
  BY <1>6, AckedQos1Keeps
<1>7. CASE AckedQos2
  BY <1>7, AckedQos2Keeps
<1>8. CASE AckedPubrel
  BY <1>8, AckedPubrelKeeps
<1>9. CASE Ping
  BY <1>9, PingKeeps
<1>10. CASE \E m \in Messages : PublishNew(m)
  BY <1>10, PublishNewKeeps
<1>11. CASE \E n \in DOMAIN published : Repeat(n)
  BY <1>11, RepeatKeeps
<1>12. CASE \E kind \in {"pingresp", "disconnect"} : SendControl(kind)
  BY <1>12, SendControlKeeps
<1>13. QED
  BY <1>1, <1>2, <1>3, <1>4, <1>5, <1>6, <1>7, <1>8, <1>9, <1>10, <1>11, <1>12
  DEF MobileNext, MqttStep, BrokerStep

\* However the broker repeats, interleaves and redirects, and wherever the ping or
\* the caller interrupts the client, the wire, the store and what was taken
\* agree as the code relies on.
THEOREM MobileInvariance == MobileSpec => [](OnceInv /\ LossInv /\ EventsInv)
<1>1. MobileInit => OnceInv /\ LossInv /\ EventsInv
  BY MobileStarts
<1>2. OnceInv /\ LossInv /\ EventsInv /\ [MobileNext]_mobileLogin => (OnceInv /\ LossInv /\ EventsInv)'
  BY MobileKeeps, EventsKeep
<1>3. QED
  BY <1>1, <1>2, PTL DEF MobileSpec

\* What the invariant leaves of MobileTypeOK.
RestTypes ==
    /\ hops \in 0 .. MaxHops /\ keepAlive \in KeepAlives \cup {OwnKeepAlive} /\ due \in Nat
    /\ Len(link) <= MaxLink /\ held \in Packet \cup {NoMessage} /\ interrupted \in BOOLEAN
    /\ mOutcome \in {"none", "ok", "error", "dropped"} /\ published \in Seq(Messages)

\* A message ends an attempt by an answer or an error, or does not end it.
LEMMA TakeOutcome ==
    ASSUME MqttTypes, NEW n \in Known, Take(n) \/ Ingest(n)
    PROVE  mOutcome' \in {mOutcome, "ok", "error"}
<1>1. published[n] \in Message
  BY DEF MqttTypes, Known
<1>2. published[n].type \in Types
  BY <1>1 DEF Message
<1>3. CASE Ingest(n)
  BY <1>2, <1>3 DEF Ingest, Over, Types
<1>4. CASE Take(n) /\ ~Ingest(n)
  BY <1>4 DEF Take
<1>5. QED
  BY <1>3, <1>4

\* Every step keeps the types the invariant does not mention.
LEMMA RestTypesKeep ==
    ASSUME OnceInv, RestTypes, [MobileNext]_mobileLogin
    PROVE  RestTypes'
<1>1. /\ MqttTypes /\ MaxHops \in Nat /\ keepAlive \in Nat /\ mClock \in Nat /\ MaxLink \in Nat
      /\ link \in Seq(Packet) /\ published \in Seq(Message)
  BY MobileAssumption DEF OnceInv, MqttTypes, RestTypes
<1>2. /\ Len(link) \in Nat
      /\ link # <<>> => Head(link) \in Packet /\ Len(Tail(link)) <= MaxLink
      /\ \A p : Len(link) < MaxLink => Len(Append(link, p)) <= MaxLink
  BY <1>1, HeadTailProperties, LenProperties DEF RestTypes
<1>3. CASE \/ Connect \/ Opened \/ MobileFails \/ TimesOut \/ LoggedIn \/ DropMobileLogin \/ MqttTick
           \/ UNCHANGED mobileLogin
  <2>1. /\ UNCHANGED <<hops, keepAlive, due, link, held, interrupted, published>>
        /\ mOutcome' \in {mOutcome, "ok", "error", "dropped"}
    BY <1>3 DEF Connect, Opened, MobileFails, TimesOut, LoggedIn, DropMobileLogin, MqttTick, mobileLogin,
       client, broker, past, Over
  <2>2. QED
    BY <2>1 DEF RestTypes
<1>4. CASE \E k \in KeepAlives : Accepted(k)
  BY <1>4 DEF Accepted, broker, past, RestTypes
<1>5. CASE RedirectedTo
  <2>1. hops' \in 0 .. MaxHops
    BY <1>1, <1>5 DEF RedirectedTo, RestTypes
  <2>2. QED
    BY <1>5, <2>1 DEF RedirectedTo, Over, broker, past, RestTypes
<1>6. CASE Subscribed
  BY <1>1, <1>6 DEF Subscribed, broker, past, RestTypes
<1>7. CASE NextPending
  <2>1. Head(pending) \in Known /\ Ingest(Head(pending))
    BY <1>1, <1>7, HeadTailProperties DEF NextPending, MqttTypes
  <2>2. mOutcome' \in {mOutcome, "ok", "error"}
    BY <1>1, <2>1, TakeOutcome
  <2>3. UNCHANGED <<hops, keepAlive, due, link, held, interrupted, published>>
    BY <1>7 DEF NextPending, broker
  <2>4. QED
    BY <2>2, <2>3 DEF RestTypes
<1>8. CASE ReadQos0
  <2>1. Reading /\ link # <<>> /\ View = link /\ Head(link).kind = "publish" /\ Take(Head(link).msg)
    BY <1>1, <1>8, WhileReading DEF ReadQos0
  <2>2. 1 \in DOMAIN link /\ Head(link) = link[1]
    BY <1>1, <2>1, LenProperties, EmptySeq
  <2>3. Head(link).msg \in Known
    BY <2>1, <2>2 DEF OnceInv, ViewInv, PacketsInv
  <2>4. mOutcome' \in {mOutcome, "ok", "error"}
    BY <1>1, <2>1, <2>3, TakeOutcome
  <2>5. UNCHANGED <<hops, keepAlive, due, held, interrupted, published>> /\ link' = Tail(link)
    BY <1>8 DEF ReadQos0
  <2>6. QED
    BY <1>2, <2>1, <2>4, <2>5 DEF RestTypes
<1>9. CASE ReadAcked
  BY <1>2, <1>9 DEF ReadAcked, RestTypes
<1>10. CASE ReadControl
  BY <1>2, <1>10 DEF ReadControl, Over, past, RestTypes
<1>11. CASE AckedQos1
  <2>1. mPc = "ack" /\ InTime /\ held.kind = "publish" /\ Take(held.msg)
    BY <1>11 DEF AckedQos1
  <2>2. mOutcome' \in {mOutcome, "ok", "error"}
    BY <1>1, <2>1, AckLeads, TakeOutcome
  <2>3. UNCHANGED <<hops, keepAlive, due, link, interrupted, published>> /\ held' = NoMessage
    BY <1>11 DEF AckedQos1
  <2>4. QED
    BY <2>2, <2>3 DEF RestTypes
<1>12. CASE AckedQos2
  <2>1. UNCHANGED <<hops, keepAlive, due, mOutcome, interrupted, published>> /\ held' = NoMessage
        /\ link' = Answer(held)
    BY <1>12 DEF AckedQos2, past
  <2>2. Answer(held) = link \/ (Len(link) < MaxLink /\ Answer(held) = Append(link, Pubrel(held.id)))
    BY DEF Answer
  <2>3. Len(link') <= MaxLink
    BY <1>2, <2>1, <2>2 DEF RestTypes
  <2>4. QED
    BY <2>1, <2>3 DEF RestTypes
<1>13. CASE AckedPubrel
  <2>1. mPc = "ack" /\ InTime /\ held.kind = "pubrel" /\ held.id \in Ids
    BY <1>13, AckLeads DEF AckedPubrel
  <2>2. mOutcome' \in {mOutcome, "ok", "error"}
    <3>1. CASE qos2[held.id] = NoMessage
      BY <1>13, <3>1 DEF AckedPubrel
    <3>2. CASE qos2[held.id] # NoMessage
      <4>1. Take(qos2[held.id]) /\ qos2[held.id] \in Known
        BY <1>13, <2>1, <3>2 DEF AckedPubrel, OnceInv, StoredInv
      <4>2. QED
        BY <1>1, <4>1, TakeOutcome
    <3>3. QED
      BY <3>1, <3>2
  <2>3. UNCHANGED <<hops, keepAlive, due, link, interrupted, published>> /\ held' = NoMessage
    BY <1>13 DEF AckedPubrel
  <2>4. QED
    BY <2>2, <2>3 DEF RestTypes
<1>14. CASE Ping
  <2>1. due' \in Nat
    BY <1>1, <1>14 DEF Ping
  <2>2. interrupted' \in BOOLEAN
    BY <1>14 DEF Ping
  <2>3. UNCHANGED <<hops, keepAlive, mOutcome, link, published>> /\ held' = NoMessage
    BY <1>14 DEF Ping
  <2>4. QED
    BY <2>1, <2>2, <2>3 DEF RestTypes
<1>15. CASE \E m \in Messages : PublishNew(m)
  <2>1. PICK m \in Messages : PublishNew(m)
    BY <1>15
  <2>2. /\ UNCHANGED <<hops, keepAlive, due, held, interrupted, mOutcome>>
        /\ published' = Append(published, m) /\ Len(link') <= MaxLink
    BY <1>2, <2>1 DEF PublishNew, client, past
  <2>3. published' \in Seq(Messages)
    BY <2>2, AppendProperties DEF RestTypes
  <2>4. QED
    BY <2>2, <2>3 DEF RestTypes
<1>16. CASE \/ \E n \in DOMAIN published : Repeat(n)
            \/ \E kind \in {"pingresp", "disconnect"} : SendControl(kind)
  <2>1. /\ UNCHANGED <<hops, keepAlive, due, held, interrupted, mOutcome, published>>
        /\ Len(link) < MaxLink /\ \E p : link' = Append(link, p)
    BY <1>16 DEF Repeat, SendControl, client, past
  <2>2. QED
    BY <1>2, <2>1 DEF RestTypes
<1>17. QED
  BY <1>3, <1>4, <1>5, <1>6, <1>7, <1>8, <1>9, <1>10, <1>11, <1>12, <1>13, <1>14, <1>15, <1>16
  DEF MobileNext, MqttStep, BrokerStep

\* Every variable keeps its type, the redirects and the link their bounds.
THEOREM MobileTypes == MobileSpec => []MobileTypeOK
<1>1. MobileInit => RestTypes
  <2>1. Len(<<>>) = 0 /\ <<>> \in Seq(Messages) /\ MaxHops \in Nat /\ MaxLink \in Nat
    BY MobileAssumption
  <2>2. ASSUME MobileInit
        PROVE  /\ hops \in 0 .. MaxHops /\ due \in Nat
               /\ Len(link) <= MaxLink /\ published \in Seq(Messages)
    BY <2>1, <2>2 DEF MobileInit
  <2>3. ASSUME MobileInit
        PROVE  /\ keepAlive \in KeepAlives \cup {OwnKeepAlive}
               /\ held \in Packet \cup {NoMessage} /\ interrupted \in BOOLEAN
               /\ mOutcome \in {"none", "ok", "error", "dropped"}
    BY <2>3 DEF MobileInit
  <2>4. QED
    BY <2>2, <2>3 DEF RestTypes
<1>2. OnceInv /\ RestTypes /\ [MobileNext]_mobileLogin => RestTypes'
  BY RestTypesKeep
<1>3. OnceInv /\ EventsInv /\ RestTypes => MobileTypeOK
  <2> SUFFICES ASSUME OnceInv, EventsInv, RestTypes
               PROVE  MobileTypeOK
    OBVIOUS
  <2>1. Known \subseteq Indices
    BY MobileAssumption DEF OnceInv, MqttTypes, Known, Indices
  <2>2. delivered \in Seq(Indices) /\ pending \in Seq(Indices)
    BY <2>1, SeqGrows DEF OnceInv, MqttTypes
  <2>3. logins \in Nat /\ mEvents \in Seq({"Scan", "Conf", "Done", "Refuse", "Timeout"})
    BY DEF EventsInv
  <2>4. QED
    BY <2>1, <2>2, <2>3 DEF OnceInv, MqttTypes, RestTypes, MobileTypeOK
<1>4. QED
  BY <1>1, <1>2, <1>3, MobileInvariance, PTL DEF MobileSpec

\* No message is delivered twice but one of QoS 1, and those without a handshake
\* come in their order: next_message and handle_publish, for any number of
\* messages and identifiers.
THEOREM DeliveredOnceHolds == MobileSpec => []DeliveredOnce
<1>1. OnceInv => DeliveredOnce
  BY DEF OnceInv
<1>2. QED
  BY <1>1, MobileInvariance, PTL

\* No message that was read is lost, before SUBACK or after, as long as the ping
\* interrupts no acknowledgement.  Behaviours in which select! dropped
\* next_message while it sent one (mqtt.rs:537) are excluded: there the message
\* is lost.
THEOREM NothingLostHolds == MobileSpec => []NothingLost
<1>1. OnceInv /\ LossInv => NothingLost
  <2> SUFFICES ASSUME OnceInv, LossInv, ~interrupted, NEW n \in consumed
               PROVE  \/ n \in ToSet(delivered) \cup ToSet(pending)
                      \/ \E i \in Ids : qos2[i] = n
                      \/ held # NoMessage /\ held.msg = n
                      \/ mPc = "over"
    BY DEF NothingLost
  <2>1. \/ WasTaken(n) \/ \E i \in Ids : qos2[i] = n
        \/ mPc = "ack" /\ held.msg = n
        \/ mPc = "over"
    BY DEF LossInv
  <2>2. mPc = "ack" => held # NoMessage
    BY MobileAssumption DEF OnceInv, MqttTypes
  <2>3. ASSUME WasTaken(n) PROVE n \in ToSet(delivered) \cup ToSet(pending)
    <3>1. delivered \in Seq(Known) /\ pending \in Seq(Known)
      BY DEF OnceInv, MqttTypes
    <3>2. PICK x \in DOMAIN Taken : Taken[x] = n
      BY <2>3 DEF WasTaken
    <3>3. /\ x \in 1 .. Len(delivered) + Len(pending) /\ Len(delivered) \in Nat /\ Len(pending) \in Nat
          /\ Taken[x] = IF x <= Len(delivered) THEN delivered[x] ELSE pending[x - Len(delivered)]
          /\ DOMAIN delivered = 1 .. Len(delivered) /\ DOMAIN pending = 1 .. Len(pending)
      BY <3>1, <3>2, ConcatProperties, LenProperties DEF Taken
    <3>4. QED
      BY <3>2, <3>3 DEF ToSet
  <2>4. QED
    BY <2>1, <2>2, <2>3
<1>2. QED
  BY <1>1, MobileInvariance, PTL

\* Nothing follows a terminal event, a login that succeeds has a list from Scan
\* to its only terminal event, and the cookies of the broker are exchanged at
\* most once.  A scan the broker reports again is in the list again.
THEOREM EventsWellFormedHolds == MobileSpec => []EventsWellFormed
<1>1. EventsInv => EventsWellFormed
  BY DEF EventsInv, EventsWellFormed, Ends, ToSet, Last
<1>2. QED
  BY <1>1, MobileInvariance, PTL
=============================================================================
