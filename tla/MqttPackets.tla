----------------------------- MODULE MqttPackets -----------------------------
(***************************************************************************)
(* The framing of MQTT packets in src/mqtt.rs: packets are a first byte, a *)
(* Remaining Length of variable size and a body; the WebSocket hands their *)
(* bytes over in messages of any size, and read_packet puts the packets    *)
(* together again.  A byte is less than 2 * Radix, the radix of the code   *)
(* is 128.                                                                 *)
(***************************************************************************)
EXTENDS Naturals, Sequences, SequencesExt, FiniteSetsExt

CONSTANTS
    Radix,      \* values of a byte of a variable length integer
    MaxVarint,  \* its longest form: 4 bytes
    MaxPacket,  \* MAX_MQTT_PACKET_SIZE
    Bodies,     \* bodies of packets
    FirstByte,  \* kind and flags of the packets
    NoVarint,   \* None: the integer is incomplete or too long
    MaxSent     \* bound: packets the broker sends

Byte == 0 .. 2 * Radix - 1

ASSUME PacketsAssumption ==
    /\ Radix \in Nat /\ Radix > 1 /\ MaxVarint \in Nat /\ MaxPacket \in Nat
    /\ Bodies \subseteq Seq(Byte) /\ FirstByte \in Byte /\ MaxSent \in Nat
    /\ NoVarint \notin [value : Nat, next : Nat]

VARIABLES
    sent,     \* broker: bodies of the packets it has sent
    wire,     \* bytes that have not arrived
    recvBuf,  \* recv_buf
    readBack, \* bodies that read_packet has returned
    broken    \* read_packet has failed: "", "length" or "buffer"

packets == <<sent, wire, recvBuf, readBack, broken>>

PacketsInit ==
    /\ sent = <<>> /\ wire = <<>> /\ recvBuf = <<>> /\ readBack = <<>> /\ broken = ""

-----------------------------------------------------------------------------
\* encode_varint: the low digits first, all but the last marked.
EncodeVarint[n \in Nat] ==
    IF n < Radix THEN <<n>> ELSE <<Radix + (n % Radix)>> \o EncodeVarint[n \div Radix]

\* Its longest form is long enough for every packet that is allowed.
ASSUME VarintsSuffice == \A n \in 0 .. MaxPacket : Len(EncodeVarint[n]) <= MaxVarint

Encode(body) == <<FirstByte>> \o EncodeVarint[Len(body)] \o body

\* The value of the first "count" bytes, the low digits first.
Value[count \in Nat] ==
    [data \in Seq(Byte) |->
        IF count = 0 \/ data = <<>> THEN 0
        ELSE (data[1] % Radix) + Radix * Value[count - 1][Tail(data)]]

\* read_varint at "pos": up to the first byte that is not marked, of at most
\* MaxVarint.
ReadVarint(data, pos) ==
    LET ends == {k \in 0 .. MaxVarint - 1 : pos + k <= Len(data) /\ data[pos + k] < Radix} IN
    IF ends = {} THEN NoVarint
    ELSE [value |-> Value[Min(ends) + 1][SubSeq(data, pos, Len(data))],
          next |-> pos + Min(ends) + 1]

\* Mutant of Total: the length of the header is not counted.
TotalShort(buf, length) == length.value + 2

\* try_parse_packet: the length of the whole packet at the head of buf.
Total(buf, length) == length.next - 1 + length.value

Length == IF Len(recvBuf) >= 2 THEN ReadVarint(recvBuf, 2) ELSE NoVarint
Complete == Length # NoVarint /\ Len(recvBuf) >= Total(recvBuf, Length)

\* read_packet: a length that is too large is an error at once, a complete
\* packet is taken off.
PacketTooLong ==
    /\ broken = "" /\ Length # NoVarint
    /\ Length.value > MaxPacket
    /\ broken' = "length"
    /\ UNCHANGED <<sent, wire, recvBuf, readBack>>

ReadPacket ==
    /\ broken = "" /\ Complete
    /\ Length.value <= MaxPacket
    /\ readBack' = Append(readBack, SubSeq(recvBuf, Length.next, Total(recvBuf, Length)))
    /\ recvBuf' = SubSeq(recvBuf, Total(recvBuf, Length) + 1, Len(recvBuf))
    /\ UNCHANGED <<sent, wire, broken>>

\* Only if there is none the next message of the WebSocket is read; the buffer
\* is bounded.
ReadMessage(n) ==
    /\ broken = "" /\ ~Complete
    /\ Length # NoVarint => Length.value <= MaxPacket
    /\ n \in 1 .. Len(wire)
    /\ wire' = SubSeq(wire, n + 1, Len(wire))
    /\ IF Len(recvBuf) + n > MaxPacket + 1 + MaxVarint
       THEN broken' = "buffer" /\ UNCHANGED recvBuf
       ELSE recvBuf' = recvBuf \o SubSeq(wire, 1, n) /\ UNCHANGED broken
    /\ UNCHANGED <<sent, readBack>>

\* The broker sends one more packet.
SendPacket(body) ==
    /\ Len(sent) < MaxSent
    /\ sent' = Append(sent, body)
    /\ wire' = wire \o Encode(body)
    /\ UNCHANGED <<recvBuf, readBack, broken>>

PacketsNext ==
    \/ PacketTooLong \/ ReadPacket
    \/ \E n \in 1 .. Len(wire) : ReadMessage(n)
    \/ \E body \in Bodies : SendPacket(body)

PacketsSpec == PacketsInit /\ [][PacketsNext]_packets

-----------------------------------------------------------------------------
\* However the bytes are cut into messages, read_packet returns the packets
\* that were sent, in order, and when all bytes are there and it waits for
\* more, it has returned them all.  Its length error is the fault of a packet
\* that is too large.  Its buffer limit (mqtt.rs:581) can refuse small packets
\* too, but only if more than one of them is on its way.
FramesExact ==
    /\ IsPrefix(readBack, sent)
    /\ broken = "length" => \E i \in DOMAIN sent : Len(sent[i]) > MaxPacket
    /\ broken = "buffer" =>
         Len(sent) > Len(readBack) + 1 \/ \E i \in DOMAIN sent : Len(sent[i]) > MaxPacket
    /\ broken = "" /\ wire = <<>> /\ ~Complete
          /\ (\A i \in DOMAIN sent : Len(sent[i]) <= MaxPacket) => readBack = sent
=============================================================================
