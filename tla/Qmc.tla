--------------------------------- MODULE Qmc ---------------------------------
(***************************************************************************)
(* Decryption of audio at an offset, src/qmc.rs: the Map cipher of short   *)
(* keys and the segmented RC4 cipher of long ones.  Both combine each byte *)
(* with one byte of a key stream; the model computes which one, so that a  *)
(* host that decrypts a download piece by piece can be compared with one   *)
(* that decrypts it at once.  segment_skip computes with floating point    *)
(* numbers: the model allows it any value.                                 *)
(***************************************************************************)
EXTENDS Naturals, Sequences, SequencesExt

CONSTANTS
    Keys,         \* derived keys: sequences of bytes
    LongKey,      \* keys of more bytes use RC4 (300)
    FirstSegment, \* FIRST_SEGMENT_SIZE
    Segment,      \* SEGMENT_SIZE
    Wrap,         \* 0x7fff of the Map cipher
    MaxAudio      \* bound: bytes of the audio

ASSUME QmcAssumption ==
    /\ Keys \subseteq Seq(Nat) \ {<<>>}
    /\ LongKey \in Nat /\ FirstSegment \in Nat /\ Segment \in Nat \ {0}
    /\ Wrap \in Nat \ {0} /\ MaxAudio \in Nat

VARIABLES
    qmcKey,   \* the key of the file
    skips,    \* segment_skip, by index
    decrypted \* masks of the bytes decrypted so far, piece by piece

qmc == <<qmcKey, skips, decrypted>>

\* A byte of the key stream, as the place it is taken from.
N == Len(qmcKey)

-----------------------------------------------------------------------------
\* Qmc2Map: the index into the key; the rotation follows from it.
MapMask(offset, index) ==
    LET position == IF offset + index > Wrap THEN (offset + index) % Wrap ELSE offset + index
    IN  (position * position + 71214) % N

DecryptMap(length, offset) == [i \in 1 .. length |-> <<"map", MapMask(offset, i - 1)>>]

\* The box holds bytes.
Octet == 256

Swap(s, i, j) == [s EXCEPT ![i] = s[j], ![j] = s[i]]

\* Qmc2Rc4::new: the box after "count" bytes of the key were mixed into it.
Mixed[count \in Nat] ==
    IF count = 0 THEN [right |-> 0, box |-> [i \in 0 .. N - 1 |-> i % Octet]]
    ELSE LET before == Mixed[count - 1]
             left   == count - 1
             right  == (before.right + before.box[left] + qmcKey[left + 1]) % N
         IN  [right |-> right, box |-> Swap(before.box, left, right)]

SeedBox == Mixed[N].box

\* The generator after "count" steps.
Generator[count \in Nat] ==
    IF count = 0 THEN [left |-> 0, right |-> 0, box |-> SeedBox]
    ELSE LET before == Generator[count - 1]
             left   == (before.left + 1) % N
             right  == (before.right + before.box[left]) % N
         IN  [left |-> left, right |-> right, box |-> Swap(before.box, left, right)]

\* The byte number "index" of the key stream, from 0.
Stream(index) ==
    LET state == Generator[index + 1]
    IN  state.box[(state.box[state.left] + state.box[state.right]) % N]

DecryptFirst(length, offset) == [i \in 1 .. length |-> <<"key", skips[offset + i - 1]>>]

\* Mutant of DecryptSegment: a piece begins with the segment.
DecryptSegmentAnew(length, offset) ==
    [i \in 1 .. length |-> <<"box", Stream(skips[offset \div Segment] + (i - 1))>>]

DecryptSegment(length, offset) ==
    [i \in 1 .. length |->
        <<"box", Stream(skips[offset \div Segment] + ((offset % Segment) + i - 1))>>]

Smaller(a, b) == IF a < b THEN a ELSE b

\* The loop of Qmc2Rc4::decrypt_in_place over the segments from "position".
Segments[length \in Nat] ==
    [position \in Nat |->
        IF length = 0 THEN <<>>
        ELSE LET piece == Smaller(Segment - (position % Segment), length)
             IN  DecryptSegment(piece, position) \o Segments[length - piece][position + piece]]

DecryptRc4(length, offset) ==
    LET first == IF offset < FirstSegment THEN Smaller(length, FirstSegment - offset) ELSE 0
    IN  DecryptFirst(first, offset) \o Segments[length - first][offset + first]

\* Qmc2Cipher: the cipher is chosen by the length of the key.
Decrypt(length, offset) ==
    IF N > LongKey THEN DecryptRc4(length, offset) ELSE DecryptMap(length, offset)

-----------------------------------------------------------------------------
QmcInit ==
    /\ qmcKey \in Keys
    /\ skips \in [0 .. MaxAudio -> 0 .. 1]
    /\ N <= LongKey => \A i \in 0 .. MaxAudio : skips[i] = 0
    /\ decrypted = <<>>

\* The host decrypts the next piece of the audio.
DecryptPiece(length) ==
    /\ Len(decrypted) + length <= MaxAudio
    /\ decrypted' = decrypted \o Decrypt(length, Len(decrypted))
    /\ UNCHANGED <<qmcKey, skips>>

QmcNext == \E length \in 1 .. MaxAudio : DecryptPiece(length)
QmcSpec == QmcInit /\ [][QmcNext]_qmc

-----------------------------------------------------------------------------
\* A download decrypted piece by piece, cut anywhere, is the download decrypted
\* at once: across the first segment, the ends of segments and the wrap of the
\* position (the offset of decrypt, qmc.rs:216 and 275).
PiecesMakeWhole == decrypted = Decrypt(Len(decrypted), 0)
=============================================================================
