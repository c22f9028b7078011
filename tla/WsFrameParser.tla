---------------------------- MODULE WsFrameParser ----------------------------
(***************************************************************************)
(* WsFrameParser (transport/ws_frame_parser.hpp): the byte stream of a     *)
(* connection arrives in chunks cut anywhere, and feed() turns it into     *)
(* messages.  An action is one turn of the loop in feed().                 *)
(*                                                                         *)
(* Header bytes are numbers.  A payload byte is a single bit, as is a byte *)
(* of a mask, so that exclusive or is addition modulo 2.                   *)
(***************************************************************************)
EXTENDS Naturals, Sequences, SequencesExt, FiniteSetsExt

CONSTANTS
    Streams,        \* what the server may send: sequences of frames
    MaskKey,        \* the mask of the masked frames
    Lengths,        \* payload lengths for which headers are built
    MaxChunk,       \* bound: the longest chunk
    MaxConnections  \* bound: how often the connection is made

ASSUME MaskKeyAssumption == MaskKey \in [1 .. 4 -> {0, 1}]
ASSUME ChunkAssumption == MaxChunk \in Nat \ {0} /\ MaxConnections \in Nat

kMaxPayloadSize == 64 * 1024 * 1024

Continuation == 0
IsControl(opcode) == opcode >= 8

Smallest(m, n) == IF m <= n THEN m ELSE n
Upto(seq, n) == SubSeq(seq, 1, n)
After(seq, n) == SubSeq(seq, n + 1, Len(seq))
Flag(bit) == IF bit THEN 128 ELSE 0

\* n without its last byte, without its last two, and so on.
Quotients(n, k) ==
    LET quotient[j \in 0 .. k] == IF j = 0 THEN n ELSE quotient[j - 1] \div 256
    IN  quotient
FitsInto(n, k) == Quotients(n, k)[k] = 0

\* k bytes of n, the most significant first, and back.
BigEndian(n, k) == [i \in 1 .. k |-> Quotients(n, k)[k - i] % 256]
FromBigEndian(bytes) ==
    LET value[i \in 0 .. Len(bytes)] == IF i = 0 THEN 0 ELSE 256 * value[i - 1] + bytes[i]
    IN  value[Len(bytes)]

Masked(bytes, key) == [i \in DOMAIN bytes |-> (bytes[i] + key[((i - 1) % 4) + 1]) % 2]

-----------------------------------------------------------------------------
(* Frames on the wire.  width says how the length is written: in the       *)
(* second byte, or in 2 or 8 bytes after it.                               *)

LengthBytes(width) == CASE width = 7 -> 0 [] width = 16 -> 2 [] width = 64 -> 8
LengthCode(n, width) == CASE width = 7 -> n [] width = 16 -> 126 [] width = 64 -> 127

Header(f) == <<Flag(f.fin) + f.opcode, Flag(f.masked) + LengthCode(f.announced, f.width)>>
                \o BigEndian(f.announced, LengthBytes(f.width))
                \o (IF f.masked THEN MaskKey ELSE <<>>)

Encode(f) == Header(f) \o (IF f.masked THEN Masked(f.payload, MaskKey) ELSE f.payload)

\* Mutant of BuiltWidth: 126 is written into the second byte.
BuiltWidthLate(n) == IF n <= 126 THEN 7 ELSE IF n <= 65535 THEN 16 ELSE 64

\* build_frame: how a frame of the client writes the length of its payload.
BuiltWidth(n) == IF n < 126 THEN 7 ELSE IF n <= 65535 THEN 16 ELSE 64

BuiltHeader(opcode, n) ==
    Header([fin |-> TRUE, opcode |-> opcode, masked |-> TRUE, announced |-> n,
            width |-> BuiltWidth(n)])

\* A length is a size_t.
ASSUME LengthsAssumption == Lengths \subseteq {n \in Nat : FitsInto(n, 8)}

-----------------------------------------------------------------------------
(* What a server may send.                                                 *)

Frame == [fin : BOOLEAN, opcode : 0 .. 15, masked : BOOLEAN, announced : Nat,
          width : {7, 16, 64}, payload : Seq({0, 1})]

\* The width has room for the length, which is that of the payload or (the
\* parser gives up on the header then) more than may be sent.
Announced(f) ==
    /\ IF f.width = 7 THEN f.announced < 126 ELSE FitsInto(f.announced, LengthBytes(f.width))
    /\ f.announced = Len(f.payload) \/ f.announced > kMaxPayloadSize

\* A continuation continues a message, and a message in fragments is continued
\* before the next one begins.
IsData(fs, i) == ~IsControl(fs[i].opcode)
Begins(fs, i) == IsData(fs, i) /\ fs[i].opcode # Continuation
OpenBefore(fs, i) ==
    \E j \in 1 .. i - 1 : /\ IsData(fs, j) /\ ~fs[j].fin
                          /\ \A k \in j + 1 .. i - 1 : ~IsData(fs, k)
WellFormed(fs) ==
    \A i \in DOMAIN fs :
        /\ Announced(fs[i])
        /\ IsControl(fs[i].opcode) => fs[i].fin
        /\ IsData(fs, i) => (fs[i].opcode = Continuation <=> OpenBefore(fs, i))

ASSUME StreamsAssumption == Streams \subseteq {fs \in Seq(Frame) : WellFormed(fs)}

\* The bytes of the first n frames, and of all.
BytesOf(fs, n) == FlattenSeq([i \in 1 .. n |-> Encode(fs[i])])
Wire(fs) == BytesOf(fs, Len(fs))

-----------------------------------------------------------------------------
VARIABLES
    frames,       \* the frames of this connection
    wire,         \* its bytes that were not yet handed to feed()
    chunk,        \* the bytes of the current call of feed() not yet read
    state,        \* state_
    header,       \* header_buf_ up to header_pos_
    header_total, \* header_total_
    frame,        \* fin_, opcode_, masked_, payload_len_, mask_key_
    payload_buf,  \* payload_buf_
    fragment,     \* fragment_opcode_, fragment_buf_, in_fragment_
    emitted,      \* history: the frames on_frame was called with
    connection    \* history: which connection this is

parserVars == <<state, header, header_total, frame, payload_buf, fragment>>
allParserVars == <<frames, wire, chunk, parserVars, emitted, connection>>

NoKey == <<0, 0, 0, 0>>

ParserInit ==
    /\ frames \in Streams /\ wire = Wire(frames) /\ chunk = <<>>
    /\ state = "ReadMinHeader" /\ header = <<>> /\ header_total = 2
    /\ frame = [fin |-> FALSE, opcode |-> 1, masked |-> FALSE, payload_len |-> 0,
                mask_key |-> NoKey]
    /\ payload_buf = <<>>
    /\ fragment = [opcode |-> 1, buf |-> <<>>, open |-> FALSE]
    /\ emitted = <<>> /\ connection = 1

\* The next call of feed().
Feed ==
    /\ chunk = <<>>
    /\ \E n \in 1 .. Smallest(MaxChunk, Len(wire)) :
          /\ chunk' = Upto(wire, n)
          /\ wire' = After(wire, n)
    /\ UNCHANGED <<frames, parserVars, emitted, connection>>

-----------------------------------------------------------------------------
(* A frame is complete.                                                    *)

\* Mutant of FragmentAfter: a control frame ends a fragmented message.
FragmentAfterEndedByControl(f, payload) ==
    IF IsControl(f.opcode) THEN [fragment EXCEPT !.buf = <<>>, !.open = FALSE]
    ELSE IF f.opcode # Continuation
      THEN IF f.fin THEN fragment
           ELSE [opcode |-> f.opcode, buf |-> payload, open |-> TRUE]
    ELSE IF f.fin THEN [fragment EXCEPT !.buf = <<>>, !.open = FALSE]
    ELSE [fragment EXCEPT !.buf = @ \o payload]

FragmentAfter(f, payload) ==
    IF IsControl(f.opcode) \/ (f.opcode # Continuation /\ f.fin) THEN fragment
    ELSE IF f.opcode # Continuation
      THEN [opcode |-> f.opcode, buf |-> payload, open |-> TRUE]
    ELSE IF f.fin THEN [fragment EXCEPT !.buf = <<>>, !.open = FALSE]
    ELSE [fragment EXCEPT !.buf = @ \o payload]

\* What on_frame is called with, if it is called.
IsEmitted(f) == IsControl(f.opcode) \/ f.fin
Emission(f, payload) ==
    IF f.opcode = Continuation
      THEN [opcode |-> fragment.opcode, payload |-> fragment.buf \o payload]
      ELSE [opcode |-> f.opcode, payload |-> payload]

Unmasked(f, buf) == IF f.masked THEN Masked(buf, f.mask_key) ELSE buf

FrameComplete(f, buf, rest) ==
    LET payload == Unmasked(f, buf)
    IN  /\ emitted' = IF IsEmitted(f) THEN Append(emitted, Emission(f, payload)) ELSE emitted
        /\ fragment' = FragmentAfter(f, payload)
        /\ state' = "ReadMinHeader" /\ header' = <<>> /\ header_total' = 2
        /\ frame' = f /\ payload_buf' = <<>>
        /\ chunk' = rest

-----------------------------------------------------------------------------
(* Headers.                                                                *)

\* How long a header is, from its first two bytes.
HeaderTotal(bytes) ==
    LET len7 == bytes[2] % 128
    IN  2 + (IF len7 = 126 THEN 2 ELSE IF len7 = 127 THEN 8 ELSE 0)
          + (IF bytes[2] >= 128 THEN 4 ELSE 0)

\* The fields of a complete header; without a mask the old key stays.
Fields(bytes) ==
    LET len7 == bytes[2] % 128
        ext == IF len7 = 126 THEN 2 ELSE IF len7 = 127 THEN 8 ELSE 0
        masked == bytes[2] >= 128
    IN  [fin |-> bytes[1] >= 128, opcode |-> bytes[1] % 16, masked |-> masked,
         payload_len |-> IF ext = 0 THEN len7 ELSE FromBigEndian(SubSeq(bytes, 3, 2 + ext)),
         mask_key |-> IF masked THEN SubSeq(bytes, 3 + ext, 6 + ext) ELSE frame.mask_key]

Taken == IF state = "ReadPayload"
           THEN Smallest(frame.payload_len - Len(payload_buf), Len(chunk))
           ELSE Smallest(header_total - Len(header), Len(chunk))
HeaderRead == header \o Upto(chunk, Taken)
PayloadRead == payload_buf \o Upto(chunk, Taken)

Rest == After(chunk, Taken)

\* One turn of the loop.
Turn(states) == chunk # <<>> /\ state \in states /\ UNCHANGED <<frames, wire, connection>>

ReadsHeader == Turn({"ReadMinHeader", "ReadExtHeader"})
ReadsPayload == Turn({"ReadPayload"})

HeaderIsPartial ==
    /\ ReadsHeader /\ Len(HeaderRead) < header_total
    /\ header' = HeaderRead /\ chunk' = Rest
    /\ UNCHANGED <<state, header_total, frame, payload_buf, fragment, emitted>>

\* on_min_header_complete, when more of the header follows.
HeaderGrows ==
    /\ Turn({"ReadMinHeader"}) /\ Len(HeaderRead) = 2 /\ HeaderTotal(HeaderRead) > 2
    /\ state' = "ReadExtHeader" /\ chunk' = Rest
    /\ header' = HeaderRead /\ header_total' = HeaderTotal(HeaderRead)
    /\ frame' = [frame EXCEPT !.fin = HeaderRead[1] >= 128, !.opcode = HeaderRead[1] % 16,
                              !.masked = HeaderRead[2] >= 128]
    /\ UNCHANGED <<payload_buf, fragment, emitted>>

HeaderEnds ==
    /\ ReadsHeader /\ Len(HeaderRead) = header_total
    /\ state = "ReadExtHeader" \/ HeaderTotal(HeaderRead) = 2

PayloadFollows ==
    /\ HeaderEnds /\ Fields(HeaderRead).payload_len \in 1 .. kMaxPayloadSize
    /\ state' = "ReadPayload" /\ chunk' = Rest
    /\ header' = HeaderRead /\ frame' = Fields(HeaderRead)
    /\ UNCHANGED <<header_total, payload_buf, fragment, emitted>>

\* feed() throws, now and whenever it is called again before reset(), and the
\* rest of the chunk is lost.
PayloadTooLarge ==
    /\ HeaderEnds /\ Fields(HeaderRead).payload_len > kMaxPayloadSize
    /\ header' = HeaderRead /\ chunk' = <<>>
    /\ frame' = [Fields(HeaderRead) EXCEPT !.mask_key = frame.mask_key]
    /\ UNCHANGED <<state, header_total, payload_buf, fragment, emitted>>

PayloadIsPartial ==
    /\ ReadsPayload /\ Len(PayloadRead) < frame.payload_len
    /\ payload_buf' = PayloadRead /\ chunk' = Rest
    /\ UNCHANGED <<state, header, header_total, frame, fragment, emitted>>

\* A frame without payload ends with its header, even at the end of a chunk.
EmptyFrameRead == HeaderEnds /\ Fields(HeaderRead).payload_len = 0
PayloadIsRead == ReadsPayload /\ Len(PayloadRead) >= frame.payload_len

EmptyFrameEnds == EmptyFrameRead /\ FrameComplete(Fields(HeaderRead), <<>>, Rest)
PayloadEnds == PayloadIsRead /\ FrameComplete(frame, PayloadRead, Rest)

-----------------------------------------------------------------------------
\* Mutant of Reset: what was received of a payload is kept.
ResetKeepsPayload ==
    /\ state' = "ReadMinHeader" /\ header' = <<>> /\ header_total' = 2
    /\ frame' = [frame EXCEPT !.fin = FALSE, !.masked = FALSE, !.payload_len = 0]
    /\ fragment' = [fragment EXCEPT !.buf = <<>>, !.open = FALSE]
    /\ UNCHANGED payload_buf

Reset ==
    /\ state' = "ReadMinHeader" /\ header' = <<>> /\ header_total' = 2
    /\ payload_buf' = <<>>
    /\ frame' = [frame EXCEPT !.fin = FALSE, !.masked = FALSE, !.payload_len = 0]
    /\ fragment' = [fragment EXCEPT !.buf = <<>>, !.open = FALSE]

\* The connection is lost between two calls of feed(), and made again.
Reconnect ==
    /\ connection < MaxConnections /\ chunk = <<>>
    /\ connection' = connection + 1
    /\ frames' \in Streams /\ wire' = Wire(frames') /\ emitted' = <<>>
    /\ Reset
    /\ UNCHANGED chunk

ParserNext ==
    \/ Feed
    \/ HeaderIsPartial \/ HeaderGrows \/ PayloadFollows \/ EmptyFrameEnds \/ PayloadTooLarge
    \/ PayloadIsPartial \/ PayloadEnds
    \/ Reconnect

ParserSpec == ParserInit /\ [][ParserNext]_allParserVars

-----------------------------------------------------------------------------
(* Properties.                                                             *)

\* What the data frames from a to b carry.
JoinedData(fs, a, b) ==
    FlattenSeq([i \in 1 .. b - a + 1 |->
                   IF IsData(fs, a + i - 1) THEN fs[a + i - 1].payload ELSE <<>>])

\* The message that frame i completes: itself, or the payloads of the data
\* frames since the one that began the message.
MessageAt(fs, i) ==
    IF fs[i].opcode # Continuation
      THEN [opcode |-> fs[i].opcode, payload |-> fs[i].payload]
      ELSE LET first == Max({j \in 1 .. i : Begins(fs, j)})
           IN  [opcode |-> fs[first].opcode, payload |-> JoinedData(fs, first, i)]

\* The messages that the first n frames complete.
MessagesOf(fs, n) ==
    FlattenSeq([i \in 1 .. n |-> IF fs[i].fin THEN <<MessageAt(fs, i)>> ELSE <<>>])

\* The frames all of whose bytes were read, up to the first that is too large.
FramesRead ==
    Max({n \in 0 .. Len(frames) :
            /\ Len(BytesOf(frames, n)) + Len(chunk) + Len(wire) <= Len(Wire(frames))
            /\ \A i \in 1 .. n : frames[i].announced <= kMaxPayloadSize})

\* However the stream is cut into chunks, whatever length encodings and masks
\* its frames have, and whatever an earlier connection left unfinished: feed()
\* has called the visitor with exactly the messages that the frames read so far
\* make up, in order, a control frame between two fragments by itself.
EmitsMessages == emitted = MessagesOf(frames, FramesRead)

\* What build_frame writes is read back: the header that is built for a payload
\* is as long as the parser takes it to be, and announces that length, at the
\* boundaries of the three encodings too.
BuiltHeadersParse ==
    \A n \in Lengths, opcode \in {1, 2, 8, 9, 10} :
        LET built == BuiltHeader(opcode, n)
        IN  /\ HeaderTotal(built) = Len(built)
            /\ Fields(built).payload_len = n
            /\ Fields(built).opcode = opcode /\ Fields(built).fin
            /\ Fields(built).mask_key = MaskKey
=============================================================================
