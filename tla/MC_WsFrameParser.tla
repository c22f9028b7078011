--------------------------- MODULE MC_WsFrameParser ---------------------------
(* Streams of up to three frames: messages in fragments with and without a  *)
(* ping in between, and a frame that announces more than it may.            *)
EXTENDS WsFrameParser

MCFrame(opcode, fin, payload, masked, width) ==
    [opcode |-> opcode, fin |-> fin, payload |-> payload, masked |-> masked,
     width |-> width, announced |-> Len(payload)]

\* A message in one frame or begun by one, what may come between, and the
\* continuations; of each, frames with and without a payload, mask and
\* extended length.
MCFirst == {MCFrame(1, fin, <<0, 1, 1, 0, 1>>, masked, 7) : fin, masked \in BOOLEAN}
           \cup {MCFrame(2, FALSE, <<>>, FALSE, 7)}
MCBetween == {MCFrame(9, TRUE, <<>>, FALSE, 7), MCFrame(9, TRUE, <<1>>, TRUE, 16),
              MCFrame(0, FALSE, <<1, 0>>, FALSE, 16), MCFrame(2, TRUE, <<1, 0>>, TRUE, 64)}
MCLast == {MCFrame(0, TRUE, <<>>, TRUE, 7), MCFrame(0, TRUE, <<0, 1>>, FALSE, 16),
           MCFrame(1, TRUE, <<>>, FALSE, 7),
           [MCFrame(2, TRUE, <<>>, FALSE, 64) EXCEPT !.announced = kMaxPayloadSize + 1]}

MCStreams ==
    {fs \in {<<first>> : first \in MCFirst}
            \cup {<<first, last>> : first \in MCFirst, last \in MCLast}
            \cup {<<first, middle, last>> :
                    first \in MCFirst, middle \in MCBetween, last \in MCLast} : WellFormed(fs)}

MCLengths == {0, 1, 125, 126, 127, 255, 256, 65535, 65536, 16777216}
MCMaskKey == <<1, 0, 1, 1>>
=============================================================================
