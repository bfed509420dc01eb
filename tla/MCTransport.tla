---------------------------- MODULE MCTransport ----------------------------
(***************************************************************************)
(* Instances of TransportLevelHandler for TLC.                             *)
(***************************************************************************)
EXTENDS TransportLevelHandler

\* The check code of the code, for the run about it.
Table == INSTANCE Crc16

TableCrc(data, code) == Table!ByTable(data, code)

\* The transport works alike with any function of this kind; this one is
\* cheaper to evaluate.
CheapCrc(data, code) == (code * 31 + data + 7) % 65536

Frame(frame_type, data, use_crc) ==
    [frame_type |-> frame_type, data |-> data, use_crc |-> use_crc]

\* The shortest frame; separators at every place that may hold one, two in a
\* row and a post byte after one; a frame with a check code.
Plain     == Frame(1, <<>>, FALSE)
Separated == Frame(255, <<255, 255, 85>>, FALSE)
Coded     == Frame(2, <<255, 0>>, TRUE)

SmallFrames == {Plain, Separated, Coded}
NoNoise == {}
NoGarbage == {0}

\* What may precede a frame: separators, one and two; garbage that ends with
\* one; a start of a frame without the rest; a whole header that announces
\* no data; one that announces two bytes; one with an impossible length; a
\* frame with a wrong checksum; a separator without its post byte.
Header(length) == <<255, 255, length, 0, 0, 0, 0, 0, 0, 1>>
SomeNoise ==
    {<<255>>, <<255, 255>>, <<7, 255>>, <<255, 255, 8, 0>>, Header(8),
     Header(10), Header(3), Header(8) \o <<1>>, <<255, 255, 8, 255, 84>>}

\* As much data as send_data accepts, encoded in 244, 250 and 256 bytes, and
\* with one separator more.
Data(size, separators) ==
    [i \in 1 .. size |-> IF i <= separators THEN 255 ELSE 0]
Long(separators)   == Frame(1, Data(233, separators), FALSE)

\* Data whose check codes need every entry of the table between them.
Squares(factor) ==
    Frame(2, [i \in 1 .. 233 |-> (factor * i * i) % 255], TRUE)

LongFrames ==
    {Long(0), Long(6), Long(12)} \union {Squares(n) : n \in {1, 3, 6, 18}}

MoreSeparators     == {Long(13)}
SomeGarbage        == {0, 7}

(***************************************************************************)
(* The check code of a received frame is CRC-16/ARC of its header and data,*)
(* which the documentation prescribes: the table has no wrong entry, and   *)
(* the code of the header is carried on into that of the data.             *)
(***************************************************************************)
CodeIsArc ==
    \A n \in DOMAIN incoming_queue :
        LET frame == incoming_queue[n] IN
        frame.use_crc =>
            frame.crc = Table!Arc(PureHeader(frame.frame_type, frame.use_crc,
                                             frame.data_size) \o frame.data)
=============================================================================
