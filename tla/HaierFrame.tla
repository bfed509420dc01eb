----------------------------- MODULE HaierFrame -----------------------------
(***************************************************************************)
(* HaierFrame: how a frame is laid out in bytes, checked and escaped, and  *)
(* how a received one is parsed.  These are functions of their arguments;  *)
(* TransportLevelHandler makes a state machine of them.                    *)
(*                                                                         *)
(* A frame on the line: two separators; length, flags, reserved bytes and  *)
(* type; the data; a checksum; and, if the flags say so, a check code.  A  *)
(* separator byte anywhere but in front is followed by a post byte, which  *)
(* belongs to none of the fields.                                          *)
(***************************************************************************)
EXTENDS Integers, Sequences, FiniteSets

CONSTANT crc16(_, _)    \* the check code of one more byte, after a code

MAX_FRAME_SIZE         == 241
FRAME_HEADER_SIZE      == 10
SEPARATOR_BYTE         == 255
SEPARATOR_POST_BYTE    == 85
FRAME_SEPARATORS_COUNT == 2
PURE_HEADER_SIZE       == FRAME_HEADER_SIZE - FRAME_SEPARATORS_COUNT
USE_CRC_MASK           == 64
INITIAL_CRC            == 0

Byte == 0 .. 255

Narrow(n) == n % 256    \* assignment to a uint8_t

Separators(bytes) == Cardinality({i \in DOMAIN bytes : bytes[i] = SEPARATOR_BYTE})

\* An associative operation between all elements of a sequence that is not
\* empty.  Frames are long: by halves the recursion stays shallow.
Joined(op(_, _), seq) ==
    LET part[span \in (DOMAIN seq) \X (DOMAIN seq)] ==
          LET first  == span[1]
              last   == span[2]
              middle == (first + last) \div 2
          IN  IF first >= last THEN seq[first]
              ELSE op(part[<<first, middle>>], part[<<middle + 1, last>>])
    IN  part[<<1, Len(seq)>>]

Concatenated(seqs) == Joined(LAMBDA s, t : s \o t, seqs)

checksum(bytes, start) == Narrow(Joined(+, <<start>> \o bytes))

Code == 0 .. 65535

\* What a byte makes of a code, and one piece of a sequence after another.
OneByte(byte) == [code \in Code |-> crc16(byte, code)]
Then(f, g)    == [code \in Code |-> g[f[code]]]

Crc(bytes, start) ==
    IF bytes = <<>> THEN start
    ELSE Joined(Then, [i \in DOMAIN bytes |-> OneByte(bytes[i])])[start]

\* HaierFrame() and reset()
EmptyFrame ==
    [status |-> "FRAME_EMPTY", frame_type |-> 0, use_crc |-> TRUE,
     data_size |-> 0, data |-> <<>>, checksum |-> 0, crc |-> INITIAL_CRC,
     additional_bytes |-> 0]

\* get_header_byte_ for the positions after the separators
PureHeader(frame_type, use_crc, data_size) ==
    <<Narrow(PURE_HEADER_SIZE + data_size),
      IF use_crc THEN USE_CRC_MASK ELSE 0, 0, 0, 0, 0, 0, frame_type>>

\* HaierFrame(frame_type, data, data_size, use_crc)
NewFrame(frame_type, data, use_crc) ==
    LET bytes == PureHeader(frame_type, use_crc, Len(data)) \o data IN
    [status |-> "FRAME_COMPLETE", frame_type |-> frame_type,
     use_crc |-> use_crc, data_size |-> Len(data), data |-> data,
     checksum |-> checksum(bytes, Separators(bytes) * SEPARATOR_POST_BYTE),
     crc |-> IF use_crc THEN Crc(bytes, INITIAL_CRC) ELSE INITIAL_CRC,
     additional_bytes |-> Narrow(Separators(bytes))]

-----------------------------------------------------------------------------
(***************************************************************************)
(* Writing                                                                 *)
(***************************************************************************)
HighByte(code) == code \div 256
LowByte(code)  == code % 256

get_buffer_size(frame) ==
    FRAME_HEADER_SIZE + frame.data_size + frame.additional_bytes
    + (IF frame.checksum = SEPARATOR_BYTE THEN 2 ELSE 1)
    + (IF frame.use_crc
       THEN 2 + Separators(<<LowByte(frame.crc), HighByte(frame.crc)>>) ELSE 0)

Escaped(bytes) ==
    Concatenated([i \in DOMAIN bytes |->
                    IF bytes[i] = SEPARATOR_BYTE
                    THEN <<SEPARATOR_BYTE, SEPARATOR_POST_BYTE>>
                    ELSE <<bytes[i]>>])

\* The bytes that fill_buffer writes, one after the other.
Encoded(frame) ==
    <<SEPARATOR_BYTE, SEPARATOR_BYTE>>
    \o Escaped(PureHeader(frame.frame_type, frame.use_crc, frame.data_size)
               \o frame.data \o <<frame.checksum>>
               \o IF frame.use_crc
                  THEN <<HighByte(frame.crc), LowByte(frame.crc)>> ELSE <<>>)

\* fill_buffer.  The position it writes at is a uint8_t: from the 257th byte
\* on it overwrites the buffer from the start, and the end of the buffer
\* keeps the garbage it was allocated with.
Overwritten(i, size) == i + 256 <= size

fill_buffer(frame, garbage) ==
    LET bytes == Encoded(frame)
        size  == get_buffer_size(frame)
    IN  [i \in 1 .. size |->
           IF i > 256 THEN garbage
           ELSE IF Overwritten(i, size) THEN bytes[i + 256] ELSE bytes[i]]

-----------------------------------------------------------------------------
(***************************************************************************)
(* Parsing                                                                 *)
(***************************************************************************)
Field(buffer, position) == buffer[position + 1]

HasCrc(buffer) == (Field(buffer, 3) \div USE_CRC_MASK) % 2 = 1

AtLimit(length) == length >= MAX_FRAME_SIZE      \* mutant of TooBig
TooBig(length)  == length > MAX_FRAME_SIZE

HeaderError(buffer) ==
    IF Len(buffer) < FRAME_HEADER_SIZE THEN "HEADER_TOO_SMALL"
    ELSE IF \E i \in 1 .. FRAME_SEPARATORS_COUNT : buffer[i] # SEPARATOR_BYTE
    THEN "FRAME_SEPARATOR_WRONG"
    ELSE IF Field(buffer, 2) < PURE_HEADER_SIZE THEN "FRAME_TOO_SMALL"
    ELSE IF TooBig(Field(buffer, 2)) THEN "FRAME_TOO_BIG"
    ELSE "HEADER_ONLY"

\* The header part of parse_buffer, for a buffer that ends with the header.
ParsedHeader(buffer) ==
    LET header == SubSeq(buffer, FRAME_SEPARATORS_COUNT + 1, FRAME_HEADER_SIZE)
    IN  [EmptyFrame EXCEPT
           !.status = "FRAME_HEADER_ONLY",
           !.frame_type = Field(buffer, 9),
           !.use_crc = HasCrc(buffer),
           !.data_size = Field(buffer, 2) - PURE_HEADER_SIZE,
           !.checksum = checksum(header, 0),
           !.crc = IF HasCrc(buffer) THEN Crc(header, INITIAL_CRC)
                   ELSE INITIAL_CRC,
           !.additional_bytes = IF Field(buffer, 9) = SEPARATOR_BYTE
                                THEN 1 ELSE 0]

\* What follows the header: the data, the checksum and the check code.
TrailerSize(frame) == IF frame.use_crc THEN 3 ELSE 1

ReceivedCrc(buffer, size) == buffer[size + 2] * 256 + buffer[size + 3]

ExpectedChecksum(frame, data) ==
    checksum(data, frame.checksum
                   + (frame.additional_bytes + Separators(data))
                     * SEPARATOR_POST_BYTE)

NeverDiffers(expected, received) == FALSE        \* mutant of Differs
Differs(expected, received) == expected # received

DataError(frame, buffer) ==
    LET data == SubSeq(buffer, 1, frame.data_size) IN
    IF Len(buffer) < frame.data_size + TrailerSize(frame)
    THEN "DATA_SIZE_WRONG"
    ELSE IF frame.use_crc
              /\ Crc(data, frame.crc) # ReceivedCrc(buffer, frame.data_size)
    THEN "CRC_WRONG"
    ELSE IF Differs(ExpectedChecksum(frame, data), buffer[frame.data_size + 1])
    THEN "CHECKSUM_WRONG"
    ELSE "COMPLETE_FRAME"

\* The data part of parse_buffer, for a frame whose header was parsed before.
ParsedData(frame, buffer) ==
    LET data == SubSeq(buffer, 1, frame.data_size) IN
    [frame EXCEPT
       !.status = "FRAME_COMPLETE",
       !.data = data,
       !.checksum = ExpectedChecksum(frame, data),
       !.crc = IF frame.use_crc THEN Crc(data, frame.crc) ELSE INITIAL_CRC,
       !.additional_bytes = Narrow(@ + Separators(data))]

=============================================================================
