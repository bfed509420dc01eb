-------------------------- MODULE TransportProofs --------------------------
(***************************************************************************)
(* Five theorems about TransportLevelHandler.  Whatever bytes arrive and in*)
(* whatever pieces, its counters always describe its buffer, however small *)
(* that is; every variable has a value of its type, so that what           *)
(* fill_buffer writes and parse_buffer reads are bytes; and process_data   *)
(* leaves nothing in the buffer but the beginning of a frame.  If no read  *)
(* overflows the buffer and the line adds nothing that looks like a start, *)
(* every frame sent is delivered; and whatever overflows and resets lose,  *)
(* only frames that were sent are delivered, in their order and unchanged. *)
(***************************************************************************)
EXTENDS TransportLevelHandler, FrameProofs

\* Dropping from the front.
LEMMA DropsFromFront ==
    ASSUME IsSequence(buffer), NEW n \in Nat, n <= Len(buffer)
    PROVE  /\ IsSequence(Dropped(n))
           /\ Len(buffer) \in Nat
           /\ Len(Dropped(n)) = Len(buffer) - n
           /\ \A i \in 1 .. Len(buffer) - n : Dropped(n)[i] = buffer[n + i]
<1>1. Len(buffer) \in Nat
    BY LenProperties DEF IsSequence
<1>2. n + 1 \in Nat \ {0}
    OBVIOUS
<1>3. /\ IsSequence(Dropped(n))
      /\ Len(Dropped(n)) = IF n + 1 <= Len(buffer)
                           THEN Len(buffer) - (n + 1) + 1 ELSE 0
      /\ \A i \in 1 .. Len(buffer) - (n + 1) + 1 :
            Dropped(n)[i] = buffer[n + 1 + i - 1]
    BY <1>1, <1>2, PieceOfSequence DEF Dropped
<1> QED  BY <1>1, <1>3

-----------------------------------------------------------------------------
(***************************************************************************)
(* What the other end writes                                               *)
(***************************************************************************)

\* fill_buffer fills a buffer of some size.
LEMMA FrameIsSequence ==
    ASSUME TransportAssumption, NEW frame \in Frames, NEW garbage
    PROVE  IsSequence(fill_buffer(NewFrame(frame.frame_type, frame.data,
                                           frame.use_crc), garbage))
<1> DEFINE new  == NewFrame(frame.frame_type, frame.data, frame.use_crc)
           size == get_buffer_size(new)
           header == PureHeader(frame.frame_type, frame.use_crc,
                                Len(frame.data))
<1>1. frame \in [frame_type: Byte, data: Seq(Byte), use_crc: BOOLEAN]
    BY DEF TransportAssumption
<1>2. frame.data \in Seq(Byte) /\ Len(frame.data) \in Nat
    BY <1>1, LenProperties
<1>3. Separators(header \o frame.data) \in Nat
  <2>1. IsSequence(header)
    <3> DEFINE e1 == Narrow(PURE_HEADER_SIZE + Len(frame.data))
               e2 == IF frame.use_crc THEN USE_CRC_MASK ELSE 0
               e8 == frame.frame_type
    <3>1. header = <<e1, e2, 0, 0, 0, 0, 0, e8>>
        BY DEF PureHeader
    <3> HIDE DEF e1, e2, e8, header
    <3>2. header \in Seq({e1, e2, e8, 0})
        BY <3>1
    <3> QED  BY <3>2, OverSomeSet
  <2>2. IsSequence(frame.data)
      BY <1>2, OverSomeSet
  <2>3. IsSequence(header \o frame.data)
      BY <2>1, <2>2, JoinedSequence
  <2> QED  BY <2>3, CountIsNumber
<1>4. /\ new.data_size = Len(frame.data)
      /\ new.additional_bytes = Narrow(Separators(header \o frame.data))
    BY DEF NewFrame
<1>5. new.additional_bytes \in Nat
    BY <1>3, <1>4 DEF Narrow
<1>6. Separators(<<LowByte(new.crc), HighByte(new.crc)>>) \in Nat
  <2> DEFINE low == LowByte(new.crc)
             high == HighByte(new.crc)
  <2> HIDE DEF low, high
  <2>1. <<low, high>> \in Seq({low, high})
      OBVIOUS
  <2>2. Separators(<<low, high>>) \in Nat
      BY <2>1, OverSomeSet, CountIsNumber
  <2> QED  BY <2>2 DEF low, high
<1> DEFINE escapes == Separators(<<LowByte(new.crc), HighByte(new.crc)>>)
<1> HIDE DEF escapes
<1>7. size = FRAME_HEADER_SIZE + new.data_size + new.additional_bytes
             + (IF new.checksum = SEPARATOR_BYTE THEN 2 ELSE 1)
             + (IF new.use_crc THEN 2 + escapes ELSE 0)
    BY DEF get_buffer_size, escapes
<1>8. escapes \in Nat
    BY <1>6 DEF escapes
<1>9. size \in Nat
  <2>1. new.data_size \in Nat
      BY <1>2, <1>4
  <2> HIDE DEF new, size
  <2> QED  BY <1>5, <1>7, <1>8, <2>1 DEF FRAME_HEADER_SIZE
<1> DEFINE bytes == Encoded(new)
           at(i) == IF i > 256 THEN garbage
                    ELSE IF Overwritten(i, size) THEN bytes[i + 256]
                    ELSE bytes[i]
           filled == [i \in 1 .. size |-> at(i)]
<1>10. fill_buffer(new, garbage) = filled
    BY DEF fill_buffer
<1> HIDE DEF size, at, bytes, new
<1>11. filled \in [1 .. size -> {at(i) : i \in 1 .. size}]
    OBVIOUS
<1> HIDE DEF filled
<1>12. IsSequence(filled)
    BY <1>9, <1>11, FunctionIsSequence
<1> QED  BY <1>10, <1>12 DEF new

\* A set of positions has a first one.
LEMMA FirstExists ==
    ASSUME NEW S \in SUBSET Nat, S # {}
    PROVE  Min(S) \in S
<1>1. PICK x \in S : \A y \in S : <<y, x>> \notin OpToRel(<, Nat)
    BY NatLessThanWellFounded, WFMin, Zenon
<1>2. \A y \in S : x <= y
  <2>1. SUFFICES ASSUME NEW y \in S, ~ (x <= y) PROVE FALSE
      OBVIOUS
  <2>2. x \in Nat /\ y \in Nat /\ y < x
      BY <2>1
  <2>3. <<y, x>> \in Nat \X Nat /\ <<y, x>>[1] < <<y, x>>[2]
      BY <2>2
  <2>4. <<y, x>> \in OpToRel(<, Nat)
      BY <2>3, Zenon DEF OpToRel
  <2> QED  BY <1>1, <2>4
<1>3. \E z \in S : \A y \in S : z <= y
    BY <1>2
<1> QED  BY <1>3 DEF Min

\* The capacity of the receive buffer is a positive number.
LEMMA CapacityInt == Capacity \in Nat \ {0}
BY TransportAssumption DEF TransportAssumption

-----------------------------------------------------------------------------
(***************************************************************************)
(* The inductive invariant.  Between two calls nothing is waiting to be    *)
(* dropped; and a frame whose start was found has its two separators and   *)
(* the byte that told they were its start behind it, so that there is a    *)
(* piece to count separators in.                                           *)
(***************************************************************************)
BufferOK == IsSequence(buffer) /\ Len(buffer) <= Capacity

ParserOK ==
    /\ pos \in Nat
    /\ bytes_to_drop \in Nat
    /\ frame_start_found \in BOOLEAN
    /\ processing \in BOOLEAN

NothingToDrop == ~processing => bytes_to_drop = 0

StartBehind ==
    frame_start_found /\ current_frame.status = "FRAME_EMPTY"
        => pos > FRAME_SEPARATORS_COUNT

IndInv ==
    /\ BufferOK
    /\ IsSequence(line)
    /\ ParserOK
    /\ NothingToDrop
    /\ StartBehind
    /\ CountersDescribeBuffer

\* Where the separators that count begin.
FirstCounted ==
    IF current_frame.status = "FRAME_EMPTY" THEN FRAME_SEPARATORS_COUNT + 1 ELSE 1

\* What the invariant says of the numbers.
LEMMA Numbers ==
    ASSUME IndInv
    PROVE  /\ Len(buffer) \in Nat
           /\ sep_count \in Nat
           /\ bytes_to_drop <= pos /\ pos <= Len(buffer)
           /\ frame_start_found =>
                /\ bytes_to_drop = 0
                /\ FirstCounted \in Nat \ {0}
                /\ FirstCounted <= pos + 1
                /\ sep_count = Separators(SubSeq(buffer, FirstCounted, pos))
           /\ ~frame_start_found => sep_count = 0
<1>1. Len(buffer) \in Nat
    BY LenProperties DEF IndInv, BufferOK, IsSequence
<1>2. pos \in Nat /\ bytes_to_drop <= pos /\ pos <= Len(buffer)
    BY DEF IndInv, ParserOK, CountersDescribeBuffer
<1>3. ASSUME frame_start_found
      PROVE  /\ bytes_to_drop = 0
             /\ FirstCounted \in Nat \ {0}
             /\ FirstCounted <= pos + 1
             /\ sep_count = Separators(SubSeq(buffer, FirstCounted, pos))
    BY <1>2, <1>3 DEF IndInv, StartBehind, CountersDescribeBuffer,
       FirstCounted, FRAME_SEPARATORS_COUNT
<1>4. ASSUME ~frame_start_found PROVE sep_count = 0
    BY <1>4 DEF IndInv, CountersDescribeBuffer
<1>5. sep_count \in Nat
  <2>1. CASE frame_start_found
    <3>1. IsSequence(SubSeq(buffer, FirstCounted, pos))
        BY <1>2, <1>3, <2>1, PieceOfSequence DEF IndInv, BufferOK
    <3> QED  BY <1>3, <2>1, <3>1, CountIsNumber
  <2>2. CASE ~frame_start_found
      BY <1>4, <2>2
  <2> QED  BY <2>1, <2>2
<1> QED  BY <1>1, <1>2, <1>3, <1>4, <1>5

\* Starting over keeps the invariant, whatever is in the buffer.
LEMMA StartOverPreserves ==
    ASSUME StartOver, IsSequence(buffer'), Len(buffer') <= Capacity,
           IsSequence(line'), bytes_to_drop' = 0, processing' \in BOOLEAN
    PROVE  IndInv'
<1>1. /\ frame_start_found' = FALSE
      /\ current_frame'.status = "FRAME_EMPTY"
      /\ pos' = 0
      /\ sep_count' = 0
    BY DEF StartOver, EmptyFrame
<1>2. Len(buffer') \in Nat
    BY LenProperties DEF IsSequence
<1>3. BufferOK'
    BY DEF BufferOK
<1>4. ParserOK' /\ NothingToDrop' /\ StartBehind'
    BY <1>1 DEF ParserOK, NothingToDrop, StartBehind
<1>5. CountersDescribeBuffer'
    BY <1>1, <1>2 DEF CountersDescribeBuffer
<1> QED  BY <1>3, <1>4, <1>5 DEF IndInv

\* What touches neither the buffer nor the parser keeps it.
LEMMA ParserUntouched ==
    ASSUME IndInv, UNCHANGED <<buffer, parserVars, loopVars>>,
           IsSequence(line')
    PROVE  IndInv'
<1> QED
    BY DEF IndInv, parserVars, loopVars, BufferOK, ParserOK, NothingToDrop,
           StartBehind, CountersDescribeBuffer

-----------------------------------------------------------------------------
(***************************************************************************)
(* The line and read_data                                                  *)
(***************************************************************************)
LEMMA EnvironmentPreserves ==
    ASSUME TransportAssumption, IndInv, Environment
    PROVE  IndInv'
<1>1. UNCHANGED <<buffer, parserVars, loopVars>>
    BY DEF Environment, SendData, Disturb
<1>2. ASSUME NEW frame \in Frames, NEW garbage \in Garbage,
             SendData(frame, garbage)
      PROVE  IsSequence(line')
  <2> DEFINE written == fill_buffer(NewFrame(frame.frame_type, frame.data,
                                             frame.use_crc), garbage)
  <2>1. IsSequence(written)
      BY FrameIsSequence
  <2> HIDE DEF written
  <2>2. IsSequence(line \o written)
      BY <2>1, JoinedSequence DEF IndInv
  <2>3. line' = line \o written \/ line' = line
      BY <1>2 DEF SendData, written
  <2> QED  BY <2>2, <2>3 DEF IndInv
<1>3. ASSUME NEW bytes \in Noise, Disturb(bytes)
      PROVE  IsSequence(line')
  <2>1. IsSequence(bytes)
      BY OverSomeSet DEF TransportAssumption
  <2> QED  BY <1>3, <2>1, JoinedSequence DEF Disturb, IndInv
<1>4. IsSequence(line')
    BY <1>2, <1>3 DEF Environment
<1> QED  BY <1>1, <1>4, ParserUntouched

LEMMA ReadPreserves ==
    ASSUME TransportAssumption, IndInv,
           NEW available \in Available, ReadData(available)
    PROVE  IndInv'
<1> DEFINE count == Lesser(Lesser(available, Len(line)), Capacity)
           space == Capacity - Len(buffer)
           read  == SubSeq(line, 1, count)
<1>1. /\ available \in Nat /\ Capacity \in Nat
      /\ IsSequence(line) /\ IsSequence(buffer)
      /\ Len(buffer) <= Capacity
    BY DEF TransportAssumption, IndInv, BufferOK
<1>2. Len(line) \in Nat /\ Len(buffer) \in Nat
    BY <1>1, LenProperties DEF IsSequence
<1>3. count \in Nat /\ count <= Len(line) /\ count <= Capacity
    BY <1>1, <1>2 DEF Lesser
<1>4. /\ line' = SubSeq(line, count + 1, Len(line))
      /\ \/ /\ count <= space
            /\ buffer' = buffer \o read
            /\ UNCHANGED parserVars
         \/ /\ count > space
            /\ buffer' = Dropped(count - space) \o read
            /\ IF frame_start_found THEN StartOver ELSE UNCHANGED parserVars
      /\ processing' = TRUE
      /\ bytes_to_drop' = bytes_to_drop
      /\ ~processing
    BY DEF ReadData, LostAtOverflow
<1> HIDE DEF count
<1>5. IsSequence(line')
    BY <1>1, <1>2, <1>3, <1>4, PieceOfSequence
<1>6. IsSequence(read) /\ Len(read) = count
  <2>1. IsSequence(read) /\ Len(read) = IF 1 <= count THEN count - 1 + 1 ELSE 0
      BY <1>1, <1>3, PieceOfSequence
  <2> QED  BY <1>3, <2>1
<1> HIDE DEF read
<1>7. bytes_to_drop' = 0
    BY <1>4 DEF IndInv, NothingToDrop
<1>8. CASE count <= space
  <2>1. /\ IsSequence(buffer')
        /\ Len(buffer') = Len(buffer) + count
        /\ \A i \in 1 .. Len(buffer) : buffer'[i] = buffer[i]
        /\ UNCHANGED parserVars
    <3>1. buffer' = buffer \o read /\ UNCHANGED parserVars
        BY <1>2, <1>3, <1>4, <1>8
    <3> QED  BY <1>1, <1>6, <3>1, JoinedSequence
  <2>2. /\ pos' = pos /\ sep_count' = sep_count
        /\ frame_start_found' = frame_start_found
        /\ current_frame' = current_frame
      BY <2>1 DEF parserVars
  <2>3. pos \in Nat /\ pos <= Len(buffer)
      BY Numbers DEF IndInv, ParserOK
  <2>4. BufferOK'
      BY <1>1, <1>2, <1>3, <1>8, <2>1 DEF BufferOK
  <2>5. ParserOK' /\ NothingToDrop' /\ StartBehind'
      BY <1>4, <1>7, <2>2
         DEF IndInv, ParserOK, NothingToDrop, StartBehind
  <2>6. CASE frame_start_found
    <3>1. /\ FirstCounted \in Nat \ {0} /\ FirstCounted <= pos + 1
          /\ sep_count = Separators(SubSeq(buffer, FirstCounted, pos))
        BY <2>6, Numbers
    <3>2. Separators(SubSeq(buffer', FirstCounted, pos))
            = Separators(SubSeq(buffer, FirstCounted, pos))
      <4>1. pos <= Len(buffer') /\ \A i \in 1 .. pos : buffer'[i] = buffer[i]
          BY <1>2, <1>3, <2>1, <2>3
      <4> DEFINE first == FirstCounted
      <4>2. first \in Nat \ {0} /\ first <= pos + 1
          BY <3>1
      <4> HIDE DEF first
      <4>3. Separators(SubSeq(buffer', first, pos))
              = Separators(SubSeq(buffer, first, pos))
          BY <1>1, <2>1, <2>3, <4>1, <4>2, SamePiece
      <4> QED  BY <4>3 DEF first
    <3>3. CountersDescribeBuffer'
        BY <1>2, <1>3, <1>7, <2>1, <2>2, <2>3, <2>6, <3>1, <3>2
           DEF IndInv, CountersDescribeBuffer, FirstCounted
    <3> QED  BY <1>5, <2>4, <2>5, <3>3 DEF IndInv
  <2>7. CASE ~frame_start_found
    <3>1. CountersDescribeBuffer'
        BY <1>2, <1>3, <1>7, <2>1, <2>2, <2>3, <2>7
           DEF IndInv, CountersDescribeBuffer
    <3> QED  BY <1>5, <2>4, <2>5, <3>1 DEF IndInv
  <2> QED  BY <2>6, <2>7
<1>9. CASE count > space
  <2>1. count - space \in Nat /\ count - space <= Len(buffer)
      BY <1>1, <1>2, <1>3, <1>9
  <2>2. IsSequence(Dropped(count - space))
        /\ Len(Dropped(count - space)) = Len(buffer) - (count - space)
      BY <1>1, <2>1, DropsFromFront
  <2>3. buffer' = Dropped(count - space) \o read
        /\ (IF frame_start_found THEN StartOver ELSE UNCHANGED parserVars)
      BY <1>1, <1>2, <1>3, <1>4, <1>9
  <2>4. IsSequence(buffer')
        /\ Len(buffer') = Len(Dropped(count - space)) + Len(read)
      BY <1>6, <2>2, <2>3, JoinedSequence
  <2>5. Len(buffer') = Capacity
      BY <1>1, <1>2, <1>3, <1>6, <2>2, <2>4
  <2>6. CASE frame_start_found
      BY <1>1, <1>4, <1>5, <1>7, <2>3, <2>4, <2>5, <2>6, StartOverPreserves
  <2>7. CASE ~frame_start_found
    <3>1. /\ pos' = pos /\ sep_count' = sep_count
          /\ frame_start_found' = frame_start_found
          /\ current_frame' = current_frame
        BY <2>3, <2>7 DEF parserVars
    <3>2. pos \in Nat /\ pos <= Capacity
        BY <1>1, <1>2, Numbers DEF IndInv, ParserOK
    <3>3. BufferOK'
        BY <1>1, <2>4, <2>5 DEF BufferOK
    <3>4. ParserOK' /\ NothingToDrop' /\ StartBehind'
        BY <1>4, <1>7, <3>1
           DEF IndInv, ParserOK, NothingToDrop, StartBehind
    <3>5. CountersDescribeBuffer'
        BY <1>7, <2>5, <2>7, <3>1, <3>2 DEF IndInv, CountersDescribeBuffer
    <3> QED  BY <1>5, <3>3, <3>4, <3>5 DEF IndInv
  <2> QED  BY <2>6, <2>7
<1>10. space \in Int
    BY <1>1, <1>2
<1> QED  BY <1>3, <1>8, <1>9, <1>10

-----------------------------------------------------------------------------
(***************************************************************************)
(* process_data, searching                                                 *)
(***************************************************************************)
\* Moving on without a start changes nothing that is counted.
LEMMA SearchingPreserves ==
    ASSUME IndInv, SeparatorSeen \/ GarbageSeen
    PROVE  IndInv'
<1>1. /\ processing /\ pos < Len(buffer) /\ ~frame_start_found
      /\ pos' = pos + 1
      /\ UNCHANGED <<buffer, sep_count, frame_start_found, current_frame,
                     processing, line>>
    BY DEF SeparatorSeen, GarbageSeen, Searching, InLoop, lineVars
<1>2. /\ pos \in Nat /\ bytes_to_drop \in Nat /\ bytes_to_drop <= pos
      /\ Len(buffer) \in Nat
    BY Numbers DEF IndInv, ParserOK
<1>3. bytes_to_drop' \in Nat /\ bytes_to_drop' <= pos + 1
    BY <1>2 DEF SeparatorSeen, GarbageSeen, UpToHere, FRAME_SEPARATORS_COUNT
<1>4. BufferOK' /\ IsSequence(line')
    BY <1>1 DEF IndInv, BufferOK
<1>5. ParserOK' /\ NothingToDrop' /\ StartBehind'
    BY <1>1, <1>2, <1>3 DEF IndInv, ParserOK, NothingToDrop, StartBehind
<1>6. CountersDescribeBuffer'
    BY <1>1, <1>2, <1>3 DEF IndInv, CountersDescribeBuffer
<1> QED  BY <1>4, <1>5, <1>6 DEF IndInv

LEMMA StartFoundPreserves ==
    ASSUME IndInv, StartFound
    PROVE  IndInv'
<1>1. /\ processing /\ pos < Len(buffer) /\ ~frame_start_found
      /\ buffer[pos + 1] # SEPARATOR_BYTE
      /\ pos - bytes_to_drop = FRAME_SEPARATORS_COUNT
      /\ frame_start_found' = TRUE
      /\ buffer' = Dropped(bytes_to_drop)
      /\ pos' = pos - bytes_to_drop + 1
      /\ bytes_to_drop' = 0
      /\ UNCHANGED <<sep_count, current_frame, processing, line>>
    BY DEF StartFound, Searching, InLoop, lineVars, Current, GarbageGone
<1>2. /\ pos \in Nat /\ bytes_to_drop \in Nat /\ bytes_to_drop <= pos
      /\ Len(buffer) \in Nat /\ IsSequence(buffer) /\ Len(buffer) <= Capacity
      /\ sep_count = 0
    BY <1>1, Numbers DEF IndInv, ParserOK, BufferOK
<1>3. /\ IsSequence(buffer')
      /\ Len(buffer') = Len(buffer) - bytes_to_drop
      /\ \A i \in 1 .. Len(buffer) - bytes_to_drop :
            buffer'[i] = buffer[bytes_to_drop + i]
  <2>1. bytes_to_drop <= Len(buffer)
      BY <1>1, <1>2
  <2> QED  BY <1>1, <1>2, <2>1, DropsFromFront
<1>4. pos' = 3 /\ 3 <= Len(buffer') /\ pos + 1 = bytes_to_drop + 3
    BY <1>1, <1>2, <1>3 DEF FRAME_SEPARATORS_COUNT
<1>5. 3 \in 1 .. Len(buffer) - bytes_to_drop
    BY <1>2, <1>3, <1>4
<1>6. buffer'[3] # SEPARATOR_BYTE
    BY <1>1, <1>3, <1>4, <1>5
<1>7. current_frame'.status = "FRAME_EMPTY"
    BY <1>1 DEF IndInv, CountersDescribeBuffer
<1>8. Separators(SubSeq(buffer', 3, 3)) = 0
    BY <1>3, <1>4, <1>6, NoneInOther
<1>9. BufferOK' /\ IsSequence(line')
  <2>1. Len(buffer') <= Capacity
    <3>1. Len(buffer') <= Len(buffer) /\ Len(buffer') \in Nat
        BY <1>2, <1>3
    <3> QED  BY <1>2, <3>1, CapacityInt
  <2> QED  BY <1>1, <1>3, <2>1 DEF IndInv, BufferOK
<1>10. ParserOK' /\ NothingToDrop' /\ StartBehind'
    BY <1>1, <1>4
       DEF IndInv, ParserOK, NothingToDrop, StartBehind, FRAME_SEPARATORS_COUNT
<1>11. CountersDescribeBuffer'
  <2>1. SubSeq(buffer', FRAME_SEPARATORS_COUNT + 1, pos') = SubSeq(buffer', 3, 3)
      BY <1>4 DEF FRAME_SEPARATORS_COUNT
  <2> QED
      BY <1>1, <1>2, <1>4, <1>7, <1>8, <2>1 DEF CountersDescribeBuffer
<1> QED  BY <1>9, <1>10, <1>11 DEF IndInv

-----------------------------------------------------------------------------
(***************************************************************************)
(* process_data, collecting                                                *)
(***************************************************************************)
LEMMA ByteCollectedPreserves ==
    ASSUME IndInv, ByteCollected
    PROVE  IndInv'
<1> DEFINE first == FirstCounted
<1>1. /\ processing /\ pos < Len(buffer) /\ frame_start_found
      /\ sep_count' = IF buffer[pos + 1] = SEPARATOR_BYTE
                      THEN sep_count + 1 ELSE sep_count
      /\ pos' = pos + 1
      /\ UNCHANGED <<buffer, frame_start_found, current_frame, processing,
                     bytes_to_drop, line>>
    BY DEF ByteCollected, Collecting, InLoop, Counted, Current, loopVars,
           lineVars
<1>2. /\ pos \in Nat /\ Len(buffer) \in Nat /\ IsSequence(buffer)
      /\ bytes_to_drop = 0
      /\ first \in Nat \ {0} /\ first <= pos + 1
      /\ sep_count = Separators(SubSeq(buffer, first, pos))
    BY <1>1, Numbers DEF IndInv, ParserOK, BufferOK
<1> HIDE DEF first
<1>3. pos + 1 <= Len(buffer)
    BY <1>1, <1>2
<1>4. sep_count' = Separators(SubSeq(buffer, first, pos + 1))
    BY <1>1, <1>2, <1>3, OneMoreByte
<1>5. BufferOK' /\ IsSequence(line')
    BY <1>1 DEF IndInv, BufferOK
<1>6. ParserOK' /\ NothingToDrop' /\ StartBehind'
    BY <1>1, <1>2
       DEF IndInv, ParserOK, NothingToDrop, StartBehind, FRAME_SEPARATORS_COUNT
<1>7. CountersDescribeBuffer'
    BY <1>1, <1>2, <1>3, <1>4
       DEF IndInv, CountersDescribeBuffer, first, FirstCounted
<1> QED  BY <1>5, <1>6, <1>7 DEF IndInv

\* Dropping and starting over.
LEMMA DropAndStartOver ==
    ASSUME IndInv, frame_start_found, processing, StartOver,
           NEW n \in Nat, n <= Len(buffer), buffer' = Dropped(n),
           UNCHANGED <<loopVars, lineVars>>
    PROVE  IndInv'
<1>1. IsSequence(buffer) /\ Len(buffer) <= Capacity
    BY DEF IndInv, BufferOK
<1>2. IsSequence(buffer') /\ Len(buffer) \in Nat
      /\ Len(buffer') = Len(buffer) - n
    BY <1>1, DropsFromFront
<1>3. Len(buffer') <= Capacity
  <2>1. Len(buffer') <= Len(buffer) /\ Len(buffer') \in Nat
      BY <1>2
  <2> QED  BY <1>1, <1>2, <2>1, CapacityInt
<1>4. bytes_to_drop' = 0
    BY Numbers DEF loopVars
<1>5. IsSequence(line') /\ processing' \in BOOLEAN
    BY DEF lineVars, loopVars, IndInv, ParserOK
<1> QED  BY <1>2, <1>3, <1>4, <1>5, StartOverPreserves

LEMMA WrongPostBytePreserves ==
    ASSUME IndInv, WrongPostByte
    PROVE  IndInv'
<1>1. /\ processing /\ pos < Len(buffer) /\ frame_start_found
      /\ BadPosts # {}
      /\ buffer' = Dropped(Min(BadPosts) - 2)
      /\ StartOver
      /\ UNCHANGED <<loopVars, lineVars>>
    BY DEF WrongPostByte, Collecting, InLoop, BeforeSeparator
<1>2. pos \in Nat /\ Len(buffer) \in Nat
    BY Numbers DEF IndInv, ParserOK
<1>3. \A i \in BadPosts : i \in Nat /\ 2 <= i /\ i <= pos + 1
    BY <1>2 DEF BadPosts, AfterSeparator, Escapable, FRAME_SEPARATORS_COUNT
<1>4. Min(BadPosts) \in BadPosts
    BY <1>1, <1>3, FirstExists
<1> DEFINE n == Min(BadPosts) - 2
<1>5. n \in Nat /\ n <= Len(buffer)
    BY <1>1, <1>2, <1>3, <1>4
<1> QED  BY <1>1, <1>5, DropAndStartOver

LEMMA HeaderCollectedPreserves ==
    ASSUME IndInv, HeaderCollected
    PROVE  IndInv'
<1>1. /\ processing /\ pos < Len(buffer) /\ frame_start_found
      /\ buffer' = Dropped(pos + 1)
      /\ UNCHANGED <<loopVars, lineVars>>
    BY DEF HeaderCollected, Collecting, InLoop
<1>2. pos \in Nat /\ Len(buffer) \in Nat /\ bytes_to_drop = 0
    BY <1>1, Numbers DEF IndInv, ParserOK
<1>3. pos + 1 \in Nat /\ pos + 1 <= Len(buffer)
    BY <1>1, <1>2
<1>4. CASE StartOver
    BY <1>1, <1>3, <1>4, DropAndStartOver
<1>5. CASE /\ current_frame' = ParsedHeader(Unescaping)
           /\ pos' = 0
           /\ sep_count' = 0
           /\ UNCHANGED frame_start_found
  <2>1. current_frame'.status = "FRAME_HEADER_ONLY"
      BY <1>5 DEF ParsedHeader, EmptyFrame
  <2>2. IsSequence(buffer') /\ Len(buffer') = Len(buffer) - (pos + 1)
      BY <1>1, <1>3, DropsFromFront DEF IndInv, BufferOK
  <2>3. Len(buffer') \in Nat /\ Len(buffer') <= Len(buffer)
      BY <1>2, <1>3, <2>2
  <2>4. BufferOK' /\ IsSequence(line')
      BY <1>1, <1>2, <2>2, <2>3, CapacityInt DEF IndInv, BufferOK, lineVars
  <2>5. ParserOK' /\ NothingToDrop' /\ StartBehind'
      BY <1>1, <1>2, <1>5, <2>1
         DEF IndInv, ParserOK, NothingToDrop, StartBehind, loopVars
  <2>6. Separators(SubSeq(buffer', 1, 0)) = 0
      BY NoneInNothing
  <2>7. CountersDescribeBuffer'
      BY <1>1, <1>2, <1>5, <2>1, <2>3, <2>6 DEF CountersDescribeBuffer, loopVars
  <2> QED  BY <2>4, <2>5, <2>7 DEF IndInv
<1> QED  BY <1>4, <1>5 DEF HeaderCollected

LEMMA DataCollectedPreserves ==
    ASSUME IndInv, DataCollected
    PROVE  IndInv'
<1>1. /\ processing /\ pos < Len(buffer) /\ frame_start_found
      /\ buffer' = Dropped(pos + 1)
      /\ StartOver
      /\ UNCHANGED <<loopVars, lineVars>>
    BY DEF DataCollected, Collecting, InLoop
<1>2. pos + 1 \in Nat /\ pos + 1 <= Len(buffer)
    BY <1>1, Numbers DEF IndInv, ParserOK
<1> QED  BY <1>1, <1>2, DropAndStartOver

(***************************************************************************)
(* At the end everything up to the last possible start goes.  Within a     *)
(* frame that is nothing.                                                  *)
(***************************************************************************)
LEMMA ProcessEndsPreserves ==
    ASSUME IndInv, ProcessEnds
    PROVE  IndInv'
<1>1. /\ processing /\ pos >= Len(buffer)
      /\ buffer' = Dropped(bytes_to_drop)
      /\ pos' = pos - bytes_to_drop
      /\ bytes_to_drop' = 0
      /\ processing' = FALSE
      /\ UNCHANGED <<sep_count, frame_start_found, current_frame, line>>
    BY DEF ProcessEnds, GarbageGone, lineVars
<1>2. /\ pos \in Nat /\ bytes_to_drop \in Nat /\ bytes_to_drop <= pos
      /\ Len(buffer) \in Nat /\ pos = Len(buffer) /\ IsSequence(buffer)
      /\ Len(buffer) <= Capacity
    BY <1>1, Numbers DEF IndInv, ParserOK, BufferOK
<1>3. /\ IsSequence(buffer')
      /\ Len(buffer') = Len(buffer) - bytes_to_drop
      /\ \A i \in 1 .. Len(buffer) - bytes_to_drop :
            buffer'[i] = buffer[bytes_to_drop + i]
  <2>1. bytes_to_drop <= Len(buffer)
      BY <1>1, <1>2
  <2> QED  BY <1>1, <1>2, <2>1, DropsFromFront
<1>4. Len(buffer') \in Nat /\ Len(buffer') <= Len(buffer) /\ pos' = Len(buffer')
    BY <1>1, <1>2, <1>3
<1>5. BufferOK' /\ IsSequence(line')
    BY <1>1, <1>2, <1>3, <1>4, CapacityInt DEF IndInv, BufferOK
<1>6. CASE ~frame_start_found
  <2>1. ParserOK' /\ NothingToDrop' /\ StartBehind'
      BY <1>1, <1>4, <1>6 DEF IndInv, ParserOK, NothingToDrop, StartBehind
  <2>2. CountersDescribeBuffer'
      BY <1>1, <1>4, <1>6 DEF IndInv, CountersDescribeBuffer
  <2> QED  BY <1>5, <2>1, <2>2 DEF IndInv
<1>7. CASE frame_start_found
  <2> DEFINE first == FirstCounted
  <2>1. /\ bytes_to_drop = 0
        /\ first \in Nat \ {0} /\ first <= pos + 1
        /\ sep_count = Separators(SubSeq(buffer, first, pos))
      BY <1>7, Numbers
  <2>2. pos' = pos
      BY <1>1, <1>2, <2>1
  <2> HIDE DEF first
  <2>3. \A i \in 1 .. pos : buffer'[i] = buffer[i]
    <3>1. Len(buffer) - bytes_to_drop = pos /\ \A i \in 1 .. pos : 0 + i = i
        BY <1>2, <2>1
    <3> QED  BY <1>3, <2>1, <3>1
  <2>4. Separators(SubSeq(buffer', first, pos))
          = Separators(SubSeq(buffer, first, pos))
      BY <1>2, <1>3, <1>4, <2>1, <2>2, <2>3, SamePiece
  <2>5. ParserOK' /\ NothingToDrop' /\ StartBehind'
      BY <1>1, <1>2, <2>2 DEF IndInv, ParserOK, NothingToDrop, StartBehind
  <2>6. CountersDescribeBuffer'
      BY <1>1, <1>2, <1>4, <1>7, <2>1, <2>2, <2>4
         DEF IndInv, CountersDescribeBuffer, first, FirstCounted
  <2> QED  BY <1>5, <2>5, <2>6 DEF IndInv
<1> QED  BY <1>6, <1>7

-----------------------------------------------------------------------------
(***************************************************************************)
(* The other operations                                                    *)
(***************************************************************************)
LEMMA ResetPreserves ==
    ASSUME IndInv, ResetProtocol
    PROVE  IndInv'
<1>1. /\ ~processing
      /\ buffer' = Dropped(Lesser(pos, Len(buffer)))
      /\ StartOver
      /\ UNCHANGED <<loopVars, lineVars>>
    BY DEF ResetProtocol
<1> DEFINE n == Lesser(pos, Len(buffer))
<1>2. IsSequence(buffer) /\ Len(buffer) <= Capacity /\ Len(buffer) \in Nat
    BY Numbers DEF IndInv, BufferOK
<1>3. n \in Nat /\ n <= Len(buffer)
    BY <1>2, Numbers DEF IndInv, ParserOK, Lesser
<1> HIDE DEF n
<1>4. buffer' = Dropped(n)
    BY <1>1 DEF n
<1>5. IsSequence(buffer') /\ Len(buffer') = Len(buffer) - n
    BY <1>2, <1>3, <1>4, DropsFromFront
<1>6. Len(buffer') \in Nat /\ Len(buffer') <= Len(buffer)
    BY <1>2, <1>3, <1>5
<1>7. Len(buffer') <= Capacity
    BY <1>2, <1>6, CapacityInt
<1>8. bytes_to_drop' = 0 /\ processing' \in BOOLEAN /\ IsSequence(line')
    BY <1>1 DEF loopVars, lineVars, IndInv, NothingToDrop, ParserOK
<1> QED  BY <1>1, <1>5, <1>7, <1>8, StartOverPreserves

LEMMA QueuePreserves ==
    ASSUME IndInv,
           PopFrame \/ (Len(incoming_queue) > 1
                        /\ DropFrames(Len(incoming_queue) - 1))
    PROVE  IndInv'
<1>1. UNCHANGED <<buffer, parserVars, loopVars, lineVars>>
    BY DEF PopFrame, DropFrames
<1>2. IsSequence(line')
    BY <1>1 DEF lineVars, IndInv
<1> QED  BY <1>1, <1>2, ParserUntouched

-----------------------------------------------------------------------------
LEMMA InitEstablishes ==
    ASSUME TransportAssumption, Init
    PROVE  IndInv
<1>1. IsSequence(<<>>) /\ Len(<<>>) = 0
    BY EmptySeq DEF IsSequence
<1>2. BufferOK /\ IsSequence(line)
    BY <1>1 DEF Init, BufferOK, TransportAssumption
<1>3. ParserOK /\ NothingToDrop /\ StartBehind
    BY DEF Init, ParserOK, NothingToDrop, StartBehind
<1>4. CountersDescribeBuffer
    BY <1>1 DEF Init, EmptyFrame, CountersDescribeBuffer
<1> QED  BY <1>2, <1>3, <1>4 DEF IndInv

LEMMA NextPreserves ==
    ASSUME TransportAssumption, IndInv, [Next]_vars
    PROVE  IndInv'
<1>1. CASE Environment
    BY <1>1, EnvironmentPreserves
<1>2. ASSUME NEW available \in Available, ReadData(available)
      PROVE  IndInv'
    BY <1>2, ReadPreserves
<1>3. CASE Process
    BY <1>3, SearchingPreserves, StartFoundPreserves, ByteCollectedPreserves,
       WrongPostBytePreserves, HeaderCollectedPreserves,
       DataCollectedPreserves, ProcessEndsPreserves DEF Process
<1>4. CASE PopFrame \/ (Len(incoming_queue) > 1
                        /\ DropFrames(Len(incoming_queue) - 1))
    BY <1>4, QueuePreserves
<1>5. CASE ResetProtocol
    BY <1>5, ResetPreserves
<1>6. CASE UNCHANGED vars
  <2>1. UNCHANGED <<buffer, parserVars, loopVars>> /\ IsSequence(line')
      BY <1>6 DEF vars, lineVars, IndInv
  <2> QED  BY <2>1, ParserUntouched
<1> QED  BY <1>1, <1>2, <1>3, <1>4, <1>5, <1>6 DEF Next

(***************************************************************************)
(* The counters of the parser describe its buffer: none of the subtractions*)
(* of process_data wraps around, none of its reads is outside of the       *)
(* buffer, and the number of separators it takes for escaped is the number *)
(* there is, for every capacity, every frame and all noise.                *)
(***************************************************************************)
THEOREM CountersAreRight == Spec => []CountersDescribeBuffer
<1>1. Init => IndInv
    BY InitEstablishes, TransportAssumption
<1>2. IndInv /\ [Next]_vars => IndInv'
    BY NextPreserves, TransportAssumption
<1>3. IndInv => CountersDescribeBuffer
    BY DEF IndInv
<1> QED  BY <1>1, <1>2, <1>3, PTL DEF Spec

-----------------------------------------------------------------------------
(***************************************************************************)
(* Types.  The bytes received are bytes and the frames made of them are    *)
(* frames, because the header tells that there are as many bytes as are    *)
(* read and because the codes of crc16 have 16 bits.                       *)
(***************************************************************************)
LEMMA PieceType ==
    ASSUME NEW T, NEW s \in Seq(T),
           NEW m \in Nat \ {0}, NEW n \in Nat, n <= Len(s)
    PROVE  SubSeq(s, m, n) \in Seq(T)
<1>1. Len(s) \in Nat /\ \A i \in 1 .. Len(s) : s[i] \in T
    BY LenProperties
<1>2. \A i \in m .. n : s[i] \in T
    BY <1>1
<1> QED  BY <1>2, SubSeqProperties

LEMMA ParsedHeaderType ==
    ASSUME CodesAre16Bits, NEW bytes \in Seq(Byte),
           HeaderError(bytes) = "HEADER_ONLY"
    PROVE  ParsedHeader(bytes) \in FrameType
<1> DEFINE header == SubSeq(bytes, FRAME_SEPARATORS_COUNT + 1, FRAME_HEADER_SIZE)
           size   == Field(bytes, 2) - PURE_HEADER_SIZE
           sum    == checksum(header, 0)
           code   == IF HasCrc(bytes) THEN Crc(header, INITIAL_CRC)
                     ELSE INITIAL_CRC
           more   == IF Field(bytes, 9) = SEPARATOR_BYTE THEN 1 ELSE 0
           frame_type == Field(bytes, 9)
           has    == HasCrc(bytes)
<1>1. Len(bytes) \in Nat /\ Len(bytes) >= FRAME_HEADER_SIZE
  <2>1. Len(bytes) \in Nat /\ FRAME_HEADER_SIZE \in Nat
      BY LenProperties DEF FRAME_HEADER_SIZE
  <2>2. ~(Len(bytes) < FRAME_HEADER_SIZE)
      BY Zenon DEF HeaderError
  <2> QED  BY <2>1, <2>2
<1>2. \A i \in 1 .. Len(bytes) : bytes[i] \in Byte
    BY LenProperties
<1>3. size \in Byte /\ frame_type \in Byte
  <2> DEFINE length == Field(bytes, 2)
  <2>1. 2 + 1 \in 1 .. Len(bytes) /\ 9 + 1 \in 1 .. Len(bytes)
      BY <1>1 DEF FRAME_HEADER_SIZE
  <2>2. length \in Byte /\ frame_type \in Byte
      BY <1>2, <2>1 DEF Field
  <2>3. ~(length < PURE_HEADER_SIZE)
      BY Zenon DEF HeaderError
  <2> HIDE DEF length
  <2>4. length - PURE_HEADER_SIZE \in Byte
      BY <2>2, <2>3 DEF Byte, PURE_HEADER_SIZE, FRAME_HEADER_SIZE,
                        FRAME_SEPARATORS_COUNT
  <2> QED  BY <2>2, <2>4 DEF length
<1>4. header \in Seq(Byte)
    BY <1>1, PieceType DEF FRAME_SEPARATORS_COUNT, FRAME_HEADER_SIZE
<1>5. sum \in Byte
  <2>1. Byte \subseteq Nat
      BY DEF Byte
  <2>2. header \in Seq(Nat)
      BY <1>4, <2>1, SeqMonotonic
  <2> HIDE DEF header
  <2> QED  BY <2>2, ChecksumType
<1>6. code \in Code
  <2>1. INITIAL_CRC \in Code
      BY DEF INITIAL_CRC, Code
  <2> HIDE DEF header
  <2> QED  BY <1>4, <2>1, CrcType
<1>7. more \in Byte /\ <<>> \in Seq(Byte) /\ has \in BOOLEAN
    BY DEF Byte, HasCrc
<1>8. ParsedHeader(bytes) =
        [EmptyFrame EXCEPT
           !.status = "FRAME_HEADER_ONLY", !.frame_type = frame_type,
           !.use_crc = has, !.data_size = size, !.checksum = sum,
           !.crc = code, !.additional_bytes = more]
    BY Zenon DEF ParsedHeader
<1> HIDE DEF header, size, sum, code, more, frame_type, has
<1>9. ParsedHeader(bytes) =
        [status |-> "FRAME_HEADER_ONLY", frame_type |-> frame_type,
         use_crc |-> has, data_size |-> size, data |-> <<>>, checksum |-> sum,
         crc |-> code, additional_bytes |-> more]
    BY <1>8 DEF EmptyFrame
<1> QED  BY <1>3, <1>5, <1>6, <1>7, <1>9 DEF FrameType, FrameStatus

\* Frames as records whose fields range over any sets.
FrameOver(S, B, L, Q, C) ==
    [status: S, frame_type: B, use_crc: L, data_size: B, data: Q,
     checksum: B, crc: C, additional_bytes: B]

LEMMA FieldTypes ==
    ASSUME NEW S, NEW B, NEW L, NEW Q, NEW C,
           NEW frame \in FrameOver(S, B, L, Q, C)
    PROVE  /\ frame.frame_type \in B /\ frame.use_crc \in L
           /\ frame.data_size \in B /\ frame.data \in Q
           /\ frame.checksum \in B /\ frame.crc \in C
           /\ frame.additional_bytes \in B
BY DEF FrameOver

LEMMA FieldsChanged ==
    ASSUME NEW S, NEW B, NEW L, NEW Q, NEW C,
           NEW frame \in FrameOver(S, B, L, Q, C),
           NEW status \in S, NEW data \in Q, NEW sum \in B, NEW code \in C,
           NEW more \in B
    PROVE  [frame EXCEPT !.status = status, !.data = data, !.checksum = sum,
                         !.crc = code, !.additional_bytes = more]
             \in FrameOver(S, B, L, Q, C)
BY DEF FrameOver

LEMMA FrameTypeIs ==
    FrameType = FrameOver(FrameStatus, Byte, BOOLEAN, Seq(Byte), Code)
BY Zenon DEF FrameType, FrameOver

LEMMA ParsedDataType ==
    ASSUME CodesAre16Bits, NEW frame \in FrameType, NEW bytes \in Seq(Byte),
           DataError(frame, bytes) = "COMPLETE_FRAME"
    PROVE  ParsedData(frame, bytes) \in FrameType
<1> DEFINE data == SubSeq(bytes, 1, frame.data_size)
           sum  == ExpectedChecksum(frame, data)
           code == IF frame.use_crc THEN Crc(data, frame.crc) ELSE INITIAL_CRC
           more == Narrow(frame.additional_bytes + Separators(data))
<1>1. /\ frame.data_size \in Nat /\ frame.crc \in Code
      /\ frame.checksum \in Nat /\ frame.additional_bytes \in Nat
  <2>1. /\ frame.data_size \in Byte /\ frame.crc \in Code
        /\ frame.checksum \in Byte /\ frame.additional_bytes \in Byte
      BY FrameTypeIs, FieldTypes, Zenon
  <2>2. \A byte \in Byte : byte \in Nat
      BY DEF Byte
  <2> QED  BY <2>1, <2>2, Zenon
<1>2. Len(bytes) \in Nat /\ Len(bytes) >= frame.data_size
    BY <1>1, LenProperties DEF DataError, TrailerSize
<1>3. data \in Seq(Byte)
    BY <1>1, <1>2, PieceType
<1>4. Separators(data) \in Nat
    BY <1>3, OverSomeSet, CountIsNumber
<1> HIDE DEF data
<1>5. sum \in Byte
  <2> DEFINE start == frame.checksum
                      + (frame.additional_bytes + Separators(data))
                        * SEPARATOR_POST_BYTE
  <2>1. start \in Nat
      BY <1>1, <1>4 DEF SEPARATOR_POST_BYTE
  <2>2. Byte \subseteq Nat
      BY DEF Byte
  <2>3. data \in Seq(Nat)
      BY <1>3, <2>2, SeqMonotonic
  <2>4. sum = checksum(data, start)
      BY Zenon DEF ExpectedChecksum
  <2> HIDE DEF start
  <2> QED  BY <2>1, <2>3, <2>4, ChecksumType
<1>6. code \in Code
  <2>1. INITIAL_CRC \in Code
      BY DEF INITIAL_CRC, Code
  <2> QED  BY <1>1, <1>3, <2>1, CrcType
<1>7. more \in Byte
  <2> DEFINE a == frame.additional_bytes
             b == Separators(data)
  <2>1. a \in Nat /\ b \in Nat
      BY <1>1, <1>4
  <2> HIDE DEF a, b
  <2>2. (a + b) % 256 \in 0 .. 255
      BY <2>1
  <2> QED  BY <2>2 DEF a, b, Narrow, Byte
<1>8. ParsedData(frame, bytes) =
        [frame EXCEPT !.status = "FRAME_COMPLETE", !.data = data,
                      !.checksum = sum, !.crc = code,
                      !.additional_bytes = more]
    BY Zenon DEF ParsedData, data
<1> HIDE DEF sum, code, more
<1>9. /\ frame \in FrameOver(FrameStatus, Byte, BOOLEAN, Seq(Byte), Code)
      /\ "FRAME_COMPLETE" \in FrameStatus
    BY FrameTypeIs DEF FrameStatus
<1>10. [frame EXCEPT !.status = "FRAME_COMPLETE", !.data = data,
                     !.checksum = sum, !.crc = code,
                     !.additional_bytes = more]
         \in FrameOver(FrameStatus, Byte, BOOLEAN, Seq(Byte), Code)
    BY <1>3, <1>5, <1>6, <1>7, <1>9, FieldsChanged
<1> QED  BY <1>8, <1>10, FrameTypeIs, Zenon

LEMMA UnescapingType ==
    ASSUME buffer \in Seq(Byte), pos \in Nat, pos < Len(buffer)
    PROVE  Unescaping \in Seq(Byte)
<1> DEFINE n == pos + 1
           pieces == [i \in 1 .. n |-> IF i \in AfterSeparator THEN <<>>
                                       ELSE <<buffer[i]>>]
<1>1. n \in Nat \ {0} /\ \A i \in 1 .. n : buffer[i] \in Byte
    BY LenProperties
<1>2. Unescaping = Concatenated(pieces)
    BY Zenon DEF Unescaping
<1> HIDE DEF n
<1>3. pieces \in [1 .. n -> Seq(Byte)]
    BY <1>1
<1>4. pieces \in Seq(Seq(Byte)) /\ DOMAIN pieces = 1 .. n
    BY <1>1, <1>3, SeqDef
<1>5. pieces # <<>>
    BY <1>1, <1>4, EmptySeq, LenProperties
<1> HIDE DEF pieces
<1> QED  BY <1>2, <1>4, <1>5, ConcatType, Zenon

-----------------------------------------------------------------------------
BytesOK ==
    /\ buffer \in Seq(Byte)
    /\ line \in Seq(Byte)
    /\ noise \in Nat

FramesOK ==
    /\ current_frame \in FrameType
    /\ incoming_queue \in Seq(FrameType)
    /\ delivered \in Seq(FrameType)

LEMMA DroppedType ==
    ASSUME buffer \in Seq(Byte), NEW n \in Nat
    PROVE  Dropped(n) \in Seq(Byte)
<1>1. Len(buffer) \in Nat /\ n + 1 \in Nat \ {0}
    BY LenProperties
<1>2. SubSeq(buffer, n + 1, Len(buffer)) \in Seq(Byte)
    BY <1>1, PieceType
<1> QED  BY <1>2, Zenon DEF Dropped

LEMMA EmptyFrameType == EmptyFrame \in FrameType
<1>1. INITIAL_CRC \in Code /\ 0 \in Byte /\ "FRAME_EMPTY" \in FrameStatus
    BY DEF INITIAL_CRC, Code, Byte, FrameStatus
<1>2. <<>> \in Seq(Byte)
    OBVIOUS
<1> QED  BY <1>1, <1>2 DEF EmptyFrame, FrameType

LEMMA EnvironmentTyped ==
    ASSUME TransportAssumption, CodesAre16Bits, BytesOK, FramesOK, Environment
    PROVE  BytesOK' /\ FramesOK'
<1>1. ASSUME NEW frame \in Frames, NEW garbage \in Garbage,
             SendData(frame, garbage)
      PROVE  line' \in Seq(Byte) /\ noise' \in Nat
  <2> DEFINE written == fill_buffer(NewFrame(frame.frame_type, frame.data,
                                             frame.use_crc), garbage)
  <2>1. /\ line' = IF Accepted(frame) THEN line \o written ELSE line
        /\ noise' = noise
      BY <1>1 DEF SendData
  <2>2. ASSUME Accepted(frame) PROVE written \in Seq(Byte)
    <3>1. frame \in [frame_type: Byte, data: Seq(Byte), use_crc: BOOLEAN]
          /\ garbage \in Byte
        BY DEF TransportAssumption
    <3>2. frame.frame_type \in Byte /\ frame.data \in Seq(Byte)
          /\ frame.use_crc \in BOOLEAN
        BY <3>1
    <3> QED  BY <2>2, <3>1, <3>2, FillBufferType DEF Accepted
  <2> HIDE DEF written
  <2> QED  BY <2>1, <2>2, ConcatProperties DEF BytesOK
<1>2. ASSUME NEW bytes \in Noise, Disturb(bytes)
      PROVE  line' \in Seq(Byte) /\ noise' \in Nat
  <2>1. bytes \in Seq(Byte)
      BY DEF TransportAssumption
  <2> QED  BY <1>2, <2>1, ConcatProperties DEF Disturb, BytesOK
<1>3. UNCHANGED <<buffer, current_frame, incoming_queue, delivered>>
    BY DEF Environment, SendData, Disturb, parserVars, queueVars
<1> QED  BY <1>1, <1>2, <1>3 DEF Environment, BytesOK, FramesOK

LEMMA ReadTyped ==
    ASSUME TransportAssumption, IndInv, BytesOK, FramesOK,
           NEW available \in Available, ReadData(available)
    PROVE  BytesOK' /\ FramesOK'
<1> DEFINE count == Lesser(Lesser(available, Len(line)), Capacity)
           space == Capacity - Len(buffer)
           read  == SubSeq(line, 1, count)
<1>1. /\ available \in Nat /\ Capacity \in Nat
      /\ Len(line) \in Nat /\ Len(buffer) \in Nat
      /\ line \in Seq(Byte) /\ buffer \in Seq(Byte)
    BY LenProperties DEF TransportAssumption, BytesOK
<1>2. count \in Nat /\ count <= Len(line)
    BY <1>1 DEF Lesser
<1>3. /\ line' = SubSeq(line, count + 1, Len(line))
      /\ \/ buffer' = buffer \o read
         \/ count > space /\ buffer' = Dropped(count - space) \o read
      /\ noise' = noise
    BY DEF ReadData, LostAtOverflow
<1>4. current_frame' = current_frame \/ current_frame' = EmptyFrame
    BY DEF ReadData, LostAtOverflow, parserVars, StartOver
<1>5. UNCHANGED <<incoming_queue, delivered>>
    BY DEF ReadData, LostAtOverflow, queueVars
<1> HIDE DEF count, space
<1>6. read \in Seq(Byte)
    BY <1>1, <1>2, PieceType
<1>7. line' \in Seq(Byte)
    BY <1>1, <1>2, <1>3, PieceType
<1> HIDE DEF read
<1>8. buffer' \in Seq(Byte)
  <2>1. CASE buffer' = buffer \o read
      BY <1>1, <1>6, <2>1, ConcatProperties
  <2>2. CASE count > space /\ buffer' = Dropped(count - space) \o read
    <3>1. count - space \in Nat
        BY <1>1, <1>2, <2>2 DEF space
    <3>2. Dropped(count - space) \in Seq(Byte)
        BY <1>1, <3>1, DroppedType
    <3> QED  BY <1>6, <2>2, <3>2, ConcatProperties
  <2> QED  BY <1>3, <2>1, <2>2
<1> QED  BY <1>3, <1>4, <1>5, <1>7, <1>8, EmptyFrameType DEF BytesOK, FramesOK

LEMMA ProcessTyped ==
    ASSUME CodesAre16Bits, IndInv, BytesOK, FramesOK, Process
    PROVE  BytesOK' /\ FramesOK'
<1>1. UNCHANGED <<line, noise>>
    BY DEF Process, SeparatorSeen, StartFound, GarbageSeen, ByteCollected,
           WrongPostByte, HeaderCollected, DataCollected, ProcessEnds, lineVars
<1>2. /\ pos \in Nat /\ bytes_to_drop \in Nat /\ buffer \in Seq(Byte)
      /\ Len(buffer) \in Nat /\ current_frame \in FrameType
    BY Numbers DEF IndInv, ParserOK, BytesOK, FramesOK
<1>3. buffer' \in Seq(Byte)
  <2>1. CASE buffer' = buffer
      BY <1>2, <2>1
  <2>2. CASE buffer' = Dropped(bytes_to_drop) \/ buffer' = Dropped(pos + 1)
      BY <1>2, <2>2, DroppedType
  <2>3. CASE WrongPostByte
    <3>1. BadPosts # {} /\ buffer' = Dropped(Min(BadPosts) - 2)
        BY <2>3 DEF WrongPostByte, BeforeSeparator
    <3>2. \A i \in BadPosts : i \in Nat /\ 2 <= i
        BY <1>2 DEF BadPosts, AfterSeparator, Escapable, FRAME_SEPARATORS_COUNT
    <3>3. Min(BadPosts) \in BadPosts
        BY <3>1, <3>2, FirstExists
    <3>4. Min(BadPosts) - 2 \in Nat
        BY <3>2, <3>3
    <3> QED  BY <1>2, <3>1, <3>4, DroppedType
  <2> QED
      BY <2>1, <2>2, <2>3
         DEF Process, SeparatorSeen, StartFound, GarbageSeen, ByteCollected,
             HeaderCollected, DataCollected, ProcessEnds
<1>4. ASSUME pos < Len(buffer) PROVE Unescaping \in Seq(Byte)
    BY <1>2, <1>4, UnescapingType
<1>5. current_frame' \in FrameType
  <2>1. CASE current_frame' = current_frame \/ current_frame' = EmptyFrame
      BY <1>2, <2>1, EmptyFrameType
  <2>2. CASE /\ pos < Len(buffer) /\ HeaderError(Unescaping) = "HEADER_ONLY"
             /\ current_frame' = ParsedHeader(Unescaping)
      BY <1>4, <2>2, ParsedHeaderType
  <2> QED
      BY <2>1, <2>2
         DEF Process, SeparatorSeen, StartFound, GarbageSeen, ByteCollected,
             WrongPostByte, HeaderCollected, DataCollected, ProcessEnds,
             StartOver, Collecting, InLoop
<1>6. incoming_queue' \in Seq(FrameType) /\ delivered' \in Seq(FrameType)
  <2> DEFINE frame == ParsedData(current_frame, Unescaping)
  <2>1. CASE UNCHANGED <<incoming_queue, delivered>>
      BY <2>1 DEF FramesOK
  <2>2. CASE /\ pos < Len(buffer)
             /\ DataError(current_frame, Unescaping) = "COMPLETE_FRAME"
             /\ incoming_queue' = Append(incoming_queue, frame)
             /\ delivered' = Append(delivered, frame)
    <3>1. frame \in FrameType
        BY <1>2, <1>4, <2>2, ParsedDataType
    <3> HIDE DEF frame
    <3> QED  BY <2>2, <3>1, AppendProperties DEF FramesOK
  <2> QED
      BY <2>1, <2>2
         DEF Process, SeparatorSeen, StartFound, GarbageSeen, ByteCollected,
             WrongPostByte, HeaderCollected, DataCollected, ProcessEnds,
             queueVars, Collecting, InLoop
<1> QED  BY <1>1, <1>3, <1>5, <1>6 DEF BytesOK, FramesOK

LEMMA OthersTyped ==
    ASSUME IndInv, BytesOK, FramesOK,
           \/ PopFrame
           \/ Len(incoming_queue) > 1 /\ DropFrames(Len(incoming_queue) - 1)
           \/ ResetProtocol
    PROVE  BytesOK' /\ FramesOK'
<1>1. /\ incoming_queue \in Seq(FrameType) /\ Len(incoming_queue) \in Nat
      /\ buffer \in Seq(Byte) /\ Len(buffer) \in Nat /\ pos \in Nat
    BY LenProperties DEF FramesOK, BytesOK, IndInv, ParserOK
<1>2. UNCHANGED <<line, noise, delivered>>
    BY DEF PopFrame, DropFrames, ResetProtocol, lineVars, queueVars
<1>3. CASE PopFrame
  <2>1. incoming_queue' \in Seq(FrameType)
      BY <1>1, <1>3, HeadTailProperties DEF PopFrame
  <2>2. UNCHANGED <<buffer, current_frame>>
      BY <1>3 DEF PopFrame, parserVars
  <2> QED  BY <1>2, <2>1, <2>2 DEF BytesOK, FramesOK
<1>4. CASE Len(incoming_queue) > 1 /\ DropFrames(Len(incoming_queue) - 1)
  <2> DEFINE n == Lesser(Len(incoming_queue) - 1, Len(incoming_queue))
  <2>1. n \in Nat
      BY <1>1, <1>4 DEF Lesser
  <2>2. incoming_queue' = SubSeq(incoming_queue, n + 1, Len(incoming_queue))
      BY <1>4 DEF DropFrames
  <2> HIDE DEF n
  <2>3. incoming_queue' \in Seq(FrameType)
      BY <1>1, <2>1, <2>2, PieceType
  <2>4. UNCHANGED <<buffer, current_frame>>
      BY <1>4 DEF DropFrames, parserVars
  <2> QED  BY <1>2, <2>3, <2>4 DEF BytesOK, FramesOK
<1>5. CASE ResetProtocol
  <2> DEFINE n == Lesser(pos, Len(buffer))
  <2>1. n \in Nat
      BY <1>1 DEF Lesser
  <2>2. buffer' = Dropped(n)
      BY <1>5 DEF ResetProtocol
  <2> HIDE DEF n
  <2>3. buffer' \in Seq(Byte)
      BY <1>1, <2>1, <2>2, DroppedType
  <2>4. current_frame' = EmptyFrame /\ UNCHANGED incoming_queue
      BY <1>5 DEF ResetProtocol, StartOver, queueVars
  <2> QED  BY <1>2, <2>3, <2>4, EmptyFrameType DEF BytesOK, FramesOK
<1> QED  BY <1>3, <1>4, <1>5

LEMMA InitTyped ==
    ASSUME Init
    PROVE  BytesOK /\ FramesOK
<1>1. <<>> \in Seq(Byte) /\ <<>> \in Seq(FrameType)
    OBVIOUS
<1> QED  BY <1>1, EmptyFrameType DEF Init, BytesOK, FramesOK

LEMMA NextTyped ==
    ASSUME TransportAssumption, CodesAre16Bits, IndInv, BytesOK, FramesOK,
           [Next]_vars
    PROVE  BytesOK' /\ FramesOK'
<1>1. CASE UNCHANGED vars
    BY <1>1 DEF vars, parserVars, lineVars, queueVars, BytesOK, FramesOK
<1> QED
    BY <1>1, EnvironmentTyped, ReadTyped, ProcessTyped, OthersTyped DEF Next

(***************************************************************************)
(* Every variable has a value of its type: what is received are bytes and  *)
(* what is delivered are frames whose fields have the widths of the code,  *)
(* provided that crc16 returns what its type says, which the model leaves  *)
(* open.                                                                   *)
(***************************************************************************)
THEOREM TypesHold ==
    ASSUME CodesAre16Bits
    PROVE  Spec => []TypeOK
<1> DEFINE Inv == IndInv /\ BytesOK /\ FramesOK
<1>1. Init => Inv
    BY InitTyped, InitEstablishes, TransportAssumption
<1>2. Inv /\ [Next]_vars => Inv'
    BY NextTyped, NextPreserves, TransportAssumption
<1>3. Inv => TypeOK
  <2> SUFFICES ASSUME IndInv, BytesOK, FramesOK PROVE TypeOK
      OBVIOUS
  <2> QED  BY Numbers DEF IndInv, BufferOK, ParserOK, BytesOK, FramesOK, TypeOK
<1> QED  BY <1>1, <1>2, <1>3, PTL DEF Spec

-----------------------------------------------------------------------------
(***************************************************************************)
(* What is left between two calls.  While a start is searched for, the     *)
(* bytes that may become one are at most two separators.  There is one     *)
(* exception: an overflow moves the buffer but not pos_, so that the bytes *)
(* before pos_ may then be any, but only with a full buffer to go through, *)
(* at whose end they are far behind.  While a frame is collected, there is *)
(* less of it than is needed.                                              *)
(***************************************************************************)
AllSeen == ~processing => pos = Len(buffer)

MaybeStart(i) ==
    \/ buffer[i] = SEPARATOR_BYTE
    \/ processing /\ i <= FRAME_SEPARATORS_COUNT /\ Len(buffer) = Capacity

SearchOK ==
    ~frame_start_found =>
        /\ pos - bytes_to_drop <= FRAME_SEPARATORS_COUNT
        /\ \A i \in bytes_to_drop + 1 .. pos : MaybeStart(i)

CollectOK == frame_start_found => pos - sep_count < Needed

SizeOK == current_frame.data_size \in Nat

LeftInv == AllSeen /\ SearchOK /\ CollectOK

LEMMA NeededType ==
    ASSUME SizeOK
    PROVE  Needed \in Nat \ {0}
BY DEF SizeOK, Needed, TrailerSize, FRAME_HEADER_SIZE

LEMMA SizeTyped ==
    ASSUME current_frame \in FrameType
    PROVE  SizeOK
<1>1. current_frame.data_size \in Byte
    BY FrameTypeIs, FieldTypes, Zenon
<1>2. \A byte \in Byte : byte \in Nat
    BY DEF Byte
<1> QED  BY <1>1, <1>2, Zenon DEF SizeOK

LEMMA SearchingFrom ==
    ASSUME NEW from \in Nat, NEW to \in Nat,
           bytes_to_drop' = from, pos' = to, to - from <= FRAME_SEPARATORS_COUNT,
           \A i \in from + 1 .. to : MaybeStart(i)'
    PROVE  SearchOK'
<1>1. pos' - bytes_to_drop' = to - from /\ bytes_to_drop' + 1 = from + 1
    OBVIOUS
<1>2. \A i \in bytes_to_drop' + 1 .. pos' : MaybeStart(i)'
  <2>1. bytes_to_drop' + 1 .. pos' = from + 1 .. to
      BY <1>1
  <2> QED  BY <2>1, Zenon
<1>3. pos' - bytes_to_drop' <= FRAME_SEPARATORS_COUNT
    BY <1>1
<1> QED  BY <1>2, <1>3, Zenon DEF SearchOK

LEMMA StartOverLeft ==
    ASSUME StartOver, AllSeen', bytes_to_drop' \in Nat
    PROVE  LeftInv'
<1>1. frame_start_found' = FALSE /\ pos' = 0
    BY DEF StartOver
<1>2. PICK from \in Nat : from = bytes_to_drop'
    OBVIOUS
<1>3. \A i \in from + 1 .. 0 : MaybeStart(i)'
    OBVIOUS
<1>4. 0 - from <= FRAME_SEPARATORS_COUNT
    BY DEF FRAME_SEPARATORS_COUNT
<1>5. SearchOK'
    BY <1>1, <1>2, <1>3, <1>4, SearchingFrom
<1>6. CollectOK'
    BY <1>1 DEF CollectOK
<1> QED  BY <1>5, <1>6 DEF LeftInv

LEMMA ParserLeft ==
    ASSUME LeftInv, UNCHANGED <<buffer, parserVars, loopVars>>
    PROVE  LeftInv'
BY DEF LeftInv, AllSeen, SearchOK, CollectOK, MaybeStart, Needed, parserVars,
       loopVars

LEMMA ReadLeft ==
    ASSUME TransportAssumption, IndInv, LeftInv, BytesOK,
           NEW available \in Available, ReadData(available)
    PROVE  LeftInv'
<1> DEFINE count == Lesser(Lesser(available, Len(line)), Capacity)
           space == Capacity - Len(buffer)
           read  == SubSeq(line, 1, count)
<1>1. /\ available \in Nat /\ Capacity \in Nat
      /\ Len(line) \in Nat /\ Len(buffer) \in Nat
      /\ line \in Seq(Byte) /\ buffer \in Seq(Byte)
      /\ Len(buffer) <= Capacity
      /\ pos \in Nat /\ bytes_to_drop = 0
    BY LenProperties
       DEF TransportAssumption, BytesOK, IndInv, BufferOK, ParserOK,
           NothingToDrop, ReadData
<1>2. count \in Nat /\ count <= Len(line) /\ count <= Capacity
    BY <1>1 DEF Lesser
<1>3. /\ ~processing /\ processing' = TRUE /\ bytes_to_drop' = 0
      /\ \/ /\ buffer' = buffer \o read
            /\ UNCHANGED parserVars
         \/ /\ count > space
            /\ buffer' = Dropped(count - space) \o read
            /\ IF frame_start_found THEN StartOver ELSE UNCHANGED parserVars
    BY <1>1 DEF ReadData, LostAtOverflow
<1>4. AllSeen'
    BY <1>3 DEF AllSeen
<1> HIDE DEF count, space
<1>5. /\ read \in Seq(Byte) /\ Len(read) = count
  <2>1. read \in Seq(Byte)
      BY <1>1, <1>2, PieceType
  <2>2. IsSequence(line)
      BY DEF IndInv
  <2>3. Len(read) = IF 1 <= count THEN count - 1 + 1 ELSE 0
      BY <1>2, <2>2, PieceOfSequence
  <2> QED  BY <1>2, <2>1, <2>3
<1> HIDE DEF read
<1>6. pos = Len(buffer)
    BY <1>3 DEF LeftInv, AllSeen
<1>7. CASE StartOver
    BY <1>3, <1>4, <1>7, StartOverLeft
<1>8. CASE frame_start_found /\ UNCHANGED parserVars
    BY <1>4, <1>8
       DEF LeftInv, SearchOK, CollectOK, Needed, parserVars
<1>9. ASSUME ~frame_start_found
      PROVE  pos <= 2 /\ \A i \in 1 .. pos : buffer[i] = SEPARATOR_BYTE
    BY <1>1, <1>3, <1>9
       DEF LeftInv, SearchOK, MaybeStart, FRAME_SEPARATORS_COUNT
<1>10. CASE ~frame_start_found /\ UNCHANGED parserVars /\ buffer' = buffer \o read
  <2>1. \A i \in 1 .. pos : buffer'[i] = buffer[i]
    <3>1. \A i \in 1 .. Len(buffer) + Len(read) :
            buffer'[i] = IF i <= Len(buffer) THEN buffer[i]
                         ELSE read[i - Len(buffer)]
        BY <1>1, <1>5, <1>10, ConcatProperties
    <3> QED  BY <1>1, <1>2, <1>5, <1>6, <3>1, SMTT(40)
  <2>2. SearchOK'
    <3>1. pos' = pos /\ bytes_to_drop' = 0 /\ pos \in Nat /\ pos <= 2
        BY <1>1, <1>3, <1>9, <1>10 DEF parserVars
    <3>2. \A i \in 1 .. pos : buffer'[i] = SEPARATOR_BYTE
        BY <1>9, <1>10, <2>1
    <3>3. \A i \in bytes_to_drop' + 1 .. pos' : buffer'[i] = SEPARATOR_BYTE
        BY <3>1, <3>2
    <3> QED  BY <3>1, <3>3 DEF SearchOK, MaybeStart, FRAME_SEPARATORS_COUNT
  <2> QED  BY <1>4, <1>10, <2>2 DEF LeftInv, CollectOK, parserVars
<1>11. CASE /\ ~frame_start_found /\ UNCHANGED parserVars /\ count > space
            /\ buffer' = Dropped(count - space) \o read
  <2>1. count - space \in Nat /\ count - space <= Len(buffer)
      BY <1>1, <1>2, <1>11 DEF space
  <2>2. /\ Dropped(count - space) \in Seq(Byte)
        /\ Len(Dropped(count - space)) = Len(buffer) - (count - space)
      BY <1>1, <2>1, DroppedType, DropsFromFront DEF IndInv, BufferOK
  <2>3. Len(buffer') = Len(Dropped(count - space)) + Len(read)
      BY <1>5, <1>11, <2>2, ConcatProperties
  <2>4. Len(buffer') = Capacity
    <3> DEFINE d == Len(Dropped(count - space))
               b == Len(buffer)
               r == Len(read)
    <3>1. Len(buffer') = d + r /\ r = count /\ d = b - (count - space)
          /\ space = Capacity - b /\ b \in Nat
        BY <1>1, <1>5, <2>2, <2>3 DEF space
    <3> HIDE DEF d, b, r
    <3> QED  BY <1>1, <1>2, <3>1
  <2>5. SearchOK'
      BY <1>1, <1>3, <1>9, <1>11, <2>4
         DEF SearchOK, MaybeStart, FRAME_SEPARATORS_COUNT, parserVars
  <2> QED  BY <1>4, <1>11, <2>5 DEF LeftInv, CollectOK, parserVars
<1> QED  BY <1>3, <1>7, <1>8, <1>10, <1>11

LEMMA SearchingLeft ==
    ASSUME IndInv, LeftInv, SeparatorSeen \/ GarbageSeen
    PROVE  LeftInv'
<1>1. /\ processing /\ ~frame_start_found
      /\ pos' = pos + 1
      /\ UNCHANGED <<buffer, frame_start_found, processing>>
    BY DEF SeparatorSeen, GarbageSeen, Searching, InLoop
<1>2. /\ pos \in Nat /\ bytes_to_drop \in Nat /\ bytes_to_drop <= pos
    BY Numbers DEF IndInv, ParserOK
<1>3. /\ pos - bytes_to_drop <= 2
      /\ \A i \in bytes_to_drop + 1 .. pos : MaybeStart(i)
    BY <1>1 DEF LeftInv, SearchOK, FRAME_SEPARATORS_COUNT
<1>4. CASE SeparatorSeen
  <2>1. /\ buffer[pos + 1] = SEPARATOR_BYTE
        /\ bytes_to_drop' = IF pos + 1 - bytes_to_drop > 2 THEN pos + 1 - 2
                            ELSE bytes_to_drop
      BY <1>4 DEF SeparatorSeen, Current, FRAME_SEPARATORS_COUNT
  <2> DEFINE next == IF pos + 1 - bytes_to_drop > 2 THEN pos + 1 - 2
                     ELSE bytes_to_drop
  <2>2. PICK from \in Nat : from = next
      BY <1>2
  <2>3. /\ bytes_to_drop <= from
        /\ pos + 1 - from <= 2
      BY <1>2, <1>3, <2>2
  <2>4. MaybeStart(pos + 1)
      BY <2>1 DEF MaybeStart
  <2>5. from = bytes_to_drop'
      BY <2>1, <2>2
  <2> HIDE DEF next
  <2>6. ASSUME NEW i \in from + 1 .. pos + 1 PROVE MaybeStart(i)'
    <3>1. i \in Int /\ from + 1 <= i /\ i <= pos + 1
        BY <1>2
    <3>2. MaybeStart(i)
      <4>1. CASE i = pos + 1
          BY <2>4, <4>1, Zenon
      <4>2. CASE i # pos + 1
        <5>1. i \in bytes_to_drop + 1 .. pos
            BY <1>2, <2>3, <3>1, <4>2
        <5> QED  BY <1>3, <5>1
      <4> QED  BY <4>1, <4>2
    <3> QED  BY <1>1, <3>2 DEF MaybeStart
  <2>7. SearchOK'
    <3>1. PICK to \in Nat : to = pos + 1
        BY <1>2
    <3>2. to - from <= FRAME_SEPARATORS_COUNT
        BY <1>2, <2>3, <3>1 DEF FRAME_SEPARATORS_COUNT
    <3>3. pos' = to
        BY <1>1, <3>1
    <3>4. \A i \in from + 1 .. to : MaybeStart(i)'
        BY <2>6, <3>1
    <3>5. bytes_to_drop' = from
        BY <2>5
    <3> QED  BY <3>2, <3>4, <3>5, <3>3, SearchingFrom
  <2> QED  BY <1>1, <2>7 DEF LeftInv, AllSeen, CollectOK
<1>5. CASE GarbageSeen
  <2>1. bytes_to_drop' = pos + 1
      BY <1>5 DEF GarbageSeen, UpToHere
  <2>2. SearchOK'
      BY <1>1, <1>2, <2>1 DEF SearchOK, MaybeStart, FRAME_SEPARATORS_COUNT
  <2> QED  BY <1>1, <2>2 DEF LeftInv, AllSeen, CollectOK
<1> QED  BY <1>4, <1>5

LEMMA CollectingLeft ==
    ASSUME IndInv, LeftInv, SizeOK, SizeOK',
           \/ StartFound
           \/ ByteCollected
           \/ WrongPostByte
           \/ HeaderCollected
           \/ DataCollected
    PROVE  LeftInv'
<1>1. processing' = TRUE
    BY DEF IndInv, ParserOK, StartFound, ByteCollected, WrongPostByte,
           HeaderCollected, DataCollected, Searching, Collecting, InLoop,
           loopVars
<1>2. AllSeen'
    BY <1>1 DEF AllSeen
<1>3. pos \in Nat /\ bytes_to_drop \in Nat /\ sep_count \in Nat
      /\ Needed \in Nat \ {0} /\ Needed' \in Nat \ {0}
  <2>1. Needed' \in Nat \ {0}
      BY DEF SizeOK, Needed, TrailerSize, FRAME_HEADER_SIZE
  <2> QED  BY <2>1, Numbers, NeededType DEF IndInv, ParserOK
<1>4. CASE StartOver /\ UNCHANGED loopVars
    BY <1>2, <1>3, <1>4, StartOverLeft DEF loopVars
<1>5. CASE StartFound
  <2>1. /\ frame_start_found' = TRUE /\ pos' = 3 /\ sep_count' = sep_count
        /\ current_frame' = current_frame /\ ~frame_start_found
      BY <1>3, <1>5 DEF StartFound, Searching, FRAME_SEPARATORS_COUNT
  <2>2. sep_count = 0 /\ current_frame.status = "FRAME_EMPTY"
      BY <2>1, Numbers DEF IndInv, CountersDescribeBuffer
  <2>3. pos' - sep_count' < Needed'
      BY <2>1, <2>2 DEF Needed, FRAME_HEADER_SIZE
  <2> QED  BY <1>2, <2>1, <2>3 DEF LeftInv, SearchOK, CollectOK
<1>6. CASE ByteCollected
  <2>1. /\ frame_start_found /\ UNCHANGED <<frame_start_found, current_frame>>
        /\ sep_count' = Counted /\ pos' = pos + 1
        /\ pos + 1 - Counted # Needed
      BY <1>6 DEF ByteCollected, Collecting, Collected
  <2>2. pos - sep_count < Needed
      BY <2>1 DEF LeftInv, CollectOK
  <2>3. Counted = sep_count + 1 \/ Counted = sep_count
      BY DEF Counted
  <2>4. Needed' = Needed
      BY <2>1 DEF Needed
  <2>5. pos' - sep_count' < Needed'
      BY <1>3, <2>1, <2>2, <2>3, <2>4
  <2> QED  BY <1>2, <2>1, <2>5 DEF LeftInv, SearchOK, CollectOK
<1>7. CASE HeaderCollected
  <2>1. CASE pos' = 0 /\ sep_count' = 0 /\ UNCHANGED frame_start_found
             /\ frame_start_found
    <3>1. pos' - sep_count' < Needed'
        BY <1>3, <2>1
    <3> QED  BY <1>2, <2>1, <3>1 DEF LeftInv, SearchOK, CollectOK
  <2> QED  BY <1>4, <1>7, <2>1 DEF HeaderCollected, Collecting
<1> QED  BY <1>4, <1>5, <1>6, <1>7 DEF WrongPostByte, DataCollected

LEMMA EndLeft ==
    ASSUME IndInv, LeftInv, Capacity >= 4, ProcessEnds
    PROVE  LeftInv'
<1>1. /\ processing /\ pos >= Len(buffer)
      /\ buffer' = Dropped(bytes_to_drop)
      /\ pos' = pos - bytes_to_drop
      /\ bytes_to_drop' = 0
      /\ processing' = FALSE
      /\ UNCHANGED <<sep_count, frame_start_found, current_frame>>
    BY DEF ProcessEnds, GarbageGone
<1>2. /\ pos \in Nat /\ bytes_to_drop \in Nat /\ bytes_to_drop <= pos
      /\ Len(buffer) \in Nat /\ pos = Len(buffer) /\ IsSequence(buffer)
    BY <1>1, Numbers DEF IndInv, ParserOK, BufferOK
<1>3. /\ Len(buffer') = Len(buffer) - bytes_to_drop
      /\ \A i \in 1 .. Len(buffer) - bytes_to_drop :
            buffer'[i] = buffer[bytes_to_drop + i]
    BY <1>1, <1>2, DropsFromFront
<1>4. AllSeen'
    BY <1>1, <1>2, <1>3 DEF AllSeen
<1>5. CASE frame_start_found
  <2>1. pos' = pos
      BY <1>1, <1>2, <1>5 DEF IndInv, CountersDescribeBuffer
  <2> QED
      BY <1>1, <1>4, <1>5, <2>1 DEF LeftInv, SearchOK, CollectOK, Needed
<1>6. CASE ~frame_start_found
  <2>1. /\ pos - bytes_to_drop <= 2
        /\ \A i \in bytes_to_drop + 1 .. pos : MaybeStart(i)
      BY <1>6 DEF LeftInv, SearchOK, FRAME_SEPARATORS_COUNT
  <2>2. ASSUME NEW i \in 1 .. pos - bytes_to_drop
        PROVE  buffer'[i] = SEPARATOR_BYTE
    <3> DEFINE k == bytes_to_drop + i
    <3>1. k \in bytes_to_drop + 1 .. pos
        BY <1>2
    <3>2. ~(k <= 2 /\ Len(buffer) = Capacity)
        BY <1>2, <2>1, CapacityInt
    <3> HIDE DEF k
    <3>3. buffer[k] = SEPARATOR_BYTE
        BY <2>1, <3>1, <3>2 DEF MaybeStart, FRAME_SEPARATORS_COUNT
    <3> QED  BY <1>2, <1>3, <3>3 DEF k
  <2>3. SearchOK'
      BY <1>1, <1>2, <2>1, <2>2
         DEF SearchOK, MaybeStart, FRAME_SEPARATORS_COUNT
  <2> QED  BY <1>1, <1>4, <1>6, <2>3 DEF LeftInv, CollectOK
<1> QED  BY <1>5, <1>6

LEMMA ResetLeft ==
    ASSUME IndInv, LeftInv, ResetProtocol
    PROVE  LeftInv'
<1> DEFINE n == Lesser(pos, Len(buffer))
<1>1. /\ ~processing /\ buffer' = Dropped(n) /\ StartOver
      /\ UNCHANGED loopVars
    BY DEF ResetProtocol
<1>2. /\ Len(buffer) \in Nat /\ pos = Len(buffer) /\ IsSequence(buffer)
      /\ bytes_to_drop \in Nat
    BY <1>1, Numbers DEF IndInv, BufferOK, ParserOK, LeftInv, AllSeen
<1>3. n = Len(buffer)
    BY <1>2 DEF Lesser
<1> HIDE DEF n
<1>4. Len(buffer') = 0
    BY <1>1, <1>2, <1>3, DropsFromFront
<1>5. AllSeen'
    BY <1>1, <1>4 DEF AllSeen, StartOver
<1> QED  BY <1>1, <1>2, <1>5, StartOverLeft DEF loopVars

LEMMA LeftInvImplies ==
    ASSUME IndInv, LeftInv
    PROVE  OnlyUnfinishedLeft
<1> SUFFICES ASSUME ~processing PROVE OnlyUnfinishedLeft
    BY DEF OnlyUnfinishedLeft
<1>1. /\ pos = Len(buffer) /\ bytes_to_drop = 0 /\ Len(buffer) \in Nat
      /\ IsSequence(buffer)
    BY Numbers DEF LeftInv, AllSeen, IndInv, NothingToDrop, BufferOK
<1>2. ASSUME ~frame_start_found
      PROVE  Separators(buffer) = Len(buffer) /\ Len(buffer) <= 2
  <2>1. /\ Len(buffer) <= 2
        /\ \A i \in 1 .. Len(buffer) : buffer[i] = SEPARATOR_BYTE
      BY <1>1, <1>2
         DEF LeftInv, SearchOK, MaybeStart, FRAME_SEPARATORS_COUNT
  <2>2. DOMAIN buffer = 1 .. Len(buffer)
      BY <1>1, LenProperties DEF IsSequence
  <2>3. {i \in DOMAIN buffer : buffer[i] = SEPARATOR_BYTE} = 1 .. Len(buffer)
      BY <2>1, <2>2
  <2>4. Cardinality(1 .. Len(buffer)) = Len(buffer)
    <3> DEFINE n == Len(buffer)
    <3>1. n \in Nat
        BY <1>1
    <3> HIDE DEF n
    <3>2. Cardinality(1 .. n) = IF 1 > n THEN 0 ELSE n - 1 + 1
        BY <3>1, FS_Interval
    <3>3. Cardinality(1 .. n) = n
        BY <3>1, <3>2
    <3> QED  BY <3>3 DEF n
  <2> QED  BY <2>1, <2>3, <2>4 DEF Separators
<1>3. frame_start_found => Len(buffer) - sep_count < Needed
    BY <1>1 DEF LeftInv, CollectOK
<1> QED  BY <1>1, <1>2, <1>3
            DEF OnlyUnfinishedLeft, FRAME_SEPARATORS_COUNT

(***************************************************************************)
(* Between two calls process_data leaves nothing behind that it could have *)
(* dealt with: a part of a frame, or at most two separators.  This needs a *)
(* buffer of four bytes or more; ProtocolHandler asks for 251.  In a       *)
(* smaller one bytes that an overflow has moved to where two separators    *)
(* were would be taken for these.                                          *)
(***************************************************************************)
THEOREM OnlyUnfinishedIsLeft ==
    ASSUME CodesAre16Bits, Capacity >= 4
    PROVE  Spec => []OnlyUnfinishedLeft
<1> DEFINE Typed == IndInv /\ BytesOK /\ FramesOK
           Inv   == Typed /\ LeftInv
<1>1. Init => Inv
  <2> SUFFICES ASSUME Init PROVE Inv
      OBVIOUS
  <2>1. LeftInv
      BY DEF Init, LeftInv, AllSeen, SearchOK, CollectOK,
             FRAME_SEPARATORS_COUNT
  <2> QED  BY <2>1, InitTyped, InitEstablishes, TransportAssumption
<1>2. Inv /\ [Next]_vars => Inv'
  <2> SUFFICES ASSUME IndInv, BytesOK, FramesOK, LeftInv, [Next]_vars
               PROVE  Inv'
      OBVIOUS
  <2>1. IndInv' /\ BytesOK' /\ FramesOK'
      BY NextPreserves, NextTyped, TransportAssumption
  <2>2. SizeOK /\ SizeOK'
    <3>1. current_frame \in FrameType /\ current_frame' \in FrameType
        BY <2>1 DEF FramesOK
    <3>2. ASSUME NEW frame \in FrameType PROVE frame.data_size \in Nat
      <4>1. frame.data_size \in Byte
          BY FrameTypeIs, FieldTypes, Zenon
      <4> QED  BY <4>1 DEF Byte
    <3> QED  BY <3>1, <3>2 DEF SizeOK
  <2>3. ASSUME UNCHANGED vars PROVE LeftInv'
      BY <2>3, ParserLeft DEF vars
  <2>4. ASSUME Environment \/ PopFrame
               \/ (Len(incoming_queue) > 1
                   /\ DropFrames(Len(incoming_queue) - 1))
        PROVE  LeftInv'
    <3>1. UNCHANGED <<buffer, parserVars, loopVars>>
        BY <2>4 DEF Environment, SendData, Disturb, PopFrame, DropFrames
    <3> QED  BY <3>1, ParserLeft
  <2>5. ASSUME Process PROVE LeftInv'
      BY <2>2, <2>5, SearchingLeft, CollectingLeft, EndLeft DEF Process
  <2>6. LeftInv'
      BY <2>3, <2>4, <2>5, ReadLeft, ResetLeft, TransportAssumption DEF Next
  <2> QED  BY <2>1, <2>6
<1>3. Inv => OnlyUnfinishedLeft
    BY LeftInvImplies
<1> QED  BY <1>1, <1>2, <1>3, PTL DEF Spec

-----------------------------------------------------------------------------
(***************************************************************************)
(* A frame on the line                                                     *)
(***************************************************************************)

\* What send_data writes for a frame: the header, the rest, both.
FirstPart(frame)  == RawHeader(frame.frame_type, frame.data, frame.use_crc)
SecondPart(frame) == RawBody(frame.frame_type, frame.data, frame.use_crc)
OnLine(frame)     == FirstPart(frame) \o SecondPart(frame)

\* send_data accepts every frame, and fill_buffer has room for its position.
FramesFit ==
    \A frame \in Frames :
        /\ Accepted(frame)
        /\ get_buffer_size(NewFrame(frame.frame_type, frame.data,
                                    frame.use_crc)) <= 256

\* The fields of a frame that is sent.
LEMMA FrameFits ==
    ASSUME TransportAssumption, FramesFit, NEW frame \in Frames
    PROVE  /\ frame.frame_type \in Byte
           /\ frame.data \in Seq(Byte)
           /\ frame.use_crc \in BOOLEAN
           /\ Fits(frame.data)
<1>1. frame \in [frame_type: Byte, data: Seq(Byte), use_crc: BOOLEAN]
    BY DEF TransportAssumption
<1>2. Accepted(frame)
    BY DEF FramesFit
<1> QED  BY <1>1, <1>2 DEF Accepted, Fits

\* Its header on the line.
LEMMA FirstPartShape ==
    ASSUME TransportAssumption, FramesFit, NEW frame \in Frames
    PROVE  LET raw == FirstPart(frame)
           IN  /\ raw \in Seq(Byte)
               /\ Len(raw) \in Nat /\ Len(raw) >= 10
               /\ raw[1] = SEPARATOR_BYTE /\ raw[2] = SEPARATOR_BYTE
               /\ raw[3] # SEPARATOR_BYTE /\ raw[Len(raw)] # SEPARATOR_BYTE
               /\ \A i \in 3 .. Len(raw) - 1 :
                     raw[i] = SEPARATOR_BYTE => raw[i + 1] = SEPARATOR_POST_BYTE
               /\ Stripped(raw, 2)
                    = TwoSeparators \o HeaderOf(frame.frame_type, frame.data,
                                                frame.use_crc)
               /\ \A n \in 2 .. Len(raw) - 1 :
                     Complete(raw, 2, n) < FRAME_HEADER_SIZE
               /\ Complete(raw, 2, Len(raw)) = FRAME_HEADER_SIZE
BY FrameFits, RawHeaderShape, Zenon DEF FirstPart

\* The rest of it on the line.
LEMMA SecondPartShape ==
    ASSUME TransportAssumption, CodesAre16Bits, FramesFit, NEW frame \in Frames
    PROVE  LET raw  == SecondPart(frame)
               body == BodyOf(frame.frame_type, frame.data, frame.use_crc)
           IN  /\ raw \in Seq(Byte)
               /\ Len(raw) \in Nat \ {0}
               /\ raw[Len(raw)] # SEPARATOR_BYTE
               /\ \A i \in 1 .. Len(raw) - 1 :
                     raw[i] = SEPARATOR_BYTE => raw[i + 1] = SEPARATOR_POST_BYTE
               /\ Stripped(raw, 0) = body
               /\ \A n \in 0 .. Len(raw) - 1 : Complete(raw, 0, n) < Len(body)
               /\ Complete(raw, 0, Len(raw)) = Len(body)
BY FrameFits, RawBodyShape, ZenonT(40) DEF SecondPart

\* fill_buffer writes both, and nothing over them.
LEMMA WrittenAsEncoded ==
    ASSUME TransportAssumption, CodesAre16Bits, FramesFit,
           NEW frame \in Frames, NEW garbage
    PROVE  fill_buffer(NewFrame(frame.frame_type, frame.data, frame.use_crc),
                       garbage) = OnLine(frame)
<1>1. get_buffer_size(NewFrame(frame.frame_type, frame.data, frame.use_crc))
        <= 256
    BY DEF FramesFit
<1> QED
    BY <1>1, FrameFits, FillBufferIs, Zenon DEF OnLine, FirstPart, SecondPart

\* Two separators in a row are only at the start.
LEMMA OnLineShape ==
    ASSUME TransportAssumption, CodesAre16Bits, FramesFit, NEW frame \in Frames
    PROVE  LET e == OnLine(frame)
               m == Len(FirstPart(frame))
               n == Len(SecondPart(frame))
           IN  /\ e \in Seq(Byte)
               /\ m \in Nat /\ n \in Nat \ {0} /\ m >= 10 /\ Len(e) = m + n
               /\ \A i \in 1 .. m : e[i] = FirstPart(frame)[i]
               /\ \A i \in 1 .. n : e[m + i] = SecondPart(frame)[i]
               /\ e[1] = SEPARATOR_BYTE /\ e[2] = SEPARATOR_BYTE
               /\ e[3] # SEPARATOR_BYTE /\ e[Len(e)] # SEPARATOR_BYTE
               /\ \A i \in 2 .. Len(e) - 1 :
                     ~(e[i] = SEPARATOR_BYTE /\ e[i + 1] = SEPARATOR_BYTE)
<1> DEFINE a == FirstPart(frame)
           b == SecondPart(frame)
           e == OnLine(frame)
           m == Len(a)
           n == Len(b)
<1>1. /\ a \in Seq(Byte)
      /\ m \in Nat /\ m >= 10
      /\ a[1] = SEPARATOR_BYTE /\ a[2] = SEPARATOR_BYTE
      /\ a[3] # SEPARATOR_BYTE /\ a[m] # SEPARATOR_BYTE
      /\ \A i \in 3 .. m - 1 :
            a[i] = SEPARATOR_BYTE => a[i + 1] = SEPARATOR_POST_BYTE
    BY FirstPartShape, Zenon
<1>2. /\ b \in Seq(Byte)
      /\ n \in Nat \ {0}
      /\ b[n] # SEPARATOR_BYTE
      /\ \A i \in 1 .. n - 1 :
            b[i] = SEPARATOR_BYTE => b[i + 1] = SEPARATOR_POST_BYTE
    BY SecondPartShape, Zenon
<1>3. e = a \o b
    BY Zenon DEF OnLine
<1>4. SEPARATOR_POST_BYTE # SEPARATOR_BYTE
    BY DEF SEPARATOR_POST_BYTE, SEPARATOR_BYTE
<1> HIDE DEF a, b, e
<1>5. e \in Seq(Byte) /\ ConcatOf(e, a, b)
    BY <1>1, <1>2, <1>3, ConcatSplits
<1>6. /\ Len(e) = m + n
      /\ \A i \in 1 .. m : e[i] = a[i]
      /\ \A i \in 1 .. n : e[m + i] = b[i]
    BY <1>5, Zenon DEF ConcatOf
<1> HIDE DEF m, n
<1>7. /\ e[1] = SEPARATOR_BYTE /\ e[2] = SEPARATOR_BYTE
      /\ e[3] # SEPARATOR_BYTE
  <2>1. 1 \in 1 .. m /\ 2 \in 1 .. m /\ 3 \in 1 .. m
      BY <1>1
  <2> QED  BY <1>1, <1>6, <2>1, Zenon
<1>8. e[Len(e)] # SEPARATOR_BYTE
  <2>1. n \in 1 .. n
      BY <1>2
  <2> QED  BY <1>2, <1>6, <2>1, Zenon
<1>9. ASSUME NEW i \in 2 .. Len(e) - 1,
             e[i] = SEPARATOR_BYTE, e[i + 1] = SEPARATOR_BYTE
      PROVE  FALSE
  <2> DEFINE j == i + 1
  <2>1. i \in Nat /\ j \in Nat /\ i >= 2 /\ i < m + n
      BY <1>1, <1>2, <1>6
  <2>2. CASE i = 2
      BY <1>7, <1>9, <2>2
  <2>3. CASE i \in 3 .. m - 1
    <3>1. i \in 1 .. m /\ j \in 1 .. m
        BY <1>1, <2>3
    <3>2. e[i] = a[i] /\ e[j] = a[j]
      <4> HIDE DEF j
      <4> QED  BY <1>6, <3>1, Zenon
    <3>3. a[i] = SEPARATOR_BYTE => a[j] = SEPARATOR_POST_BYTE
        BY <1>1, <2>3
    <3>4. e[i] = SEPARATOR_BYTE /\ e[j] = SEPARATOR_BYTE
        BY <1>9
    <3> HIDE DEF j
    <3> QED  BY <1>4, <3>2, <3>3, <3>4, Zenon
  <2>4. CASE i = m
    <3>1. m \in 1 .. m
        BY <1>1
    <3> QED  BY <1>1, <1>6, <1>9, <2>4, <3>1, Zenon
  <2>5. CASE i \in m + 1 .. m + n - 1
    <3> DEFINE k == i - m
               l == k + 1
    <3>1. k \in 1 .. n - 1 /\ k \in 1 .. n /\ l \in 1 .. n
          /\ m + k = i /\ m + l = j
        BY <1>1, <1>2, <2>5
    <3>2. b[k] = SEPARATOR_BYTE => b[l] = SEPARATOR_POST_BYTE
        BY <1>2, <3>1
    <3>3. e[i] = SEPARATOR_BYTE /\ e[j] = SEPARATOR_BYTE
        BY <1>9
    <3> HIDE DEF k, l, j
    <3>4. e[m + k] = b[k] /\ e[m + l] = b[l]
        BY <1>6, <3>1, Zenon
    <3> QED  BY <1>4, <3>1, <3>2, <3>3, <3>4, Zenon
  <2> HIDE DEF j
  <2>6. i = 2 \/ i \in 3 .. m - 1 \/ i = m \/ i \in m + 1 .. m + n - 1
      BY <1>1, <1>2, <2>1
  <2> QED  BY <2>2, <2>3, <2>4, <2>5, <2>6
<1> QED
    BY <1>1, <1>2, <1>5, <1>6, <1>7, <1>8, <1>9, Zenon DEF a, b, e, m, n

-----------------------------------------------------------------------------
(***************************************************************************)
(* All the bytes that were ever written, and where in them the frames are: *)
(* bytes is the sequence of them, at[k] how many precede the k-th frame.   *)
(***************************************************************************)
LooksLikeStart(bytes, i) ==
    /\ i + 3 <= Len(bytes)
    /\ bytes[i + 1] = SEPARATOR_BYTE
    /\ bytes[i + 2] = SEPARATOR_BYTE
    /\ bytes[i + 3] # SEPARATOR_BYTE

\* The noise that the theorem is about has no two separators in a row, and
\* makes none with what was written before it.
Quiet(bytes) ==
    /\ bytes # <<>> => bytes[1] # SEPARATOR_BYTE
    /\ \A i \in 1 .. Len(bytes) - 1 :
          ~(bytes[i] = SEPARATOR_BYTE /\ bytes[i + 1] = SEPARATOR_BYTE)

QuietNoise == \A bytes \in Noise : Quiet(bytes)

FrameIsAt(bytes, i, frame) ==
    /\ i + Len(OnLine(frame)) <= Len(bytes)
    /\ \A n \in 1 .. Len(OnLine(frame)) : bytes[i + n] = OnLine(frame)[n]

QuietEnd(bytes) ==
    Len(bytes) >= 2 => ~(/\ bytes[Len(bytes) - 1] = SEPARATOR_BYTE
                         /\ bytes[Len(bytes)] = SEPARATOR_BYTE)

Layout(bytes, at, frames) ==
    /\ bytes \in Seq(Byte) /\ at \in Seq(Nat) /\ frames \in Seq(Frames)
    /\ Len(at) = Len(frames)
    /\ \A k \in 1 .. Len(frames) : FrameIsAt(bytes, at[k], frames[k])
    /\ \A j, k \in 1 .. Len(frames) :
          j < k => at[j] + Len(OnLine(frames[j])) <= at[k]
    /\ \A i \in Nat :
          LooksLikeStart(bytes, i) => \E k \in 1 .. Len(frames) : at[k] = i
    /\ QuietEnd(bytes)

\* A beginning of the bytes keeps the frames that are in it.
LEMMA FrameStays ==
    ASSUME TransportAssumption, CodesAre16Bits, FramesFit,
           NEW bytes \in Seq(Byte), NEW more \in Seq(Byte),
           NEW i \in Nat, NEW frame \in Frames, FrameIsAt(bytes, i, frame)
    PROVE  FrameIsAt(bytes \o more, i, frame)
<1> DEFINE e == OnLine(frame)
           all == bytes \o more
<1>1. e \in Seq(Byte) /\ Len(e) \in Nat
    BY OnLineShape
<1>2. /\ Len(all) = Len(bytes) + Len(more)
      /\ \A n \in 1 .. Len(bytes) : all[n] = bytes[n]
      /\ Len(bytes) \in Nat /\ Len(more) \in Nat
    BY ConcatSplits, LenProperties DEF ConcatOf
<1>3. /\ i + Len(e) <= Len(bytes)
      /\ \A n \in 1 .. Len(e) : bytes[i + n] = e[n]
    BY Zenon DEF FrameIsAt
<1> HIDE DEF e, all
<1>4. i + Len(e) <= Len(all)
    BY <1>1, <1>2, <1>3
<1>5. ASSUME NEW n \in 1 .. Len(e)
      PROVE  all[i + n] = e[n]
  <2> DEFINE k == i + n
  <2>1. k \in 1 .. Len(bytes)
      BY <1>1, <1>2, <1>3
  <2> HIDE DEF k
  <2>2. all[k] = bytes[k]
      BY <1>2, <2>1, Zenon
  <2> QED  BY <1>3, <2>2 DEF k
<1> QED  BY <1>4, <1>5, Zenon DEF FrameIsAt, e, all

\* What looks like a start, and is not one of those before, reaches into the
\* bytes that were added.
LEMMA OldStart ==
    ASSUME NEW bytes \in Seq(Byte), NEW more \in Seq(Byte), NEW i \in Nat,
           LooksLikeStart(bytes \o more, i), i + 3 <= Len(bytes)
    PROVE  LooksLikeStart(bytes, i)
<1> DEFINE all == bytes \o more
           p == i + 1
           q == i + 2
           r == i + 3
<1>1. /\ \A n \in 1 .. Len(bytes) : all[n] = bytes[n]
      /\ Len(bytes) \in Nat
    BY ConcatSplits, LenProperties DEF ConcatOf
<1>2. p \in 1 .. Len(bytes) /\ q \in 1 .. Len(bytes) /\ r \in 1 .. Len(bytes)
    BY <1>1
<1>3. /\ all[p] = SEPARATOR_BYTE /\ all[q] = SEPARATOR_BYTE
      /\ all[r] # SEPARATOR_BYTE
    BY Zenon DEF LooksLikeStart
<1> HIDE DEF all
<1>4. /\ bytes[p] = SEPARATOR_BYTE /\ bytes[q] = SEPARATOR_BYTE
      /\ bytes[r] # SEPARATOR_BYTE
  <2> HIDE DEF p, q, r
  <2> QED  BY <1>1, <1>2, <1>3, Zenon
<1> QED  BY <1>4, Zenon DEF LooksLikeStart

\* Where a new start may be: across the border, or in what was added.
LEMMA NewStart ==
    ASSUME NEW bytes \in Seq(Byte), NEW more \in Seq(Byte), QuietEnd(bytes),
           NEW i \in Nat, LooksLikeStart(bytes \o more, i),
           ~(i + 3 <= Len(bytes))
    PROVE  LET n == Len(bytes) IN
           /\ n \in Nat /\ more # <<>>
           /\ \/ i = n - 1 /\ more[1] = SEPARATOR_BYTE /\ more[2] # SEPARATOR_BYTE
                 /\ Len(more) >= 2
              \/ \E k \in Nat :
                    /\ i = n + k /\ k + 3 <= Len(more)
                    /\ more[k + 1] = SEPARATOR_BYTE
                    /\ more[k + 2] = SEPARATOR_BYTE
                    /\ more[k + 3] # SEPARATOR_BYTE
<1> DEFINE all == bytes \o more
           n == Len(bytes)
           m == Len(more)
           p == i + 1
           q == i + 2
           r == i + 3
<1>1. /\ \A j \in 1 .. n : all[j] = bytes[j]
      /\ \A j \in 1 .. m : all[n + j] = more[j]
      /\ n \in Nat /\ m \in Nat /\ Len(all) = n + m
    BY ConcatSplits, LenProperties DEF ConcatOf
<1>2. /\ all[p] = SEPARATOR_BYTE /\ all[q] = SEPARATOR_BYTE
      /\ all[r] # SEPARATOR_BYTE /\ r <= Len(all)
    BY Zenon DEF LooksLikeStart
<1> HIDE DEF all
<1>3. more # <<>>
  <2>1. m # 0
      BY <1>1, <1>2
  <2> QED  BY <2>1, EmptySeq, Zenon
<1>4. CASE i = n - 2
  <2>1. p \in 1 .. n /\ q \in 1 .. n /\ p = n - 1 /\ q = n /\ n >= 2
      BY <1>1, <1>4
  <2>2. bytes[p] = SEPARATOR_BYTE /\ bytes[q] = SEPARATOR_BYTE
    <3> HIDE DEF p, q, n
    <3> QED  BY <1>1, <1>2, <2>1, Zenon
  <2>3. FALSE
    <3> HIDE DEF p, q
    <3> QED  BY <2>1, <2>2, Zenon DEF QuietEnd
  <2> QED  BY <2>3
<1>5. CASE i = n - 1
  <2>1. 1 \in 1 .. m /\ 2 \in 1 .. m /\ q = n + 1 /\ r = n + 2 /\ m >= 2
      BY <1>1, <1>2, <1>5
  <2>2. more[1] = SEPARATOR_BYTE /\ more[2] # SEPARATOR_BYTE
    <3> HIDE DEF q, r, n, m
    <3> QED  BY <1>1, <1>2, <2>1, Zenon
  <2> QED  BY <1>1, <1>3, <1>5, <2>1, <2>2, Zenon
<1>6. CASE i >= n
  <2> DEFINE k == i - n
             x == k + 1
             y == k + 2
             z == k + 3
  <2>1. /\ k \in Nat /\ i = n + k /\ k + 3 <= m
        /\ x \in 1 .. m /\ y \in 1 .. m /\ z \in 1 .. m
        /\ p = n + x /\ q = n + y /\ r = n + z
      BY <1>1, <1>2, <1>6
  <2>2. more[x] = SEPARATOR_BYTE /\ more[y] = SEPARATOR_BYTE
        /\ more[z] # SEPARATOR_BYTE
    <3> HIDE DEF p, q, r, x, y, z, n, m
    <3> QED  BY <1>1, <1>2, <2>1, Zenon
  <2> QED  BY <1>1, <1>3, <2>1, <2>2, Zenon
<1>7. i = n - 2 \/ i = n - 1 \/ i >= n
    BY <1>1
<1> QED  BY <1>4, <1>5, <1>6, <1>7, Zenon

\* Quiet noise makes nothing look like a start.
LEMMA NoiseWritten ==
    ASSUME TransportAssumption, CodesAre16Bits, FramesFit,
           NEW bytes, NEW at, NEW frames, Layout(bytes, at, frames),
           NEW more \in Seq(Byte), Quiet(more)
    PROVE  Layout(bytes \o more, at, frames)
<1> DEFINE all == bytes \o more
           n == Len(bytes)
           m == Len(more)
<1>1. /\ bytes \in Seq(Byte) /\ at \in Seq(Nat) /\ frames \in Seq(Frames)
      /\ Len(at) = Len(frames)
      /\ \A k \in 1 .. Len(frames) : FrameIsAt(bytes, at[k], frames[k])
      /\ \A j, k \in 1 .. Len(frames) :
            j < k => at[j] + Len(OnLine(frames[j])) <= at[k]
      /\ \A i \in Nat :
            LooksLikeStart(bytes, i) => \E k \in 1 .. Len(frames) : at[k] = i
      /\ QuietEnd(bytes)
    BY Zenon DEF Layout
<1>2. all \in Seq(Byte) /\ ConcatOf(all, bytes, more)
    BY <1>1, ConcatSplits
<1>3. /\ Len(all) = n + m /\ n \in Nat /\ m \in Nat
      /\ \A j \in 1 .. n : all[j] = bytes[j]
      /\ \A j \in 1 .. m : all[n + j] = more[j]
    BY <1>1, <1>2, LenProperties DEF ConcatOf
<1>4. ASSUME NEW k \in 1 .. Len(frames)
      PROVE  FrameIsAt(all, at[k], frames[k])
  <2>1. at[k] \in Nat /\ frames[k] \in Frames
      BY <1>1
  <2> QED  BY <1>1, <2>1, FrameStays, Zenon
<1>5. ASSUME NEW i \in Nat, LooksLikeStart(all, i)
      PROVE  \E k \in 1 .. Len(frames) : at[k] = i
  <2>1. CASE i + 3 <= n
    <3>1. LooksLikeStart(bytes, i)
        BY <1>1, <1>5, <2>1, OldStart, Zenon
    <3> QED  BY <1>1, <3>1, Zenon
  <2>2. CASE ~(i + 3 <= n)
    <3>0. bytes \in Seq(Byte) /\ QuietEnd(bytes)
        BY <1>1, Zenon
    <3>1. /\ more # <<>>
          /\ \/ i = n - 1 /\ more[1] = SEPARATOR_BYTE
                /\ more[2] # SEPARATOR_BYTE /\ m >= 2
             \/ \E k \in Nat :
                   /\ i = n + k /\ k + 3 <= m
                   /\ more[k + 1] = SEPARATOR_BYTE
                   /\ more[k + 2] = SEPARATOR_BYTE
                   /\ more[k + 3] # SEPARATOR_BYTE
        BY <1>5, <2>2, <3>0, NewStart, ZenonT(40)
    <3>2. more[1] # SEPARATOR_BYTE
        BY <3>1, Zenon DEF Quiet
    <3>3. PICK k \in Nat : /\ k + 3 <= m
                           /\ more[k + 1] = SEPARATOR_BYTE
                           /\ more[k + 2] = SEPARATOR_BYTE
        BY <3>1, <3>2, Zenon
    <3> DEFINE x == k + 1
               y == k + 2
    <3>4. x \in 1 .. m - 1 /\ y = x + 1
        BY <1>3, <3>3
    <3> HIDE DEF y, x
    <3>5. ~(more[x] = SEPARATOR_BYTE /\ more[x + 1] = SEPARATOR_BYTE)
        BY <3>4, Zenon DEF Quiet
    <3>6. more[x] = SEPARATOR_BYTE /\ more[y] = SEPARATOR_BYTE
        BY <3>3 DEF x, y
    <3> QED  BY <3>4, <3>5, <3>6, Zenon
  <2> QED  BY <2>1, <2>2
<1>6. QuietEnd(all)
  <2> SUFFICES ASSUME Len(all) >= 2,
                      all[Len(all) - 1] = SEPARATOR_BYTE,
                      all[Len(all)] = SEPARATOR_BYTE
               PROVE  FALSE
      BY Zenon DEF QuietEnd
  <2> DEFINE x == Len(all) - 1
             y == Len(all)
  <2>1. CASE m = 0
    <3>1. x = n - 1 /\ y = n /\ x \in 1 .. n /\ y \in 1 .. n /\ n >= 2
        BY <1>3, <2>1
    <3> HIDE DEF x, y, n
    <3>2. bytes[x] = SEPARATOR_BYTE /\ bytes[y] = SEPARATOR_BYTE
        BY <1>3, <3>1, Zenon DEF x, y
    <3> QED  BY <1>1, <3>1, <3>2, Zenon DEF QuietEnd, n
  <2>2. CASE m = 1
    <3>1. 1 \in 1 .. m /\ y = n + 1
        BY <1>3, <2>2
    <3>2. all[n + 1] = more[1]
        BY <1>3, <3>1, Zenon
    <3>3. more # <<>>
      <4>1. m # 0
          BY <2>2
      <4> QED  BY <4>1, EmptySeq, Zenon
    <3>4. more[1] = SEPARATOR_BYTE
        BY <3>1, <3>2, Zenon
    <3> QED  BY <3>3, <3>4, Zenon DEF Quiet
  <2>3. CASE m >= 2
    <3> DEFINE u == m - 1
    <3>1. u \in 1 .. m /\ m \in 1 .. m /\ x = n + u /\ y = n + m
          /\ u \in 1 .. m - 1 /\ u + 1 = m
        BY <1>3, <2>3
    <3> HIDE DEF x, y, n, m, u
    <3>2. more[u] = SEPARATOR_BYTE /\ more[m] = SEPARATOR_BYTE
        BY <1>3, <3>1, Zenon DEF x, y
    <3>3. ~(more[u] = SEPARATOR_BYTE /\ more[u + 1] = SEPARATOR_BYTE)
        BY <3>1, Zenon DEF Quiet, m
    <3> QED  BY <3>1, <3>2, <3>3, Zenon
  <2>4. m = 0 \/ m = 1 \/ m >= 2
    <3>1. m \in Nat
        BY <1>3
    <3> HIDE DEF m
    <3> QED  BY <3>1
  <2> QED  BY <2>1, <2>2, <2>3, <2>4, Zenon
<1> QED  BY <1>1, <1>2, <1>4, <1>5, <1>6, Zenon DEF Layout

\* A frame that is written makes one start more, its own.
LEMMA FrameWritten ==
    ASSUME TransportAssumption, CodesAre16Bits, FramesFit,
           NEW bytes, NEW at, NEW frames, Layout(bytes, at, frames),
           NEW frame \in Frames
    PROVE  Layout(bytes \o OnLine(frame), Append(at, Len(bytes)),
                  Append(frames, frame))
<1> DEFINE e   == OnLine(frame)
           all == bytes \o e
           n   == Len(bytes)
           m   == Len(e)
           c   == Len(frames)
           at1 == Append(at, n)
           fr1 == Append(frames, frame)
<1>1. /\ bytes \in Seq(Byte) /\ at \in Seq(Nat) /\ frames \in Seq(Frames)
      /\ Len(at) = c
      /\ \A k \in 1 .. c : FrameIsAt(bytes, at[k], frames[k])
      /\ \A j, k \in 1 .. c : j < k => at[j] + Len(OnLine(frames[j])) <= at[k]
      /\ \A i \in Nat :
            LooksLikeStart(bytes, i) => \E k \in 1 .. c : at[k] = i
      /\ QuietEnd(bytes)
    BY Zenon DEF Layout
<1>2. /\ e \in Seq(Byte) /\ m \in Nat /\ m >= 4
      /\ e[1] = SEPARATOR_BYTE /\ e[2] = SEPARATOR_BYTE
      /\ e[3] # SEPARATOR_BYTE /\ e[m] # SEPARATOR_BYTE
      /\ \A i \in 2 .. m - 1 :
            ~(e[i] = SEPARATOR_BYTE /\ e[i + 1] = SEPARATOR_BYTE)
  <2> DEFINE x == Len(FirstPart(frame))
             y == Len(SecondPart(frame))
  <2>1. /\ e \in Seq(Byte)
        /\ x \in Nat /\ y \in Nat \ {0} /\ x >= 10 /\ m = x + y
        /\ e[1] = SEPARATOR_BYTE /\ e[2] = SEPARATOR_BYTE
        /\ e[3] # SEPARATOR_BYTE /\ e[m] # SEPARATOR_BYTE
        /\ \A i \in 2 .. m - 1 :
              ~(e[i] = SEPARATOR_BYTE /\ e[i + 1] = SEPARATOR_BYTE)
      BY OnLineShape, Zenon
  <2> HIDE DEF x, y, e, m
  <2>2. m \in Nat /\ m >= 4
      BY <2>1
  <2> QED  BY <2>1, <2>2
<1> HIDE DEF e
<1>3. all \in Seq(Byte) /\ ConcatOf(all, bytes, e)
    BY <1>1, <1>2, ConcatSplits
<1>4. /\ Len(all) = n + m /\ n \in Nat
      /\ \A j \in 1 .. n : all[j] = bytes[j]
      /\ \A j \in 1 .. m : all[n + j] = e[j]
    BY <1>1, <1>3, LenProperties DEF ConcatOf
<1>5. c \in Nat
    BY <1>1, LenProperties
<1>6. /\ at1 \in Seq(Nat) /\ Len(at1) = c + 1
      /\ fr1 \in Seq(Frames) /\ Len(fr1) = c + 1
      /\ at1[c + 1] = n /\ fr1[c + 1] = frame
      /\ \A k \in 1 .. c : at1[k] = at[k] /\ fr1[k] = frames[k]
  <2>1. /\ at1 \in Seq(Nat) /\ Len(at1) = c + 1 /\ at1[c + 1] = n
        /\ \A k \in 1 .. c : at1[k] = at[k]
      BY <1>1, <1>4, AppendProperties
  <2>2. /\ fr1 \in Seq(Frames) /\ Len(fr1) = c + 1 /\ fr1[c + 1] = frame
        /\ \A k \in 1 .. c : fr1[k] = frames[k]
      BY <1>1, AppendProperties
  <2> QED  BY <2>1, <2>2, Zenon
<1>7. \A k \in 1 .. c + 1 : k \in 1 .. c \/ k = c + 1
    BY <1>5
<1> HIDE DEF all, at1, fr1, c, n, m
<1>8. FrameIsAt(all, n, frame)
  <2>1. n + m <= Len(all)
      BY <1>2, <1>4
  <2> QED  BY <1>4, <2>1, Zenon DEF FrameIsAt, m, e
<1>9. ASSUME NEW k \in 1 .. c + 1
      PROVE  FrameIsAt(all, at1[k], fr1[k])
  <2>1. CASE k \in 1 .. c
    <3>1. at[k] \in Nat /\ frames[k] \in Frames
        BY <1>1, <2>1 DEF c
    <3>2. FrameIsAt(all, at[k], frames[k])
        BY <1>1, <1>2, <2>1, <3>1, FrameStays, Zenon DEF all
    <3> QED  BY <1>6, <2>1, <3>2, Zenon
  <2>2. CASE k = c + 1
      BY <1>6, <1>8, <2>2, Zenon
  <2> QED  BY <1>7, <2>1, <2>2, Zenon
<1>10. ASSUME NEW j \in 1 .. c + 1, NEW k \in 1 .. c + 1, j < k
       PROVE  at1[j] + Len(OnLine(fr1[j])) <= at1[k]
  <2>1. j \in 1 .. c
      BY <1>5, <1>10
  <2>2. at1[j] = at[j] /\ fr1[j] = frames[j]
      BY <1>6, <2>1, Zenon
  <2>3. CASE k \in 1 .. c
    <3>1. at[j] + Len(OnLine(frames[j])) <= at[k]
        BY <1>1, <1>10, <2>1, <2>3, Zenon
    <3> QED  BY <1>6, <2>2, <2>3, <3>1, Zenon
  <2>4. CASE k = c + 1
    <3>1. at[j] + Len(OnLine(frames[j])) <= n
        BY <1>1, <2>1, Zenon DEF FrameIsAt, n
    <3> QED  BY <1>6, <2>2, <2>4, <3>1, Zenon
  <2> QED  BY <1>7, <2>3, <2>4, Zenon
<1>11. ASSUME NEW i \in Nat, LooksLikeStart(all, i)
       PROVE  \E k \in 1 .. c + 1 : at1[k] = i
  <2>0. c + 1 \in 1 .. c + 1 /\ \A k \in 1 .. c : k \in 1 .. c + 1
      BY <1>5
  <2>1. CASE i + 3 <= n
    <3>1. LooksLikeStart(bytes, i)
        BY <1>1, <1>2, <1>11, <2>1, OldStart, Zenon DEF all, n
    <3> QED  BY <1>1, <1>6, <2>0, <3>1, Zenon
  <2>2. CASE ~(i + 3 <= n)
    <3>0. bytes \in Seq(Byte) /\ QuietEnd(bytes) /\ e \in Seq(Byte)
        BY <1>1, <1>2, Zenon
    <3>1. \/ i = n - 1 /\ e[1] = SEPARATOR_BYTE
             /\ e[2] # SEPARATOR_BYTE /\ m >= 2
          \/ \E k \in Nat :
                /\ i = n + k /\ k + 3 <= m
                /\ e[k + 1] = SEPARATOR_BYTE
                /\ e[k + 2] = SEPARATOR_BYTE
                /\ e[k + 3] # SEPARATOR_BYTE
        BY <1>11, <2>2, <3>0, NewStart, ZenonT(40) DEF all, n, m
    <3>2. PICK k \in Nat : /\ i = n + k /\ k + 3 <= m
                           /\ e[k + 1] = SEPARATOR_BYTE
                           /\ e[k + 2] = SEPARATOR_BYTE
        BY <1>2, <3>1, Zenon
    <3>3. k = 0
      <4> SUFFICES ASSUME k # 0
                   PROVE  FALSE
          OBVIOUS
      <4> DEFINE x == k + 1
                 y == k + 2
      <4>1. x \in 2 .. m - 1 /\ y = x + 1
          BY <1>2, <3>2
      <4>2. e[x] = SEPARATOR_BYTE /\ e[y] = SEPARATOR_BYTE
          BY <3>2
      <4> HIDE DEF x, y
      <4> QED  BY <1>2, <4>1, <4>2, Zenon
    <3>4. i = n
        BY <1>4, <3>2, <3>3
    <3> QED  BY <1>6, <2>0, <3>4, Zenon
  <2> QED  BY <2>1, <2>2
<1>12. QuietEnd(all)
  <2>1. m \in 1 .. m /\ Len(all) = n + m
      BY <1>2, <1>4
  <2>2. all[Len(all)] # SEPARATOR_BYTE
      BY <1>2, <1>4, <2>1, Zenon
  <2> QED  BY <2>2, Zenon DEF QuietEnd
<1>13. /\ at1 \in Seq(Nat) /\ fr1 \in Seq(Frames) /\ Len(at1) = Len(fr1)
       /\ Len(fr1) = c + 1
    BY <1>6, Zenon
<1>14. /\ \A k \in 1 .. Len(fr1) : FrameIsAt(all, at1[k], fr1[k])
       /\ \A j, k \in 1 .. Len(fr1) :
             j < k => at1[j] + Len(OnLine(fr1[j])) <= at1[k]
       /\ \A i \in Nat :
             LooksLikeStart(all, i) => \E k \in 1 .. Len(fr1) : at1[k] = i
    BY <1>9, <1>10, <1>11, <1>13, Zenon
<1> QED  BY <1>3, <1>12, <1>13, <1>14, Zenon DEF Layout, all, at1, fr1, e, n

-----------------------------------------------------------------------------
(***************************************************************************)
(* Where the parser is in what was written                                 *)
(***************************************************************************)
Done == Len(delivered)

\* The buffer and the line hold what comes after the first c bytes.
Onward(bytes, c) ==
    /\ c + Len(buffer) + Len(line) = Len(bytes)
    /\ \A i \in 1 .. Len(buffer) : buffer[i] = bytes[c + i]
    /\ \A i \in 1 .. Len(line) : line[i] = bytes[c + Len(buffer) + i]

\* While it searches: between bytes_to_drop and pos_ there are separators, at
\* most two and no fewer than there are in a row; all of a frame delivered
\* is behind, of one not delivered at most the two separators.
SearchPlace(bytes, at, c) ==
    ~frame_start_found =>
        /\ pos - bytes_to_drop <= 2
        /\ \A i \in bytes_to_drop + 1 .. pos : bytes[c + i] = SEPARATOR_BYTE
        /\ pos - bytes_to_drop < 2 =>
             \/ c + bytes_to_drop = 0
             \/ bytes[c + bytes_to_drop] # SEPARATOR_BYTE
        /\ \A k \in 1 .. Done : at[k] + 3 <= c + pos
        /\ \A k \in Done + 1 .. Len(sent) : c + pos <= at[k] + 2

NextFrame == sent[Done + 1]

\* While it collects: the bytes are those of the next frame.
HeaderPlace(at, c) ==
    frame_start_found /\ current_frame.status = "FRAME_EMPTY" =>
        /\ Done < Len(sent)
        /\ c = at[Done + 1]
        /\ 3 <= pos /\ pos < Len(FirstPart(NextFrame))

DataPlace(at, c) ==
    frame_start_found /\ current_frame.status # "FRAME_EMPTY" =>
        /\ Done < Len(sent)
        /\ c = at[Done + 1] + Len(FirstPart(NextFrame))
        /\ pos < Len(SecondPart(NextFrame))
        /\ current_frame = HeaderOnly(NextFrame.frame_type, NextFrame.data,
                                      NextFrame.use_crc)

Place(bytes, at, c) ==
    /\ c \in Nat
    /\ Layout(bytes, at, sent)
    /\ Onward(bytes, c)
    /\ SearchPlace(bytes, at, c)
    /\ HeaderPlace(at, c)
    /\ DataPlace(at, c)

DeliveredInOrder ==
    /\ Done <= Len(sent)
    /\ \A i \in 1 .. Done : Content(delivered[i]) = sent[i]

ArrivalInv ==
    /\ AllSeen
    /\ DeliveredInOrder
    /\ \E bytes, at, c : Place(bytes, at, c)

-----------------------------------------------------------------------------
(***************************************************************************)
(* Collecting a part of a frame                                            *)
(***************************************************************************)

\* How many bytes of the part are not escaped.
PlainCount == IF current_frame.status = "FRAME_EMPTY" THEN 2 ELSE 0

\* The buffer up to here is the beginning of a part of a frame.
Following(raw) ==
    /\ pos < Len(raw) /\ pos < Len(buffer)
    /\ \A i \in 1 .. pos + 1 : buffer[i] = raw[i]

\* What process_data counts is the length without the post bytes.
LEMMA CollectedIs ==
    ASSUME IndInv, BytesOK, frame_start_found,
           NEW raw \in Seq(Byte), Following(raw)
    PROVE  Collected = Complete(raw, PlainCount, pos + 1)
<1> DEFINE n     == pos + 1
           first == FirstCounted
<1>1. /\ pos \in Nat /\ Len(buffer) \in Nat /\ IsSequence(buffer)
      /\ first \in Nat \ {0} /\ first <= n
      /\ sep_count = Separators(SubSeq(buffer, first, pos))
    BY Numbers DEF IndInv, ParserOK, BufferOK
<1>2. first = PlainCount + 1
    BY DEF FirstCounted, PlainCount, FRAME_SEPARATORS_COUNT
<1>3. IsSequence(raw) /\ Len(raw) \in Nat
    BY OverSomeSet, LenProperties
<1>4. /\ n \in Nat /\ n <= Len(buffer) /\ n <= Len(raw)
      /\ \A i \in 1 .. n : buffer[i] = raw[i]
    BY <1>1, <1>3 DEF Following
<1> HIDE DEF first
<1>5. Counted = Separators(SubSeq(buffer, first, n))
  <2>1. Separators(SubSeq(buffer, first, pos + 1))
          = IF buffer[pos + 1] = SEPARATOR_BYTE
            THEN Separators(SubSeq(buffer, first, pos)) + 1
            ELSE Separators(SubSeq(buffer, first, pos))
      BY <1>1, <1>4, OneMoreByte
  <2> QED  BY <1>1, <2>1, Zenon DEF Counted, Current
<1>6. Separators(SubSeq(buffer, first, n)) = Separators(SubSeq(raw, first, n))
  <2>1. first <= n + 1
      BY <1>1
  <2> HIDE DEF n
  <2> QED  BY <1>1, <1>3, <1>4, <2>1, SamePiece
<1>7. Collected = n - Counted
  <2>1. Counted \in Nat
    <3>1. IsSequence(SubSeq(buffer, first, n))
        BY <1>1, <1>4, PieceOfSequence
    <3> QED  BY <1>5, <3>1, CountIsNumber
  <2> QED  BY <1>1, <2>1 DEF Collected
<1>8. Complete(raw, PlainCount, n) = n - Separators(SubSeq(raw, first, n))
    BY <1>2, Zenon DEF Complete
<1> QED  BY <1>5, <1>6, <1>7, <1>8, Zenon

\* At the end of the part the post bytes go, and none of them is wrong.
LEMMA UnescapingIs ==
    ASSUME BytesOK, pos \in Nat, NEW raw \in Seq(Byte), Following(raw),
           pos + 1 = Len(raw),
           \A i \in PlainCount + 1 .. Len(raw) - 1 :
              raw[i] = SEPARATOR_BYTE => raw[i + 1] = SEPARATOR_POST_BYTE
    PROVE  /\ Unescaping = Stripped(raw, PlainCount)
           /\ BadPosts = {}
<1> DEFINE n == Len(raw)
           q == PlainCount
<1>1. /\ n \in Nat \ {0} /\ pos + 1 = n
      /\ \A i \in 1 .. n : buffer[i] = raw[i]
    BY LenProperties DEF Following
<1>2. q \in {0, 2} /\ Escapable = q + 2
    BY DEF PlainCount, Escapable, FRAME_SEPARATORS_COUNT
<1>3. \A i \in q + 1 .. n - 1 :
          raw[i] = SEPARATOR_BYTE => raw[i + 1] = SEPARATOR_POST_BYTE
    OBVIOUS
<1> HIDE DEF n, q
<1>4. ASSUME NEW i \in q + 2 .. n
      PROVE  /\ i \in 1 .. n
             /\ buffer[i - 1] = raw[i - 1] /\ buffer[i] = raw[i]
             /\ raw[i - 1] = SEPARATOR_BYTE => raw[i] = SEPARATOR_POST_BYTE
  <2> DEFINE j == i - 1
  <2>1. i \in 1 .. n /\ j \in 1 .. n /\ j \in q + 1 .. n - 1 /\ j + 1 = i
      BY <1>1, <1>2
  <2> HIDE DEF j
  <2>2. buffer[j] = raw[j] /\ buffer[i] = raw[i]
        /\ (raw[j] = SEPARATOR_BYTE => raw[j + 1] = SEPARATOR_POST_BYTE)
      BY <1>1, <1>3, <2>1, Zenon
  <2> QED  BY <2>1, <2>2, Zenon DEF j
<1>5. AfterSeparator = {i \in q + 2 .. n : buffer[i - 1] = SEPARATOR_BYTE}
    BY <1>1, <1>2, Zenon DEF AfterSeparator
<1>6. PostPlaces(raw, q) = {i \in q + 2 .. n : raw[i - 1] = SEPARATOR_BYTE}
    BY Zenon DEF PostPlaces, n
<1>7. AfterSeparator = PostPlaces(raw, q)
    BY <1>4, <1>5, <1>6, Zenon
<1>8. BadPosts = {}
  <2> SUFFICES ASSUME NEW i \in AfterSeparator
               PROVE  buffer[i] = SEPARATOR_POST_BYTE
      BY Zenon DEF BadPosts
  <2>1. i \in q + 2 .. n /\ buffer[i - 1] = SEPARATOR_BYTE
      BY <1>5, Zenon
  <2> QED  BY <1>4, <2>1
<1>9. Unescaping = Stripped(raw, q)
  <2>1. Unescaping = Concatenated([i \in 1 .. n |->
                                     IF i \in AfterSeparator THEN <<>>
                                     ELSE <<buffer[i]>>])
      BY <1>1, Zenon DEF Unescaping
  <2>2. [i \in 1 .. n |-> IF i \in AfterSeparator THEN <<>> ELSE <<buffer[i]>>]
          = [i \in 1 .. n |-> IF i \in PostPlaces(raw, q) THEN <<>>
                              ELSE <<raw[i]>>]
      BY <1>1, <1>7, Zenon
  <2> QED  BY <2>1, <2>2, Zenon DEF Stripped, Pieces, n
<1> QED  BY <1>8, <1>9, Zenon DEF q

-----------------------------------------------------------------------------
(***************************************************************************)
(* The bytes that were not dropped                                         *)
(***************************************************************************)
LEMMA OnwardSame ==
    ASSUME NEW bytes, NEW c, Onward(bytes, c), UNCHANGED <<buffer, line>>
    PROVE  Onward(bytes, c)'
BY DEF Onward

\* Dropping moves on.
LEMMA OnwardDropped ==
    ASSUME IndInv, BytesOK, NEW bytes, NEW c \in Nat, Onward(bytes, c),
           NEW n \in Nat, n <= Len(buffer), buffer' = Dropped(n), line' = line
    PROVE  Onward(bytes, c + n)'
<1> DEFINE b == Len(buffer)
           l == Len(line)
           d == c + n
<1>1. /\ b \in Nat /\ l \in Nat /\ n <= b
      /\ Len(buffer') = b - n
      /\ \A i \in 1 .. b - n : buffer'[i] = buffer[n + i]
    BY DropsFromFront, LenProperties DEF IndInv, BufferOK, BytesOK
<1>2. /\ c + b + l = Len(bytes)
      /\ \A i \in 1 .. b : buffer[i] = bytes[c + i]
      /\ \A i \in 1 .. l : line[i] = bytes[c + b + i]
    BY Zenon DEF Onward
<1>3. d \in Nat
    OBVIOUS
<1> HIDE DEF b, l
<1>4. d + Len(buffer') + l = Len(bytes)
  <2> DEFINE r == Len(buffer')
             w == Len(bytes)
  <2>1. c + b + l = w
      BY <1>2, Zenon
  <2>2. r = b - n
      BY <1>1, Zenon
  <2> HIDE DEF r, w
  <2>3. d + r + l = w
      BY <1>1, <2>1, <2>2
  <2> QED  BY <2>3 DEF r, w
<1>5. ASSUME NEW i \in 1 .. Len(buffer')
      PROVE  buffer'[i] = bytes[d + i]
  <2> DEFINE k == n + i
  <2>1. i \in 1 .. b - n /\ k \in 1 .. b /\ c + k = d + i
      BY <1>1
  <2> HIDE DEF k, d
  <2>2. buffer'[i] = buffer[k] /\ buffer[k] = bytes[c + k]
      BY <1>1, <1>2, <2>1, Zenon DEF k
  <2> QED  BY <2>1, <2>2, Zenon
<1>6. ASSUME NEW i \in 1 .. l
      PROVE  line'[i] = bytes[d + Len(buffer') + i]
  <2>1. d + Len(buffer') + i = c + b + i
      BY <1>1
  <2> HIDE DEF d
  <2>2. line[i] = bytes[c + b + i]
      BY <1>2, Zenon
  <2> QED  BY <2>1, <2>2, Zenon
<1>7. Len(line') = l
    BY DEF l
<1> HIDE DEF d
<1>8. d + Len(buffer') + Len(line') = Len(bytes)
    BY <1>4, <1>7, Zenon
<1>9. \A i \in 1 .. Len(line') : line'[i] = bytes[d + Len(buffer') + i]
    BY <1>6, <1>7, Zenon
<1>10. Onward(bytes, d)'
    BY <1>5, <1>8, <1>9, Zenon DEF Onward
<1> QED  BY <1>10 DEF d

\* Reading moves bytes from the line to what is left of the buffer.
LEMMA OnwardMoved ==
    ASSUME BytesOK, NEW bytes, NEW c \in Nat,
           NEW left \in Seq(Byte),
           c + Len(left) + Len(line) = Len(bytes),
           \A i \in 1 .. Len(left) : left[i] = bytes[c + i],
           \A i \in 1 .. Len(line) : line[i] = bytes[c + Len(left) + i],
           NEW n \in Nat, n <= Len(line),
           buffer' = left \o SubSeq(line, 1, n),
           line' = SubSeq(line, n + 1, Len(line))
    PROVE  /\ Onward(bytes, c)'
           /\ Len(buffer') = Len(left) + n
<1> DEFINE b == Len(left)
           l == Len(line)
           read == SubSeq(line, 1, n)
           rest == SubSeq(line, n + 1, l)
<1>1. /\ b \in Nat /\ l \in Nat /\ n <= l
      /\ left \in Seq(Byte) /\ line \in Seq(Byte)
    BY LenProperties DEF BytesOK
<1>2. /\ c + b + l = Len(bytes)
      /\ \A i \in 1 .. b : left[i] = bytes[c + i]
      /\ \A i \in 1 .. l : line[i] = bytes[c + b + i]
    OBVIOUS
<1> HIDE DEF b, l
<1>3. /\ read \in Seq(Byte) /\ Len(read) = n
      /\ \A i \in 1 .. n : read[i] = line[i]
  <2>1. IsSequence(line)
      BY <1>1, OverSomeSet
  <2>2. /\ read \in Seq(Byte)
        /\ Len(read) = IF 1 <= n THEN n - 1 + 1 ELSE 0
        /\ \A i \in 1 .. n - 1 + 1 : read[i] = line[1 + i - 1]
      BY <1>1, <2>1, PieceType, PieceOfSequence DEF l
  <2> HIDE DEF read
  <2>3. Len(read) = n
      BY <2>2
  <2>4. \A i \in 1 .. n : i \in 1 .. n - 1 + 1 /\ 1 + i - 1 = i
      OBVIOUS
  <2>5. \A i \in 1 .. n : read[i] = line[i]
      BY <2>2, <2>4, Zenon
  <2> QED  BY <2>2, <2>3, <2>5, Zenon
<1>4. /\ Len(rest) = l - n
      /\ \A i \in 1 .. l - n : rest[i] = line[n + i]
  <2>1. IsSequence(line) /\ n + 1 \in Nat \ {0} /\ l <= Len(line)
      BY <1>1, OverSomeSet DEF l
  <2>2. /\ Len(rest) = IF n + 1 <= l THEN l - (n + 1) + 1 ELSE 0
        /\ \A i \in 1 .. l - (n + 1) + 1 : rest[i] = line[n + 1 + i - 1]
      BY <1>1, <2>1, PieceOfSequence
  <2> HIDE DEF rest
  <2>3. Len(rest) = l - n
      BY <1>1, <2>2
  <2>4. \A i \in 1 .. l - n : i \in 1 .. l - (n + 1) + 1 /\ n + 1 + i - 1 = n + i
      BY <1>1
  <2>5. \A i \in 1 .. l - n : rest[i] = line[n + i]
      BY <2>2, <2>4, Zenon
  <2> QED  BY <2>3, <2>5, Zenon
<1>5. buffer' = left \o read /\ line' = rest
    BY DEF l
<1> HIDE DEF read, rest
<1>6. ConcatOf(buffer', left, read)
    BY <1>1, <1>3, <1>5, ConcatSplits
<1>7. /\ Len(buffer') = b + n
      /\ \A i \in 1 .. b : buffer'[i] = left[i]
      /\ \A i \in 1 .. n : buffer'[b + i] = read[i]
    BY <1>3, <1>6, Zenon DEF ConcatOf, b
<1>8. ASSUME NEW i \in 1 .. b + n
      PROVE  buffer'[i] = bytes[c + i]
  <2>1. CASE i \in 1 .. b
      BY <1>2, <1>7, <2>1, Zenon
  <2>2. CASE ~(i \in 1 .. b)
    <3> DEFINE k == i - b
    <3>1. k \in 1 .. n /\ k \in 1 .. l /\ b + k = i /\ c + b + k = c + i
        BY <1>1, <2>2
    <3> HIDE DEF k
    <3>2. buffer'[b + k] = line[k] /\ line[k] = bytes[c + b + k]
        BY <1>2, <1>3, <1>7, <3>1, Zenon
    <3> QED  BY <3>1, <3>2, Zenon
  <2> QED  BY <2>1, <2>2
<1>9. ASSUME NEW i \in 1 .. l - n
      PROVE  rest[i] = bytes[c + (b + n) + i]
  <2> DEFINE k == n + i
  <2>1. k \in 1 .. l /\ c + b + k = c + (b + n) + i
      BY <1>1
  <2> HIDE DEF k
  <2>2. line[k] = bytes[c + b + k]
      BY <1>2, <2>1, Zenon
  <2> QED  BY <1>4, <2>1, <2>2, Zenon DEF k
<1>10. c + (b + n) + (l - n) = Len(bytes)
  <2> DEFINE w == Len(bytes)
  <2>1. c + b + l = w
      BY <1>2, Zenon
  <2> HIDE DEF w
  <2>2. c + (b + n) + (l - n) = w
      BY <1>1, <2>1
  <2> QED  BY <2>2 DEF w
<1>11. Onward(bytes, c)'
    BY <1>4, <1>5, <1>7, <1>8, <1>9, <1>10, Zenon DEF Onward
<1> QED  BY <1>7, <1>11, Zenon DEF b

LEMMA OnwardRead ==
    ASSUME BytesOK, NEW bytes, NEW c \in Nat, Onward(bytes, c),
           NEW n \in Nat, n <= Len(line),
           buffer' = buffer \o SubSeq(line, 1, n),
           line' = SubSeq(line, n + 1, Len(line))
    PROVE  /\ Onward(bytes, c)'
           /\ Len(buffer') = Len(buffer) + n
<1>1. /\ c + Len(buffer) + Len(line) = Len(bytes)
      /\ \A i \in 1 .. Len(buffer) : buffer[i] = bytes[c + i]
      /\ \A i \in 1 .. Len(line) : line[i] = bytes[c + Len(buffer) + i]
    BY Zenon DEF Onward
<1>2. buffer \in Seq(Byte)
    BY DEF BytesOK
<1> QED  BY <1>1, <1>2, OnwardMoved, Zenon

\* Writing adds to the end of the line.
LEMMA OnwardWritten ==
    ASSUME BytesOK, NEW bytes \in Seq(Byte), NEW c \in Nat, Onward(bytes, c),
           NEW more \in Seq(Byte), line' = line \o more, buffer' = buffer
    PROVE  Onward(bytes \o more, c)'
<1> DEFINE b   == Len(buffer)
           l   == Len(line)
           m   == Len(more)
           all == bytes \o more
<1>1. /\ b \in Nat /\ l \in Nat /\ m \in Nat /\ Len(bytes) \in Nat
      /\ line \in Seq(Byte)
    BY LenProperties DEF BytesOK
<1>2. /\ c + b + l = Len(bytes)
      /\ \A i \in 1 .. b : buffer[i] = bytes[c + i]
      /\ \A i \in 1 .. l : line[i] = bytes[c + b + i]
    BY Zenon DEF Onward
<1>3. ConcatOf(all, bytes, more) /\ ConcatOf(line', line, more)
    BY <1>1, ConcatSplits
<1> HIDE DEF all
<1>4. /\ Len(all) = Len(bytes) + m /\ Len(line') = l + m
      /\ \A i \in 1 .. Len(bytes) : all[i] = bytes[i]
      /\ \A i \in 1 .. m : all[Len(bytes) + i] = more[i]
      /\ \A i \in 1 .. l : line'[i] = line[i]
      /\ \A i \in 1 .. m : line'[l + i] = more[i]
    BY <1>3, Zenon DEF ConcatOf
<1> HIDE DEF b, l, m
<1>5. c + b + (l + m) = Len(all)
  <2>1. c + b + (l + m) = (c + b + l) + m
      BY <1>1
  <2> QED  BY <1>2, <1>4, <2>1, Zenon
<1>6. ASSUME NEW i \in 1 .. b
      PROVE  buffer[i] = all[c + i]
  <2> DEFINE k == c + i
  <2>1. k \in 1 .. Len(bytes)
      BY <1>1, <1>2
  <2> HIDE DEF k
  <2>2. all[k] = bytes[k]
      BY <1>4, <2>1, Zenon
  <2> QED  BY <1>2, <2>2, Zenon DEF k
<1>7. ASSUME NEW i \in 1 .. l + m
      PROVE  line'[i] = all[c + b + i]
  <2> DEFINE k == c + b + i
  <2>1. CASE i \in 1 .. l
    <3>1. k \in 1 .. Len(bytes)
        BY <1>1, <1>2, <2>1
    <3> HIDE DEF k
    <3>2. all[k] = bytes[k] /\ line'[i] = line[i]
        BY <1>4, <2>1, <3>1, Zenon
    <3> QED  BY <1>2, <2>1, <3>2, Zenon DEF k
  <2>2. CASE ~(i \in 1 .. l)
    <3> DEFINE j == i - l
    <3>1. j \in 1 .. m /\ l + j = i /\ Len(bytes) + j = k
      <4> DEFINE w == Len(bytes)
      <4>1. c + b + l = w
          BY <1>2, Zenon
      <4>2. j \in 1 .. m /\ l + j = i
          BY <1>1, <2>2
      <4>3. w + j = k
        <5> HIDE DEF w
        <5> QED  BY <1>1, <4>1
      <4> QED  BY <4>2, <4>3
    <3> HIDE DEF j, k
    <3>2. line'[l + j] = more[j] /\ all[Len(bytes) + j] = more[j]
        BY <1>4, <3>1, Zenon
    <3> QED  BY <3>1, <3>2, Zenon DEF k
  <2> QED  BY <2>1, <2>2
<1> QED  BY <1>4, <1>5, <1>6, <1>7, Zenon DEF Onward, b, all

-----------------------------------------------------------------------------
(***************************************************************************)
(* Steps that leave the parser where it is                                 *)
(***************************************************************************)
LEMMA PlaceFacts ==
    ASSUME IndInv, BytesOK, NEW bytes, NEW at, NEW c, Place(bytes, at, c)
    PROVE  /\ bytes \in Seq(Byte) /\ Len(bytes) \in Nat /\ c \in Nat
           /\ Len(sent) \in Nat
           /\ \A k \in 1 .. Len(sent) : at[k] \in Nat /\ sent[k] \in Frames
           /\ pos \in Nat /\ bytes_to_drop \in Nat /\ bytes_to_drop <= pos
           /\ Len(buffer) \in Nat /\ Len(line) \in Nat /\ pos <= Len(buffer)
           /\ c + Len(buffer) + Len(line) = Len(bytes)
           /\ c + pos <= Len(bytes)
<1>1. /\ c \in Nat /\ bytes \in Seq(Byte) /\ at \in Seq(Nat)
      /\ sent \in Seq(Frames) /\ Len(at) = Len(sent)
      /\ c + Len(buffer) + Len(line) = Len(bytes)
    BY Zenon DEF Place, Layout, Onward
<1>2. /\ pos \in Nat /\ bytes_to_drop \in Nat /\ bytes_to_drop <= pos
      /\ Len(buffer) \in Nat /\ pos <= Len(buffer)
    BY Numbers DEF IndInv, ParserOK
<1>3. Len(line) \in Nat /\ Len(bytes) \in Nat /\ Len(sent) \in Nat
    BY <1>1, LenProperties DEF BytesOK
<1>4. \A k \in 1 .. Len(sent) : at[k] \in Nat /\ sent[k] \in Frames
    BY <1>1
<1> DEFINE b == Len(buffer)
           l == Len(line)
           w == Len(bytes)
<1> HIDE DEF b, l, w
<1>5. c + pos <= w
  <2>1. c + b + l = w /\ c \in Nat /\ b \in Nat /\ l \in Nat /\ pos \in Nat
        /\ pos <= b
      BY <1>1, <1>2, <1>3, Zenon DEF b, l, w
  <2> QED  BY <2>1
<1> QED  BY <1>1, <1>2, <1>3, <1>4, <1>5, Zenon DEF w

\* The place is the same if the parser is.
LEMMA SamePlace ==
    ASSUME NEW bytes, NEW at, NEW c, Place(bytes, at, c), Onward(bytes, c)',
           UNCHANGED <<parserVars, bytes_to_drop, sent, delivered>>
    PROVE  Place(bytes, at, c)'
<1>1. /\ c \in Nat /\ Layout(bytes, at, sent) /\ Onward(bytes, c)
      /\ SearchPlace(bytes, at, c) /\ HeaderPlace(at, c) /\ DataPlace(at, c)
    BY Zenon DEF Place
<1>2. /\ pos' = pos /\ frame_start_found' = frame_start_found
      /\ current_frame' = current_frame /\ bytes_to_drop' = bytes_to_drop
      /\ sent' = sent /\ delivered' = delivered
    BY DEF parserVars
<1>3. Layout(bytes, at, sent)'
    BY <1>1, <1>2, Zenon
<1>4. Done' = Done /\ NextFrame' = NextFrame
    BY <1>2, Zenon DEF Done, NextFrame
<1>5. SearchPlace(bytes, at, c)'
    BY <1>1, <1>2, <1>4 DEF SearchPlace
<1>6. HeaderPlace(at, c)' /\ DataPlace(at, c)'
    BY <1>1, <1>2, <1>4 DEF HeaderPlace, DataPlace
<1> QED  BY <1>1, <1>3, <1>5, <1>6, Zenon DEF Place

\* What is written behind the parser does not move it.
LEMMA LineGrows ==
    ASSUME IndInv, BytesOK, FramesOK, DeliveredInOrder,
           NEW bytes, NEW at, NEW c, Place(bytes, at, c),
           NEW more \in Seq(Byte), NEW places,
           line' = line \o more,
           UNCHANGED <<buffer, parserVars, loopVars, delivered>>,
           Layout(bytes \o more, places, sent'),
           Len(sent) <= Len(sent'),
           \A k \in 1 .. Len(sent) : places[k] = at[k] /\ sent'[k] = sent[k],
           \A k \in Len(sent) + 1 .. Len(sent') : Len(bytes) <= places[k]
    PROVE  Place(bytes \o more, places, c)'
<1> DEFINE all == bytes \o more
           w   == Len(bytes)
           s   == Len(sent)
           t   == Len(sent')
           d   == Done
<1>1. /\ c \in Nat /\ Layout(bytes, at, sent) /\ Onward(bytes, c)
      /\ SearchPlace(bytes, at, c) /\ HeaderPlace(at, c) /\ DataPlace(at, c)
    BY Zenon DEF Place
<1>2. /\ pos' = pos /\ frame_start_found' = frame_start_found
      /\ current_frame' = current_frame /\ bytes_to_drop' = bytes_to_drop
      /\ delivered' = delivered /\ buffer' = buffer
    BY DEF parserVars, loopVars
<1>3. /\ bytes \in Seq(Byte) /\ w \in Nat /\ s \in Nat
      /\ \A k \in 1 .. s : at[k] \in Nat
      /\ pos \in Nat /\ bytes_to_drop \in Nat /\ bytes_to_drop <= pos
      /\ c + pos <= w
    BY PlaceFacts, Zenon
<1>4. d \in Nat /\ d <= s /\ Done' = d
  <2>1. delivered' = delivered /\ Done <= Len(sent)
      BY <1>2, Zenon DEF DeliveredInOrder
  <2>2. Done \in Nat
      BY LenProperties DEF FramesOK, Done
  <2> QED  BY <2>1, <2>2, Zenon DEF Done
<1>5. t \in Nat /\ all \in Seq(Byte)
  <2>1. sent' \in Seq(Frames) /\ all \in Seq(Byte)
      BY Zenon DEF Layout
  <2> QED  BY <2>1, LenProperties
<1>6. \A i \in 1 .. w : all[i] = bytes[i]
    BY <1>3, ConcatSplits DEF ConcatOf
<1>7. Onward(all, c)'
    BY <1>1, <1>2, <1>3, OnwardWritten
<1>8. /\ s <= t
      /\ \A k \in 1 .. s : places[k] = at[k] /\ sent'[k] = sent[k]
      /\ \A k \in s + 1 .. t : w <= places[k]
    OBVIOUS
<1> HIDE DEF all, w, s, t, d
<1>9. SearchPlace(all, places, c)'
  <2> SUFFICES ASSUME ~frame_start_found
               PROVE  /\ pos - bytes_to_drop <= 2
                      /\ \A i \in bytes_to_drop + 1 .. pos :
                            all[c + i] = SEPARATOR_BYTE
                      /\ pos - bytes_to_drop < 2 =>
                           \/ c + bytes_to_drop = 0
                           \/ all[c + bytes_to_drop] # SEPARATOR_BYTE
                      /\ \A k \in 1 .. d : places[k] + 3 <= c + pos
                      /\ \A k \in d + 1 .. t : c + pos <= places[k] + 2
      BY <1>2, <1>4, Zenon DEF SearchPlace, t
  <2>1. /\ pos - bytes_to_drop <= 2
        /\ \A i \in bytes_to_drop + 1 .. pos : bytes[c + i] = SEPARATOR_BYTE
        /\ pos - bytes_to_drop < 2 =>
             \/ c + bytes_to_drop = 0
             \/ bytes[c + bytes_to_drop] # SEPARATOR_BYTE
        /\ \A k \in 1 .. d : at[k] + 3 <= c + pos
        /\ \A k \in d + 1 .. s : c + pos <= at[k] + 2
      BY <1>1, Zenon DEF SearchPlace, d, s
  <2>2. ASSUME NEW i \in bytes_to_drop + 1 .. pos
        PROVE  all[c + i] = SEPARATOR_BYTE
    <3> DEFINE x == c + i
    <3>1. x \in 1 .. w
        BY <1>1, <1>3
    <3> HIDE DEF x
    <3>2. all[x] = bytes[x]
        BY <1>6, <3>1, Zenon
    <3> QED  BY <2>1, <3>2, Zenon DEF x
  <2>3. ASSUME pos - bytes_to_drop < 2, c + bytes_to_drop # 0
        PROVE  all[c + bytes_to_drop] # SEPARATOR_BYTE
    <3> DEFINE x == c + bytes_to_drop
    <3>1. x \in 1 .. w
        BY <1>1, <1>3, <2>3
    <3> HIDE DEF x
    <3>2. all[x] = bytes[x]
        BY <1>6, <3>1, Zenon
    <3> QED  BY <2>1, <2>3, <3>2, Zenon DEF x
  <2>4. ASSUME NEW k \in 1 .. d
        PROVE  places[k] + 3 <= c + pos
    <3>1. k \in 1 .. s
        BY <1>3, <1>4
    <3> QED  BY <1>8, <2>1, <3>1, Zenon
  <2>5. ASSUME NEW k \in d + 1 .. t
        PROVE  c + pos <= places[k] + 2
    <3>1. CASE k \in d + 1 .. s
      <4>1. k \in 1 .. s
          BY <1>3, <1>4, <3>1
      <4> QED  BY <1>8, <2>1, <3>1, <4>1, Zenon
    <3>2. CASE k \in s + 1 .. t
      <4>1. w <= places[k]
          BY <1>8, <3>2, Zenon
      <4>2. places[k] \in Nat
        <5>1. places \in Seq(Nat) /\ Len(places) = t
            BY Zenon DEF Layout, t
        <5>2. k \in 1 .. t
            BY <1>3, <3>2
        <5> QED  BY <5>1, <5>2
      <4> DEFINE p == places[k]
      <4> HIDE DEF p
      <4>3. c + pos <= p + 2
          BY <1>1, <1>3, <4>1, <4>2 DEF p
      <4> QED  BY <4>3 DEF p
    <3>3. k \in d + 1 .. s \/ k \in s + 1 .. t
        BY <1>3, <1>4, <1>5
    <3> QED  BY <3>1, <3>2, <3>3
  <2> QED  BY <2>1, <2>2, <2>3, <2>4, <2>5, Zenon
<1>10. d < s => /\ d < t /\ NextFrame' = NextFrame
                /\ places[Done' + 1] = at[Done + 1]
  <2> SUFFICES ASSUME d < s
               PROVE  /\ d < t /\ sent'[d + 1] = sent[d + 1]
                      /\ places[d + 1] = at[d + 1]
      BY <1>4, Zenon DEF NextFrame, d
  <2>1. d + 1 \in 1 .. s /\ d < t
      BY <1>3, <1>4, <1>5, <1>8
  <2> QED  BY <1>8, <2>1, Zenon
<1>11. HeaderPlace(places, c)' /\ DataPlace(places, c)'
  <2>1. frame_start_found => d < s
      BY <1>1, Zenon DEF HeaderPlace, DataPlace, d, s
  <2>2. HeaderPlace(places, c)'
      BY <1>1, <1>2, <1>4, <1>10, <2>1 DEF HeaderPlace, d, s, t
  <2>3. DataPlace(places, c)'
      BY <1>1, <1>2, <1>4, <1>10, <2>1 DEF DataPlace, d, s, t
  <2> QED  BY <2>2, <2>3
<1> QED  BY <1>1, <1>7, <1>9, <1>11, Zenon DEF Place, all

\* send_data
LEMMA SendArrives ==
    ASSUME TransportAssumption, CodesAre16Bits, FramesFit,
           IndInv, BytesOK, FramesOK, ArrivalInv,
           NEW frame \in Frames, NEW garbage \in Garbage,
           SendData(frame, garbage)
    PROVE  ArrivalInv'
<1> DEFINE e == OnLine(frame)
           s == Len(sent)
<1>1. PICK bytes, at, c : Place(bytes, at, c)
    BY DEF ArrivalInv
<1>2. /\ sent' = Append(sent, frame)
      /\ line' = line \o e
      /\ UNCHANGED <<buffer, parserVars, loopVars, delivered>>
  <2>1. Accepted(frame)
      BY DEF FramesFit
  <2>2. fill_buffer(NewFrame(frame.frame_type, frame.data, frame.use_crc),
                    garbage) = e
      BY WrittenAsEncoded, Zenon
  <2> QED  BY <2>1, <2>2, Zenon DEF SendData, queueVars
<1>3. e \in Seq(Byte)
    BY OnLineShape
<1>4. Layout(bytes, at, sent)
    BY <1>1, Zenon DEF Place
<1> DEFINE places == Append(at, Len(bytes))
<1>5. Layout(bytes \o e, places, sent')
    BY <1>2, <1>4, FrameWritten, Zenon
<1>6. /\ at \in Seq(Nat) /\ sent \in Seq(Frames) /\ Len(at) = s /\ s \in Nat
      /\ bytes \in Seq(Byte) /\ Len(bytes) \in Nat
    BY <1>4, LenProperties DEF Layout
<1>7. /\ Len(places) = s + 1 /\ places[s + 1] = Len(bytes)
      /\ \A k \in 1 .. s : places[k] = at[k]
    BY <1>6, AppendProperties
<1>8. /\ Len(sent') = s + 1
      /\ \A k \in 1 .. s : sent'[k] = sent[k]
    BY <1>2, <1>6, AppendProperties
<1> HIDE DEF places, e, s
<1>9. /\ s <= Len(sent')
      /\ \A k \in s + 1 .. Len(sent') : Len(bytes) <= places[k]
    BY <1>6, <1>7, <1>8
<1>10. Place(bytes \o e, places, c)'
  <2>1. /\ Len(sent) <= Len(sent')
        /\ \A k \in 1 .. Len(sent) : places[k] = at[k] /\ sent'[k] = sent[k]
        /\ \A k \in Len(sent) + 1 .. Len(sent') : Len(bytes) <= places[k]
      BY <1>7, <1>8, <1>9, Zenon DEF s
  <2>2. DeliveredInOrder
      BY DEF ArrivalInv
  <2> QED  BY <1>1, <1>2, <1>3, <1>5, <2>1, <2>2, LineGrows
<1>11. AllSeen'
    BY <1>2 DEF ArrivalInv, AllSeen, parserVars, loopVars
<1>12. DeliveredInOrder'
  <2>1. /\ Done <= s /\ \A i \in 1 .. Done : Content(delivered[i]) = sent[i]
      BY DEF ArrivalInv, DeliveredInOrder, s
  <2>2. Done' = Done /\ delivered' = delivered /\ Done \in Nat
      BY <1>2, LenProperties DEF Done, FramesOK
  <2> HIDE DEF Done
  <2>3. Done' <= Len(sent')
      BY <1>6, <1>8, <2>1, <2>2
  <2>4. \A i \in 1 .. Done : Content(delivered'[i]) = sent'[i]
    <3>1. \A i \in 1 .. Done : i \in 1 .. s
        BY <1>6, <2>1, <2>2
    <3> QED  BY <1>8, <2>1, <2>2, <3>1, Zenon
  <2> QED  BY <2>2, <2>3, <2>4, Zenon DEF DeliveredInOrder
<1> QED  BY <1>10, <1>11, <1>12 DEF ArrivalInv

\* The delivered frames, when neither they nor those sent change.
LEMMA SameDelivered ==
    ASSUME DeliveredInOrder, UNCHANGED <<sent, delivered>>
    PROVE  DeliveredInOrder'
BY DEF DeliveredInOrder, Done

\* Noise
LEMMA DisturbArrives ==
    ASSUME TransportAssumption, CodesAre16Bits, FramesFit, QuietNoise,
           IndInv, BytesOK, FramesOK, ArrivalInv,
           NEW more \in Noise, Disturb(more)
    PROVE  ArrivalInv'
<1>1. PICK bytes, at, c : Place(bytes, at, c)
    BY DEF ArrivalInv
<1>2. /\ sent' = sent
      /\ line' = line \o more
      /\ UNCHANGED <<buffer, parserVars, loopVars, delivered>>
    BY Zenon DEF Disturb, queueVars
<1>3. more \in Seq(Byte) /\ Quiet(more)
    BY DEF TransportAssumption, QuietNoise
<1>4. Layout(bytes, at, sent)
    BY <1>1, Zenon DEF Place
<1>5. Layout(bytes \o more, at, sent')
    BY <1>2, <1>3, <1>4, NoiseWritten, Zenon
<1>6. /\ Len(sent) <= Len(sent')
      /\ \A k \in Len(sent) + 1 .. Len(sent') : Len(bytes) <= at[k]
  <2>1. Len(sent) \in Nat
      BY <1>4, LenProperties DEF Layout
  <2> QED  BY <1>2, <2>1
<1>7. DeliveredInOrder /\ AllSeen
    BY DEF ArrivalInv
<1>8. Place(bytes \o more, at, c)'
    BY <1>1, <1>2, <1>3, <1>5, <1>6, <1>7, LineGrows
<1>9. AllSeen'
    BY <1>2, <1>7 DEF AllSeen, parserVars, loopVars
<1>10. DeliveredInOrder'
    BY <1>2, <1>7, SameDelivered
<1> QED  BY <1>8, <1>9, <1>10 DEF ArrivalInv

\* No byte is lost for want of space.
NoOverflow ==
    ~processing /\ processing'
        => Len(buffer') + Len(line') = Len(buffer) + Len(line)

\* read_data, if what it reads fits
LEMMA ReadArrives ==
    ASSUME TransportAssumption, IndInv, BytesOK, FramesOK, ArrivalInv,
           NEW available \in Available, ReadData(available), NoOverflow
    PROVE  ArrivalInv'
<1> DEFINE count == Lesser(Lesser(available, Len(line)), Capacity)
           space == Capacity - Len(buffer)
           b     == Len(buffer)
           l     == Len(line)
<1>1. PICK bytes, at, c : Place(bytes, at, c)
    BY DEF ArrivalInv
<1>2. /\ available \in Nat /\ Capacity \in Nat
      /\ l \in Nat /\ b \in Nat
      /\ line \in Seq(Byte) /\ buffer \in Seq(Byte)
      /\ b <= Capacity
    BY LenProperties DEF TransportAssumption, BytesOK, IndInv, BufferOK
<1>3. count \in Nat /\ count <= l /\ count <= Capacity /\ space \in Nat
    BY <1>2 DEF Lesser
<1>4. /\ ~processing /\ processing' = TRUE
      /\ line' = SubSeq(line, count + 1, l)
      /\ \/ /\ buffer' = buffer \o SubSeq(line, 1, count)
            /\ UNCHANGED parserVars
         \/ /\ count > space
            /\ buffer' = Dropped(count - space) \o SubSeq(line, 1, count)
      /\ UNCHANGED <<bytes_to_drop, sent, delivered>>
    BY Zenon DEF ReadData, LostAtOverflow, queueVars
<1> HIDE DEF count
<1>5. Len(buffer') + Len(line') = b + l
    BY <1>4 DEF NoOverflow
<1>6. Len(line') = l - count /\ Len(SubSeq(line, 1, count)) = count
      /\ SubSeq(line, 1, count) \in Seq(Byte)
  <2>1. IsSequence(line) /\ count + 1 \in Nat \ {0} /\ 1 \in Nat \ {0}
      BY <1>2, <1>3, OverSomeSet
  <2>2. Len(line') = IF count + 1 <= l THEN l - (count + 1) + 1 ELSE 0
      BY <1>2, <1>4, <2>1, PieceOfSequence
  <2>3. Len(SubSeq(line, 1, count)) = IF 1 <= count THEN count - 1 + 1 ELSE 0
      BY <1>3, <2>1, PieceOfSequence
  <2>4. SubSeq(line, 1, count) \in Seq(Byte)
      BY <1>2, <1>3, PieceType
  <2> HIDE DEF l
  <2> QED  BY <1>2, <1>3, <2>2, <2>3, <2>4
<1>7. buffer' = buffer \o SubSeq(line, 1, count) /\ UNCHANGED parserVars
  <2> SUFFICES ASSUME count > space,
                      buffer' = Dropped(count - space) \o SubSeq(line, 1, count)
               PROVE  FALSE
      BY <1>4, Zenon
  <2> DEFINE n == count - space
             d == Len(Dropped(n))
             r == Len(buffer')
             k == Len(line')
  <2>1. n \in Nat /\ n <= b /\ n > 0
      BY <1>2, <1>3
  <2>2. Dropped(n) \in Seq(Byte) /\ d = b - n
      BY <1>2, <2>1, DroppedType, DropsFromFront DEF IndInv, BufferOK
  <2> HIDE DEF n
  <2>3. r = d + Len(SubSeq(line, 1, count))
      BY <1>6, <2>2, ConcatProperties DEF n
  <2>4. r = d + count /\ k = l - count /\ r + k = b + l
      BY <1>5, <1>6, <2>3, Zenon
  <2> HIDE DEF d, r, k, b, l
  <2> QED  BY <1>2, <1>3, <2>1, <2>2, <2>4
<1>8. Onward(bytes, c)'
  <2>1. Onward(bytes, c) /\ c \in Nat
      BY <1>1, Zenon DEF Place
  <2> QED  BY <1>3, <1>4, <1>7, <2>1, OnwardRead
<1>9. Place(bytes, at, c)'
    BY <1>1, <1>4, <1>7, <1>8, SamePlace
<1>10. AllSeen'
    BY <1>4 DEF AllSeen
<1>11. DeliveredInOrder'
    BY <1>4, SameDelivered DEF ArrivalInv
<1> QED  BY <1>9, <1>10, <1>11 DEF ArrivalInv

\* The end of process_data drops what was found to be garbage.
LEMMA EndArrives ==
    ASSUME IndInv, BytesOK, FramesOK, ArrivalInv, ProcessEnds
    PROVE  ArrivalInv'
<1>1. PICK bytes, at, c : Place(bytes, at, c)
    BY DEF ArrivalInv
<1>0. PICK n \in Nat : n = bytes_to_drop
    BY DEF IndInv, ParserOK
<1>2. /\ pos >= Len(buffer)
      /\ buffer' = Dropped(n) /\ pos' = pos - n /\ bytes_to_drop' = 0
      /\ frame_start_found' = frame_start_found
      /\ current_frame' = current_frame /\ line' = line
      /\ sent' = sent /\ delivered' = delivered
    BY <1>0, Zenon DEF ProcessEnds, GarbageGone, lineVars, queueVars
<1>3. /\ pos \in Nat /\ n \in Nat /\ n <= pos /\ Len(buffer) \in Nat
      /\ pos <= Len(buffer)
      /\ frame_start_found => n = 0
      /\ IsSequence(buffer)
    BY <1>0, Numbers DEF IndInv, ParserOK, BufferOK
<1>4. pos = Len(buffer)
    BY <1>2, <1>3
<1>5. Len(buffer') = Len(buffer) - n
  <2>1. n <= Len(buffer)
      BY <1>3
  <2>2. Len(Dropped(n)) = Len(buffer) - n
      BY <1>3, <2>1, DropsFromFront
  <2> QED  BY <1>2, <2>2, Zenon
<1>6. AllSeen'
    BY <1>2, <1>4, <1>5 DEF AllSeen
<1>7. DeliveredInOrder'
    BY <1>2, SameDelivered DEF ArrivalInv
<1>8. Place(bytes, at, c + n)'
  <2>1. /\ c \in Nat /\ Layout(bytes, at, sent) /\ Onward(bytes, c)
        /\ SearchPlace(bytes, at, c) /\ HeaderPlace(at, c) /\ DataPlace(at, c)
      BY <1>1, Zenon DEF Place
  <2>2. c + n \in Nat
      BY <1>3, <2>1
  <2>3. Layout(bytes, at, sent)'
      BY <1>2, <2>1, Zenon
  <2>4. Onward(bytes, c + n)'
      BY <1>2, <1>3, <2>1, OnwardDropped
  <2>5. Done' = Done /\ NextFrame' = NextFrame
      BY <1>2, Zenon DEF Done, NextFrame
  <2>6. CASE frame_start_found
    <3>1. c + n = c /\ pos' = pos
        BY <1>2, <1>3, <2>1, <2>6
    <3>2. HeaderPlace(at, c)' /\ DataPlace(at, c)' /\ SearchPlace(bytes, at, c)'
        BY <1>2, <2>1, <2>5, <2>6, <3>1
           DEF HeaderPlace, DataPlace, SearchPlace
    <3> QED  BY <2>2, <2>3, <2>4, <3>1, <3>2 DEF Place
  <2>7. CASE ~frame_start_found
    <3> DEFINE x == c + n
               y == pos - n
    <3>1. /\ pos - n <= 2
          /\ \A i \in n + 1 .. pos : bytes[c + i] = SEPARATOR_BYTE
          /\ pos - n < 2 => (c + n = 0 \/ bytes[c + n] # SEPARATOR_BYTE)
          /\ \A k \in 1 .. Done : at[k] + 3 <= c + pos
          /\ \A k \in Done + 1 .. Len(sent) : c + pos <= at[k] + 2
        BY <1>0, <2>1, <2>7, Zenon DEF SearchPlace
    <3>2. x + y = c + pos /\ x + 0 = x /\ y - 0 = y /\ x \in Nat /\ y \in Nat
        BY <1>3, <2>1
    <3>3. ASSUME NEW i \in 0 + 1 .. y PROVE bytes[x + i] = SEPARATOR_BYTE
      <4> DEFINE k == n + i
      <4>1. k \in n + 1 .. pos /\ c + k = x + i
          BY <1>3, <2>1
      <4> HIDE DEF k, x
      <4> QED  BY <3>1, <4>1, Zenon
    <3> HIDE DEF x, y
    <3>4. SearchPlace(bytes, at, x)'
      <4>1. y - 0 <= 2 /\ (y - 0 < 2 => (x + 0 = 0 \/ bytes[x + 0] # SEPARATOR_BYTE))
          BY <3>1, <3>2 DEF x, y
      <4>2. /\ \A k \in 1 .. Done : at[k] + 3 <= x + y
            /\ \A k \in Done + 1 .. Len(sent) : x + y <= at[k] + 2
          BY <3>1, <3>2, Zenon
      <4>3. pos' = y /\ bytes_to_drop' = 0 /\ sent' = sent
          BY <1>2, Zenon DEF y
      <4> QED  BY <2>5, <3>3, <4>1, <4>2, <4>3, Zenon DEF SearchPlace
    <3>5. HeaderPlace(at, x)' /\ DataPlace(at, x)'
        BY <1>2, <2>7 DEF HeaderPlace, DataPlace
    <3> QED  BY <2>2, <2>3, <2>4, <3>4, <3>5 DEF Place, x
  <2> QED  BY <2>6, <2>7
<1> QED  BY <1>6, <1>7, <1>8 DEF ArrivalInv

\* Steps of the queue and of nothing
LEMMA QueueArrives ==
    ASSUME ArrivalInv,
           UNCHANGED <<buffer, parserVars, loopVars, line, sent, delivered>>
    PROVE  ArrivalInv'
<1>1. PICK bytes, at, c : Place(bytes, at, c)
    BY DEF ArrivalInv
<1>2. Onward(bytes, c)'
    BY <1>1, OnwardSame DEF Place
<1>3. Place(bytes, at, c)'
    BY <1>1, <1>2, SamePlace DEF loopVars
<1>4. AllSeen' /\ DeliveredInOrder'
    BY SameDelivered DEF ArrivalInv, AllSeen, parserVars, loopVars
<1> QED  BY <1>3, <1>4 DEF ArrivalInv

-----------------------------------------------------------------------------
(***************************************************************************)
(* Steps of the search                                                     *)
(***************************************************************************)

\* What is known of where the frames are.
LEMMA FramesInBytes ==
    ASSUME TransportAssumption, CodesAre16Bits, FramesFit,
           NEW bytes, NEW at, NEW frames, Layout(bytes, at, frames),
           NEW k \in 1 .. Len(frames)
    PROVE  LET n == Len(OnLine(frames[k])) IN
           /\ at[k] \in Nat /\ frames[k] \in Frames
           /\ n \in Nat /\ n >= 11
           /\ at[k] + n <= Len(bytes)
           /\ bytes[at[k] + 1] = SEPARATOR_BYTE
           /\ bytes[at[k] + 2] = SEPARATOR_BYTE
           /\ bytes[at[k] + 3] # SEPARATOR_BYTE
           /\ bytes[at[k] + n] # SEPARATOR_BYTE
<1> DEFINE e == OnLine(frames[k])
           n == Len(e)
<1>1. at[k] \in Nat /\ frames[k] \in Frames
    BY DEF Layout
<1>2. /\ n \in Nat /\ n >= 11
      /\ e[1] = SEPARATOR_BYTE /\ e[2] = SEPARATOR_BYTE
      /\ e[3] # SEPARATOR_BYTE /\ e[n] # SEPARATOR_BYTE
  <2> DEFINE x == Len(FirstPart(frames[k]))
             y == Len(SecondPart(frames[k]))
  <2>1. /\ x \in Nat /\ y \in Nat \ {0} /\ x >= 10 /\ n = x + y
        /\ e[1] = SEPARATOR_BYTE /\ e[2] = SEPARATOR_BYTE
        /\ e[3] # SEPARATOR_BYTE /\ e[n] # SEPARATOR_BYTE
      BY <1>1, OnLineShape, Zenon
  <2> HIDE DEF x, y, e, n
  <2>2. n \in Nat /\ n >= 11
      BY <2>1
  <2> QED  BY <2>1, <2>2
<1>3. /\ at[k] + n <= Len(bytes)
      /\ \A i \in 1 .. n : bytes[at[k] + i] = e[i]
    BY Zenon DEF Layout, FrameIsAt
<1> HIDE DEF e, n
<1>4. 1 \in 1 .. n /\ 2 \in 1 .. n /\ 3 \in 1 .. n /\ n \in 1 .. n
    BY <1>2
<1>5. /\ bytes[at[k] + 1] = e[1] /\ bytes[at[k] + 2] = e[2]
      /\ bytes[at[k] + 3] = e[3] /\ bytes[at[k] + n] = e[n]
    BY <1>3, <1>4, Zenon
<1> QED  BY <1>1, <1>2, <1>3, <1>5, Zenon DEF n, e

\* The byte that is looked at, and the next frame's distance from it.
LEMMA LookingAt ==
    ASSUME TransportAssumption, CodesAre16Bits, FramesFit, IndInv, BytesOK,
           NEW bytes, NEW at, NEW c, Place(bytes, at, c), InLoop
    PROVE  /\ Current = bytes[c + pos + 1]
           /\ c + pos + 1 <= Len(bytes)
<1> DEFINE x == pos + 1
<1>1. /\ c \in Nat /\ pos \in Nat /\ Len(buffer) \in Nat
      /\ Len(line) \in Nat
      /\ c + Len(buffer) + Len(line) = Len(bytes)
    BY PlaceFacts, Zenon
<1>2. pos < Len(buffer)
    BY DEF InLoop
<1>3. \A i \in 1 .. Len(buffer) : buffer[i] = bytes[c + i]
    BY Zenon DEF Place, Onward
<1>4. x \in 1 .. Len(buffer) /\ c + x = c + pos + 1
    BY <1>1, <1>2
<1>5. buffer[x] = bytes[c + x]
  <2> HIDE DEF x
  <2> QED  BY <1>3, <1>4, Zenon
<1>6. c + pos + 1 <= Len(bytes)
  <2> DEFINE b == Len(buffer)
             l == Len(line)
             w == Len(bytes)
  <2>1. c \in Nat /\ pos \in Nat /\ b \in Nat /\ l \in Nat /\ pos < b
        /\ c + b + l = w
      BY <1>1, <1>2, Zenon
  <2> HIDE DEF b, l, w
  <2>2. c + pos + 1 <= w
      BY <2>1
  <2> QED  BY <2>2 DEF w
<1> QED  BY <1>4, <1>5, <1>6 DEF Current

\* A step of the search is right if it says where it is.
LEMMA SearchGoesOn ==
    ASSUME NEW bytes, NEW at, NEW c, Place(bytes, at, c),
           ~frame_start_found', UNCHANGED <<buffer, line, sent, delivered>>,
           NEW from \in Nat, NEW to \in Nat,
           bytes_to_drop' = from, pos' = to,
           to - from <= 2,
           \A i \in from + 1 .. to : bytes[c + i] = SEPARATOR_BYTE,
           to - from < 2 => c + from = 0 \/ bytes[c + from] # SEPARATOR_BYTE,
           \A k \in 1 .. Done : at[k] + 3 <= c + to,
           \A k \in Done + 1 .. Len(sent) : c + to <= at[k] + 2
    PROVE  Place(bytes, at, c)'
<1>1. c \in Nat /\ Layout(bytes, at, sent) /\ Onward(bytes, c)
    BY Zenon DEF Place
<1>2. Layout(bytes, at, sent)'
    BY <1>1, Zenon
<1>3. Onward(bytes, c)'
    BY <1>1, OnwardSame
<1>4. Done' = Done /\ Len(sent') = Len(sent)
    BY DEF Done
<1>5. SearchPlace(bytes, at, c)'
    BY <1>4, Zenon DEF SearchPlace
<1>6. HeaderPlace(at, c)' /\ DataPlace(at, c)'
    BY DEF HeaderPlace, DataPlace
<1> QED  BY <1>1, <1>2, <1>3, <1>5, <1>6, Zenon DEF Place

\* A separator is looked at: of three in a row the first can be no start.
LEMMA SeparatorArrives ==
    ASSUME TransportAssumption, CodesAre16Bits, FramesFit,
           IndInv, BytesOK, FramesOK, ArrivalInv, SeparatorSeen
    PROVE  ArrivalInv'
<1>1. PICK bytes, at, c : Place(bytes, at, c)
    BY DEF ArrivalInv
<1>2. /\ InLoop /\ ~frame_start_found /\ Current = SEPARATOR_BYTE
      /\ bytes_to_drop' = IF pos + 1 - bytes_to_drop > 2
                          THEN pos + 1 - 2 ELSE bytes_to_drop
      /\ pos' = pos + 1 /\ processing' = processing /\ processing
      /\ UNCHANGED <<buffer, frame_start_found, line, sent, delivered>>
    BY DEF SeparatorSeen, Searching, InLoop, FRAME_SEPARATORS_COUNT, lineVars,
           queueVars
<1>3. /\ c \in Nat /\ pos \in Nat /\ bytes_to_drop \in Nat
      /\ bytes_to_drop <= pos
    BY <1>1, PlaceFacts, Zenon
<1>4. /\ pos - bytes_to_drop <= 2
      /\ \A i \in bytes_to_drop + 1 .. pos : bytes[c + i] = SEPARATOR_BYTE
      /\ pos - bytes_to_drop < 2 =>
           \/ c + bytes_to_drop = 0
           \/ bytes[c + bytes_to_drop] # SEPARATOR_BYTE
      /\ \A k \in 1 .. Done : at[k] + 3 <= c + pos
      /\ \A k \in Done + 1 .. Len(sent) : c + pos <= at[k] + 2
    BY <1>1, <1>2, Zenon DEF Place, SearchPlace
<1>5. PICK to \in Nat : to = pos + 1
    BY <1>3
<1>6. bytes[c + to] = SEPARATOR_BYTE
  <2>1. bytes[c + pos + 1] = SEPARATOR_BYTE
      BY <1>1, <1>2, LookingAt, Zenon
  <2>2. c + to = c + pos + 1
      BY <1>3, <1>5
  <2> QED  BY <2>1, <2>2, Zenon
<1> DEFINE next == IF pos + 1 - bytes_to_drop > 2 THEN pos + 1 - 2
                   ELSE bytes_to_drop
<1>7. PICK from \in Nat : from = next
    BY <1>3
<1>8. /\ bytes_to_drop <= from
      /\ to - from <= 2
      /\ to - from < 2 => from = bytes_to_drop /\ pos - bytes_to_drop < 2
    BY <1>3, <1>4, <1>5, <1>7
<1>9. bytes_to_drop' = from
    BY <1>2, <1>7
<1> HIDE DEF next
<1>10. ASSUME NEW i \in from + 1 .. to
       PROVE  bytes[c + i] = SEPARATOR_BYTE
  <2>1. i = to \/ i \in bytes_to_drop + 1 .. pos
      BY <1>3, <1>5, <1>8
  <2> QED  BY <1>4, <1>6, <2>1, Zenon
<1>11. to - from < 2 => c + from = 0 \/ bytes[c + from] # SEPARATOR_BYTE
    BY <1>4, <1>8, Zenon
<1>12. Layout(bytes, at, sent) /\ Done <= Len(sent) /\ Done \in Nat
       /\ Len(sent) \in Nat
  <2>1. Layout(bytes, at, sent) /\ Done <= Len(sent)
      BY <1>1, Zenon DEF Place, ArrivalInv, DeliveredInOrder
  <2>2. Done \in Nat
      BY LenProperties DEF FramesOK, Done
  <2> QED  BY <1>1, <2>1, <2>2, PlaceFacts, Zenon
<1>13. ASSUME NEW k \in 1 .. Done
       PROVE  at[k] + 3 <= c + to
  <2>1. k \in 1 .. Len(sent)
      BY <1>12
  <2>2. at[k] \in Nat
      BY <1>12, <2>1, FramesInBytes, Zenon
  <2> DEFINE p == at[k]
  <2> HIDE DEF p
  <2>3. p + 3 <= c + pos /\ p \in Nat
      BY <1>4, <2>2, Zenon DEF p
  <2>4. p + 3 <= c + to
      BY <1>3, <1>5, <2>3
  <2> QED  BY <2>4 DEF p
<1>14. ASSUME NEW k \in Done + 1 .. Len(sent)
       PROVE  c + to <= at[k] + 2
  <2>1. k \in 1 .. Len(sent)
      BY <1>12
  <2> DEFINE p == at[k]
  <2>2. p \in Nat /\ bytes[p + 3] # SEPARATOR_BYTE
      BY <1>12, <2>1, FramesInBytes
  <2> HIDE DEF p
  <2>3. c + pos <= p + 2
      BY <1>4, Zenon DEF p
  <2>4. c + to # p + 3
      BY <1>6, <2>2
  <2>5. c + to <= p + 2
      BY <1>3, <1>5, <2>2, <2>3, <2>4
  <2> QED  BY <2>5 DEF p
<1>15. Place(bytes, at, c)'
  <2>1. pos' = to /\ ~frame_start_found'
      BY <1>2, <1>5
  <2> QED  BY <1>1, <1>2, <1>8, <1>9, <1>10, <1>11, <1>13, <1>14, <2>1,
              SearchGoesOn
<1>16. AllSeen' /\ DeliveredInOrder'
    BY <1>2, SameDelivered DEF AllSeen, ArrivalInv
<1> QED  BY <1>15, <1>16 DEF ArrivalInv

\* Anything else, not after two separators: no start is behind it.
LEMMA GarbageArrives ==
    ASSUME TransportAssumption, CodesAre16Bits, FramesFit,
           IndInv, BytesOK, FramesOK, ArrivalInv, GarbageSeen
    PROVE  ArrivalInv'
<1>1. PICK bytes, at, c : Place(bytes, at, c)
    BY DEF ArrivalInv
<1>2. /\ InLoop /\ ~frame_start_found /\ Current # SEPARATOR_BYTE
      /\ pos - bytes_to_drop # 2
      /\ bytes_to_drop' = pos + 1
      /\ pos' = pos + 1 /\ processing' = processing /\ processing
      /\ UNCHANGED <<buffer, frame_start_found, line, sent, delivered>>
    BY DEF GarbageSeen, Searching, InLoop, FRAME_SEPARATORS_COUNT, lineVars,
           queueVars, UpToHere
<1>3. /\ c \in Nat /\ pos \in Nat /\ bytes_to_drop \in Nat
      /\ bytes_to_drop <= pos
    BY <1>1, PlaceFacts, Zenon
<1>4. /\ pos - bytes_to_drop <= 2
      /\ \A i \in bytes_to_drop + 1 .. pos : bytes[c + i] = SEPARATOR_BYTE
      /\ pos - bytes_to_drop < 2 =>
           \/ c + bytes_to_drop = 0
           \/ bytes[c + bytes_to_drop] # SEPARATOR_BYTE
      /\ \A k \in 1 .. Done : at[k] + 3 <= c + pos
      /\ \A k \in Done + 1 .. Len(sent) : c + pos <= at[k] + 2
    BY <1>1, <1>2, Zenon DEF Place, SearchPlace
<1>5. PICK to \in Nat : to = pos + 1
    BY <1>3
<1>6. bytes[c + to] # SEPARATOR_BYTE
  <2>1. bytes[c + pos + 1] # SEPARATOR_BYTE
      BY <1>1, <1>2, LookingAt, Zenon
  <2>2. c + to = c + pos + 1
      BY <1>3, <1>5
  <2> QED  BY <2>1, <2>2, Zenon
<1>7. Layout(bytes, at, sent) /\ Done <= Len(sent) /\ Done \in Nat
      /\ Len(sent) \in Nat
  <2>1. Layout(bytes, at, sent) /\ Done <= Len(sent)
      BY <1>1, Zenon DEF Place, ArrivalInv, DeliveredInOrder
  <2>2. Done \in Nat
      BY LenProperties DEF FramesOK, Done
  <2> QED  BY <1>1, <2>1, <2>2, PlaceFacts, Zenon
<1>8. ASSUME NEW k \in 1 .. Done
      PROVE  at[k] + 3 <= c + to
  <2>1. k \in 1 .. Len(sent)
      BY <1>7
  <2>2. at[k] \in Nat
      BY <1>7, <2>1, FramesInBytes, Zenon
  <2> DEFINE p == at[k]
  <2> HIDE DEF p
  <2>3. p + 3 <= c + pos /\ p \in Nat
      BY <1>4, <2>2, Zenon DEF p
  <2>4. p + 3 <= c + to
      BY <1>3, <1>5, <2>3
  <2> QED  BY <2>4 DEF p
<1>9. ASSUME NEW k \in Done + 1 .. Len(sent)
      PROVE  c + to <= at[k] + 2
  <2>1. k \in 1 .. Len(sent)
      BY <1>7
  <2> DEFINE p == at[k]
  <2>2. /\ p \in Nat
        /\ bytes[p + 1] = SEPARATOR_BYTE /\ bytes[p + 2] = SEPARATOR_BYTE
      BY <1>7, <2>1, FramesInBytes
  <2> HIDE DEF p
  <2>3. c + pos <= p + 2
      BY <1>4, Zenon DEF p
  <2>4. c + pos # p + 2
    <3> SUFFICES ASSUME c + pos = p + 2
                 PROVE  FALSE
        OBVIOUS
    <3>1. pos - bytes_to_drop < 2
        BY <1>2, <1>3, <1>4
    <3>2. c + bytes_to_drop = p + 1 \/ c + bytes_to_drop = p + 2
        BY <1>3, <2>2, <3>1
    <3>3. c + bytes_to_drop # 0
        BY <2>2, <3>2
    <3>4. bytes[c + bytes_to_drop] = SEPARATOR_BYTE
        BY <2>2, <3>2, Zenon
    <3> QED  BY <1>4, <3>1, <3>3, <3>4, Zenon
  <2>5. c + to <= p + 2
      BY <1>3, <1>5, <2>2, <2>3, <2>4
  <2> QED  BY <2>5 DEF p
<1>10. Place(bytes, at, c)'
  <2>1. pos' = to /\ bytes_to_drop' = to /\ ~frame_start_found'
      BY <1>2, <1>5
  <2>2. to - to <= 2 /\ \A i \in to + 1 .. to : bytes[c + i] = SEPARATOR_BYTE
      OBVIOUS
  <2> QED  BY <1>1, <1>2, <1>6, <1>8, <1>9, <2>1, <2>2, SearchGoesOn
<1>11. AllSeen' /\ DeliveredInOrder'
    BY <1>2, SameDelivered DEF AllSeen, ArrivalInv
<1> QED  BY <1>10, <1>11 DEF ArrivalInv

\* What looks like a start is the start of the next frame.
LEMMA StartArrives ==
    ASSUME TransportAssumption, CodesAre16Bits, FramesFit,
           IndInv, BytesOK, FramesOK, ArrivalInv, StartFound
    PROVE  ArrivalInv'
<1>1. PICK bytes, at, c : Place(bytes, at, c)
    BY DEF ArrivalInv
<1>2. PICK n \in Nat : n = bytes_to_drop
    BY DEF IndInv, ParserOK
<1>3. /\ InLoop /\ ~frame_start_found /\ Current # SEPARATOR_BYTE
      /\ pos - n = 2
      /\ frame_start_found' = TRUE /\ buffer' = Dropped(n)
      /\ pos' = pos - n + 1
      /\ processing' = processing /\ processing
      /\ UNCHANGED <<current_frame, line, sent, delivered>>
    BY <1>2, Zenon DEF StartFound, Searching, InLoop, FRAME_SEPARATORS_COUNT,
                       lineVars, queueVars
<1>4. /\ c \in Nat /\ pos \in Nat /\ n <= pos /\ Len(buffer) \in Nat
      /\ pos <= Len(buffer) /\ Len(bytes) \in Nat
    BY <1>1, <1>2, PlaceFacts, Zenon
<1>5. /\ \A i \in n + 1 .. pos : bytes[c + i] = SEPARATOR_BYTE
      /\ \A k \in 1 .. Done : at[k] + 3 <= c + pos
      /\ \A k \in Done + 1 .. Len(sent) : c + pos <= at[k] + 2
    BY <1>1, <1>2, <1>3, Zenon DEF Place, SearchPlace
<1>6. Layout(bytes, at, sent) /\ Done <= Len(sent) /\ Done \in Nat
      /\ Len(sent) \in Nat /\ Onward(bytes, c)
  <2>1. Layout(bytes, at, sent) /\ Done <= Len(sent) /\ Onward(bytes, c)
      BY <1>1, Zenon DEF Place, ArrivalInv, DeliveredInOrder
  <2>2. Done \in Nat
      BY LenProperties DEF FramesOK, Done
  <2> QED  BY <1>1, <2>1, <2>2, PlaceFacts, Zenon
<1>7. PICK d \in Nat : d = c + n
    BY <1>4
<1>8. LooksLikeStart(bytes, d)
  <2> DEFINE x == n + 1
             y == n + 2
  <2>1. x \in n + 1 .. pos /\ y \in n + 1 .. pos /\ c + x = d + 1 /\ c + y = d + 2
      BY <1>3, <1>4, <1>7
  <2> HIDE DEF x, y
  <2>2. bytes[d + 1] = SEPARATOR_BYTE /\ bytes[d + 2] = SEPARATOR_BYTE
    <3>1. bytes[c + x] = SEPARATOR_BYTE /\ bytes[c + y] = SEPARATOR_BYTE
        BY <1>5, <2>1, Zenon
    <3> QED  BY <2>1, <3>1, Zenon
  <2>3. bytes[c + pos + 1] # SEPARATOR_BYTE /\ c + pos + 1 <= Len(bytes)
      BY <1>1, <1>3, LookingAt, Zenon
  <2>4. c + pos + 1 = d + 3
      BY <1>3, <1>4, <1>7
  <2>5. bytes[d + 3] # SEPARATOR_BYTE /\ d + 3 <= Len(bytes)
      BY <2>3, <2>4, Zenon
  <2> QED  BY <2>2, <2>5, Zenon DEF LooksLikeStart
<1>9. PICK k \in 1 .. Len(sent) : at[k] = d
    BY <1>6, <1>8, Zenon DEF Layout
<1>10. k \in Done + 1 .. Len(sent)
  <2> SUFFICES ASSUME k \in 1 .. Done
               PROVE  FALSE
      BY <1>6
  <2>1. d + 3 <= c + pos
      BY <1>5, <1>9, Zenon
  <2> QED  BY <1>3, <1>4, <1>7, <2>1
<1> DEFINE next == Done + 1
<1>11. next \in Done + 1 .. Len(sent) /\ next \in 1 .. Len(sent)
       /\ (next = k \/ next < k) /\ Done < Len(sent)
    BY <1>6, <1>10
<1> HIDE DEF next
<1>12. at[next] = d
  <2> DEFINE p == at[next]
             e == Len(OnLine(sent[next]))
  <2>1. p \in Nat /\ e \in Nat
      BY <1>6, <1>11, FramesInBytes, Zenon
  <2>2. c + pos <= p + 2
      BY <1>5, <1>11, Zenon
  <2>3. CASE next < k
    <3>1. p + e <= at[k]
        BY <1>6, <1>11, <2>3, Zenon DEF Layout
    <3> HIDE DEF p, e
    <3> QED  BY <1>3, <1>4, <1>7, <1>9, <2>1, <2>2, <3>1 DEF p
  <2>4. CASE next = k
      BY <1>9, <2>4
  <2> QED  BY <1>11, <2>3, <2>4
<1>13. Onward(bytes, d)'
  <2>1. n <= Len(buffer)
      BY <1>4
  <2> QED  BY <1>3, <1>4, <1>6, <1>7, <2>1, OnwardDropped
<1>14. current_frame.status = "FRAME_EMPTY"
    BY <1>3 DEF IndInv, CountersDescribeBuffer
<1>15. Done' = Done /\ NextFrame' = NextFrame /\ sent' = sent
       /\ current_frame'.status = "FRAME_EMPTY"
    BY <1>3, <1>14, Zenon DEF Done, NextFrame
<1>16. Place(bytes, at, d)'
  <2>1. Layout(bytes, at, sent)'
      BY <1>3, <1>6, Zenon
  <2>2. SearchPlace(bytes, at, d)'
      BY <1>3 DEF SearchPlace
  <2>3. HeaderPlace(at, d)'
    <3>1. pos' = 3
        BY <1>3, <1>4
    <3>2. NextFrame \in Frames
        BY <1>6, <1>11 DEF NextFrame, next, Layout
    <3> DEFINE m == Len(FirstPart(NextFrame))
    <3>3. m \in Nat /\ m >= 10
        BY <3>2, FirstPartShape, Zenon
    <3> HIDE DEF m
    <3>4. 3 < m /\ 3 <= 3
        BY <3>3
    <3>5. Done < Len(sent) /\ d = at[Done + 1]
        BY <1>11, <1>12, Zenon DEF next
    <3> QED  BY <1>15, <3>1, <3>4, <3>5, Zenon DEF HeaderPlace, m
  <2>4. DataPlace(at, d)'
      BY <1>15 DEF DataPlace
  <2> QED  BY <1>13, <2>1, <2>2, <2>3, <2>4, Zenon DEF Place
<1>17. AllSeen' /\ DeliveredInOrder'
    BY <1>3, SameDelivered DEF AllSeen, ArrivalInv
<1> QED  BY <1>16, <1>17 DEF ArrivalInv

-----------------------------------------------------------------------------
(***************************************************************************)
(* Steps of the collection                                                 *)
(***************************************************************************)
\* The two parts of any frame that was written.
LEMMA PartsInBytes ==
    ASSUME TransportAssumption, CodesAre16Bits, FramesFit,
           NEW bytes, NEW at, NEW frames, Layout(bytes, at, frames),
           NEW k \in 1 .. Len(frames)
    PROVE  LET m == Len(FirstPart(frames[k]))
               n == Len(SecondPart(frames[k]))
           IN  /\ frames[k] \in Frames
               /\ at[k] \in Nat
               /\ m \in Nat /\ m >= 10 /\ n \in Nat \ {0}
               /\ Len(OnLine(frames[k])) = m + n
               /\ at[k] + m + n <= Len(bytes)
               /\ bytes[at[k] + m + n] # SEPARATOR_BYTE
               /\ \A i \in 1 .. m : bytes[at[k] + i] = FirstPart(frames[k])[i]
               /\ \A i \in 1 .. n :
                     bytes[at[k] + m + i] = SecondPart(frames[k])[i]
<1> DEFINE p == at[k]
           f == frames[k]
           e == OnLine(f)
           m == Len(FirstPart(f))
           n == Len(SecondPart(f))
<1>1. /\ p \in Nat /\ f \in Frames /\ p + Len(e) <= Len(bytes)
      /\ bytes[p + Len(e)] # SEPARATOR_BYTE
    BY FramesInBytes
<1>2. \A i \in 1 .. Len(e) : bytes[p + i] = e[i]
    BY Zenon DEF Layout, FrameIsAt
<1>3. /\ m \in Nat /\ n \in Nat \ {0} /\ m >= 10 /\ Len(e) = m + n
      /\ \A i \in 1 .. m : e[i] = FirstPart(f)[i]
      /\ \A i \in 1 .. n : e[m + i] = SecondPart(f)[i]
    BY <1>1, OnLineShape, Zenon
<1> HIDE DEF p, f, e, m, n
<1>4. p + Len(e) = p + m + n
    BY <1>1, <1>3
<1>5. ASSUME NEW i \in 1 .. m
      PROVE  bytes[p + i] = FirstPart(f)[i]
  <2>1. i \in 1 .. Len(e)
      BY <1>3
  <2> QED  BY <1>2, <1>3, <2>1, Zenon
<1>6. ASSUME NEW i \in 1 .. n
       PROVE  bytes[p + m + i] = SecondPart(f)[i]
  <2> DEFINE j == m + i
  <2>1. j \in 1 .. Len(e) /\ p + j = p + m + i
      BY <1>1, <1>3
  <2> HIDE DEF j
  <2>2. bytes[p + j] = e[j]
      BY <1>2, <2>1, Zenon
  <2>3. e[j] = SecondPart(f)[i]
      BY <1>3, Zenon DEF j
  <2> QED  BY <2>1, <2>2, <2>3, Zenon
<1> QED
    BY <1>1, <1>3, <1>4, <1>5, <1>6, Zenon DEF p, f, e, m, n

LEMMA NextFrameFacts ==
    ASSUME TransportAssumption, CodesAre16Bits, FramesFit,
           IndInv, BytesOK, FramesOK,
           NEW bytes, NEW at, NEW c, Place(bytes, at, c), frame_start_found
    PROVE  LET m == Len(FirstPart(NextFrame))
               n == Len(SecondPart(NextFrame))
           IN  /\ Done \in Nat /\ Len(sent) \in Nat /\ Done < Len(sent)
               /\ NextFrame \in Frames
               /\ at[Done + 1] \in Nat
               /\ m \in Nat /\ m >= 10 /\ n \in Nat \ {0}
               /\ at[Done + 1] + m + n <= Len(bytes)
               /\ bytes[at[Done + 1] + m + n] # SEPARATOR_BYTE
               /\ \A i \in 1 .. m :
                     bytes[at[Done + 1] + i] = FirstPart(NextFrame)[i]
               /\ \A i \in 1 .. n :
                     bytes[at[Done + 1] + m + i] = SecondPart(NextFrame)[i]
<1> DEFINE k == Done + 1
<1>1. Layout(bytes, at, sent) /\ Done < Len(sent)
    BY Zenon DEF Place, HeaderPlace, DataPlace
<1>2. Done \in Nat /\ Len(sent) \in Nat
    BY <1>1, LenProperties DEF FramesOK, Done, Layout
<1>3. k \in 1 .. Len(sent)
    BY <1>1, <1>2
<1>4. NextFrame = sent[k]
    BY Zenon DEF NextFrame
<1> HIDE DEF k
<1> DEFINE m == Len(FirstPart(sent[k]))
           n == Len(SecondPart(sent[k]))
<1>5. /\ sent[k] \in Frames /\ at[k] \in Nat
      /\ m \in Nat /\ m >= 10 /\ n \in Nat \ {0}
      /\ at[k] + m + n <= Len(bytes)
      /\ bytes[at[k] + m + n] # SEPARATOR_BYTE
      /\ \A i \in 1 .. m : bytes[at[k] + i] = FirstPart(sent[k])[i]
      /\ \A i \in 1 .. n : bytes[at[k] + m + i] = SecondPart(sent[k])[i]
    BY <1>1, <1>3, PartsInBytes
<1> QED  BY <1>1, <1>2, <1>4, <1>5, Zenon DEF k

\* The header: what was collected is its beginning; it is complete with its
\* last byte and not before; without the post bytes it parses.
LEMMA HeaderMatches ==
    ASSUME TransportAssumption, CodesAre16Bits, FramesFit,
           IndInv, BytesOK, FramesOK,
           NEW bytes, NEW at, NEW c \in Nat, Layout(bytes, at, sent),
           Onward(bytes, c), NEW k \in 1 .. Len(sent),
           Collecting, c = at[k], 3 <= pos, pos < Len(FirstPart(sent[k])),
           current_frame.status = "FRAME_EMPTY"
    PROVE  LET raw == FirstPart(sent[k]) IN
           /\ Collected = Needed <=> pos + 1 = Len(raw)
           /\ Collected = Needed =>
                /\ BadPosts = {}
                /\ HeaderError(Unescaping) = "HEADER_ONLY"
                /\ ParsedHeader(Unescaping)
                     = HeaderOnly(sent[k].frame_type, sent[k].data,
                                  sent[k].use_crc)
<1> DEFINE raw == FirstPart(sent[k])
           m   == Len(raw)
           n   == pos + 1
<1>1. frame_start_found /\ InLoop
    BY DEF Collecting
<1>2. c = at[k] /\ 3 <= pos /\ pos < m
    OBVIOUS
<1>3. /\ sent[k] \in Frames /\ m \in Nat
      /\ \A i \in 1 .. m : bytes[c + i] = raw[i]
    BY <1>2, PartsInBytes
<1>4. /\ raw \in Seq(Byte)
      /\ \A i \in 3 .. m - 1 :
            raw[i] = SEPARATOR_BYTE => raw[i + 1] = SEPARATOR_POST_BYTE
      /\ Stripped(raw, 2)
           = TwoSeparators \o HeaderOf(sent[k].frame_type, sent[k].data,
                                       sent[k].use_crc)
      /\ \A i \in 2 .. m - 1 : Complete(raw, 2, i) < FRAME_HEADER_SIZE
      /\ Complete(raw, 2, m) = FRAME_HEADER_SIZE
    BY <1>3, FirstPartShape, Zenon
<1>5. pos \in Nat /\ Len(buffer) \in Nat /\ pos < Len(buffer)
    BY <1>1, Numbers DEF IndInv, ParserOK, InLoop
<1>6. \A i \in 1 .. Len(buffer) : buffer[i] = bytes[c + i]
    BY Zenon DEF Onward
<1> HIDE DEF raw
<1>7. Following(raw)
  <2>1. \A i \in 1 .. n : i \in 1 .. Len(buffer) /\ i \in 1 .. m
      BY <1>2, <1>3, <1>5
  <2>2. \A i \in 1 .. n : buffer[i] = raw[i]
      BY <1>3, <1>6, <2>1, Zenon
  <2> QED  BY <1>2, <1>5, <2>2, Zenon DEF Following
<1>8. PlainCount = 2
    BY DEF PlainCount
<1>9. Collected = Complete(raw, 2, n)
    BY <1>1, <1>4, <1>7, <1>8, CollectedIs, Zenon
<1>10. Needed = FRAME_HEADER_SIZE
    BY DEF Needed
<1>11. Collected = Needed <=> n = m
  <2>1. n = m \/ n \in 2 .. m - 1
      BY <1>2, <1>3, <1>5
  <2>2. CASE n = m
      BY <1>4, <1>9, <1>10, <2>2, Zenon
  <2>3. CASE n \in 2 .. m - 1
    <3>1. Complete(raw, 2, n) < FRAME_HEADER_SIZE /\ n # m
      <4>1. n # m
          BY <1>3, <2>3
      <4> QED  BY <1>4, <2>3, <4>1, Zenon
    <3>2. Complete(raw, 2, n) # FRAME_HEADER_SIZE
        BY <3>1 DEF FRAME_HEADER_SIZE
    <3> QED  BY <1>9, <1>10, <3>1, <3>2, Zenon
  <2> QED  BY <2>1, <2>2, <2>3, Zenon
<1>12. ASSUME n = m
       PROVE  /\ BadPosts = {}
              /\ Unescaping
                   = TwoSeparators \o HeaderOf(sent[k].frame_type,
                                               sent[k].data,
                                               sent[k].use_crc)
  <2>1. \A i \in PlainCount + 1 .. m - 1 :
            raw[i] = SEPARATOR_BYTE => raw[i + 1] = SEPARATOR_POST_BYTE
    <3>1. PlainCount + 1 = 3
        BY <1>8
    <3> QED  BY <1>4, <3>1, Zenon
  <2>2. Unescaping = Stripped(raw, 2) /\ BadPosts = {}
      BY <1>4, <1>5, <1>7, <1>8, <1>12, <2>1, UnescapingIs, Zenon
  <2> QED  BY <1>4, <2>2, Zenon
<1>13. ASSUME n = m
       PROVE  /\ HeaderError(Unescaping) = "HEADER_ONLY"
              /\ ParsedHeader(Unescaping)
                   = HeaderOnly(sent[k].frame_type, sent[k].data,
                                sent[k].use_crc)
  <2>1. /\ sent[k].frame_type \in Byte /\ sent[k].data \in Seq(Byte)
        /\ sent[k].use_crc \in BOOLEAN /\ Fits(sent[k].data)
      BY <1>3, FrameFits
  <2> DEFINE header == TwoSeparators \o HeaderOf(sent[k].frame_type,
                                                sent[k].data,
                                                sent[k].use_crc)
  <2>2. /\ HeaderError(header) = "HEADER_ONLY"
        /\ ParsedHeader(header)
             = HeaderOnly(sent[k].frame_type, sent[k].data,
                          sent[k].use_crc)
      BY <2>1, HeaderParsed
  <2>3. Unescaping = header
      BY <1>12, <1>13, Zenon
  <2> HIDE DEF header
  <2> QED  BY <2>2, <2>3, Zenon
<1> QED  BY <1>11, <1>12, <1>13, Zenon DEF raw

\* The data, likewise.
LEMMA DataMatches ==
    ASSUME TransportAssumption, CodesAre16Bits, FramesFit,
           IndInv, BytesOK, FramesOK,
           NEW bytes, NEW at, NEW c \in Nat, Layout(bytes, at, sent),
           Onward(bytes, c), NEW k \in 1 .. Len(sent),
           Collecting, c = at[k] + Len(FirstPart(sent[k])),
           pos < Len(SecondPart(sent[k])),
           current_frame = HeaderOnly(sent[k].frame_type, sent[k].data,
                                      sent[k].use_crc),
           current_frame.status # "FRAME_EMPTY"
    PROVE  LET raw == SecondPart(sent[k])
               got == ParsedData(current_frame, Unescaping)
           IN
           /\ Collected = Needed <=> pos + 1 = Len(raw)
           /\ Collected = Needed =>
                /\ BadPosts = {}
                /\ Unescaping \in Seq(Byte)
                /\ DataError(current_frame, Unescaping) = "COMPLETE_FRAME"
                /\ got.frame_type = sent[k].frame_type
                /\ got.data = sent[k].data
                /\ got.use_crc = sent[k].use_crc
<1> DEFINE raw  == SecondPart(sent[k])
           body == BodyOf(sent[k].frame_type, sent[k].data,
                          sent[k].use_crc)
           got  == ParsedData(current_frame, body)
           m    == Len(raw)
           n    == pos + 1
<1>1. frame_start_found /\ InLoop
    BY DEF Collecting
<1>2. /\ c = at[k] + Len(FirstPart(sent[k])) /\ pos < m
      /\ current_frame = HeaderOnly(sent[k].frame_type, sent[k].data,
                                    sent[k].use_crc)
    OBVIOUS
<1>3. /\ sent[k] \in Frames /\ m \in Nat
      /\ \A i \in 1 .. m : bytes[c + i] = raw[i]
    BY <1>2, PartsInBytes
<1>4. /\ raw \in Seq(Byte)
      /\ \A i \in 1 .. m - 1 :
            raw[i] = SEPARATOR_BYTE => raw[i + 1] = SEPARATOR_POST_BYTE
      /\ Stripped(raw, 0) = body
      /\ \A i \in 0 .. m - 1 : Complete(raw, 0, i) < Len(body)
      /\ Complete(raw, 0, m) = Len(body)
    BY <1>3, SecondPartShape, Zenon
<1>5. /\ body \in Seq(Byte)
      /\ Len(body) = current_frame.data_size + TrailerSize(current_frame)
      /\ DataError(current_frame, body) = "COMPLETE_FRAME"
      /\ got.frame_type = sent[k].frame_type
      /\ got.data = sent[k].data
      /\ got.use_crc = sent[k].use_crc
  <2>1. /\ sent[k].frame_type \in Byte /\ sent[k].data \in Seq(Byte)
        /\ sent[k].use_crc \in BOOLEAN /\ Fits(sent[k].data)
      BY <1>3, FrameFits
  <2> HIDE DEF body, got
  <2> QED  BY <1>2, <2>1, BodyParsed DEF body, got
<1>6. pos \in Nat /\ Len(buffer) \in Nat /\ pos < Len(buffer)
    BY <1>1, Numbers DEF IndInv, ParserOK, InLoop
<1>7. \A i \in 1 .. Len(buffer) : buffer[i] = bytes[c + i]
    BY Zenon DEF Onward
<1> HIDE DEF raw, body
<1>8. Following(raw)
  <2>1. \A i \in 1 .. n : i \in 1 .. Len(buffer) /\ i \in 1 .. m
      BY <1>2, <1>3, <1>6
  <2>2. \A i \in 1 .. n : buffer[i] = raw[i]
      BY <1>3, <1>7, <2>1, Zenon
  <2> QED  BY <1>2, <1>6, <2>2, Zenon DEF Following
<1>9. PlainCount = 0
    BY DEF PlainCount
<1>10. Collected = Complete(raw, 0, n)
    BY <1>1, <1>4, <1>8, <1>9, CollectedIs, Zenon
<1>11. Needed = Len(body)
    BY <1>5, Zenon DEF Needed
<1>12. Collected = Needed <=> n = m
  <2>1. n = m \/ n \in 0 .. m - 1
      BY <1>2, <1>3, <1>6
  <2>2. CASE n = m
      BY <1>4, <1>10, <1>11, <2>2, Zenon
  <2>3. CASE n \in 0 .. m - 1
    <3> DEFINE l == Len(body)
               x == Complete(raw, 0, n)
    <3>1. x < l /\ n # m
      <4>1. n # m
          BY <1>3, <2>3
      <4> QED  BY <1>4, <2>3, <4>1, Zenon
    <3>2. l \in Nat
        BY <1>5, LenProperties
    <3> HIDE DEF l, x
    <3>3. x # l
        BY <3>1, <3>2
    <3> QED  BY <1>10, <1>11, <3>1, <3>3, Zenon DEF l, x
  <2> QED  BY <2>1, <2>2, <2>3, Zenon
<1>13. ASSUME n = m
       PROVE  BadPosts = {} /\ Unescaping = body
  <2>1. \A i \in PlainCount + 1 .. m - 1 :
            raw[i] = SEPARATOR_BYTE => raw[i + 1] = SEPARATOR_POST_BYTE
    <3>1. PlainCount + 1 = 1
        BY <1>9
    <3> QED  BY <1>4, <3>1, Zenon
  <2>2. Unescaping = Stripped(raw, 0) /\ BadPosts = {}
      BY <1>4, <1>6, <1>8, <1>9, <1>13, <2>1, UnescapingIs, Zenon
  <2> QED  BY <1>4, <2>2, Zenon
<1> QED  BY <1>5, <1>12, <1>13, Zenon DEF raw

\* While nothing was lost, the frame is the next one.
LEMMA HeaderFollows ==
    ASSUME TransportAssumption, CodesAre16Bits, FramesFit,
           IndInv, BytesOK, FramesOK,
           NEW bytes, NEW at, NEW c, Place(bytes, at, c),
           Collecting, current_frame.status = "FRAME_EMPTY"
    PROVE  LET raw == FirstPart(NextFrame) IN
           /\ Collected = Needed <=> pos + 1 = Len(raw)
           /\ Collected = Needed =>
                /\ BadPosts = {}
                /\ HeaderError(Unescaping) = "HEADER_ONLY"
                /\ ParsedHeader(Unescaping)
                     = HeaderOnly(NextFrame.frame_type, NextFrame.data,
                                  NextFrame.use_crc)
<1> DEFINE k == Done + 1
<1>1. /\ c \in Nat /\ Layout(bytes, at, sent) /\ Onward(bytes, c)
      /\ Done < Len(sent)
      /\ c = at[k] /\ 3 <= pos /\ pos < Len(FirstPart(NextFrame))
    BY Zenon DEF Place, HeaderPlace, Collecting
<1>2. k \in 1 .. Len(sent)
  <2>1. Done \in Nat /\ Len(sent) \in Nat
      BY <1>1, LenProperties DEF FramesOK, Done, Layout
  <2> QED  BY <1>1, <2>1
<1>3. NextFrame = sent[k]
    BY Zenon DEF NextFrame
<1> HIDE DEF k
<1> QED  BY <1>1, <1>2, <1>3, HeaderMatches, Zenon DEF k

LEMMA DataFollows ==
    ASSUME TransportAssumption, CodesAre16Bits, FramesFit,
           IndInv, BytesOK, FramesOK,
           NEW bytes, NEW at, NEW c, Place(bytes, at, c),
           Collecting, current_frame.status # "FRAME_EMPTY"
    PROVE  LET raw == SecondPart(NextFrame)
               got == ParsedData(current_frame, Unescaping)
           IN
           /\ Collected = Needed <=> pos + 1 = Len(raw)
           /\ Collected = Needed =>
                /\ BadPosts = {}
                /\ Unescaping \in Seq(Byte)
                /\ DataError(current_frame, Unescaping) = "COMPLETE_FRAME"
                /\ got.frame_type = NextFrame.frame_type
                /\ got.data = NextFrame.data
                /\ got.use_crc = NextFrame.use_crc
<1> DEFINE k == Done + 1
<1>1. /\ c \in Nat /\ Layout(bytes, at, sent) /\ Onward(bytes, c)
      /\ Done < Len(sent)
      /\ c = at[k] + Len(FirstPart(NextFrame))
      /\ pos < Len(SecondPart(NextFrame))
      /\ current_frame = HeaderOnly(NextFrame.frame_type, NextFrame.data,
                                    NextFrame.use_crc)
    BY Zenon DEF Place, DataPlace, Collecting
<1>2. k \in 1 .. Len(sent)
  <2>1. Done \in Nat /\ Len(sent) \in Nat
      BY <1>1, LenProperties DEF FramesOK, Done, Layout
  <2> QED  BY <1>1, <2>1
<1>3. NextFrame = sent[k]
    BY Zenon DEF NextFrame
<1>4. current_frame.status # "FRAME_EMPTY"
    OBVIOUS
<1> HIDE DEF k
<1> DEFINE raw == SecondPart(sent[k])
           got == ParsedData(current_frame, Unescaping)
<1>5. /\ c = at[k] + Len(FirstPart(sent[k])) /\ pos < Len(raw)
      /\ current_frame = HeaderOnly(sent[k].frame_type, sent[k].data,
                                    sent[k].use_crc)
    BY <1>1, <1>3, Zenon
<1>6. /\ Collected = Needed <=> pos + 1 = Len(raw)
      /\ Collected = Needed =>
           /\ BadPosts = {}
           /\ Unescaping \in Seq(Byte)
           /\ DataError(current_frame, Unescaping) = "COMPLETE_FRAME"
           /\ got.frame_type = sent[k].frame_type
           /\ got.data = sent[k].data
           /\ got.use_crc = sent[k].use_crc
    BY <1>1, <1>2, <1>4, <1>5, DataMatches, Zenon
<1> QED  BY <1>3, <1>6, Zenon

\* A byte of a part that is not complete with it
LEMMA ByteArrives ==
    ASSUME TransportAssumption, CodesAre16Bits, FramesFit,
           IndInv, BytesOK, FramesOK, ArrivalInv, ByteCollected
    PROVE  ArrivalInv'
<1>1. PICK bytes, at, c : Place(bytes, at, c)
    BY DEF ArrivalInv
<1>2. /\ Collecting /\ frame_start_found /\ Collected # Needed
      /\ pos' = pos + 1 /\ processing' = processing /\ processing
      /\ UNCHANGED <<buffer, frame_start_found, current_frame, line, sent,
                     delivered>>
    BY DEF ByteCollected, Collecting, InLoop, loopVars, lineVars, queueVars
<1>3. /\ c \in Nat /\ Layout(bytes, at, sent) /\ Onward(bytes, c)
      /\ HeaderPlace(at, c) /\ DataPlace(at, c)
    BY <1>1, Zenon DEF Place
<1>4. Done' = Done /\ NextFrame' = NextFrame /\ Len(sent') = Len(sent)
    BY <1>2, Zenon DEF Done, NextFrame
<1>5. pos \in Nat
    BY DEF IndInv, ParserOK
<1> DEFINE m == Len(FirstPart(NextFrame))
           n == Len(SecondPart(NextFrame))
<1>6. m \in Nat /\ n \in Nat
    BY <1>1, <1>2, NextFrameFacts
<1>7. Layout(bytes, at, sent)' /\ Onward(bytes, c)'
    BY <1>2, <1>3, OnwardSame
<1>8. SearchPlace(bytes, at, c)'
    BY <1>2 DEF SearchPlace
<1>9. HeaderPlace(at, c)'
  <2> SUFFICES ASSUME current_frame.status = "FRAME_EMPTY"
               PROVE  /\ Done < Len(sent)
                      /\ c = at[Done + 1]
                      /\ 3 <= pos + 1 /\ pos + 1 < m
      BY <1>2, <1>4, Zenon DEF HeaderPlace
  <2>1. /\ Done < Len(sent) /\ c = at[Done + 1]
        /\ 3 <= pos /\ pos < m
      BY <1>2, <1>3, Zenon DEF HeaderPlace
  <2>2. pos + 1 # m
      BY <1>1, <1>2, HeaderFollows
  <2> HIDE DEF m
  <2>3. 3 <= pos + 1 /\ pos + 1 < m
      BY <1>5, <1>6, <2>1, <2>2
  <2> QED  BY <2>1, <2>3, Zenon
<1>10. DataPlace(at, c)'
  <2> SUFFICES ASSUME current_frame.status # "FRAME_EMPTY"
               PROVE  /\ Done < Len(sent)
                      /\ c = at[Done + 1] + m
                      /\ pos + 1 < n
                      /\ current_frame = HeaderOnly(NextFrame.frame_type,
                                                    NextFrame.data,
                                                    NextFrame.use_crc)
      BY <1>2, <1>4, Zenon DEF DataPlace
  <2>1. /\ Done < Len(sent) /\ c = at[Done + 1] + m
        /\ pos < n
        /\ current_frame = HeaderOnly(NextFrame.frame_type, NextFrame.data,
                                      NextFrame.use_crc)
      BY <1>2, <1>3, Zenon DEF DataPlace
  <2>2. pos + 1 # n
      BY <1>1, <1>2, DataFollows
  <2> HIDE DEF n
  <2>3. pos + 1 < n
      BY <1>5, <1>6, <2>1, <2>2
  <2> QED  BY <2>1, <2>3, Zenon
<1>11. Place(bytes, at, c)'
    BY <1>3, <1>7, <1>8, <1>9, <1>10, Zenon DEF Place
<1>12. AllSeen' /\ DeliveredInOrder'
    BY <1>2, SameDelivered DEF AllSeen, ArrivalInv
<1> QED  BY <1>11, <1>12 DEF ArrivalInv

\* No post byte is missing from what send_data writes.
LEMMA NoWrongPost ==
    ASSUME TransportAssumption, CodesAre16Bits, FramesFit,
           IndInv, BytesOK, FramesOK, ArrivalInv
    PROVE  ~WrongPostByte
<1> SUFFICES ASSUME WrongPostByte
             PROVE  FALSE
    OBVIOUS
<1>1. PICK bytes, at, c : Place(bytes, at, c)
    BY DEF ArrivalInv
<1>2. Collecting /\ Collected = Needed /\ BadPosts # {}
    BY Zenon DEF WrongPostByte
<1>3. CASE current_frame.status = "FRAME_EMPTY"
    BY <1>1, <1>2, <1>3, HeaderFollows
<1>4. CASE current_frame.status # "FRAME_EMPTY"
    BY <1>1, <1>2, <1>4, DataFollows
<1> QED  BY <1>3, <1>4

\* The header is that of the next frame; its data begins where it ends.
LEMMA HeaderArrives ==
    ASSUME TransportAssumption, CodesAre16Bits, FramesFit,
           IndInv, BytesOK, FramesOK, ArrivalInv, HeaderCollected
    PROVE  ArrivalInv'
<1>1. PICK bytes, at, c : Place(bytes, at, c)
    BY DEF ArrivalInv
<1>2. /\ Collecting /\ frame_start_found /\ Collected = Needed
      /\ current_frame.status = "FRAME_EMPTY" /\ processing
    BY DEF HeaderCollected, Collecting, InLoop
<1>3. PICK n \in Nat : n = pos + 1
    BY DEF IndInv, ParserOK
<1>4. /\ n = Len(FirstPart(NextFrame))
      /\ HeaderError(Unescaping) = "HEADER_ONLY"
      /\ ParsedHeader(Unescaping)
           = HeaderOnly(NextFrame.frame_type, NextFrame.data, NextFrame.use_crc)
    BY <1>1, <1>2, <1>3, HeaderFollows
<1>5. /\ buffer' = Dropped(n)
      /\ current_frame' = HeaderOnly(NextFrame.frame_type, NextFrame.data,
                                     NextFrame.use_crc)
      /\ pos' = 0 /\ frame_start_found' = frame_start_found
      /\ processing' = processing
      /\ UNCHANGED <<line, sent, delivered>>
    BY <1>3, <1>4, Zenon DEF HeaderCollected, loopVars, lineVars, queueVars
<1>6. /\ c \in Nat /\ Layout(bytes, at, sent) /\ Onward(bytes, c)
      /\ Done < Len(sent) /\ c = at[Done + 1]
    BY <1>1, <1>2, Zenon DEF Place, HeaderPlace
<1>7. Done' = Done /\ NextFrame' = NextFrame /\ Len(sent') = Len(sent)
    BY <1>5, Zenon DEF Done, NextFrame
<1>8. n <= Len(buffer)
  <2>1. pos < Len(buffer) /\ pos \in Nat /\ Len(buffer) \in Nat
      BY <1>2, Numbers DEF Collecting, InLoop, IndInv, ParserOK
  <2> QED  BY <1>3, <2>1
<1>9. Onward(bytes, c + n)'
    BY <1>5, <1>6, <1>8, OnwardDropped
<1>10. Layout(bytes, at, sent)' /\ c + n \in Nat
  <2>1. c + n \in Nat
      BY <1>6
  <2> QED  BY <1>5, <1>6, <2>1, Zenon
<1>11. frame_start_found' /\ current_frame'.status # "FRAME_EMPTY"
    BY <1>2, <1>5 DEF HeaderOnly
<1>12. SearchPlace(bytes, at, c + n)' /\ HeaderPlace(at, c + n)'
    BY <1>11 DEF SearchPlace, HeaderPlace
<1>13. DataPlace(at, c + n)'
  <2> DEFINE m == Len(SecondPart(NextFrame))
  <2>1. m \in Nat \ {0}
      BY <1>1, <1>2, NextFrameFacts
  <2>2. 0 < m
    <3> HIDE DEF m
    <3> QED  BY <2>1
  <2>3. c + n = at[Done + 1] + Len(FirstPart(NextFrame))
      BY <1>4, <1>6, Zenon
  <2> QED  BY <1>5, <1>6, <1>7, <2>2, <2>3, Zenon DEF DataPlace
<1>14. Place(bytes, at, c + n)'
    BY <1>9, <1>10, <1>12, <1>13, Zenon DEF Place
<1>15. AllSeen' /\ DeliveredInOrder'
    BY <1>2, <1>5, SameDelivered DEF AllSeen, ArrivalInv
<1> QED  BY <1>14, <1>15 DEF ArrivalInv

\* The rest is that of the next frame, which is delivered; what comes after it
\* has no separator right before it.
LEMMA DataArrives ==
    ASSUME TransportAssumption, CodesAre16Bits, FramesFit,
           IndInv, BytesOK, FramesOK, ArrivalInv, DataCollected
    PROVE  ArrivalInv'
<1>1. PICK bytes, at, c : Place(bytes, at, c)
    BY DEF ArrivalInv
<1>2. /\ Collecting /\ frame_start_found /\ Collected = Needed
      /\ current_frame.status # "FRAME_EMPTY" /\ processing
    BY DEF DataCollected, Collecting, InLoop
<1>3. PICK l \in Nat : l = pos + 1
    BY DEF IndInv, ParserOK
<1> DEFINE got == ParsedData(current_frame, Unescaping)
           k   == Done + 1
           p   == at[k]
           m   == Len(FirstPart(NextFrame))
           n   == Len(SecondPart(NextFrame))
           s   == Len(sent)
<1>4. /\ l = n
      /\ Unescaping \in Seq(Byte)
      /\ DataError(current_frame, Unescaping) = "COMPLETE_FRAME"
      /\ got.frame_type = NextFrame.frame_type
      /\ got.data = NextFrame.data
      /\ got.use_crc = NextFrame.use_crc
    BY <1>1, <1>2, <1>3, DataFollows
<1>5. /\ buffer' = Dropped(l)
      /\ delivered' = Append(delivered, got)
      /\ pos' = 0 /\ frame_start_found' = FALSE
      /\ processing' = processing /\ bytes_to_drop' = bytes_to_drop
      /\ UNCHANGED <<line, sent>>
    BY <1>3, <1>4, Zenon
       DEF DataCollected, StartOver, loopVars, lineVars, queueVars
<1>6. /\ c \in Nat /\ Layout(bytes, at, sent) /\ Onward(bytes, c)
      /\ c = p + m
    BY <1>1, <1>2, Zenon DEF Place, DataPlace
<1>7. /\ Done \in Nat /\ s \in Nat /\ Done < s
      /\ NextFrame \in Frames
      /\ p \in Nat /\ m \in Nat /\ m >= 10 /\ n \in Nat
      /\ bytes[p + m + n] # SEPARATOR_BYTE
    BY <1>1, <1>2, NextFrameFacts
<1>8. l <= Len(buffer) /\ bytes_to_drop = 0
  <2>1. pos < Len(buffer) /\ pos \in Nat /\ Len(buffer) \in Nat
        /\ bytes_to_drop = 0
      BY <1>2, Numbers DEF Collecting, InLoop, IndInv, ParserOK
  <2> QED  BY <1>3, <2>1
<1>9. Len(OnLine(NextFrame)) = m + n
    BY <1>7, OnLineShape, Zenon
<1>10. delivered \in Seq(FrameType) /\ Done = Len(delivered)
    BY DEF FramesOK, Done
<1>11. got \in FrameType
  <2>1. current_frame \in FrameType /\ Len(Unescaping) \in Nat
      BY <1>4, LenProperties DEF FramesOK
  <2> QED  BY <1>4, <2>1, ParsedDataType
<1> HIDE DEF got
<1>12. /\ Done' = k
       /\ \A i \in 1 .. Done : delivered'[i] = delivered[i]
       /\ delivered'[k] = got
    BY <1>5, <1>10, <1>11, AppendProperties DEF Done
<1> DEFINE next == c + l
<1>13. next = p + m + n /\ next \in Nat
  <2> HIDE DEF p, m, n
  <2> QED  BY <1>4, <1>6, <1>7
<1>14. /\ \A j \in 1 .. s : at[j] \in Nat /\ sent[j] \in Frames
       /\ k \in 1 .. s
  <2>1. k \in 1 .. s
      BY <1>7
  <2> QED  BY <1>1, <2>1, PlaceFacts, Zenon
<1>15. NextFrame = sent[k]
    BY DEF NextFrame
<1>16. ASSUME NEW j \in 1 .. k
       PROVE  at[j] + 3 <= next
  <2>1. j \in 1 .. s
      BY <1>7
  <2>2. CASE j = k
    <3> HIDE DEF next, m, n, k
    <3> QED  BY <1>7, <1>13, <2>2 DEF p
  <2>3. CASE j < k
    <3> DEFINE q == at[j]
               e == Len(OnLine(sent[j]))
    <3>1. q + e <= p
        BY <1>6, <1>14, <2>1, <2>3, Zenon DEF Layout
    <3>2. q \in Nat /\ e \in Nat
        BY <1>6, <2>1, FramesInBytes
    <3>3. e >= 11
        BY <1>6, <2>1, FramesInBytes
    <3> HIDE DEF q, e, p, m, n, next
    <3>4. q + 3 <= next
        BY <1>7, <1>13, <3>1, <3>2, <3>3
    <3> QED  BY <3>4 DEF q
  <2> QED  BY <1>7, <2>2, <2>3
<1>17. ASSUME NEW j \in k + 1 .. s
       PROVE  next <= at[j] + 2
  <2>1. j \in 1 .. s /\ k < j
      BY <1>7
  <2> DEFINE q == at[j]
             e == Len(OnLine(sent[k]))
  <2>2. p + e <= q
      BY <1>6, <1>14, <2>1, Zenon DEF Layout
  <2>3. q \in Nat
      BY <1>14, <2>1
  <2>4. e = m + n
      BY <1>9, <1>15, Zenon
  <2> HIDE DEF q, e, p, m, n, next
  <2>5. next <= q + 2
      BY <1>7, <1>13, <2>2, <2>3, <2>4
  <2> QED  BY <2>5 DEF q
<1> HIDE DEF m, n, p
<1>18. Onward(bytes, next)'
    BY <1>5, <1>6, <1>8, OnwardDropped
<1> HIDE DEF next
<1>19. SearchPlace(bytes, at, next)'
  <2>1. /\ 0 - 0 <= 2
        /\ \A i \in 0 + 1 .. 0 : bytes[next + i] = SEPARATOR_BYTE
        /\ next + 0 = next
      BY <1>13
  <2>2. bytes[next + 0] # SEPARATOR_BYTE
      BY <1>7, <1>13, <2>1, Zenon
  <2>3. pos' = 0 /\ bytes_to_drop' = 0 /\ Len(sent') = s /\ Done' = k
      BY <1>5, <1>8, <1>12, Zenon DEF s
  <2>4. /\ \A j \in 1 .. k : at[j] + 3 <= next + 0
        /\ \A j \in k + 1 .. s : next + 0 <= at[j] + 2
      BY <1>16, <1>17, <2>1, Zenon
  <2> HIDE DEF k, s
  <2> QED  BY <2>1, <2>2, <2>3, <2>4, Zenon DEF SearchPlace
<1>20. Layout(bytes, at, sent)'
    BY <1>5, <1>6, Zenon
<1>21. HeaderPlace(at, next)' /\ DataPlace(at, next)'
    BY <1>5 DEF HeaderPlace, DataPlace
<1>22. Place(bytes, at, next)'
    BY <1>13, <1>18, <1>19, <1>20, <1>21, Zenon DEF Place
<1>23. AllSeen'
    BY <1>2, <1>5 DEF AllSeen
<1>24. DeliveredInOrder'
  <2>1. Done' <= Len(sent')
      BY <1>5, <1>7, <1>12
  <2>2. ASSUME NEW i \in 1 .. k
        PROVE  Content(delivered'[i]) = sent[i]
    <3>1. CASE i = k
      <4>1. NextFrame = [frame_type |-> NextFrame.frame_type,
                         data |-> NextFrame.data,
                         use_crc |-> NextFrame.use_crc]
        <5>1. NextFrame \in [frame_type: Byte, data: Seq(Byte),
                             use_crc: BOOLEAN]
            BY <1>7 DEF TransportAssumption
        <5> QED  BY <5>1
      <4>2. Content(got) = NextFrame
          BY <1>4, <4>1, Zenon DEF Content, got
      <4> QED  BY <1>12, <1>15, <3>1, <4>2, Zenon
    <3>2. CASE i \in 1 .. Done
      <4>1. Content(delivered[i]) = sent[i]
          BY <3>2, Zenon DEF ArrivalInv, DeliveredInOrder
      <4> QED  BY <1>12, <3>2, <4>1, Zenon
    <3> QED  BY <1>7, <3>1, <3>2
  <2>3. \A i \in 1 .. k : Content(delivered'[i]) = sent'[i]
      BY <1>5, <2>2, Zenon
  <2> HIDE DEF k
  <2> QED  BY <1>12, <2>1, <2>3, Zenon DEF DeliveredInOrder
<1> QED  BY <1>22, <1>23, <1>24 DEF ArrivalInv

-----------------------------------------------------------------------------
(***************************************************************************)
(* Nothing is lost                                                         *)
(***************************************************************************)
LEMMA InitArrives ==
    ASSUME Init
    PROVE  ArrivalInv
<1>1. /\ buffer = <<>> /\ line = <<>> /\ sent = <<>> /\ delivered = <<>>
      /\ pos = 0 /\ bytes_to_drop = 0 /\ frame_start_found = FALSE
    BY DEF Init
<1>2. Layout(<<>>, <<>>, <<>>)
  <2>1. /\ <<>> \in Seq(Byte) /\ <<>> \in Seq(Nat) /\ <<>> \in Seq(Frames)
        /\ Len(<<>>) = 0
      OBVIOUS
  <2>2. \A i \in Nat : ~LooksLikeStart(<<>>, i)
      BY <2>1 DEF LooksLikeStart
  <2>3. QuietEnd(<<>>)
      BY <2>1 DEF QuietEnd
  <2>4. 1 .. 0 = {}
      OBVIOUS
  <2> QED  BY <2>1, <2>2, <2>3, <2>4, Zenon DEF Layout
<1>3. Onward(<<>>, 0)
    BY <1>1 DEF Onward
<1>4. Done = 0 /\ Len(sent) = 0
    BY <1>1 DEF Done
<1>5. SearchPlace(<<>>, <<>>, 0)
    BY <1>1, <1>4 DEF SearchPlace
<1>6. HeaderPlace(<<>>, 0) /\ DataPlace(<<>>, 0)
    BY <1>1 DEF HeaderPlace, DataPlace
<1>7. Place(<<>>, <<>>, 0)
    BY <1>1, <1>2, <1>3, <1>5, <1>6 DEF Place
<1>8. AllSeen /\ DeliveredInOrder
    BY <1>1, <1>4 DEF AllSeen, DeliveredInOrder
<1> QED  BY <1>7, <1>8 DEF ArrivalInv

\* All steps
LEMMA NextArrives ==
    ASSUME TransportAssumption, CodesAre16Bits, FramesFit, QuietNoise, ~Resets,
           IndInv, BytesOK, FramesOK, ArrivalInv,
           [Next]_vars, [NoOverflow]_vars
    PROVE  ArrivalInv'
<1>1. CASE UNCHANGED vars
    BY <1>1, QueueArrives DEF vars, lineVars, queueVars
<1>2. CASE NoOverflow /\ Next
  <2>1. ASSUME NEW frame \in Frames, NEW garbage \in Garbage,
               SendData(frame, garbage)
        PROVE  ArrivalInv'
      BY <2>1, SendArrives
  <2>2. ASSUME NEW more \in Noise, Disturb(more)
        PROVE  ArrivalInv'
      BY <2>2, DisturbArrives
  <2>3. ASSUME NEW available \in Available, ReadData(available)
        PROVE  ArrivalInv'
      BY <1>2, <2>3, ReadArrives
  <2>4. ASSUME Process
        PROVE  ArrivalInv'
      BY <2>4, SeparatorArrives, StartArrives, GarbageArrives, ByteArrives,
         NoWrongPost, HeaderArrives, DataArrives, EndArrives DEF Process
  <2>5. ASSUME \/ PopFrame
               \/ DropFrames(Len(incoming_queue) - 1)
        PROVE  ArrivalInv'
    <3>1. UNCHANGED <<buffer, parserVars, loopVars, line, sent, delivered>>
        BY <2>5 DEF PopFrame, DropFrames, lineVars
    <3> QED  BY <3>1, QueueArrives
  <2>6. ~ResetProtocol
      BY DEF ResetProtocol
  <2> QED
      BY <1>2, <2>1, <2>2, <2>3, <2>4, <2>5, <2>6, Zenon DEF Next, Environment
<1> QED  BY <1>1, <1>2

\* When everything was read and processed, the parser is behind all frames.
LEMMA AllDone ==
    ASSUME TransportAssumption, CodesAre16Bits, FramesFit,
           IndInv, BytesOK, FramesOK, ArrivalInv, ~processing, line = <<>>
    PROVE  Done = Len(sent)
<1> SUFFICES ASSUME Done # Len(sent)
             PROVE  FALSE
    OBVIOUS
<1>1. PICK bytes, at, c : Place(bytes, at, c)
    BY DEF ArrivalInv
<1> DEFINE k == Done + 1
           p == at[k]
           w == Len(bytes)
           s == Len(sent)
<1>2. Done \in Nat /\ s \in Nat /\ Done < s
  <2>1. Done \in Nat
      BY LenProperties DEF FramesOK, Done
  <2>2. Done <= s
      BY DEF ArrivalInv, DeliveredInOrder
  <2>3. s \in Nat
      BY <1>1, PlaceFacts
  <2> QED  BY <2>1, <2>2, <2>3
<1>3. k \in 1 .. s /\ k \in Done + 1 .. s
    BY <1>2
<1>4. Len(line) = 0 /\ pos = Len(buffer)
    BY DEF ArrivalInv, AllSeen
<1>5. c \in Nat /\ pos \in Nat /\ w \in Nat /\ c + pos = w
  <2> DEFINE b == Len(buffer)
             l == Len(line)
  <2>1. c \in Nat /\ pos \in Nat /\ w \in Nat /\ c + b + l = w
      BY <1>1, PlaceFacts
  <2>2. l = 0 /\ pos = b
      BY <1>4, Zenon
  <2> HIDE DEF b, l, w
  <2>3. c + pos = w
      BY <2>1, <2>2
  <2> QED  BY <2>1, <2>3
<1>6. CASE frame_start_found
  <2> DEFINE m == Len(FirstPart(NextFrame))
             n == Len(SecondPart(NextFrame))
  <2>1. p \in Nat /\ m \in Nat /\ n \in Nat \ {0} /\ p + m + n <= w
      BY <1>1, <1>6, NextFrameFacts
  <2>2. \/ c = p /\ pos < m
        \/ c = p + m /\ pos < n
      BY <1>1, <1>6, Zenon DEF Place, HeaderPlace, DataPlace
  <2> HIDE DEF p, m, n, w
  <2> QED  BY <1>5, <2>1, <2>2
<1>7. CASE ~frame_start_found
  <2> DEFINE e == Len(OnLine(sent[k]))
  <2>1. c + pos <= p + 2
      BY <1>1, <1>3, <1>7, Zenon DEF Place, SearchPlace
  <2>2. Layout(bytes, at, sent)
      BY <1>1, Zenon DEF Place
  <2>3. p \in Nat /\ e \in Nat /\ e >= 11 /\ p + e <= w
      BY <1>3, <2>2, FramesInBytes
  <2> HIDE DEF p, e, w
  <2> QED  BY <1>5, <2>1, <2>3
<1> QED  BY <1>6, <1>7

\* The invariant is strong enough.
LEMMA ArrivalImplies ==
    ASSUME TransportAssumption, CodesAre16Bits, FramesFit,
           IndInv, BytesOK, FramesOK, ArrivalInv
    PROVE  NothingLost
<1> DEFINE d == Done
           s == Len(sent)
<1>1. /\ d \in Nat /\ d <= s /\ s \in Nat /\ sent \in Seq(Frames)
      /\ \A i \in 1 .. d : Content(delivered[i]) = sent[i]
  <2>1. d \in Nat
      BY LenProperties DEF FramesOK, Done
  <2>2. d <= s /\ \A i \in 1 .. d : Content(delivered[i]) = sent[i]
      BY Zenon DEF ArrivalInv, DeliveredInOrder
  <2>3. PICK bytes, at, c : Place(bytes, at, c)
      BY DEF ArrivalInv
  <2>4. sent \in Seq(Frames)
      BY <2>3, Zenon DEF Place, Layout
  <2> QED  BY <2>1, <2>2, <2>4, LenProperties
<1>2. DOMAIN delivered = 1 .. d
    BY LenProperties DEF FramesOK, Done
<1> HIDE DEF d
<1>3. Received = [i \in 1 .. d |-> sent[i]]
    BY <1>1, <1>2, Zenon DEF Received
<1>4. \A i \in 1 .. d : i \in 1 .. s
    BY <1>1
<1>5. Received \in Seq(Frames) /\ Len(Received) = d
  <2>1. \A i \in 1 .. d : sent[i] \in Frames
      BY <1>1, <1>4
  <2> QED  BY <1>1, <1>3, <2>1
<1>6. IsPrefix(Received, sent)
  <2>1. SubSeq(Received, 1, d) = SubSeq(sent, 1, d)
      BY <1>1, <1>3, <1>4, <1>5
  <2> QED  BY <1>1, <1>5, <2>1 DEF IsPrefix
<1>7. ASSUME ~processing, line = <<>>
      PROVE  Received = sent
  <2>1. d = s
      BY <1>7, AllDone DEF d
  <2>2. sent = [i \in 1 .. s |-> sent[i]]
      BY <1>1
  <2> QED  BY <1>3, <2>1, <2>2, Zenon
<1> QED  BY <1>6, <1>7, Zenon DEF NothingLost

(***************************************************************************)
(* Every frame that is sent is delivered once, in order and unchanged,     *)
(* whatever its type and its data, escaped or not, with a check code or    *)
(* without, however the bytes are split over the calls of read_data and    *)
(* whatever quiet noise comes between the frames; and once everything was  *)
(* read and processed, none is left.  The frames are those that send_data  *)
(* accepts and fill_buffer has room for; crc16 returns sixteen bits;       *)
(* reset_protocol is not called, as nothing in the repository does; and no *)
(* call of read_data finds more than fits.                                 *)
(***************************************************************************)
THEOREM NothingIsLost ==
    ASSUME CodesAre16Bits, FramesFit, QuietNoise, ~Resets
    PROVE  Spec /\ [][NoOverflow]_vars => []NothingLost
<1> DEFINE Inv == IndInv /\ BytesOK /\ FramesOK /\ ArrivalInv
<1>1. Init => Inv
    BY InitTyped, InitEstablishes, InitArrives, TransportAssumption
<1>2. Inv /\ [Next]_vars /\ [NoOverflow]_vars => Inv'
  <2> SUFFICES ASSUME IndInv, BytesOK, FramesOK, ArrivalInv,
                      [Next]_vars, [NoOverflow]_vars
               PROVE  Inv'
      OBVIOUS
  <2>1. IndInv' /\ BytesOK' /\ FramesOK'
      BY NextPreserves, NextTyped, TransportAssumption
  <2>2. ArrivalInv'
      BY NextArrives, TransportAssumption
  <2> QED  BY <2>1, <2>2
<1>3. Inv => NothingLost
    BY ArrivalImplies, TransportAssumption
<1> QED  BY <1>1, <1>2, <1>3, PTL DEF Spec

-----------------------------------------------------------------------------
(***************************************************************************)
(* Where what is collected comes from, when bytes may have been lost       *)
(***************************************************************************)

\* After an overflow that happened while separators had been seen, pos_ counts
\* bytes that are gone: what is taken for a start may have other bytes where
\* the separators should be, and will be refused.  If it has the separators
\* it is a start, and of a frame that was sent.
HeaderOrigin(at, c) ==
    frame_start_found /\ current_frame.status = "FRAME_EMPTY" =>
        /\ 3 <= pos
        /\ buffer[1] = SEPARATOR_BYTE /\ buffer[2] = SEPARATOR_BYTE =>
             \E k \in 1 .. Len(sent) :
                 c = at[k] /\ pos < Len(FirstPart(sent[k]))

\* Data is only collected behind a header that was sent.
DataOrigin(at, c) ==
    frame_start_found /\ current_frame.status # "FRAME_EMPTY" =>
        \E k \in 1 .. Len(sent) :
            /\ c = at[k] + Len(FirstPart(sent[k]))
            /\ pos < Len(SecondPart(sent[k]))
            /\ current_frame = HeaderOnly(sent[k].frame_type, sent[k].data,
                                          sent[k].use_crc)

\* The frames delivered are some of those that were sent, all of them behind.
DeliveredOrigin(at, c) ==
    \E place \in [1 .. Done -> 1 .. Len(sent)] :
        /\ \A i, j \in 1 .. Done : i < j => place[i] < place[j]
        /\ \A i \in 1 .. Done :
              /\ Content(delivered[i]) = sent[place[i]]
              /\ at[place[i]] + Len(OnLine(sent[place[i]])) <= c

Origin(bytes, at, c) ==
    /\ c \in Nat
    /\ Layout(bytes, at, sent)
    /\ Onward(bytes, c)
    /\ HeaderOrigin(at, c)
    /\ DataOrigin(at, c)
    /\ DeliveredOrigin(at, c)

OriginInv == \E bytes, at, c : Origin(bytes, at, c)

LEMMA OriginFacts ==
    ASSUME IndInv, BytesOK, NEW bytes, NEW at, NEW c, Origin(bytes, at, c)
    PROVE  /\ bytes \in Seq(Byte) /\ Len(bytes) \in Nat /\ c \in Nat
           /\ Len(sent) \in Nat
           /\ \A k \in 1 .. Len(sent) : at[k] \in Nat /\ sent[k] \in Frames
           /\ pos \in Nat /\ bytes_to_drop \in Nat /\ bytes_to_drop <= pos
           /\ Len(buffer) \in Nat /\ Len(line) \in Nat /\ pos <= Len(buffer)
           /\ frame_start_found => bytes_to_drop = 0
<1>1. /\ c \in Nat /\ bytes \in Seq(Byte) /\ at \in Seq(Nat)
      /\ sent \in Seq(Frames) /\ Len(at) = Len(sent)
    BY Zenon DEF Origin, Layout
<1>2. /\ pos \in Nat /\ bytes_to_drop \in Nat /\ bytes_to_drop <= pos
      /\ Len(buffer) \in Nat /\ pos <= Len(buffer)
      /\ frame_start_found => bytes_to_drop = 0
    BY Numbers DEF IndInv, ParserOK
<1>3. Len(line) \in Nat /\ Len(bytes) \in Nat /\ Len(sent) \in Nat
    BY <1>1, LenProperties DEF BytesOK
<1>4. \A k \in 1 .. Len(sent) : at[k] \in Nat /\ sent[k] \in Frames
    BY <1>1
<1> QED  BY <1>1, <1>2, <1>3, <1>4, Zenon

\* What is behind stays behind.
LEMMA StaysBehind ==
    ASSUME NEW bytes, NEW at, NEW c \in Nat, NEW d \in Nat, c <= d,
           TransportAssumption, CodesAre16Bits, FramesFit,
           Layout(bytes, at, sent), DeliveredOrigin(at, c),
           UNCHANGED <<sent, delivered>>
    PROVE  DeliveredOrigin(at, d)'
<1>1. PICK place \in [1 .. Done -> 1 .. Len(sent)] :
        /\ \A i, j \in 1 .. Done : i < j => place[i] < place[j]
        /\ \A i \in 1 .. Done :
              /\ Content(delivered[i]) = sent[place[i]]
              /\ at[place[i]] + Len(OnLine(sent[place[i]])) <= c
    BY Zenon DEF DeliveredOrigin
<1>2. ASSUME NEW i \in 1 .. Done
      PROVE  at[place[i]] + Len(OnLine(sent[place[i]])) <= d
  <2>1. PICK k \in 1 .. Len(sent) : k = place[i]
      BY <1>1
  <2> DEFINE p == at[k]
             e == Len(OnLine(sent[k]))
  <2>2. p \in Nat /\ e \in Nat
      BY FramesInBytes
  <2>3. p + e <= c
      BY <1>1, <2>1, Zenon
  <2> HIDE DEF p, e
  <2>4. p + e <= d
      BY <2>2, <2>3
  <2> QED  BY <2>1, <2>4, Zenon DEF p, e
<1>3. Done' = Done /\ delivered' = delivered /\ sent' = sent
    BY Zenon DEF Done
<1> QED  BY <1>1, <1>2, <1>3, Zenon DEF DeliveredOrigin

\* The parser moves on and what it collects has an origin.
LEMMA MovesOn ==
    ASSUME TransportAssumption, CodesAre16Bits, FramesFit,
           NEW bytes, NEW at, NEW c, Origin(bytes, at, c),
           NEW d \in Nat, c <= d, Onward(bytes, d)',
           UNCHANGED <<sent, delivered>>,
           HeaderOrigin(at, d)', DataOrigin(at, d)'
    PROVE  OriginInv'
<1>1. /\ c \in Nat /\ Layout(bytes, at, sent) /\ DeliveredOrigin(at, c)
    BY Zenon DEF Origin
<1>2. Layout(bytes, at, sent)'
    BY <1>1, Zenon
<1>3. DeliveredOrigin(at, d)'
    BY <1>1, StaysBehind
<1>4. Origin(bytes, at, d)'
    BY <1>2, <1>3, Zenon DEF Origin
<1> QED  BY <1>4, Zenon DEF OriginInv

\* While the parser searches nothing has to be known.
LEMMA Searches ==
    ASSUME ~frame_start_found', NEW at, NEW d
    PROVE  HeaderOrigin(at, d)' /\ DataOrigin(at, d)'
BY Zenon DEF HeaderOrigin, DataOrigin

\* Steps that drop from the front and search.
LEMMA DropsAndSearches ==
    ASSUME TransportAssumption, CodesAre16Bits, FramesFit, IndInv, BytesOK,
           OriginInv, ~frame_start_found',
           NEW n \in Nat, n <= Len(buffer), buffer' = Dropped(n),
           UNCHANGED <<line, sent, delivered>>
    PROVE  OriginInv'
<1>1. PICK bytes, at, c : Origin(bytes, at, c)
    BY Zenon DEF OriginInv
<1>2. c \in Nat /\ Onward(bytes, c)
    BY <1>1, Zenon DEF Origin
<1>3. Onward(bytes, c + n)'
    BY <1>2, OnwardDropped
<1>4. PICK d \in Nat : d = c + n /\ c <= d
    BY <1>2
<1>5. HeaderOrigin(at, d)' /\ DataOrigin(at, d)'
    BY Searches
<1>6. Onward(bytes, d)'
    BY <1>3, <1>4, Zenon
<1> QED  BY <1>1, <1>4, <1>5, <1>6, MovesOn

\* Steps that keep the buffer and search.
LEMMA KeepsAndSearches ==
    ASSUME TransportAssumption, CodesAre16Bits, FramesFit, IndInv, BytesOK,
           OriginInv, ~frame_start_found',
           UNCHANGED <<buffer, line, sent, delivered>>
    PROVE  OriginInv'
<1>1. PICK bytes, at, c : Origin(bytes, at, c)
    BY Zenon DEF OriginInv
<1>2. c \in Nat /\ Onward(bytes, c) /\ c <= c
    BY <1>1 DEF Origin
<1>3. Onward(bytes, c)'
    BY <1>2, OnwardSame
<1>4. HeaderOrigin(at, c)' /\ DataOrigin(at, c)'
    BY Searches
<1> QED  BY <1>1, <1>2, <1>3, <1>4, MovesOn

\* Steps that change nothing of this
LEMMA SameOrigin ==
    ASSUME TransportAssumption, CodesAre16Bits, FramesFit, OriginInv,
           UNCHANGED <<buffer, parserVars, line, sent, delivered>>
    PROVE  OriginInv'
<1>1. PICK bytes, at, c : Origin(bytes, at, c)
    BY Zenon DEF OriginInv
<1>2. c \in Nat /\ Onward(bytes, c) /\ c <= c
    BY <1>1 DEF Origin
<1>3. Onward(bytes, c)'
    BY <1>2, OnwardSame
<1>4. HeaderOrigin(at, c)' /\ DataOrigin(at, c)'
    BY <1>1 DEF Origin, HeaderOrigin, DataOrigin, parserVars
<1> QED  BY <1>1, <1>2, <1>3, <1>4, MovesOn

-----------------------------------------------------------------------------
(***************************************************************************)
(* Steps of the other end and of read_data                                 *)
(***************************************************************************)

\* What is written behind what is collected does not move it.
LEMMA OriginGrows ==
    ASSUME BytesOK, NEW bytes, NEW at, NEW c, Origin(bytes, at, c),
           NEW more \in Seq(Byte), NEW places,
           line' = line \o more,
           UNCHANGED <<buffer, parserVars, delivered>>,
           Layout(bytes \o more, places, sent'),
           Len(sent) \in Nat, Len(sent') \in Nat, Len(sent) <= Len(sent'),
           \A k \in 1 .. Len(sent) : places[k] = at[k] /\ sent'[k] = sent[k]
    PROVE  OriginInv'
<1> DEFINE all == bytes \o more
<1>1. /\ c \in Nat /\ Layout(bytes, at, sent) /\ Onward(bytes, c)
      /\ HeaderOrigin(at, c) /\ DataOrigin(at, c) /\ DeliveredOrigin(at, c)
    BY Zenon DEF Origin
<1>2. /\ pos' = pos /\ frame_start_found' = frame_start_found
      /\ current_frame' = current_frame
      /\ delivered' = delivered /\ buffer' = buffer /\ Done' = Done
    BY DEF parserVars, Done
<1>3. \A k \in 1 .. Len(sent) :
          /\ k \in 1 .. Len(sent')
          /\ places[k] = at[k] /\ sent'[k] = sent[k]
  <2>1. \A k \in 1 .. Len(sent) : k \in 1 .. Len(sent')
      OBVIOUS
  <2> QED  BY <2>1, Zenon
<1>4. Onward(all, c)'
  <2>1. bytes \in Seq(Byte)
      BY <1>1, Zenon DEF Layout
  <2> QED  BY <1>1, <1>2, <2>1, OnwardWritten
<1>5. HeaderOrigin(places, c)'
    BY <1>1, <1>2, <1>3, Zenon DEF HeaderOrigin
<1>6. DataOrigin(places, c)'
    BY <1>1, <1>2, <1>3, Zenon DEF DataOrigin
<1>7. DeliveredOrigin(places, c)'
  <2>1. PICK place \in [1 .. Done -> 1 .. Len(sent)] :
          /\ \A i, j \in 1 .. Done : i < j => place[i] < place[j]
          /\ \A i \in 1 .. Done :
                /\ Content(delivered[i]) = sent[place[i]]
                /\ at[place[i]] + Len(OnLine(sent[place[i]])) <= c
      BY <1>1, Zenon DEF DeliveredOrigin
  <2>2. \A i \in 1 .. Done : place[i] \in 1 .. Len(sent)
      BY <2>1
  <2>3. place \in [1 .. Done -> 1 .. Len(sent')]
      BY <1>3, <2>1, <2>2
  <2>4. \A i \in 1 .. Done :
            /\ Content(delivered[i]) = sent'[place[i]]
            /\ places[place[i]] + Len(OnLine(sent'[place[i]])) <= c
      BY <1>3, <2>1, <2>2, Zenon
  <2>5. \A i \in 1 .. Done' :
            /\ Content(delivered'[i]) = sent'[place[i]]
            /\ places[place[i]] + Len(OnLine(sent'[place[i]])) <= c
      BY <1>2, <2>4, Zenon
  <2>6. /\ place \in [1 .. Done' -> 1 .. Len(sent')]
        /\ \A i, j \in 1 .. Done' : i < j => place[i] < place[j]
      BY <1>2, <2>1, <2>3, Zenon
  <2> QED  BY <2>5, <2>6, Zenon DEF DeliveredOrigin
<1> HIDE DEF all
<1>8. Origin(all, places, c)'
    BY <1>1, <1>4, <1>5, <1>6, <1>7, Zenon DEF Origin, all
<1> QED  BY <1>8, Zenon DEF OriginInv

\* send_data
LEMMA SendOrigin ==
    ASSUME TransportAssumption, CodesAre16Bits, FramesFit,
           IndInv, BytesOK, OriginInv,
           NEW frame \in Frames, NEW garbage \in Garbage,
           SendData(frame, garbage)
    PROVE  OriginInv'
<1> DEFINE e == OnLine(frame)
           s == Len(sent)
<1>1. PICK bytes, at, c : Origin(bytes, at, c)
    BY Zenon DEF OriginInv
<1>2. /\ sent' = Append(sent, frame)
      /\ line' = line \o e
      /\ UNCHANGED <<buffer, parserVars, delivered>>
  <2>1. Accepted(frame)
      BY DEF FramesFit
  <2>2. fill_buffer(NewFrame(frame.frame_type, frame.data, frame.use_crc),
                    garbage) = e
      BY WrittenAsEncoded, Zenon
  <2> QED  BY <2>1, <2>2, Zenon DEF SendData, queueVars
<1>3. e \in Seq(Byte)
    BY OnLineShape
<1>4. Layout(bytes, at, sent)
    BY <1>1, Zenon DEF Origin
<1> DEFINE places == Append(at, Len(bytes))
<1>5. Layout(bytes \o e, places, sent')
    BY <1>2, <1>4, FrameWritten, Zenon
<1>6. /\ at \in Seq(Nat) /\ sent \in Seq(Frames) /\ Len(at) = s /\ s \in Nat
      /\ bytes \in Seq(Byte) /\ Len(bytes) \in Nat
    BY <1>4, LenProperties DEF Layout
<1>7. \A k \in 1 .. s : places[k] = at[k]
    BY <1>6, AppendProperties
<1>8. /\ Len(sent') = s + 1
      /\ \A k \in 1 .. s : sent'[k] = sent[k]
    BY <1>2, <1>6, AppendProperties
<1> HIDE DEF places, e
<1>9. s \in Nat /\ Len(sent') \in Nat /\ s <= Len(sent')
    BY <1>6, <1>8
<1> QED  BY <1>1, <1>2, <1>3, <1>5, <1>7, <1>8, <1>9, OriginGrows

\* Noise
LEMMA DisturbOrigin ==
    ASSUME TransportAssumption, CodesAre16Bits, FramesFit, QuietNoise,
           IndInv, BytesOK, OriginInv, NEW more \in Noise, Disturb(more)
    PROVE  OriginInv'
<1>1. PICK bytes, at, c : Origin(bytes, at, c)
    BY Zenon DEF OriginInv
<1>2. /\ sent' = sent
      /\ line' = line \o more
      /\ UNCHANGED <<buffer, parserVars, delivered>>
    BY Zenon DEF Disturb, queueVars
<1>3. more \in Seq(Byte) /\ Quiet(more)
    BY DEF TransportAssumption, QuietNoise
<1>4. Layout(bytes, at, sent)
    BY <1>1, Zenon DEF Origin
<1>5. Layout(bytes \o more, at, sent')
    BY <1>2, <1>3, <1>4, NoiseWritten, Zenon
<1>6. Len(sent) \in Nat /\ Len(sent') \in Nat /\ Len(sent) <= Len(sent')
  <2>1. Len(sent) \in Nat
      BY <1>4, LenProperties DEF Layout
  <2> QED  BY <1>2, <2>1
<1> QED  BY <1>1, <1>2, <1>3, <1>5, <1>6, OriginGrows

\* read_data.  If what it reads does not fit, the oldest bytes are lost and
\* the parser searches again, or did.
LEMMA ReadOrigin ==
    ASSUME TransportAssumption, CodesAre16Bits, FramesFit,
           IndInv, BytesOK, OriginInv,
           NEW available \in Available, ReadData(available)
    PROVE  OriginInv'
<1> DEFINE count == Lesser(Lesser(available, Len(line)), Capacity)
           space == Capacity - Len(buffer)
<1>1. PICK bytes, at, c : Origin(bytes, at, c)
    BY Zenon DEF OriginInv
<1>2. /\ available \in Nat /\ Capacity \in Nat
      /\ Len(line) \in Nat /\ Len(buffer) \in Nat
      /\ buffer \in Seq(Byte) /\ Len(buffer) <= Capacity
    BY LenProperties DEF TransportAssumption, BytesOK, IndInv, BufferOK
<1>3. count \in Nat /\ count <= Len(line) /\ count <= Capacity /\ space \in Nat
    BY <1>2 DEF Lesser
<1>4. /\ c \in Nat /\ Onward(bytes, c) /\ HeaderOrigin(at, c)
      /\ DataOrigin(at, c)
    BY <1>1, Zenon DEF Origin
<1>5. /\ line' = SubSeq(line, count + 1, Len(line))
      /\ UNCHANGED <<sent, delivered>>
    BY Zenon DEF ReadData, LostAtOverflow, queueVars
<1>6. \/ /\ buffer' = buffer \o SubSeq(line, 1, count)
         /\ UNCHANGED parserVars
      \/ /\ count > space
         /\ buffer' = Dropped(count - space) \o SubSeq(line, 1, count)
         /\ ~frame_start_found'
    BY Zenon DEF ReadData, LostAtOverflow, StartOver, parserVars
<1> HIDE DEF count
<1>7. CASE /\ buffer' = buffer \o SubSeq(line, 1, count)
           /\ UNCHANGED parserVars
  <2>1. Onward(bytes, c)'
      BY <1>3, <1>4, <1>5, <1>7, OnwardRead
  <2>2. frame_start_found /\ current_frame.status = "FRAME_EMPTY" =>
            buffer'[1] = buffer[1] /\ buffer'[2] = buffer[2]
    <3> SUFFICES ASSUME frame_start_found,
                        current_frame.status = "FRAME_EMPTY"
                 PROVE  buffer'[1] = buffer[1] /\ buffer'[2] = buffer[2]
        OBVIOUS
    <3>1. 3 <= pos /\ pos <= Len(buffer) /\ pos \in Nat
        BY <1>1, <1>4, OriginFacts DEF HeaderOrigin
    <3>2. 1 \in 1 .. Len(buffer) /\ 2 \in 1 .. Len(buffer)
        BY <1>2, <3>1
    <3>3. SubSeq(line, 1, count) \in Seq(Byte)
        BY <1>2, <1>3, PieceType DEF BytesOK
    <3>4. ConcatOf(buffer', buffer, SubSeq(line, 1, count))
        BY <1>2, <1>7, <3>3, ConcatSplits
    <3> QED  BY <3>2, <3>4, Zenon DEF ConcatOf
  <2>3. /\ pos' = pos /\ frame_start_found' = frame_start_found
        /\ current_frame' = current_frame /\ sent' = sent
      BY <1>5, <1>7 DEF parserVars
  <2>4. HeaderOrigin(at, c)'
      BY <1>4, <2>2, <2>3, Zenon DEF HeaderOrigin
  <2>5. DataOrigin(at, c)'
      BY <1>4, <2>3, Zenon DEF DataOrigin
  <2>6. c <= c
      BY <1>4
  <2> QED  BY <1>1, <1>4, <1>5, <2>1, <2>4, <2>5, <2>6, MovesOn
<1>8. CASE /\ count > space
           /\ buffer' = Dropped(count - space) \o SubSeq(line, 1, count)
           /\ ~frame_start_found'
  <2>1. PICK n \in Nat : n = count - space /\ n <= Len(buffer)
      BY <1>2, <1>3, <1>8
  <2>2. PICK d \in Nat : d = c + n /\ c <= d
      BY <1>4
  <2> DEFINE left == Dropped(n)
  <2>3. /\ left \in Seq(Byte)
        /\ Len(left) = Len(buffer) - n
        /\ \A i \in 1 .. Len(buffer) - n : left[i] = buffer[n + i]
      BY <2>1, DroppedType, DropsFromFront DEF IndInv, BufferOK, BytesOK
  <2> HIDE DEF left
  <2>4. /\ c + Len(buffer) + Len(line) = Len(bytes)
        /\ \A i \in 1 .. Len(buffer) : buffer[i] = bytes[c + i]
        /\ \A i \in 1 .. Len(line) : line[i] = bytes[c + Len(buffer) + i]
      BY <1>4, Zenon DEF Onward
  <2>5. d + Len(left) = c + Len(buffer)
    <3> DEFINE b == Len(buffer)
               f == Len(left)
    <3> HIDE DEF b, f
    <3>1. b \in Nat /\ f = b - n
        BY <1>2, <2>3, Zenon DEF b, f
    <3>2. d + f = c + b
        BY <1>4, <2>2, <3>1
    <3> QED  BY <3>2, Zenon DEF b, f
  <2>6. ASSUME NEW i \in 1 .. Len(left)
        PROVE  left[i] = bytes[d + i]
    <3> DEFINE k == n + i
    <3>1. i \in 1 .. Len(buffer) - n /\ k \in 1 .. Len(buffer) /\ c + k = d + i
        BY <1>2, <1>4, <2>1, <2>2, <2>3
    <3> HIDE DEF k
    <3>2. buffer[k] = bytes[c + k]
        BY <2>4, <3>1, Zenon
    <3>3. left[i] = buffer[k]
        BY <2>3, <3>1, Zenon DEF k
    <3> QED  BY <3>1, <3>2, <3>3, Zenon
  <2>7. /\ d + Len(left) + Len(line) = Len(bytes)
        /\ \A i \in 1 .. Len(line) : line[i] = bytes[d + Len(left) + i]
      BY <2>4, <2>5, Zenon
  <2>8. buffer' = left \o SubSeq(line, 1, count)
      BY <1>8, <2>1, Zenon DEF left
  <2>9. Onward(bytes, d)'
      BY <1>3, <1>5, <2>3, <2>6, <2>7, <2>8, OnwardMoved
  <2>10. HeaderOrigin(at, d)' /\ DataOrigin(at, d)'
      BY <1>8, Searches
  <2> QED  BY <1>1, <1>5, <2>2, <2>9, <2>10, MovesOn
<1> QED  BY <1>6, <1>7, <1>8

-----------------------------------------------------------------------------
(***************************************************************************)
(* Steps of the search, and steps that begin it again                      *)
(***************************************************************************)

\* A start: bytes are dropped up to its separators, if that is what they are.
LEMMA StartOrigin ==
    ASSUME TransportAssumption, CodesAre16Bits, FramesFit,
           IndInv, BytesOK, OriginInv, StartFound
    PROVE  OriginInv'
<1>1. PICK bytes, at, c : Origin(bytes, at, c)
    BY Zenon DEF OriginInv
<1>2. PICK n \in Nat : n = bytes_to_drop
    BY DEF IndInv, ParserOK
<1>3. /\ InLoop /\ ~frame_start_found /\ buffer[pos + 1] # SEPARATOR_BYTE
      /\ pos - n = 2
      /\ frame_start_found' = TRUE /\ buffer' = Dropped(n)
      /\ pos' = pos - n + 1
      /\ UNCHANGED <<current_frame, line, sent, delivered>>
    BY <1>2, Zenon DEF StartFound, Searching, Current, FRAME_SEPARATORS_COUNT,
                       lineVars, queueVars
<1>4. /\ c \in Nat /\ pos \in Nat /\ n <= pos /\ Len(buffer) \in Nat
      /\ pos < Len(buffer) /\ Len(bytes) \in Nat /\ Len(line) \in Nat
    BY <1>1, <1>2, <1>3, OriginFacts DEF InLoop
<1>5. Layout(bytes, at, sent) /\ Onward(bytes, c)
    BY <1>1, Zenon DEF Origin
<1>6. PICK d \in Nat : d = c + n /\ c <= d
    BY <1>4
<1>7. pos = n + 2 /\ pos' = 3 /\ n <= Len(buffer)
    BY <1>3, <1>4
<1>8. Onward(bytes, d)'
  <2>1. Onward(bytes, c + n)'
      BY <1>3, <1>4, <1>5, <1>7, OnwardDropped
  <2> QED  BY <1>6, <2>1, Zenon
<1>9. /\ Len(buffer') = Len(buffer) - n
      /\ \A i \in 1 .. Len(buffer) - n : buffer'[i] = buffer[n + i]
    BY <1>3, <1>7, DropsFromFront DEF IndInv, BufferOK
<1>10. Len(buffer') \in Nat /\ Len(buffer') >= 3
    BY <1>4, <1>7, <1>9
<1>11. buffer'[3] # SEPARATOR_BYTE
  <2>1. 3 \in 1 .. Len(buffer) - n /\ n + 3 = pos + 1
      BY <1>4, <1>7
  <2> QED  BY <1>3, <1>9, <2>1, Zenon
<1>12. /\ \A i \in 1 .. Len(buffer') : buffer'[i] = bytes[d + i]
       /\ d + 3 <= Len(bytes)
  <2>1. /\ d + Len(buffer') + Len(line') = Len(bytes)
        /\ \A i \in 1 .. Len(buffer') : buffer'[i] = bytes[d + i]
      BY <1>8, Zenon DEF Onward
  <2> DEFINE b == Len(buffer')
             l == Len(line')
             w == Len(bytes)
  <2>2. l \in Nat /\ b \in Nat /\ b >= 3 /\ d + b + l = w
      BY <1>3, <1>4, <1>10, <2>1, Zenon
  <2> HIDE DEF b, l, w
  <2>3. d + 3 <= w
      BY <2>2
  <2> QED  BY <2>1, <2>3 DEF w
<1>13. ASSUME buffer'[1] = SEPARATOR_BYTE, buffer'[2] = SEPARATOR_BYTE
       PROVE  \E k \in 1 .. Len(sent) :
                  d = at[k] /\ 3 < Len(FirstPart(sent[k]))
  <2>1. 1 \in 1 .. Len(buffer') /\ 2 \in 1 .. Len(buffer')
        /\ 3 \in 1 .. Len(buffer')
      BY <1>10
  <2>2. LooksLikeStart(bytes, d)
      BY <1>11, <1>12, <1>13, <2>1, Zenon DEF LooksLikeStart
  <2>3. PICK k \in 1 .. Len(sent) : at[k] = d
      BY <1>5, <2>2, Zenon DEF Layout
  <2> DEFINE m == Len(FirstPart(sent[k]))
  <2>4. m \in Nat /\ m >= 10
      BY <1>5, PartsInBytes
  <2> HIDE DEF m
  <2>5. 3 < m
      BY <2>4
  <2> QED  BY <2>3, <2>5, Zenon DEF m
<1>14. HeaderOrigin(at, d)'
  <2>1. 3 <= 3 /\ sent' = sent
      BY <1>3
  <2> QED  BY <1>7, <1>13, <2>1, Zenon DEF HeaderOrigin
<1>15. DataOrigin(at, d)'
  <2>1. current_frame'.status = "FRAME_EMPTY"
      BY <1>3 DEF IndInv, CountersDescribeBuffer
  <2> QED  BY <2>1 DEF DataOrigin
<1> QED  BY <1>1, <1>3, <1>6, <1>8, <1>14, <1>15, MovesOn

\* A separator or garbage while searching
LEMMA SearchOrigin ==
    ASSUME TransportAssumption, CodesAre16Bits, FramesFit,
           IndInv, BytesOK, OriginInv, SeparatorSeen \/ GarbageSeen
    PROVE  OriginInv'
<1>1. /\ ~frame_start_found'
      /\ UNCHANGED <<buffer, line, sent, delivered>>
    BY DEF SeparatorSeen, GarbageSeen, Searching, lineVars, queueVars
<1> QED  BY <1>1, KeepsAndSearches

\* A wrong post byte
LEMMA WrongPostOrigin ==
    ASSUME TransportAssumption, CodesAre16Bits, FramesFit,
           IndInv, BytesOK, OriginInv, WrongPostByte
    PROVE  OriginInv'
<1>1. /\ pos < Len(buffer) /\ BadPosts # {}
      /\ buffer' = Dropped(Min(BadPosts) - 2)
      /\ ~frame_start_found'
      /\ UNCHANGED <<line, sent, delivered>>
    BY DEF WrongPostByte, Collecting, InLoop, BeforeSeparator, StartOver,
           lineVars, queueVars
<1>2. pos \in Nat /\ Len(buffer) \in Nat
    BY Numbers DEF IndInv, ParserOK
<1>3. \A i \in BadPosts : i \in Nat /\ 2 <= i /\ i <= pos + 1
    BY <1>2 DEF BadPosts, AfterSeparator, Escapable, FRAME_SEPARATORS_COUNT
<1>4. Min(BadPosts) \in BadPosts
    BY <1>1, <1>3, FirstExists
<1>5. PICK n \in Nat : n = Min(BadPosts) - 2 /\ n <= Len(buffer)
    BY <1>1, <1>2, <1>3, <1>4
<1> QED  BY <1>1, <1>5, DropsAndSearches

\* reset_protocol
LEMMA ResetOrigin ==
    ASSUME TransportAssumption, CodesAre16Bits, FramesFit,
           IndInv, BytesOK, OriginInv, ResetProtocol
    PROVE  OriginInv'
<1>1. /\ buffer' = Dropped(Lesser(pos, Len(buffer)))
      /\ ~frame_start_found'
      /\ UNCHANGED <<line, sent, delivered>>
    BY DEF ResetProtocol, StartOver, lineVars, queueVars
<1>2. pos \in Nat /\ Len(buffer) \in Nat
    BY Numbers DEF IndInv, ParserOK
<1>3. PICK n \in Nat : n = Lesser(pos, Len(buffer)) /\ n <= Len(buffer)
    BY <1>2 DEF Lesser
<1> QED  BY <1>1, <1>3, DropsAndSearches

\* The end of process_data drops garbage, or nothing of what it collects.
LEMMA EndOrigin ==
    ASSUME TransportAssumption, CodesAre16Bits, FramesFit,
           IndInv, BytesOK, OriginInv, ProcessEnds
    PROVE  OriginInv'
<1>1. PICK bytes, at, c : Origin(bytes, at, c)
    BY Zenon DEF OriginInv
<1>2. PICK n \in Nat : n = bytes_to_drop
    BY DEF IndInv, ParserOK
<1>3. /\ buffer' = Dropped(n) /\ pos' = pos - n
      /\ frame_start_found' = frame_start_found
      /\ current_frame' = current_frame /\ line' = line
      /\ sent' = sent /\ delivered' = delivered
    BY <1>2, Zenon DEF ProcessEnds, GarbageGone, lineVars, queueVars
<1>4. /\ c \in Nat /\ pos \in Nat /\ n <= Len(buffer) /\ Len(buffer) \in Nat
      /\ pos <= Len(buffer) /\ (frame_start_found => n = 0)
  <2>1. /\ c \in Nat /\ pos \in Nat /\ n <= pos /\ Len(buffer) \in Nat
        /\ pos <= Len(buffer) /\ (frame_start_found => n = 0)
      BY <1>1, <1>2, OriginFacts
  <2> QED  BY <2>1
<1>5. CASE ~frame_start_found
    BY <1>3, <1>4, <1>5, DropsAndSearches
<1>6. CASE frame_start_found
  <2>1. n = 0 /\ pos' = pos /\ c + n = c /\ c <= c
      BY <1>3, <1>4, <1>6
  <2>2. Onward(bytes, c + n)'
      BY <1>1, <1>3, <1>4, OnwardDropped DEF Origin
  <2>3. \A i \in 1 .. Len(buffer) : buffer'[i] = buffer[i]
    <3>1. \A i \in 1 .. Len(buffer) - n : buffer'[i] = buffer[n + i]
        BY <1>3, <1>4, DropsFromFront DEF IndInv, BufferOK
    <3>2. \A i \in 1 .. Len(buffer) : i \in 1 .. Len(buffer) - n /\ n + i = i
        BY <1>4, <2>1
    <3> QED  BY <3>1, <3>2, Zenon
  <2>4. HeaderOrigin(at, c) /\ DataOrigin(at, c)
      BY <1>1, Zenon DEF Origin
  <2>5. current_frame.status = "FRAME_EMPTY" =>
            buffer'[1] = buffer[1] /\ buffer'[2] = buffer[2]
    <3>1. current_frame.status = "FRAME_EMPTY" => 3 <= pos
        BY <1>6, <2>4, Zenon DEF HeaderOrigin
    <3>2. current_frame.status = "FRAME_EMPTY" =>
              1 \in 1 .. Len(buffer) /\ 2 \in 1 .. Len(buffer)
        BY <1>4, <3>1
    <3> QED  BY <2>3, <3>2, Zenon
  <2>6. HeaderOrigin(at, c)'
      BY <1>3, <2>1, <2>4, <2>5, Zenon DEF HeaderOrigin
  <2>7. DataOrigin(at, c)'
      BY <1>3, <2>1, <2>4, Zenon DEF DataOrigin
  <2> QED  BY <1>1, <1>3, <1>4, <2>1, <2>2, <2>6, <2>7, MovesOn
<1> QED  BY <1>5, <1>6

-----------------------------------------------------------------------------
(***************************************************************************)
(* Steps of the collection                                                 *)
(***************************************************************************)

\* The first two bytes of a header stay where they are.
LEMMA FirstTwoStay ==
    ASSUME buffer \in Seq(Byte), pos \in Nat, 3 <= pos, pos < Len(buffer),
           current_frame.status = "FRAME_EMPTY"
    PROVE  Unescaping[1] = buffer[1] /\ Unescaping[2] = buffer[2]
<1> DEFINE n      == pos + 1
           m      == pos - 1
           a      == buffer[1]
           b      == buffer[2]
           pieces == [i \in 1 .. n |-> IF i \in AfterSeparator THEN <<>>
                                       ELSE <<buffer[i]>>]
           two    == <<<<a>>, <<b>>>>
           rest   == [i \in 1 .. m |-> pieces[2 + i]]
<1>1. /\ n \in Nat \ {0} /\ m \in Nat \ {0} /\ 2 + m = n
      /\ \A i \in 1 .. n : buffer[i] \in Byte
      /\ 1 \in 1 .. n /\ 2 \in 1 .. n
      /\ \A i \in 1 .. m : 2 + i \in 1 .. n
    BY LenProperties
<1>2. a \in Byte /\ b \in Byte
    BY <1>1, Zenon
<1>3. 1 \notin AfterSeparator /\ 2 \notin AfterSeparator
    BY DEF AfterSeparator, Escapable, FRAME_SEPARATORS_COUNT
<1>4. Unescaping = Concatenated(pieces)
    BY Zenon DEF Unescaping
<1>5. pieces[1] = <<a>> /\ pieces[2] = <<b>>
    BY <1>1, <1>3, Zenon
<1> HIDE DEF n, m
<1>6. pieces \in [1 .. n -> Seq(Byte)]
    BY <1>1
<1> HIDE DEF a, b, pieces
<1>7. rest \in [1 .. m -> Seq(Byte)] /\ \A i \in 1 .. m : rest[i] = pieces[2 + i]
    BY <1>1, <1>6
<1> HIDE DEF rest
<1>8. /\ pieces \in Seq(Seq(Byte)) /\ Len(pieces) = n
      /\ rest \in Seq(Seq(Byte)) /\ Len(rest) = m
    BY <1>1, <1>6, <1>7, SeqDef, LenProperties
<1>9. rest # <<>>
    BY <1>1, <1>8, EmptySeq
<1>10. <<a>> \in Seq(Byte) /\ <<b>> \in Seq(Byte)
       /\ two \in Seq(Seq(Byte)) /\ two # <<>>
       /\ Len(two) = 2 /\ two[1] = <<a>> /\ two[2] = <<b>>
    BY <1>2
<1>11. Concatenated(two) = <<a>> \o <<b>>
    BY <1>10, ConcatTwo, Zenon
<1> HIDE DEF two
<1>12. ConcatOf(pieces, two, rest)
  <2>1. \A i \in 1 .. 2 : i = 1 \/ i = 2
      OBVIOUS
  <2>2. Len(pieces) = Len(two) + Len(rest)
      BY <1>1, <1>8, <1>10
  <2>3. \A i \in 1 .. Len(two) : pieces[i] = two[i]
      BY <1>5, <1>10, <2>1, Zenon
  <2>4. \A i \in 1 .. Len(rest) : pieces[Len(two) + i] = rest[i]
      BY <1>7, <1>8, <1>10, Zenon
  <2> QED  BY <2>2, <2>3, <2>4, Zenon DEF ConcatOf
<1>13. pieces = two \o rest
    BY <1>8, <1>10, <1>12, ConcatIs, Zenon
<1>14. /\ Concatenated(two \o rest) = Concatenated(two) \o Concatenated(rest)
       /\ Concatenated(rest) \in Seq(Byte)
    BY <1>8, <1>9, <1>10, ConcatJoin, Zenon
<1> DEFINE first == <<a>> \o <<b>>
           last  == Concatenated(rest)
<1>15. first \in Seq(Byte) /\ Len(first) = 2 /\ first[1] = a /\ first[2] = b
    BY <1>2
<1> HIDE DEF first, last
<1>16. Unescaping = first \o last /\ last \in Seq(Byte)
    BY <1>4, <1>11, <1>13, <1>14, Zenon DEF first, last
<1>17. ConcatOf(Unescaping, first, last)
    BY <1>15, <1>16, ConcatSplits
<1>18. 1 \in 1 .. 2 /\ 2 \in 1 .. 2
    OBVIOUS
<1> QED  BY <1>15, <1>17, <1>18, Zenon DEF ConcatOf, a, b

\* A header is accepted only if it starts with separators, so it is one that
\* was sent.
LEMMA HeaderWasSent ==
    ASSUME TransportAssumption, CodesAre16Bits, FramesFit,
           IndInv, BytesOK, FramesOK,
           NEW bytes, NEW at, NEW c, Origin(bytes, at, c),
           Collecting, current_frame.status = "FRAME_EMPTY",
           Collected = Needed, HeaderError(Unescaping) = "HEADER_ONLY"
    PROVE  \E k \in 1 .. Len(sent) :
              /\ c = at[k] /\ pos + 1 = Len(FirstPart(sent[k]))
              /\ ParsedHeader(Unescaping)
                   = HeaderOnly(sent[k].frame_type, sent[k].data,
                                sent[k].use_crc)
<1>1. /\ pos \in Nat /\ pos < Len(buffer) /\ buffer \in Seq(Byte)
      /\ frame_start_found
    BY Numbers DEF IndInv, ParserOK, Collecting, InLoop, BytesOK
<1>2. /\ c \in Nat /\ Layout(bytes, at, sent) /\ Onward(bytes, c)
      /\ HeaderOrigin(at, c)
    BY Zenon DEF Origin
<1>3. 3 <= pos
    BY <1>1, <1>2, Zenon DEF HeaderOrigin
<1>4. Unescaping[1] = SEPARATOR_BYTE /\ Unescaping[2] = SEPARATOR_BYTE
    BY DEF HeaderError, FRAME_SEPARATORS_COUNT
<1>5. buffer[1] = SEPARATOR_BYTE /\ buffer[2] = SEPARATOR_BYTE
    BY <1>1, <1>3, <1>4, FirstTwoStay
<1>6. PICK k \in 1 .. Len(sent) : c = at[k] /\ pos < Len(FirstPart(sent[k]))
    BY <1>1, <1>2, <1>5, Zenon DEF HeaderOrigin
<1>7. /\ pos + 1 = Len(FirstPart(sent[k]))
      /\ ParsedHeader(Unescaping)
           = HeaderOnly(sent[k].frame_type, sent[k].data, sent[k].use_crc)
    BY <1>2, <1>3, <1>6, HeaderMatches
<1> QED  BY <1>6, <1>7, Zenon

\* A byte of a part that is not complete with it
LEMMA ByteOrigin ==
    ASSUME TransportAssumption, CodesAre16Bits, FramesFit,
           IndInv, BytesOK, FramesOK, OriginInv, ByteCollected
    PROVE  OriginInv'
<1>1. PICK bytes, at, c : Origin(bytes, at, c)
    BY Zenon DEF OriginInv
<1>2. /\ Collecting /\ frame_start_found /\ Collected # Needed
      /\ pos' = pos + 1
      /\ UNCHANGED <<buffer, frame_start_found, current_frame, line, sent,
                     delivered>>
    BY DEF ByteCollected, Collecting, lineVars, queueVars
<1>3. /\ c \in Nat /\ Layout(bytes, at, sent) /\ Onward(bytes, c)
      /\ HeaderOrigin(at, c) /\ DataOrigin(at, c)
    BY <1>1, Zenon DEF Origin
<1>4. pos \in Nat
    BY DEF IndInv, ParserOK
<1>5. Onward(bytes, c)' /\ c <= c
    BY <1>2, <1>3, OnwardSame
<1>6. HeaderOrigin(at, c)'
  <2> SUFFICES ASSUME current_frame.status = "FRAME_EMPTY"
               PROVE  /\ 3 <= pos + 1
                      /\ buffer[1] = SEPARATOR_BYTE
                           /\ buffer[2] = SEPARATOR_BYTE =>
                           \E k \in 1 .. Len(sent) :
                              c = at[k] /\ pos + 1 < Len(FirstPart(sent[k]))
      BY <1>2, Zenon DEF HeaderOrigin
  <2>1. 3 <= pos
      BY <1>2, <1>3, Zenon DEF HeaderOrigin
  <2>2. ASSUME buffer[1] = SEPARATOR_BYTE, buffer[2] = SEPARATOR_BYTE
        PROVE  \E k \in 1 .. Len(sent) :
                  c = at[k] /\ pos + 1 < Len(FirstPart(sent[k]))
    <3>1. PICK k \in 1 .. Len(sent) : c = at[k] /\ pos < Len(FirstPart(sent[k]))
        BY <1>2, <1>3, <2>2, Zenon DEF HeaderOrigin
    <3> DEFINE m == Len(FirstPart(sent[k]))
    <3>2. pos + 1 # m
        BY <1>2, <1>3, <2>1, <3>1, HeaderMatches
    <3>3. m \in Nat
        BY <1>3, PartsInBytes
    <3> HIDE DEF m
    <3>4. pos + 1 < m
        BY <1>4, <3>1, <3>2, <3>3 DEF m
    <3> QED  BY <3>1, <3>4, Zenon DEF m
  <2>3. 3 <= pos + 1
      BY <1>4, <2>1
  <2> QED  BY <2>2, <2>3, Zenon
<1>7. DataOrigin(at, c)'
  <2> SUFFICES ASSUME current_frame.status # "FRAME_EMPTY"
               PROVE  \E k \in 1 .. Len(sent) :
                        /\ c = at[k] + Len(FirstPart(sent[k]))
                        /\ pos + 1 < Len(SecondPart(sent[k]))
                        /\ current_frame
                             = HeaderOnly(sent[k].frame_type, sent[k].data,
                                          sent[k].use_crc)
      BY <1>2, Zenon DEF DataOrigin
  <2>1. PICK k \in 1 .. Len(sent) :
            /\ c = at[k] + Len(FirstPart(sent[k]))
            /\ pos < Len(SecondPart(sent[k]))
            /\ current_frame = HeaderOnly(sent[k].frame_type, sent[k].data,
                                          sent[k].use_crc)
      BY <1>2, <1>3, Zenon DEF DataOrigin
  <2> DEFINE n == Len(SecondPart(sent[k]))
  <2>2. pos + 1 # n
      BY <1>2, <1>3, <2>1, DataMatches
  <2>3. n \in Nat
      BY <1>3, PartsInBytes
  <2> HIDE DEF n
  <2>4. pos + 1 < n
      BY <1>4, <2>1, <2>2, <2>3 DEF n
  <2> QED  BY <2>1, <2>4, Zenon DEF n
<1> QED  BY <1>1, <1>2, <1>3, <1>5, <1>6, <1>7, MovesOn

\* A header that is accepted was sent; its data begins where it ends.
LEMMA HeaderEndsOrigin ==
    ASSUME TransportAssumption, CodesAre16Bits, FramesFit,
           IndInv, BytesOK, FramesOK, OriginInv, HeaderCollected
    PROVE  OriginInv'
<1>1. PICK bytes, at, c : Origin(bytes, at, c)
    BY Zenon DEF OriginInv
<1>2. PICK n \in Nat : n = pos + 1
    BY DEF IndInv, ParserOK
<1>3. /\ Collecting /\ Collected = Needed
      /\ current_frame.status = "FRAME_EMPTY"
      /\ buffer' = Dropped(n)
      /\ UNCHANGED <<line, sent, delivered>>
    BY <1>2, Zenon DEF HeaderCollected, lineVars, queueVars
<1>4. n <= Len(buffer)
  <2>1. pos < Len(buffer) /\ pos \in Nat /\ Len(buffer) \in Nat
      BY <1>3, Numbers DEF Collecting, InLoop, IndInv, ParserOK
  <2> QED  BY <1>2, <2>1
<1>5. CASE ~frame_start_found'
    BY <1>3, <1>4, <1>5, DropsAndSearches
<1>6. CASE frame_start_found'
  <2>1. /\ HeaderError(Unescaping) = "HEADER_ONLY"
        /\ current_frame' = ParsedHeader(Unescaping)
        /\ pos' = 0
      BY <1>6, Zenon DEF HeaderCollected, StartOver
  <2>2. PICK k \in 1 .. Len(sent) :
            /\ c = at[k] /\ n = Len(FirstPart(sent[k]))
            /\ current_frame' = HeaderOnly(sent[k].frame_type, sent[k].data,
                                           sent[k].use_crc)
      BY <1>1, <1>2, <1>3, <2>1, HeaderWasSent
  <2>3. c \in Nat /\ Onward(bytes, c) /\ Layout(bytes, at, sent)
      BY <1>1, Zenon DEF Origin
  <2>4. PICK d \in Nat : d = c + n /\ c <= d
      BY <2>3
  <2>5. Onward(bytes, d)'
    <3>1. Onward(bytes, c + n)'
        BY <1>3, <1>4, <2>3, OnwardDropped
    <3> QED  BY <2>4, <3>1, Zenon
  <2>6. HeaderOrigin(at, d)'
    <3>1. current_frame'.status # "FRAME_EMPTY"
        BY <2>2 DEF HeaderOnly
    <3> QED  BY <3>1, Zenon DEF HeaderOrigin
  <2>7. DataOrigin(at, d)'
    <3> DEFINE m == Len(SecondPart(sent[k]))
    <3>1. m \in Nat \ {0}
        BY <2>3, PartsInBytes
    <3> HIDE DEF m
    <3>2. 0 < m
        BY <3>1
    <3>3. d = at[k] + Len(FirstPart(sent[k]))
        BY <2>2, <2>4, Zenon
    <3> QED  BY <1>3, <2>1, <2>2, <3>2, <3>3, Zenon DEF DataOrigin, m
  <2> QED  BY <1>1, <1>3, <2>4, <2>5, <2>6, <2>7, MovesOn
<1> QED  BY <1>5, <1>6

\* The frame whose data is complete was sent, after those delivered before.
LEMMA DataEndsOrigin ==
    ASSUME TransportAssumption, CodesAre16Bits, FramesFit,
           IndInv, BytesOK, FramesOK, OriginInv, DataCollected
    PROVE  OriginInv'
<1>1. PICK bytes, at, c : Origin(bytes, at, c)
    BY Zenon DEF OriginInv
<1>2. PICK l \in Nat : l = pos + 1
    BY DEF IndInv, ParserOK
<1> DEFINE got == ParsedData(current_frame, Unescaping)
<1>3. /\ Collecting /\ frame_start_found /\ Collected = Needed
      /\ current_frame.status # "FRAME_EMPTY"
      /\ buffer' = Dropped(l) /\ ~frame_start_found'
      /\ UNCHANGED <<line, sent>>
    BY <1>2 DEF DataCollected, Collecting, StartOver, lineVars
<1>4. /\ c \in Nat /\ Layout(bytes, at, sent) /\ Onward(bytes, c)
      /\ DataOrigin(at, c) /\ DeliveredOrigin(at, c)
    BY <1>1, Zenon DEF Origin
<1>5. PICK k \in 1 .. Len(sent) :
          /\ c = at[k] + Len(FirstPart(sent[k]))
          /\ pos < Len(SecondPart(sent[k]))
          /\ current_frame = HeaderOnly(sent[k].frame_type, sent[k].data,
                                        sent[k].use_crc)
    BY <1>3, <1>4, Zenon DEF DataOrigin
<1> DEFINE p == at[k]
           m == Len(FirstPart(sent[k]))
           n == Len(SecondPart(sent[k]))
<1>6. /\ l = n
      /\ Unescaping \in Seq(Byte)
      /\ DataError(current_frame, Unescaping) = "COMPLETE_FRAME"
      /\ got.frame_type = sent[k].frame_type
      /\ got.data = sent[k].data
      /\ got.use_crc = sent[k].use_crc
    BY <1>2, <1>3, <1>4, <1>5, DataMatches
<1>7. delivered' = Append(delivered, got)
    BY <1>6, Zenon DEF DataCollected
<1>8. got \in FrameType
  <2>1. current_frame \in FrameType /\ Len(Unescaping) \in Nat
      BY <1>6, LenProperties DEF FramesOK
  <2> QED  BY <1>6, <2>1, ParsedDataType
<1>9. Content(got) = sent[k] /\ sent[k] \in Frames
  <2>1. sent[k] \in Frames
      BY <1>4, PartsInBytes
  <2>2. sent[k] \in [frame_type: Byte, data: Seq(Byte), use_crc: BOOLEAN]
      BY <2>1 DEF TransportAssumption
  <2>3. sent[k] = [frame_type |-> sent[k].frame_type, data |-> sent[k].data,
                   use_crc |-> sent[k].use_crc]
      BY <2>2
  <2> HIDE DEF got
  <2> QED  BY <1>6, <2>1, <2>3, Zenon DEF Content
<1> HIDE DEF got
<1>10. /\ p \in Nat /\ m \in Nat /\ n \in Nat \ {0}
       /\ Len(OnLine(sent[k])) = m + n
    BY <1>4, PartsInBytes
<1> DEFINE before == Done
           next   == before + 1
<1>11. before \in Nat /\ Len(sent) \in Nat
    BY <1>1, LenProperties, OriginFacts DEF FramesOK, Done
<1>12. /\ Done' = next
       /\ \A i \in 1 .. before : delivered'[i] = delivered[i]
       /\ delivered'[next] = got
    BY <1>7, <1>8, AppendProperties DEF FramesOK, Done
<1> HIDE DEF before
<1>13. PICK place \in [1 .. before -> 1 .. Len(sent)] :
        /\ \A i, j \in 1 .. before : i < j => place[i] < place[j]
        /\ \A i \in 1 .. before :
              /\ Content(delivered[i]) = sent[place[i]]
              /\ at[place[i]] + Len(OnLine(sent[place[i]])) <= c
    BY <1>4, Zenon DEF DeliveredOrigin, before
<1>14. PICK d \in Nat : d = c + l
    BY <1>4
<1> HIDE DEF p, m, n
<1>15. c = p + m /\ d = p + m + n /\ c <= d
  <2>1. c = p + m
      BY <1>5, Zenon DEF p, m
  <2> QED  BY <1>6, <1>10, <1>14, <2>1
<1>16. ASSUME NEW i \in 1 .. before
       PROVE  /\ place[i] \in 1 .. Len(sent) /\ place[i] < k
              /\ at[place[i]] + Len(OnLine(sent[place[i]])) <= d
  <2>1. PICK j \in 1 .. Len(sent) : j = place[i]
      BY <1>13
  <2> DEFINE q == at[j]
             e == Len(OnLine(sent[j]))
  <2>2. q \in Nat /\ e \in Nat
      BY <1>4, FramesInBytes
  <2>3. q + e <= c
      BY <1>13, <2>1, Zenon
  <2>4. j < k
    <3> SUFFICES ASSUME k <= j
                 PROVE  FALSE
        BY <1>11
    <3>1. CASE k = j
      <4>1. q = p /\ e = m + n
          BY <1>10, <3>1, Zenon DEF p
      <4> HIDE DEF q, e
      <4> QED  BY <1>10, <1>15, <2>3, <4>1
    <3>2. CASE k < j
      <4>1. p + Len(OnLine(sent[k])) <= q
          BY <1>4, <3>2, Zenon DEF Layout, p
      <4>2. p + (m + n) <= q
          BY <1>10, <4>1, Zenon
      <4> HIDE DEF q, e
      <4> QED  BY <1>10, <1>15, <2>2, <2>3, <4>2
    <3> QED  BY <1>11, <3>1, <3>2
  <2> HIDE DEF q, e
  <2>5. q + e <= d
      BY <1>4, <1>15, <2>2, <2>3
  <2> QED  BY <2>1, <2>4, <2>5, Zenon DEF q, e
<1> DEFINE found == [i \in 1 .. next |-> IF i = next THEN k ELSE place[i]]
<1>17. /\ next \in 1 .. next /\ next \notin 1 .. before
       /\ \A i \in 1 .. next : i = next \/ i \in 1 .. before
       /\ \A i \in 1 .. before : i \in 1 .. next
    BY <1>11
<1>18. ASSUME NEW i \in 1 .. next, NEW j \in 1 .. next, i < j
       PROVE  i \in 1 .. before /\ (j = next \/ j \in 1 .. before)
    BY <1>11, <1>18
<1> HIDE DEF next
<1>19. /\ found \in [1 .. next -> 1 .. Len(sent)]
       /\ found[next] = k
       /\ \A i \in 1 .. before : found[i] = place[i]
  <2>1. \A i \in 1 .. next :
            (IF i = next THEN k ELSE place[i]) \in 1 .. Len(sent)
      BY <1>16, <1>17, Zenon
  <2>2. found \in [1 .. next -> 1 .. Len(sent)]
      BY <2>1, Zenon
  <2>3. found[next] = k
      BY <1>17, Zenon
  <2>4. ASSUME NEW i \in 1 .. before
        PROVE  found[i] = place[i]
    <3>1. i \in 1 .. next /\ i # next
        BY <1>17, Zenon
    <3> QED  BY <3>1, Zenon
  <2> QED  BY <2>2, <2>3, <2>4, Zenon
<1> HIDE DEF found
<1>20. \A i, j \in 1 .. next : i < j => found[i] < found[j]
  <2> SUFFICES ASSUME NEW i \in 1 .. next, NEW j \in 1 .. next, i < j
               PROVE  found[i] < found[j]
      BY Zenon
  <2>1. i \in 1 .. before /\ found[i] = place[i]
      BY <1>18, <1>19, Zenon
  <2>2. CASE j = next
      BY <1>16, <1>19, <2>1, <2>2, Zenon
  <2>3. CASE j \in 1 .. before
    <3>1. found[j] = place[j] /\ place[i] < place[j]
        BY <1>13, <1>19, <2>1, <2>3, Zenon
    <3> QED  BY <2>1, <3>1, Zenon
  <2> QED  BY <1>18, <2>2, <2>3, Zenon
<1>21. ASSUME NEW i \in 1 .. next
       PROVE  /\ Content(delivered'[i]) = sent'[found[i]]
              /\ at[found[i]] + Len(OnLine(sent'[found[i]])) <= d
  <2>1. sent' = sent
      BY <1>3, Zenon
  <2>2. CASE i = next
    <3>1. Content(delivered'[i]) = sent[k] /\ found[i] = k
        BY <1>9, <1>12, <1>19, <2>2, Zenon
    <3>2. p + Len(OnLine(sent[k])) <= d
      <4>1. p + (m + n) <= d
          BY <1>10, <1>15
      <4> QED  BY <1>10, <4>1, Zenon
    <3> QED  BY <2>1, <3>1, <3>2, Zenon DEF p
  <2>3. CASE i \in 1 .. before
    <3>1. Content(delivered'[i]) = sent[place[i]] /\ found[i] = place[i]
        BY <1>12, <1>13, <1>19, <2>3, Zenon
    <3>2. at[place[i]] + Len(OnLine(sent[place[i]])) <= d
        BY <1>16, <2>3, Zenon
    <3> QED  BY <2>1, <3>1, <3>2, Zenon
  <2> QED  BY <1>17, <2>2, <2>3, Zenon
<1>22. DeliveredOrigin(at, d)'
  <2>1. /\ found \in [1 .. Done' -> 1 .. Len(sent')]
        /\ \A i, j \in 1 .. Done' : i < j => found[i] < found[j]
        /\ \A i \in 1 .. Done' :
              /\ Content(delivered'[i]) = sent'[found[i]]
              /\ at[found[i]] + Len(OnLine(sent'[found[i]])) <= d
      BY <1>3, <1>12, <1>19, <1>20, <1>21, Zenon
  <2> QED  BY <2>1, Zenon DEF DeliveredOrigin
<1>23. Onward(bytes, d)'
  <2>1. l <= Len(buffer)
    <3>1. pos < Len(buffer) /\ pos \in Nat /\ Len(buffer) \in Nat
        BY <1>3, Numbers DEF Collecting, InLoop, IndInv, ParserOK
    <3> QED  BY <1>2, <3>1
  <2>2. Onward(bytes, c + l)'
      BY <1>3, <1>4, <2>1, OnwardDropped
  <2> QED  BY <1>14, <2>2, Zenon
<1>24. Layout(bytes, at, sent)'
    BY <1>3, <1>4, Zenon
<1>25. HeaderOrigin(at, d)' /\ DataOrigin(at, d)'
    BY <1>3, Searches
<1>26. Origin(bytes, at, d)'
    BY <1>22, <1>23, <1>24, <1>25, Zenon DEF Origin
<1> QED  BY <1>26, Zenon DEF OriginInv

-----------------------------------------------------------------------------
(***************************************************************************)
(* Nothing is forged                                                       *)
(***************************************************************************)
LEMMA InitOrigin ==
    ASSUME Init
    PROVE  OriginInv
<1>1. /\ sent = <<>> /\ delivered = <<>> /\ frame_start_found = FALSE
    BY DEF Init
<1>2. PICK bytes, at, c : Place(bytes, at, c)
    BY InitArrives DEF ArrivalInv
<1>3. c \in Nat /\ Layout(bytes, at, sent) /\ Onward(bytes, c)
    BY <1>2, Zenon DEF Place
<1>4. HeaderOrigin(at, c) /\ DataOrigin(at, c)
    BY <1>1 DEF HeaderOrigin, DataOrigin
<1>5. DeliveredOrigin(at, c)
  <2>1. Done = 0 /\ 1 .. 0 = {}
      BY <1>1 DEF Done
  <2>2. [i \in {} |-> i] \in [{} -> 1 .. Len(sent)]
      OBVIOUS
  <2> QED  BY <2>1, <2>2, Zenon DEF DeliveredOrigin
<1> QED  BY <1>3, <1>4, <1>5, Zenon DEF OriginInv, Origin

LEMMA NextOrigin ==
    ASSUME TransportAssumption, CodesAre16Bits, FramesFit, QuietNoise,
           IndInv, BytesOK, FramesOK, OriginInv, [Next]_vars
    PROVE  OriginInv'
<1>1. ASSUME UNCHANGED vars
      PROVE  OriginInv'
    BY <1>1, SameOrigin DEF vars, lineVars, queueVars
<1>2. ASSUME NEW frame \in Frames, NEW garbage \in Garbage,
             SendData(frame, garbage)
      PROVE  OriginInv'
    BY <1>2, SendOrigin
<1>3. ASSUME NEW more \in Noise, Disturb(more)
      PROVE  OriginInv'
    BY <1>3, DisturbOrigin
<1>4. ASSUME NEW available \in Available, ReadData(available)
      PROVE  OriginInv'
    BY <1>4, ReadOrigin
<1>5. ASSUME Process
      PROVE  OriginInv'
    BY <1>5, SearchOrigin, StartOrigin, ByteOrigin, WrongPostOrigin,
       HeaderEndsOrigin, DataEndsOrigin, EndOrigin DEF Process
<1>6. ASSUME PopFrame \/ DropFrames(Len(incoming_queue) - 1)
      PROVE  OriginInv'
  <2>1. UNCHANGED <<buffer, parserVars, line, sent, delivered>>
      BY <1>6 DEF PopFrame, DropFrames, lineVars
  <2> QED  BY <2>1, SameOrigin
<1>7. ASSUME ResetProtocol
      PROVE  OriginInv'
    BY <1>7, ResetOrigin
<1> QED
    BY <1>1, <1>2, <1>3, <1>4, <1>5, <1>6, <1>7, Zenon DEF Next, Environment

LEMMA OriginImplies ==
    ASSUME IndInv, BytesOK, FramesOK, OriginInv
    PROVE  NothingForged
<1>1. PICK bytes, at, c : Origin(bytes, at, c)
    BY Zenon DEF OriginInv
<1>2. PICK place \in [1 .. Done -> 1 .. Len(sent)] :
        /\ \A i, j \in 1 .. Done : i < j => place[i] < place[j]
        /\ \A i \in 1 .. Done : Content(delivered[i]) = sent[place[i]]
    BY <1>1, Zenon DEF Origin, DeliveredOrigin
<1>3. DOMAIN delivered = 1 .. Done
    BY LenProperties DEF FramesOK, Done
<1>4. DOMAIN sent = 1 .. Len(sent)
  <2>1. sent \in Seq(Frames)
      BY <1>1, Zenon DEF Origin, Layout
  <2> QED  BY <2>1, LenProperties
<1> QED  BY <1>2, <1>3, <1>4, Zenon DEF NothingForged

(***************************************************************************)
(* However many bytes overflows of the buffer and calls of reset_protocol  *)
(* lose, and wherever in a frame, each frame that is delivered is one that *)
(* was sent, unchanged, the delivered ones in the order of the sent ones   *)
(* and none of them twice: the rest of a frame whose start was lost is not *)
(* taken for another, and neither are bytes that came to where separators  *)
(* had been seen.  The frames and the noise are those of NothingIsLost, and*)
(* crc16 returns sixteen bits.                                             *)
(***************************************************************************)
THEOREM NothingIsForged ==
    ASSUME CodesAre16Bits, FramesFit, QuietNoise
    PROVE  Spec => []NothingForged
<1> DEFINE Inv == IndInv /\ BytesOK /\ FramesOK /\ OriginInv
<1>1. Init => Inv
    BY InitTyped, InitEstablishes, InitOrigin, TransportAssumption
<1>2. Inv /\ [Next]_vars => Inv'
  <2> SUFFICES ASSUME IndInv, BytesOK, FramesOK, OriginInv, [Next]_vars
               PROVE  Inv'
      OBVIOUS
  <2>1. IndInv' /\ BytesOK' /\ FramesOK'
      BY NextPreserves, NextTyped, TransportAssumption
  <2>2. OriginInv'
      BY NextOrigin, TransportAssumption
  <2> QED  BY <2>1, <2>2
<1>3. Inv => NothingForged
    BY OriginImplies
<1> QED  BY <1>1, <1>2, <1>3, PTL DEF Spec

=============================================================================
