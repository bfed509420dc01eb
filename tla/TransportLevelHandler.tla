----------------------- MODULE TransportLevelHandler -----------------------
(***************************************************************************)
(* haier_protocol::TransportLevelHandler at the receiving end of a line    *)
(* whose other end writes frames with send_data.  read_data moves what the *)
(* stream has available into the buffer, process_data finds frames in it,  *)
(* one iteration of its loop at a time.                                    *)
(*                                                                         *)
(* The circular buffer is the sequence of its contents, which is what      *)
(* CircularBufferProofs shows it to be; buf_size, a local variable of      *)
(* process_data, always is the length of it.  The test for a frame timeout *)
(* is left out: it asks whether the status of the current frame is greater *)
(* than FRAME_EMPTY, the greatest status there is.                         *)
(***************************************************************************)
EXTENDS HaierFrame, SequencesExt

CONSTANTS
    Capacity,       \* of the buffer; ProtocolHandler asks for 251
    Available,      \* numbers of bytes that a call of read_data may find
    Frames,         \* frames that the other end sends
    Garbage,        \* what new uint8_t[size] may find in memory
    Noise,          \* byte sequences that the line inserts between frames
    MaxFrames,      \* bound: frames sent in a behaviour
    MaxNoise,       \* bound: insertions in a behaviour
    Resets          \* whether reset_protocol is called

ASSUME TransportAssumption ==
    /\ Capacity \in Nat \ {0}
    /\ Available \subseteq Nat \ {0}
    /\ Frames \subseteq
         [frame_type: Byte, data: Seq(Byte), use_crc: BOOLEAN]
    /\ Garbage \subseteq Byte
    /\ Noise \subseteq Seq(Byte)
    /\ MaxFrames \in Nat
    /\ MaxNoise \in Nat
    /\ Resets \in BOOLEAN

VARIABLES
    buffer,             \* buffer_
    pos,                \* pos_
    sep_count,          \* sep_count_
    frame_start_found,  \* frame_start_found_
    current_frame,      \* current_frame_
    incoming_queue,     \* incoming_queue_
    processing,         \* whether process_data is in its loop
    bytes_to_drop,      \* its local variable
    line,               \* bytes written and not yet read
    sent,               \* history: frames the other end called send_data for
    delivered,          \* history: frames pushed to incoming_queue
    noise               \* history: how often noise was inserted

parserVars == <<pos, sep_count, frame_start_found, current_frame>>
loopVars   == <<processing, bytes_to_drop>>
lineVars   == <<line, sent, noise>>
queueVars  == <<incoming_queue, delivered>>
vars == <<buffer, parserVars, loopVars, lineVars, queueVars>>

Init ==
    /\ buffer = <<>>
    /\ pos = 0
    /\ sep_count = 0
    /\ frame_start_found = FALSE
    /\ current_frame = EmptyFrame
    /\ incoming_queue = <<>>
    /\ processing = FALSE
    /\ bytes_to_drop = 0
    /\ line = <<>>
    /\ sent = <<>>
    /\ delivered = <<>>
    /\ noise = 0

Lesser(a, b) == IF a < b THEN a ELSE b

Dropped(n) == SubSeq(buffer, n + 1, Len(buffer))

\* Mutants of StartOver: not everything is reset.
CountKept ==
    /\ frame_start_found' = FALSE
    /\ current_frame' = EmptyFrame
    /\ pos' = 0
    /\ UNCHANGED sep_count
FrameKept ==
    /\ pos' = 0
    /\ sep_count' = 0
    /\ UNCHANGED <<frame_start_found, current_frame>>

StartOver ==
    /\ frame_start_found' = FALSE
    /\ current_frame' = EmptyFrame
    /\ pos' = 0
    /\ sep_count' = 0

KeepGarbageCount == UNCHANGED bytes_to_drop     \* mutant of GarbageGone
GarbageGone == bytes_to_drop' = 0

-----------------------------------------------------------------------------
(***************************************************************************)
(* The other end and the line                                              *)
(***************************************************************************)
Accepted(frame) == Len(frame.data) <= MAX_FRAME_SIZE - PURE_HEADER_SIZE

\* send_data, with what happened to be in the memory it allocated.
SendData(frame, garbage) ==
    /\ Len(sent) < MaxFrames
    /\ sent' = Append(sent, frame)
    /\ line' = IF Accepted(frame)
               THEN line \o fill_buffer(NewFrame(frame.frame_type, frame.data,
                                                 frame.use_crc), garbage)
               ELSE line
    /\ UNCHANGED <<buffer, parserVars, loopVars, queueVars, noise>>

Disturb(bytes) ==
    /\ noise < MaxNoise
    /\ noise' = noise + 1
    /\ line' = line \o bytes
    /\ UNCHANGED <<buffer, parserVars, loopVars, queueVars, sent>>

-----------------------------------------------------------------------------
(***************************************************************************)
(* read_data, and process_data up to its loop.  If what is available does  *)
(* not fit, the oldest bytes go, and with them the start of the frame that *)
(* was being received; when none was, pos_ is left as it is.               *)
(***************************************************************************)
KeptAtOverflow == UNCHANGED parserVars      \* mutant of LostAtOverflow
LostAtOverflow ==
    IF frame_start_found THEN StartOver ELSE UNCHANGED parserVars

ReadData(available) ==
    LET count == Lesser(Lesser(available, Len(line)), Capacity)
        space == Capacity - Len(buffer)
    IN
    /\ ~processing
    /\ line' = SubSeq(line, count + 1, Len(line))
    /\ \/ /\ count <= space
          /\ buffer' = buffer \o SubSeq(line, 1, count)
          /\ UNCHANGED parserVars
       \/ /\ count > space
          /\ buffer' = Dropped(count - space) \o SubSeq(line, 1, count)
          /\ LostAtOverflow
    /\ processing' = TRUE
    /\ UNCHANGED <<bytes_to_drop, sent, noise, queueVars>>

-----------------------------------------------------------------------------
(***************************************************************************)
(* process_data, searching for the beginning of a frame                    *)
(***************************************************************************)
InLoop == processing /\ pos < Len(buffer)

Current == buffer[pos + 1]

Searching == InLoop /\ ~frame_start_found

BeforeHere == pos            \* mutant of UpToHere
UpToHere   == pos + 1

\* Of several separators in a row the last two count.
SeparatorSeen ==
    /\ Searching
    /\ Current = SEPARATOR_BYTE
    /\ bytes_to_drop' = IF pos + 1 - bytes_to_drop > FRAME_SEPARATORS_COUNT
                        THEN pos + 1 - FRAME_SEPARATORS_COUNT
                        ELSE bytes_to_drop
    /\ pos' = pos + 1
    /\ UNCHANGED <<buffer, sep_count, frame_start_found, current_frame,
                   processing, lineVars, queueVars>>

StartFound ==
    /\ Searching
    /\ Current # SEPARATOR_BYTE
    /\ pos - bytes_to_drop = FRAME_SEPARATORS_COUNT
    /\ frame_start_found' = TRUE
    /\ buffer' = Dropped(bytes_to_drop)
    /\ pos' = pos - bytes_to_drop + 1
    /\ GarbageGone
    /\ UNCHANGED <<sep_count, current_frame, processing, lineVars, queueVars>>

GarbageSeen ==
    /\ Searching
    /\ Current # SEPARATOR_BYTE
    /\ pos - bytes_to_drop # FRAME_SEPARATORS_COUNT
    /\ bytes_to_drop' = UpToHere
    /\ pos' = pos + 1
    /\ UNCHANGED <<buffer, sep_count, frame_start_found, current_frame,
                   processing, lineVars, queueVars>>

-----------------------------------------------------------------------------
(***************************************************************************)
(* process_data, collecting the header and then the data                   *)
(***************************************************************************)
Counted == IF Current = SEPARATOR_BYTE THEN sep_count + 1 ELSE sep_count

\* How many bytes there are without the post bytes.
Collected == pos + 1 - Counted

Needed ==
    IF current_frame.status = "FRAME_EMPTY" THEN FRAME_HEADER_SIZE
    ELSE current_frame.data_size + TrailerSize(current_frame)

\* The first bytes up to here, from where separators are escaped on.
Escapable ==
    IF current_frame.status = "FRAME_EMPTY" THEN FRAME_SEPARATORS_COUNT + 2
    ELSE 2

AfterSeparator ==
    {i \in Escapable .. pos + 1 : buffer[i - 1] = SEPARATOR_BYTE}

BadPosts == {i \in AfterSeparator : buffer[i] # SEPARATOR_POST_BYTE}

\* What is dropped before the search starts over at the separator that has
\* no post byte.
PastSeparator == Min(BadPosts) - 1       \* mutant of BeforeSeparator
BeforeSeparator == Min(BadPosts) - 2

Unescaping ==
    Concatenated([i \in 1 .. pos + 1 |->
                    IF i \in AfterSeparator THEN <<>> ELSE <<buffer[i]>>])

Collecting == InLoop /\ frame_start_found

ByteCollected ==
    /\ Collecting
    /\ Collected # Needed
    /\ sep_count' = Counted
    /\ pos' = pos + 1
    /\ UNCHANGED <<buffer, frame_start_found, current_frame, loopVars,
                   lineVars, queueVars>>

WrongPostByte ==
    /\ Collecting
    /\ Collected = Needed
    /\ BadPosts # {}
    /\ buffer' = Dropped(BeforeSeparator)
    /\ StartOver
    /\ UNCHANGED <<loopVars, lineVars, queueVars>>

HeaderCollected ==
    /\ Collecting
    /\ current_frame.status = "FRAME_EMPTY"
    /\ Collected = Needed
    /\ BadPosts = {}
    /\ buffer' = Dropped(pos + 1)
    /\ \/ /\ HeaderError(Unescaping) = "HEADER_ONLY"
          /\ current_frame' = ParsedHeader(Unescaping)
          /\ pos' = 0
          /\ sep_count' = 0
          /\ UNCHANGED frame_start_found
       \/ /\ HeaderError(Unescaping) # "HEADER_ONLY"
          /\ StartOver
    /\ UNCHANGED <<loopVars, lineVars, queueVars>>

DataCollected ==
    /\ Collecting
    /\ current_frame.status = "FRAME_HEADER_ONLY"
    /\ Collected = Needed
    /\ BadPosts = {}
    /\ buffer' = Dropped(pos + 1)
    /\ \/ LET frame == ParsedData(current_frame, Unescaping) IN
          /\ DataError(current_frame, Unescaping) = "COMPLETE_FRAME"
          /\ incoming_queue' = Append(incoming_queue, frame)
          /\ delivered' = Append(delivered, frame)
       \/ /\ DataError(current_frame, Unescaping) # "COMPLETE_FRAME"
          /\ UNCHANGED queueVars
    /\ StartOver
    /\ UNCHANGED <<loopVars, lineVars>>

ProcessEnds ==
    /\ processing
    /\ pos >= Len(buffer)
    /\ buffer' = Dropped(bytes_to_drop)
    /\ pos' = pos - bytes_to_drop
    /\ GarbageGone
    /\ processing' = FALSE
    /\ UNCHANGED <<sep_count, frame_start_found, current_frame, lineVars,
                   queueVars>>

-----------------------------------------------------------------------------
(***************************************************************************)
(* Other operations                                                        *)
(***************************************************************************)
\* pop
PopFrame ==
    /\ ~processing
    /\ incoming_queue # <<>>
    /\ incoming_queue' = Tail(incoming_queue)
    /\ UNCHANGED <<buffer, parserVars, loopVars, lineVars, delivered>>

\* drop, which ProtocolHandler calls to keep the last frame only
DropFrames(frames_count) ==
    /\ ~processing
    /\ incoming_queue' =
         SubSeq(incoming_queue,
                Lesser(frames_count, Len(incoming_queue)) + 1,
                Len(incoming_queue))
    /\ UNCHANGED <<buffer, parserVars, loopVars, lineVars, delivered>>

\* reset_protocol, which nothing in the repository calls
ResetProtocol ==
    /\ Resets
    /\ ~processing
    /\ buffer' = Dropped(Lesser(pos, Len(buffer)))
    /\ StartOver
    /\ UNCHANGED <<loopVars, lineVars, queueVars>>

Process ==
    \/ SeparatorSeen
    \/ StartFound
    \/ GarbageSeen
    \/ ByteCollected
    \/ WrongPostByte
    \/ HeaderCollected
    \/ DataCollected
    \/ ProcessEnds

Environment ==
    \/ \E frame \in Frames, garbage \in Garbage : SendData(frame, garbage)
    \/ \E bytes \in Noise : Disturb(bytes)

Next ==
    \/ Environment
    \/ \E available \in Available : ReadData(available)
    \/ Process
    \/ PopFrame
    \/ Len(incoming_queue) > 1 /\ DropFrames(Len(incoming_queue) - 1)
    \/ ResetProtocol

Spec == Init /\ [][Next]_vars

\* ProtocolHandler::loop() is called for ever and calls read_data and
\* process_data each time.
FairSpec ==
    /\ Spec
    /\ WF_vars(\E available \in Available : ReadData(available))
    /\ WF_vars(Process)

-----------------------------------------------------------------------------
(***************************************************************************)
(* Properties                                                              *)
(***************************************************************************)
FrameStatus == {"FRAME_EMPTY", "FRAME_HEADER_ONLY", "FRAME_COMPLETE"}

FrameType ==
    [status: FrameStatus, frame_type: Byte, use_crc: BOOLEAN, data_size: Byte,
     data: Seq(Byte), checksum: Byte, crc: Code, additional_bytes: Byte]

\* Every variable has a value of its type.
TypeOK ==
    /\ buffer \in Seq(Byte)
    /\ Len(buffer) <= Capacity
    /\ pos \in Nat
    /\ sep_count \in Nat
    /\ frame_start_found \in BOOLEAN
    /\ current_frame \in FrameType
    /\ incoming_queue \in Seq(FrameType)
    /\ delivered \in Seq(FrameType)
    /\ processing \in BOOLEAN
    /\ bytes_to_drop \in Nat
    /\ line \in Seq(Byte)
    /\ noise \in Nat

(***************************************************************************)
(* The parser's counters describe the buffer: pos_ is within it, sep_count_*)
(* is the number of separators among the bytes collected, bytes_to_drop    *)
(* never exceeds pos_ (they are subtracted as unsigned numbers), and a     *)
(* frame whose header is known is one whose start was found.               *)
(***************************************************************************)
CountersDescribeBuffer ==
    /\ bytes_to_drop <= pos
    /\ pos <= Len(buffer)
    /\ frame_start_found => bytes_to_drop = 0
    /\ sep_count =
         IF ~frame_start_found THEN 0
         ELSE Separators(SubSeq(buffer, IF current_frame.status = "FRAME_EMPTY"
                                        THEN FRAME_SEPARATORS_COUNT + 1 ELSE 1,
                                pos))
    /\ current_frame.status # "FRAME_EMPTY" =>
         frame_start_found /\ current_frame.status = "FRAME_HEADER_ONLY"

(***************************************************************************)
(* Between two calls process_data leaves nothing behind that it could have *)
(* dealt with: the buffer holds the part of a frame collected so far, or at*)
(* most two separators that may become the start of one.                   *)
(***************************************************************************)
OnlyUnfinishedLeft ==
    ~processing =>
        /\ pos = Len(buffer)
        /\ frame_start_found \/ Separators(buffer) = Len(buffer)
        /\ frame_start_found \/ Len(buffer) <= FRAME_SEPARATORS_COUNT
        /\ frame_start_found => Len(buffer) - sep_count < Needed

Content(frame) ==
    [frame_type |-> frame.frame_type, data |-> frame.data,
     use_crc |-> frame.use_crc]

Received == [i \in DOMAIN delivered |-> Content(delivered[i])]

(***************************************************************************)
(* However the bytes are split over calls of read_data, whatever separator *)
(* and post bytes a frame contains and whatever noise came before it, each *)
(* frame that was sent is delivered once, in order, unchanged, and without *)
(* waiting for more bytes: once all was read and processed, none is left.  *)
(* Noise that looks like a header makes the parser wait for its data; the  *)
(* two separators of the next frame, which cannot be data, end that wait,  *)
(* and the frame is found again in what was collected.                     *)
(***************************************************************************)
NothingLost ==
    /\ IsPrefix(Received, sent)
    /\ ~processing /\ line = <<>> => Received = sent

(***************************************************************************)
(* "Frame data - n byte ... Max size 246" (README.rst): a frame with that  *)
(* much data is sent and received like any other.                          *)
(***************************************************************************)
DocumentedDataArrives ==
    ~processing /\ line = <<>> /\ (\A i \in DOMAIN sent : Len(sent[i].data) <= 246)
        => Received = sent

(***************************************************************************)
(* What is delivered was sent, in the same order and each frame at most    *)
(* once, even when the buffer overflows in the middle of frames or         *)
(* reset_protocol is called: the delivered frames have increasing places   *)
(* among those that were sent.                                             *)
(***************************************************************************)
NothingForged ==
    \E place \in [DOMAIN delivered -> DOMAIN sent] :
        /\ \A i, j \in DOMAIN delivered : i < j => place[i] < place[j]
        /\ \A i \in DOMAIN delivered : Content(delivered[i]) = sent[place[i]]

(***************************************************************************)
(* The loop of process_data ends, though it goes back to the start of the  *)
(* buffer after an error, in one case without dropping a byte.             *)
(***************************************************************************)
ProcessingEnds == processing ~> ~processing

(***************************************************************************)
(* "Frame timeout!": a frame that does not go on is given up.              *)
(***************************************************************************)
UnfinishedFrameGivenUp == []<>(current_frame.status = "FRAME_EMPTY")

=============================================================================
