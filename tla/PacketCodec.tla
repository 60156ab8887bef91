---------------------------- MODULE PacketCodec ----------------------------
(***************************************************************************)
(* Binary packet framing of pinch (src/src/packet.cpp): opacket::write     *)
(* frames a payload with the packet header and random padding;             *)
(* ipacket::append rebuilds an inbound packet from the cipher blocks that  *)
(* crypto_engine::get_next_packet hands it; the ipacket readers take       *)
(* length-prefixed fields out of the completed packet.                     *)
(*                                                                         *)
(* The sender is either pinch's own opacket::write (Frame) or a hostile    *)
(* peer whose header fields are arbitrary (HostileFrame).  Bytes are       *)
(* numbers; payload byte i is the token 255 + i, so that the copy can be   *)
(* followed; padding bytes are 0.                                          *)
(*                                                                         *)
(* uint32_t values are kept in their two's-complement bit pattern: a value *)
(* v >= 2^31 is the integer v - 2^32, which TLC can hold.  Addition and    *)
(* subtraction of small numbers then wrap exactly as in C++, and UGt       *)
(* compares as unsigned.                                                   *)
(***************************************************************************)
EXTENDS Naturals, Integers, Sequences, SequencesExt, FiniteSetsExt

CONSTANTS
    BlockSizes,      \* cipher block sizes (m_iblocksize / m_oblocksize)
    PayloadLens,     \* payload sizes pinch writes (message byte included)
    HostileLengths,  \* packet_length fields a hostile peer may send
    HostilePaddings, \* padding_length fields a hostile peer may send
    FieldKinds,      \* ipacket readers applied to the completed packet
    FieldLens,       \* length prefixes the packet may carry
    MaxReads,        \* bound on fields read from one packet
    FilterBuffer,    \* boost::iostreams default_filter_buffer_size (128)
    EncryptLens,     \* payload sizes sent through packet_encryptor
    StreamPackets,   \* message bodies on a stream ipacket::read parses
    ChunkSizes       \* sizes of the network reads that stream arrives in

ASSUME /\ BlockSizes \subseteq {8, 16}
       /\ PayloadLens \subseteq 1..64
       /\ HostileLengths \subseteq 0..65535
       /\ HostilePaddings \subseteq 0..255
       /\ FieldKinds \subseteq {"string", "blob"}
       /\ FilterBuffer \in Nat \ {0} /\ EncryptLens \subseteq Nat \ {0}
       /\ StreamPackets \in Seq(Seq(0..255)) /\ ChunkSizes \subseteq Nat \ {0}

\* channel.hpp: kMaxPacketSize = 0x8000
kMaxPacketSize == 32768

(* Unsigned comparison of two uint32_t bit patterns.                       *)
UGt(a, b) == IF (a < 0) = (b < 0) THEN a > b ELSE a < 0

Bytes(n) == [i \in 1..n |-> 0]
Payload(L) == [i \in 1..L |-> 255 + i]
Ceil(a, b) == (a + b - 1) \div b

-----------------------------------------------------------------------------
(* opacket::write: padding so that header, payload and padding fill whole  *)
(* blocks; none if they already do; then whole blocks until at least 4.    *)
RECURSIVE AtLeastFour(_, _)
AtLeastFour(p, bs) == IF p < 4 THEN AtLeastFour(p + bs, bs) ELSE p

(* Mutant of PaddingSize: the loop runs while padding_size <= 4, so four  *)
(* bytes of padding get a block more (one step suffices for bs >= 8).      *)
PaddingSize_LessEq(L, bs) ==
    LET p == bs - ((L + 5) % bs)
        p0 == IF p = bs THEN 0 ELSE p
    IN  IF p0 <= 4 THEN p0 + bs ELSE p0

PaddingSize(L, bs) ==
    LET size == L + 5
        p == bs - (size % bs)
    IN  AtLeastFour(IF p = bs THEN 0 ELSE p, bs)

(* The header: packet_length = size + padding - 4, big-endian, then the    *)
(* padding length byte.                                                    *)
Header(len, pad) ==
    << (len \div 16777216) % 256, (len \div 65536) % 256,
       (len \div 256) % 256, len % 256, pad % 256 >>

Frame(L, bs) ==
    LET pad == PaddingSize(L, bs)
    IN  Header(L + 1 + pad, pad) \o Payload(L) \o Bytes(pad)

(* A peer's frame with arbitrary header fields, cut to whole blocks.  A    *)
(* length append refuses outright is followed by nothing.                  *)
HostileFrame(len, pad, bs) ==
    LET body == IF len > kMaxPacketSize + 32 THEN bs - 5 ELSE Ceil(4 + len, bs) * bs - 5
    IN  Header(len, pad) \o [i \in 1..body |-> 255 + i]

(* The reference: RFC 4253 6, the smallest padding of at least four bytes  *)
(* that makes the frame a multiple of the block size.                      *)
RfcPadding(L, bs) == Min({p \in 4..(bs + 3) : (L + 5 + p) % bs = 0})

-----------------------------------------------------------------------------
(* crypto_engine::get_next_request pushes a packet_encryptor on a          *)
(* filtering_stream and lets opacket::write put the frame through it.  The *)
(* stream hands the filter its input in pieces of FilterBuffer bytes, and  *)
(* the rest when it is flushed on destruction; flush then appends the MAC *)
(* and asserts that no partial block is left.                              *)
Pieces(n) == [i \in 1..Ceil(n, FilterBuffer) |->
                 IF i * FilterBuffer <= n THEN FilterBuffer
                 ELSE n - (i - 1) * FilterBuffer]

(* packet_encryptor::write(sink, s, n): for (o = 0; o < n; o += bs), take *)
(* k = min(n, bs - m_block.size()) bytes of s into the MAC and m_block,   *)
(* and encrypt m_block once it is whole.  Result: m_block's fill after the *)
(* call and the bytes taken from s.                                        *)
RECURSIVE write_loop(_, _, _, _, _)
(* Mutant of write_loop: the loop runs while o <= n.                       *)
write_loop_LessEq(o, n, fill, took, b) ==
    IF o > n THEN [fill |-> fill, took |-> took]
    ELSE LET k == IF n > b - fill THEN b - fill ELSE n
         IN  write_loop(o + b, n, IF fill + k = b THEN 0 ELSE fill + k, took + k, b)

write_loop(o, n, fill, took, b) ==
    IF o >= n THEN [fill |-> fill, took |-> took]
    ELSE LET k == IF n > b - fill THEN b - fill ELSE n
         IN  write_loop(o + b, n, IF fill + k = b THEN 0 ELSE fill + k, took + k, b)

(* Every call takes exactly its piece, and m_block is empty at the end.    *)
RECURSIVE PiecesTaken(_, _, _)
PiecesTaken(ps, fill, b) ==
    IF ps = <<>> THEN fill = 0
    ELSE LET r == write_loop(0, Head(ps), fill, 0, b)
         IN  r.took = Head(ps) /\ PiecesTaken(Tail(ps), r.fill, b)

-----------------------------------------------------------------------------
(* The stream ipacket::read parses: each message is its uint32 length,     *)
(* big-endian, and its body.                                               *)
StreamHeader(n) == <<(n \div 2^24) % 256, (n \div 2^16) % 256,
                     (n \div 2^8) % 256, n % 256>>
Wire == FoldLeft(LAMBDA w, b : w \o StreamHeader(Len(b)) \o b, <<>>, StreamPackets)

(* ipacket::ipacket(nr) and ipacket::clear: no buffer, every field zero.  *)
(* alloc stands for m_data != nullptr.                                     *)
EmptyPacket == [m_data |-> <<>>, alloc |-> FALSE, m_length |-> 0,
                m_offset |-> 0, m_complete |-> FALSE]

-----------------------------------------------------------------------------
VARIABLES
    frame,       \* the bytes on the wire, whole blocks
    bs,          \* m_iblocksize
    legit,       \* the frame was written by opacket::write
    payloadLen,  \* its payload size, when legit
    nextBlock,   \* blocks handed to append so far
    m_length, m_padding, m_offset, m_message, m_complete,
    m_data,      \* the bytes written into the buffer, in order
    allocated,   \* m_data != nullptr
    capacity,    \* the size m_data was allocated with
    thrown,      \* a packet_exception ended the packet
    reads,       \* fields read so far
    rd,          \* the ipacket ipacket::read fills from the stream
    rdFault,     \* how read ended the stream: "none", an exception or UB
    received,    \* stream bytes the network reads returned so far
    chunk,       \* what is left of the last network read
    consumed,    \* stream bytes read took
    delivered    \* the completed packets the caller handed out

codecVars == <<frame, bs, legit, payloadLen, nextBlock, m_length, m_padding,
               m_offset, m_message, m_complete, m_data, allocated, capacity,
               thrown, reads>>
streamVars == <<rd, rdFault, received, chunk, consumed, delivered>>
vars == <<codecVars, streamVars>>

Block(k) == SubSeq(frame, (k - 1) * bs + 1, k * bs)

(* ipacket::ipacket(nr): everything zero, no buffer.                       *)
Init ==
    /\ bs \in BlockSizes
    /\ \/ \E L \in PayloadLens :
            frame = Frame(L, bs) /\ legit = TRUE /\ payloadLen = L
       \/ \E len \in HostileLengths, pad \in HostilePaddings :
            frame = HostileFrame(len, pad, bs) /\ legit = FALSE /\ payloadLen = 0
    /\ nextBlock = 0
    /\ m_length = 0 /\ m_padding = 0 /\ m_offset = 0 /\ m_message = 0
    /\ m_complete = FALSE
    /\ m_data = <<>>
    /\ allocated = FALSE
    /\ capacity = 0
    /\ thrown = FALSE
    /\ reads = 0
    /\ rd = EmptyPacket /\ rdFault = "none"
    /\ received = 0 /\ chunk = <<>> /\ consumed = 0 /\ delivered = <<>>

(* The last block completes the packet: drop the padding from the length. *)
(* Mutant of Finish: the padding is left in the length.                    *)
Finish_KeepsPadding(length, offset, padding) ==
    IF offset = length
    THEN m_complete' = TRUE /\ m_length' = length /\ m_offset' = 1
    ELSE UNCHANGED m_complete /\ m_length' = length /\ m_offset' = offset

Finish(length, offset, padding) ==
    IF offset = length
    THEN m_complete' = TRUE /\ m_length' = length - padding /\ m_offset' = 1
    ELSE UNCHANGED m_complete /\ m_length' = length /\ m_offset' = offset

(* The two checks of the first block, with a mutant of each that drops it. *)
TooLong_Never(len) == FALSE
TooLong(len) == UGt(len, kMaxPacketSize + 32)
TooLarge_Never(size, length) == FALSE
TooLarge(size, length) == UGt(size, length + 5)

(* ipacket::append of the first block: parse the header, allocate the      *)
(* buffer, copy what follows the header.  The length check precedes the   *)
(* decrement; the size check follows the allocation, so a block too large *)
(* for the length throws with the header fields already taken.            *)
AppendFirst(block) ==
    LET len == FoldLeft(LAMBDA acc, b : acc * 256 + b, 0, SubSeq(block, 1, 4))
        length == len - 1
    IN  \/ /\ TooLong(len)
           /\ thrown' = TRUE
           /\ UNCHANGED <<m_length, m_padding, m_offset, m_message, m_complete,
                          m_data, allocated, capacity>>
        \/ /\ ~TooLong(len)
           /\ m_padding' = block[5]
           /\ m_message' = block[6]
           /\ allocated' = TRUE
           /\ capacity' = length
           /\ IF TooLarge(Len(block), length)
              THEN /\ thrown' = TRUE
                   /\ m_length' = length /\ m_offset' = 1
                   /\ UNCHANGED <<m_complete, m_data>>
              ELSE /\ m_data' = SubSeq(block, 6, Len(block))
                   /\ Finish(length, Len(block) - 5, block[5])
                   /\ UNCHANGED thrown

(* ipacket::append of a later block: copy up to what the length leaves.    *)
AppendNext(block) ==
    LET n == Min({m_length - m_offset, Len(block)})
    IN  /\ m_data' = m_data \o SubSeq(block, 1, n)
        /\ Finish(m_length, m_offset + n, m_padding)
        /\ UNCHANGED <<m_padding, m_message, allocated, capacity, thrown>>

(* get_next_packet: while a whole block is buffered and the packet is not  *)
(* complete, append the next block.                                        *)
append ==
    /\ ~m_complete /\ ~thrown
    /\ nextBlock < Len(frame) \div bs
    /\ nextBlock' = nextBlock + 1
    /\ IF allocated THEN AppendNext(Block(nextBlock + 1))
                    ELSE AppendFirst(Block(nextBlock + 1))
    /\ UNCHANGED <<frame, bs, legit, payloadLen, reads>>
    /\ UNCHANGED streamVars

(* A reader of a length-prefixed field.  The uint32 prefix is read with a  *)
(* bounds check (operator>>(uint32_t), packet.hpp).  operator>>(string)    *)
(* then checks m_offset + len against m_length; the blob, Integer, pair    *)
(* and ipacket readers check only len against m_length.                    *)
FieldFits(kind, l) ==
    IF kind = "string" THEN ~UGt(m_offset + 4 + l, m_length)
                       ELSE ~UGt(l, m_length)

ReadField ==
    /\ m_complete /\ ~thrown
    /\ reads < MaxReads
    /\ \E kind \in FieldKinds, l \in FieldLens :
         IF ~UGt(m_offset + 4, m_length) /\ FieldFits(kind, l)
         THEN m_offset' = m_offset + 4 + l /\ UNCHANGED thrown
         ELSE thrown' = TRUE /\ UNCHANGED m_offset
    /\ reads' = reads + 1
    /\ UNCHANGED <<frame, bs, legit, payloadLen, nextBlock, m_length, m_padding,
                   m_message, m_complete, m_data, allocated, capacity>>
    /\ UNCHANGED streamVars

-----------------------------------------------------------------------------
(* ipacket::read parses a stream of messages that are a uint32 length and *)
(* that many bytes, without padding or MAC.  The caller hands it what is  *)
(* left of a network read; read takes length bytes, then body bytes, and  *)
(* returns how many it took.  Once the packet is complete the caller hands *)
(* it out and clears it for the rest of the stream.                        *)
(* The bytes of the body one call copies: what the data holds, no more    *)
(* than the packet still lacks.                                            *)
(* Mutant of BodyTake: the copy is not clamped to what the packet lacks.   *)
BodyTake_Unclamped(size, left) == size

BodyTake(size, left) == IF size > left THEN left ELSE size

(* One call of ipacket::read on d.  Without a buffer the length loop takes *)
(* up to 4 - m_offset bytes, most significant first; at the fourth the     *)
(* length is checked, the buffer allocated and the body bytes that follow *)
(* copied.  With a buffer the body bytes are copied.  Either way, m_offset *)
(* equal to m_length completes the packet, reading m_message from          *)
(* m_data[0]: with no buffer yet (a length loop cut after byte m_offset    *)
(* whose partial length equals m_offset) that is a null dereference.       *)
read(d) ==
    LET h    == IF rd.alloc THEN 0 ELSE Min({4 - rd.m_offset, Len(d)})
        \* four bytes shifted into a zero m_length: never wraps a uint32
        len  == FoldLeft(LAMBDA acc, b : acc * 256 + b, rd.m_length, SubSeq(d, 1, h))
        off  == rd.m_offset + h
        opens == ~rd.alloc /\ off = 4
        k    == IF opens THEN BodyTake(Len(d) - h, len)
                ELSE IF rd.alloc THEN BodyTake(Len(d), rd.m_length - rd.m_offset)
                ELSE 0
        data == IF opens THEN SubSeq(d, h + 1, h + k) ELSE rd.m_data \o SubSeq(d, 1, k)
        offset == IF opens THEN k ELSE IF rd.alloc THEN rd.m_offset + k ELSE off
        done == offset = len
    IN  IF opens /\ len > kMaxPacketSize
        THEN /\ rdFault' = "packet_exception"
             /\ rd' = [rd EXCEPT !.m_length = len, !.m_offset = off]
             /\ UNCHANGED <<chunk, consumed>>
        ELSE /\ rdFault' = IF done /\ ~(rd.alloc \/ opens) THEN "null_deref"
                                                           ELSE "none"
             /\ rd' = [m_data |-> data, alloc |-> rd.alloc \/ opens,
                       m_length |-> len, m_complete |-> done,
                       m_offset |-> IF done THEN 1 ELSE offset]
             /\ chunk' = SubSeq(d, h + k + 1, Len(d))
             /\ consumed' = consumed + h + k

(* The caller gives read what is left of the last network read while the  *)
(* packet is not complete.                                                 *)
ReadChunk ==
    /\ chunk # <<>> /\ ~rd.m_complete /\ rdFault = "none"
    /\ read(chunk)
    /\ UNCHANGED <<received, delivered>>
    /\ UNCHANGED codecVars

(* A network read returns the next bytes of the stream, once the last is  *)
(* used up.                                                                *)
Receive ==
    /\ chunk = <<>> /\ received < Len(Wire) /\ rdFault = "none"
    /\ \E n \in ChunkSizes :
         LET upto == Min({received + n, Len(Wire)})
         IN  chunk' = SubSeq(Wire, received + 1, upto) /\ received' = upto
    /\ UNCHANGED <<rd, rdFault, consumed, delivered>>
    /\ UNCHANGED codecVars

(* The caller hands the completed packet out and calls ipacket::clear.    *)
clear ==
    /\ rd.m_complete
    /\ delivered' = Append(delivered, rd.m_data)
    /\ rd' = EmptyPacket
    /\ UNCHANGED <<rdFault, received, chunk, consumed>>
    /\ UNCHANGED codecVars

StreamStep == ReadChunk \/ Receive \/ clear

Next == append \/ ReadField \/ StreamStep

(* The stream's caller keeps reading while the peer sends; the codec's    *)
(* steps need no fairness.                                                 *)
Spec == Init /\ [][Next]_vars /\ WF_vars(StreamStep)

-----------------------------------------------------------------------------
TypeOK ==
    /\ bs \in BlockSizes
    /\ nextBlock \in 0..Len(frame) \div bs
    /\ m_padding \in 0..255
    /\ m_offset \in Int
    \* the decremented packet_length append accepted; -1 is 0xFFFFFFFF
    /\ allocated => m_length \in -1..(kMaxPacketSize + 31)
    /\ m_data \in Seq(Nat)
    /\ {allocated, m_complete, thrown, legit} \subseteq BOOLEAN
    /\ reads \in 0..MaxReads
    /\ rdFault \in {"none", "packet_exception", "null_deref"}
    /\ consumed <= received /\ received <= Len(Wire)

(* opacket::write pads exactly as RFC 4253 section 6 asks, for every       *)
(* payload size and block size: at least four bytes, the least that fills  *)
(* whole blocks.                                                           *)
WriteMatchesRfc ==
    \A L \in PayloadLens, b \in BlockSizes : PaddingSize(L, b) = RfcPadding(L, b)

(* Every frame opacket::write produces passes through packet_encryptor     *)
(* whole: each piece the stream hands to write() is taken exactly, never  *)
(* read past, and no partial block is left for flush's assert.  The loop  *)
(* clamps each step to n, the whole piece, not to what is left of it, so   *)
(* this holds only because frames fill whole blocks and FilterBuffer is a  *)
(* multiple of every block size.                                           *)
EncryptorTakesFrame ==
    \A b \in BlockSizes :
        \A n \in {L + 5 + PaddingSize(L, b) : L \in EncryptLens} :
            PiecesTaken(Pieces(n), 0, b)

(* A packet written by opacket::write and rebuilt block by block by        *)
(* ipacket::append completes, with exactly its payload and message byte.   *)
RoundTrip ==
    (legit /\ nextBlock = Len(frame) \div bs /\ reads = 0) =>
        /\ m_complete /\ ~thrown
        /\ m_length = payloadLen
        /\ SubSeq(m_data, 1, m_length) = Payload(payloadLen)
        /\ m_message = Payload(payloadLen)[1]

(* A completed packet never claims more bytes than its buffer holds,       *)
(* whatever header the peer sent.                                          *)
LengthWithinBuffer ==
    m_complete => ~UGt(m_length, Len(m_data))

(* The bytes append copies into m_data never exceed what it allocated,    *)
(* whatever header the peer sent (the size check after the allocation).    *)
BufferNotOverrun ==
    allocated => ~UGt(Len(m_data), capacity)

(* No reader moves past the end of the packet.                             *)
ReadsWithinPacket ==
    m_complete => ~UGt(m_offset, m_length)

(* ipacket::read implements PacketFraming: however the stream is cut     *)
(* into network reads (a cut inside the length, right after it, inside a   *)
(* body, or a read holding the end of one message and the start of the    *)
(* next), read never takes a byte of the next message, each packet handed *)
(* out is the message whole, in order, and while bytes keep arriving every *)
(* message is handed out.                                                  *)
Framing == INSTANCE PacketFraming WITH Packets <- StreamPackets

StreamFramed == Framing!Spec

(* read never dereferences the buffer before it allocated it: completing  *)
(* a packet always finds m_data.  A length loop cut after byte i whose    *)
(* partial length equals i (a length of 768..1023 cut after its third     *)
(* byte) breaks it.                                                        *)
BodyAllocatedBeforeUse == rdFault # "null_deref"
=============================================================================
