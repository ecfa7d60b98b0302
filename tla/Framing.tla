------------------------------- MODULE Framing -------------------------------
(***************************************************************************)
(* How a stream of bytes becomes packets again: the ring buffer and the    *)
(* loop that extracts packets, in Session::OnRecvComplete and, on the same *)
(* class, in the client's NetworkClient::RecvThread.  A packet starts with *)
(* a header that holds its size; the network cuts the stream anywhere.     *)
(*                                                                         *)
(* One direction of one connection, which stays up (module SessionIO has   *)
(* those that break).  Senders are the program's own: sizes are right.     *)
(***************************************************************************)
EXTENDS Integers, Sequences

CONSTANTS
    BufferSize,     \* RingBuffer::BUFFER_SIZE, 8192
    HeaderSize,     \* sizeof(PacketHeader)
    PacketSizes,    \* sizes of the packet types
    MaxSent         \* bound: packets sent in a behaviour

ASSUME FramingAssumption ==
    /\ BufferSize \in Nat \ {0} /\ HeaderSize \in Nat \ {0} /\ MaxSent \in Nat
    /\ PacketSizes \subseteq HeaderSize .. BufferSize - 1

VARIABLES
    sent,           \* sizes of the packets sent
    wire,           \* bytes under way
    head, tail,     \* RingBuffer::m_head, m_tail
    buffer,         \* RingBuffer::m_buffer
    loop,           \* "recv": waiting for bytes, "extract": in the while loop
    handled         \* what HandlePacket, or OnPacket, was called with

vars == <<sent, wire, head, tail, buffer, loop, handled>>

\* The bytes of the k-th packet, each told from every other.
Bytes(k, size) == [i \in 1 .. size |-> <<k, i>>]

NoByte == <<0, 0>>

Init ==
    /\ sent = <<>> /\ wire = <<>> /\ handled = <<>>
    /\ head = 0 /\ tail = 0
    /\ buffer = [i \in 0 .. BufferSize - 1 |-> NoByte]
    /\ loop = "recv"

-----------------------------------------------------------------------------
(* RingBuffer *)

GetUsedSize == (head - tail + BufferSize) % BufferSize

\* To the end of the array or to the byte before tail.
GetContiguousWriteSize ==
    IF tail <= head THEN BufferSize - head - (IF tail = 0 THEN 1 ELSE 0)
                    ELSE tail - head - 1

\* Mutant: the second memcpy starts one byte too far.
PeekFromOne(len) ==
    [i \in 1 .. len |-> buffer[IF tail + i <= BufferSize THEN tail + i - 1
                                                        ELSE (tail + i) % BufferSize]]

Peek(len) == [i \in 1 .. len |-> buffer[(tail + i - 1) % BufferSize]]

OnWrite(len) == (head + len) % BufferSize

-----------------------------------------------------------------------------
SendPacket(size) ==
    /\ Len(sent) < MaxSent
    /\ sent' = Append(sent, size)
    /\ wire' = wire \o Bytes(Len(sent) + 1, size)
    /\ UNCHANGED <<head, tail, buffer, loop, handled>>

\* recv, or the completion of WSARecv, with n bytes straight into the buffer.
Receive(n) ==
    /\ loop = "recv" /\ n <= Len(wire) /\ n <= GetContiguousWriteSize
    /\ buffer' = [i \in DOMAIN buffer |->
                    IF i \in head .. head + n - 1 THEN wire[i - head + 1] ELSE buffer[i]]
    /\ head' = OnWrite(n)
    /\ wire' = SubSeq(wire, n + 1, Len(wire))
    /\ loop' = "extract"
    /\ UNCHANGED <<sent, tail, handled>>

\* header.size: what the sender wrote there.  Bytes that are no header would
\* be read as a size nobody sent.
DecodedSize(header) ==
    LET k == header[1][1]
    IN  IF header = [i \in 1 .. HeaderSize |-> <<k, i>>] /\ k > 0 THEN sent[k] ELSE 0

\* Mutant: a packet is taken for complete only if more follows.
WaitForMore == GetUsedSize >= HeaderSize /\ GetUsedSize > DecodedSize(Peek(HeaderSize))

Complete == GetUsedSize >= HeaderSize /\ GetUsedSize >= DecodedSize(Peek(HeaderSize))

\* Peek, Pop, HandlePacket.
ExtractPacket ==
    LET size == DecodedSize(Peek(HeaderSize))
    IN  /\ loop = "extract" /\ Complete
        /\ handled' = Append(handled, Peek(size))
        /\ tail' = (tail + size) % BufferSize
        /\ UNCHANGED <<sent, wire, head, buffer, loop>>

\* The rest has not come yet: PostRecv, or recv again.
WaitForRest ==
    /\ loop = "extract" /\ ~Complete
    /\ loop' = "recv"
    /\ UNCHANGED <<sent, wire, head, tail, buffer, handled>>

-----------------------------------------------------------------------------
ReceiveSome == \E n \in 1 .. BufferSize - 1 : Receive(n)

Next ==
    \/ \E size \in PacketSizes : SendPacket(size)
    \/ ReceiveSome \/ ExtractPacket \/ WaitForRest

Spec == Init /\ [][Next]_vars

-----------------------------------------------------------------------------
TypeOK ==
    /\ sent \in Seq(PacketSizes) /\ Len(sent) <= MaxSent
    /\ head \in 0 .. BufferSize - 1 /\ tail \in 0 .. BufferSize - 1
    /\ DOMAIN buffer = 0 .. BufferSize - 1
    /\ loop \in {"recv", "extract"}
    /\ Len(handled) <= Len(sent)

(* The packets handled are the packets sent, byte by byte and in order,    *)
(* wherever the network cuts the stream and wherever the buffer wraps.     *)
FramedAsSent == \A k \in 1 .. Len(handled) : handled[k] = Bytes(k, sent[k])

(* Whenever the receiver waits for bytes, every packet of which all bytes  *)
(* have come is handled, and nothing is lost: what is neither handled nor  *)
(* under way is in the buffer and less than a packet.  The indices never   *)
(* leave the buffer.                                                       *)
NoneLeftBehind ==
    /\ TypeOK
    /\ LET k == Len(handled) + 1
       IN  loop = "recv" =>
               IF k > Len(sent) THEN GetUsedSize = 0
               ELSE /\ GetUsedSize < sent[k]
                    /\ Peek(GetUsedSize) = SubSeq(Bytes(k, sent[k]), 1, GetUsedSize)

-----------------------------------------------------------------------------
(* Refinement: to those who send and handle packets the buffer, the loop   *)
(* and the bytes are a channel of packets.                                 *)

Packets == {Bytes(k, size) : k \in 1 .. MaxSent, size \in PacketSizes}

Connection == INSTANCE Channel WITH
    Messages <- Packets, broken <- FALSE,
    sent <- [k \in 1 .. Len(sent) |-> Bytes(k, sent[k])], delivered <- handled

(* HandlePacket is called with what was sent, packet by packet, in that    *)
(* order, never twice, and never with a packet made of parts of others.    *)
RefinesChannel == Connection!Spec
=============================================================================
