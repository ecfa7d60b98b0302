----------------------------- MODULE FramingProofs -----------------------------
(***************************************************************************)
(* Theorems about Framing for any size of the buffer and of the header,    *)
(* any packet sizes and any way the network cuts the stream.               *)
(***************************************************************************)
EXTENDS Framing, TLAPS

\* Where the p-th unread byte is, and what it is: bytes in the buffer first,
\* then those under way.
Slot(p) == (tail + p - 1) % BufferSize
At(p) == IF p <= GetUsedSize THEN buffer[Slot(p)] ELSE wire[p - GetUsedSize]
Unread == GetUsedSize + Len(wire)

\* A byte is <<packet, place in the packet>>.
IsByte(b) == b \in Nat \X Nat /\ b[1] \in 1 .. Len(sent) /\ b[2] \in 1 .. sent[b[1]]

\* Place of the last byte of the packet that the p-th unread byte is of.
LastOf(p) == p + sent[At(p)[1]] - At(p)[2]

\* The unread bytes are the packets not handled yet, in order: the first of
\* them is at the front, each is there as a whole and consecutive, the next
\* one follows it, and the last one sent ends the stream.
Stream ==
    /\ \A p \in 1 .. Unread : IsByte(At(p)) /\ At(p)[1] > Len(handled)
    /\ IF Unread = 0 THEN Len(handled) = Len(sent) ELSE At(1) = <<Len(handled) + 1, 1>>
    /\ \A p, q \in 1 .. Unread : p < q =>
          IF q <= LastOf(p) THEN At(q) = <<At(p)[1], At(p)[2] + q - p>> ELSE At(q)[1] > At(p)[1]
    /\ \A p \in 1 .. Unread : LastOf(p) <= Unread
    /\ \A p \in 1 .. Unread :
          IF LastOf(p) = Unread THEN At(p)[1] = Len(sent)
                                ELSE At(LastOf(p) + 1) = <<At(p)[1] + 1, 1>>

\* Between two receives the buffer holds no complete packet.
NoneComplete ==
    loop = "recv" /\ Len(handled) < Len(sent) => GetUsedSize < sent[Len(handled) + 1]

FramingTypeOK ==
    /\ TypeOK
    /\ wire \in Seq(Nat \X Nat)
    /\ handled \in Seq(Seq(Nat \X Nat))
    /\ buffer \in [0 .. BufferSize - 1 -> Nat \X Nat]

FramingInv ==
    /\ FramingTypeOK
    /\ Stream
    /\ \A k \in 1 .. Len(handled) : handled[k] = Bytes(k, sent[k])
    /\ NoneComplete

-----------------------------------------------------------------------------
(* Arithmetic of the ring                                                  *)

LEMMA ModTwice ==
  ASSUME NEW n \in Nat \ {0}, NEW x \in 0 .. 2 * n - 1
  PROVE  x % n = IF x < n THEN x ELSE x - n
<1>1. CASE x < n
  BY <1>1
<1>2. CASE x >= n
  BY <1>2
<1>3. QED BY <1>1, <1>2

(* GetUsedSize is the distance from tail to head along the ring.           *)
LEMMA UsedIs ==
  ASSUME head \in 0 .. BufferSize - 1, tail \in 0 .. BufferSize - 1
  PROVE  /\ GetUsedSize = IF tail <= head THEN head - tail ELSE head - tail + BufferSize
         /\ GetUsedSize \in 0 .. BufferSize - 1
<1> DEFINE x == head - tail + BufferSize
<1>1. BufferSize \in Nat \ {0} /\ x \in 0 .. 2 * BufferSize - 1
  BY FramingAssumption
<1>2. GetUsedSize = IF x < BufferSize THEN x ELSE x - BufferSize
  BY <1>1, ModTwice DEF GetUsedSize
<1>3. QED BY <1>1, <1>2

LEMMA SlotIs ==
  ASSUME tail \in 0 .. BufferSize - 1, NEW p \in 1 .. BufferSize
  PROVE  /\ Slot(p) = IF tail + p <= BufferSize THEN tail + p - 1 ELSE tail + p - 1 - BufferSize
         /\ Slot(p) \in 0 .. BufferSize - 1
<1> DEFINE x == tail + p - 1
<1>1. BufferSize \in Nat \ {0} /\ x \in 0 .. 2 * BufferSize - 1
  BY FramingAssumption
<1>2. Slot(p) = IF x < BufferSize THEN x ELSE x - BufferSize
  BY <1>1, ModTwice DEF Slot
<1>3. QED BY <1>1, <1>2

(* Head moves on by what is written.                                       *)
LEMMA OnWriteIs ==
  ASSUME NEW h \in 0 .. BufferSize - 1, NEW n \in 0 .. BufferSize
  PROVE  (h + n) % BufferSize = IF h + n < BufferSize THEN h + n ELSE h + n - BufferSize
<1> DEFINE x == h + n
<1>1. BufferSize \in Nat \ {0} /\ x \in 0 .. 2 * BufferSize - 1
  BY FramingAssumption
<1>2. x % BufferSize = IF x < BufferSize THEN x ELSE x - BufferSize
  BY <1>1, ModTwice
<1>3. QED BY <1>1, <1>2

(* Concatenation at an index.                                              *)
LEMMA ConcatAt ==
  ASSUME NEW S, NEW a \in Seq(S), NEW b \in Seq(S)
  PROVE  /\ a \o b \in Seq(S) /\ Len(a \o b) = Len(a) + Len(b)
         /\ \A i \in 1 .. Len(a) : (a \o b)[i] = a[i]
         /\ \A i \in 1 .. Len(b) : (a \o b)[Len(a) + i] = b[i]
OBVIOUS

-----------------------------------------------------------------------------
LEMMA FramingInit == Init => FramingInv
<1> SUFFICES ASSUME Init PROVE FramingInv
  OBVIOUS
<1>1. BufferSize \in Nat \ {0} /\ MaxSent \in Nat
  BY FramingAssumption
<1>2. FramingTypeOK
  BY <1>1 DEF Init, FramingTypeOK, TypeOK, NoByte
<1>3. GetUsedSize = 0 /\ Len(wire) = 0 /\ Unread = 0
  BY <1>1, UsedIs DEF Init, Unread
<1>4. Stream
  BY <1>3 DEF Init, Stream
<1>5. QED BY <1>2, <1>4 DEF Init, FramingInv, NoneComplete

(* What the invariant says of the numbers.                                 *)
LEMMA Facts ==
  ASSUME FramingInv
  PROVE  /\ Len(sent) \in Nat /\ Len(handled) \in Nat /\ Len(handled) <= Len(sent)
         /\ Len(wire) \in Nat /\ GetUsedSize \in 0 .. BufferSize - 1 /\ BufferSize \in Nat \ {0}
         /\ Unread \in Nat /\ Unread = GetUsedSize + Len(wire)
         /\ HeaderSize \in Nat \ {0}
         /\ \A k \in 1 .. Len(sent) : sent[k] \in PacketSizes /\ sent[k] \in HeaderSize .. BufferSize - 1
<1>1. FramingTypeOK /\ TypeOK
  BY DEF FramingInv, FramingTypeOK
<1>2. GetUsedSize \in 0 .. BufferSize - 1
  BY <1>1, UsedIs DEF TypeOK
<1>3. Len(sent) \in Nat /\ Len(handled) \in Nat /\ Len(handled) <= Len(sent) /\ Len(wire) \in Nat
  BY <1>1 DEF FramingTypeOK, TypeOK
<1>4. \A k \in 1 .. Len(sent) : sent[k] \in PacketSizes
  BY <1>1 DEF TypeOK
<1>5. BufferSize \in Nat \ {0} /\ HeaderSize \in Nat \ {0} /\ PacketSizes \subseteq HeaderSize .. BufferSize - 1
  BY FramingAssumption
<1>6. Unread \in Nat
  BY <1>2, <1>3, <1>5 DEF Unread
<1>7. QED BY <1>2, <1>3, <1>4, <1>5, <1>6 DEF Unread

(* What the stream says of a byte.                                         *)
LEMMA ByteFacts ==
  ASSUME FramingInv, NEW p \in 1 .. Unread
  PROVE  /\ At(p)[1] \in 1 .. Len(sent) /\ At(p)[1] > Len(handled)
         /\ At(p)[2] \in 1 .. sent[At(p)[1]] /\ sent[At(p)[1]] \in Nat
         /\ At(p) = <<At(p)[1], At(p)[2]>>
         /\ LastOf(p) \in p .. Unread
<1>1. IsByte(At(p)) /\ At(p)[1] > Len(handled) /\ LastOf(p) <= Unread
  BY DEF FramingInv, Stream
<1>2. At(p) \in Nat \X Nat /\ At(p)[1] \in 1 .. Len(sent) /\ At(p)[2] \in 1 .. sent[At(p)[1]]
  BY <1>1 DEF IsByte
<1>3. sent[At(p)[1]] \in Nat
  BY <1>2, Facts
<1>4. At(p) = <<At(p)[1], At(p)[2]>>
  BY <1>2
<1>5. LastOf(p) \in p .. Unread
  BY <1>1, <1>2, <1>3, Facts DEF LastOf
<1>6. QED BY <1>1, <1>2, <1>3, <1>4, <1>5

(* The packet to be handled next is at the front, from its first byte to   *)
(* its last.                                                               *)
LEMMA Front ==
  ASSUME FramingInv, Unread # 0
  PROVE  /\ Len(handled) + 1 \in 1 .. Len(sent)
         /\ sent[Len(handled) + 1] <= Unread
         /\ LastOf(1) = sent[Len(handled) + 1]
         /\ \A q \in 1 .. sent[Len(handled) + 1] : At(q) = <<Len(handled) + 1, q>>
<1> DEFINE k == Len(handled) + 1
<1>1. 1 \in 1 .. Unread /\ At(1) = <<k, 1>>
  BY Facts DEF FramingInv, Stream
<1>2. At(1)[1] = k /\ At(1)[2] = 1
  BY <1>1
<1>3. k \in 1 .. Len(sent) /\ sent[k] \in Nat
  BY <1>1, <1>2, ByteFacts
<1>4. LastOf(1) = sent[k] /\ sent[k] <= Unread
  BY <1>1, <1>2, <1>3, ByteFacts DEF LastOf
<1>5. ASSUME NEW q \in 1 .. sent[k] PROVE At(q) = <<k, q>>
  <2>1. q \in 1 .. Unread
    BY <1>3, <1>4, Facts
  <2>2. CASE q = 1
    BY <1>1, <2>2
  <2>3. CASE 1 < q
    <3>1. At(q) = <<At(1)[1], At(1)[2] + q - 1>>
      BY <1>1, <1>4, <2>1, <2>3 DEF FramingInv, Stream
    <3>2. QED BY <1>2, <3>1
  <2>4. QED BY <2>2, <2>3
<1>6. QED BY <1>3, <1>4, <1>5

(* With a header in the buffer, the size read from it is that of the       *)
(* packet at the front.                                                    *)
LEMMA HeaderIsOfFront ==
  ASSUME FramingInv, GetUsedSize >= HeaderSize
  PROVE  Unread # 0 /\ DecodedSize(Peek(HeaderSize)) = sent[Len(handled) + 1]
<1> DEFINE k == Len(handled) + 1
<1>1. Unread # 0
  BY Facts
<1>2. k \in 1 .. Len(sent) /\ \A q \in 1 .. HeaderSize : At(q) = <<k, q>>
  BY <1>1, Front, Facts
<1>3. \A q \in 1 .. HeaderSize : buffer[(tail + q - 1) % BufferSize] = <<k, q>>
  <2> SUFFICES ASSUME NEW q \in 1 .. HeaderSize PROVE buffer[(tail + q - 1) % BufferSize] = <<k, q>>
    OBVIOUS
  <2>1. q <= GetUsedSize
    BY Facts
  <2>2. At(q) = buffer[(tail + q - 1) % BufferSize]
    BY <2>1 DEF At, Slot
  <2>3. QED BY <1>2, <2>2
<1>4. Peek(HeaderSize) = [q \in 1 .. HeaderSize |-> <<k, q>>]
  BY <1>3 DEF Peek
<1> DEFINE h == [q \in 1 .. HeaderSize |-> <<k, q>>]
<1>5. h[1] = <<k, 1>> /\ h[1][1] = k
  BY Facts
<1>6. k > 0
  BY <1>2
<1>7. DecodedSize(h) = sent[k]
  BY <1>5, <1>6 DEF DecodedSize
<1>8. QED BY <1>1, <1>4, <1>7

-----------------------------------------------------------------------------
(* The actions                                                             *)

(* A step that moves bytes without changing the stream.                    *)
LEMMA StreamKept ==
  ASSUME FramingInv, UNCHANGED <<sent, handled>>, Unread' = Unread,
         \A p \in 1 .. Unread : At(p)' = At(p)
  PROVE  Stream'
<1>1. \A p \in 1 .. Unread : IsByte(At(p))' /\ At(p)'[1] > Len(handled)
  BY DEF IsByte, FramingInv, Stream
<1>2. \A p \in 1 .. Unread : LastOf(p)' = LastOf(p)
  BY DEF LastOf
<1>3. IF Unread = 0 THEN Len(handled) = Len(sent) ELSE At(1)' = <<Len(handled) + 1, 1>>
  BY Facts DEF FramingInv, Stream
<1>4. ASSUME NEW p \in 1 .. Unread, NEW q \in 1 .. Unread, p < q
      PROVE  IF q <= LastOf(p)' THEN At(q)' = <<At(p)'[1], At(p)'[2] + q - p>> ELSE At(q)'[1] > At(p)'[1]
  BY <1>2, <1>4 DEF FramingInv, Stream
<1>5. ASSUME NEW p \in 1 .. Unread
      PROVE  /\ LastOf(p)' <= Unread
             /\ IF LastOf(p)' = Unread THEN At(p)'[1] = Len(sent)
                                       ELSE At(LastOf(p) + 1)' = <<At(p)'[1] + 1, 1>>
  <2>1. LastOf(p) \in p .. Unread
    BY ByteFacts
  <2>2. LastOf(p) # Unread => LastOf(p) + 1 \in 1 .. Unread
    BY <2>1, Facts
  <2>3. QED BY <1>2, <2>1, <2>2 DEF FramingInv, Stream
<1>6. QED BY <1>1, <1>2, <1>3, <1>4, <1>5 DEF Stream

(* What is left of a sequence without its first n elements.                *)
LEMMA SubSeqFrom ==
  ASSUME NEW S, NEW q \in Seq(S), NEW n \in Nat, n <= Len(q)
  PROVE  /\ SubSeq(q, n + 1, Len(q)) \in Seq(S)
         /\ Len(SubSeq(q, n + 1, Len(q))) = Len(q) - n
         /\ \A i \in 1 .. Len(q) - n : SubSeq(q, n + 1, Len(q))[i] = q[i + n]
<1> DEFINE r == SubSeq(q, n + 1, Len(q))
<1>1. Len(q) \in Nat /\ \A i \in 1 .. Len(q) : q[i] \in S
  OBVIOUS
<1>2. r = [i \in 1 .. Len(q) - n |-> q[i + n]]
  BY <1>1
<1> HIDE DEF r
<1>3. Len(q) - n \in Nat /\ \A i \in 1 .. Len(q) - n : i + n \in 1 .. Len(q)
  BY <1>1
<1>4. r \in Seq(S) /\ Len(r) = Len(q) - n
  BY <1>1, <1>2, <1>3
<1>5. \A i \in 1 .. Len(q) - n : r[i] = q[i + n]
  BY <1>2
<1>6. QED BY <1>4, <1>5 DEF r

LEMMA ReceiveTypes ==
  ASSUME FramingInv, NEW n \in 1 .. BufferSize - 1, Receive(n)
  PROVE  /\ FramingTypeOK' /\ Len(wire') = Len(wire) - n
         /\ \A i \in 1 .. Len(wire) - n : wire'[i] = wire[i + n]
<1>1. FramingTypeOK /\ TypeOK /\ wire \in Seq(Nat \X Nat) /\ n \in Nat /\ n <= Len(wire)
  BY Facts DEF FramingInv, FramingTypeOK, Receive
<1>2. /\ wire' \in Seq(Nat \X Nat) /\ Len(wire') = Len(wire) - n
      /\ \A i \in 1 .. Len(wire) - n : wire'[i] = wire[i + n]
  <2>1. wire' = SubSeq(wire, n + 1, Len(wire))
    BY DEF Receive
  <2>2. /\ SubSeq(wire, n + 1, Len(wire)) \in Seq(Nat \X Nat)
        /\ Len(SubSeq(wire, n + 1, Len(wire))) = Len(wire) - n
        /\ \A i \in 1 .. Len(wire) - n : SubSeq(wire, n + 1, Len(wire))[i] = wire[i + n]
    BY ONLY <1>1, SubSeqFrom
  <2>3. QED BY <2>1, <2>2
<1>3. buffer' \in [0 .. BufferSize - 1 -> Nat \X Nat]
  <2>1. \A i \in head .. head + n - 1 : wire[i - head + 1] \in Nat \X Nat
    BY <1>1 DEF TypeOK
  <2>2. QED BY <1>1, <2>1 DEF Receive, FramingTypeOK
<1>4. head' \in 0 .. BufferSize - 1
  <2>1. head \in 0 .. BufferSize - 1 /\ n \in 0 .. BufferSize /\ BufferSize \in Nat
    BY <1>1, FramingAssumption DEF TypeOK
  <2>2. head' = IF head + n < BufferSize THEN head + n ELSE head + n - BufferSize
    BY <2>1, OnWriteIs DEF Receive, OnWrite
  <2>3. QED BY <2>1, <2>2
<1>5. QED BY <1>1, <1>2, <1>3, <1>4 DEF Receive, FramingTypeOK, TypeOK

(* The bytes go behind the unread ones, into slots that hold none of them, *)
(* whether or not the buffer wraps.                                        *)
LEMMA ReceiveMoves ==
  ASSUME FramingInv, NEW n \in 1 .. BufferSize - 1, Receive(n)
  PROVE  /\ GetUsedSize' = GetUsedSize + n /\ GetUsedSize + n <= BufferSize - 1
         /\ \A p \in 1 .. GetUsedSize : Slot(p) \notin head .. head + n - 1
         /\ \A p \in 1 .. n : Slot(GetUsedSize + p) = head + p - 1
<1> DEFINE u == GetUsedSize
<1>1. /\ BufferSize \in Nat \ {0} /\ head \in 0 .. BufferSize - 1 /\ tail \in 0 .. BufferSize - 1
      /\ u \in 0 .. BufferSize - 1 /\ n \in 1 .. BufferSize - 1
  BY Facts DEF FramingInv, FramingTypeOK, TypeOK
<1>2. u = IF tail <= head THEN head - tail ELSE head - tail + BufferSize
  BY <1>1, UsedIs
<1>3. n <= IF tail <= head THEN BufferSize - head - (IF tail = 0 THEN 1 ELSE 0) ELSE tail - head - 1
  BY DEF Receive, GetContiguousWriteSize
<1>4. head' = IF head + n < BufferSize THEN head + n ELSE head + n - BufferSize
  BY <1>1, OnWriteIs DEF Receive, OnWrite
<1>5. tail' = tail /\ head' \in 0 .. BufferSize - 1
  BY ReceiveTypes DEF Receive, FramingTypeOK, TypeOK
<1>6. GetUsedSize' = IF tail <= head' THEN head' - tail ELSE head' - tail + BufferSize
  <2>1. \A h \in 0 .. BufferSize - 1 :
           (h - tail + BufferSize) % BufferSize = IF tail <= h THEN h - tail ELSE h - tail + BufferSize
    <3> SUFFICES ASSUME NEW h \in 0 .. BufferSize - 1
                 PROVE  (h - tail + BufferSize) % BufferSize
                           = IF tail <= h THEN h - tail ELSE h - tail + BufferSize
      OBVIOUS
    <3> DEFINE x == h - tail + BufferSize
    <3>1. x \in 0 .. 2 * BufferSize - 1
      BY <1>1
    <3>2. x % BufferSize = IF x < BufferSize THEN x ELSE x - BufferSize
      BY <1>1, <3>1, ModTwice
    <3>3. QED BY <1>1, <3>2
  <2>2. QED BY <1>5, <2>1 DEF GetUsedSize
<1> HIDE DEF u
<1>7. GetUsedSize' = u + n /\ u + n <= BufferSize - 1
  BY <1>1, <1>2, <1>3, <1>4, <1>6
<1>8. ASSUME NEW p \in 1 .. u PROVE Slot(p) \notin head .. head + n - 1
  <2>1. Slot(p) = IF tail + p <= BufferSize THEN tail + p - 1 ELSE tail + p - 1 - BufferSize
    BY <1>1, SlotIs
  <2>2. QED BY <1>1, <1>2, <1>3, <2>1
<1>9. ASSUME NEW p \in 1 .. n PROVE Slot(u + p) = head + p - 1
  <2> DEFINE j == u + p
  <2>1. j \in 1 .. BufferSize
    BY <1>1, <1>7
  <2>2. Slot(j) = IF tail + j <= BufferSize THEN tail + j - 1 ELSE tail + j - 1 - BufferSize
    BY <1>1, <2>1, SlotIs
  <2>3. QED BY <1>1, <1>2, <1>3, <2>2
<1>10. QED BY <1>7, <1>8, <1>9 DEF u

LEMMA ReceiveKeeps ==
  ASSUME FramingInv, NEW n \in 1 .. BufferSize - 1, Receive(n)
  PROVE  FramingInv'
<1> DEFINE u == GetUsedSize
<1>1. /\ u \in 0 .. BufferSize - 1 /\ GetUsedSize' = u + n /\ n \in Nat /\ n <= Len(wire)
      /\ Len(wire') = Len(wire) - n /\ Unread = u + Len(wire) /\ Len(wire) \in Nat
      /\ BufferSize \in Nat /\ UNCHANGED <<sent, tail, handled>> /\ loop' = "extract"
  BY Facts, ReceiveTypes, ReceiveMoves DEF Receive
<1>2. Unread' = Unread
  BY <1>1 DEF Unread
<1>3. buffer' = [i \in 0 .. BufferSize - 1 |->
                   IF i \in head .. head + n - 1 THEN wire[i - head + 1] ELSE buffer[i]]
  BY DEF Receive, FramingInv, FramingTypeOK, TypeOK
<1>4. head \in 0 .. BufferSize - 1 /\ tail \in 0 .. BufferSize - 1 /\ u + n <= BufferSize - 1
  BY ReceiveMoves DEF FramingInv, FramingTypeOK, TypeOK
<1>5. /\ \A p \in 1 .. u : Slot(p) \notin head .. head + n - 1
      /\ \A p \in 1 .. n : Slot(u + p) = head + p - 1
  BY ReceiveMoves
<1>6. ASSUME NEW p \in 1 .. Unread PROVE At(p)' = At(p)
  <2>1. At(p)' = IF p <= u + n THEN buffer'[Slot(p)] ELSE wire'[p - (u + n)]
    BY <1>1 DEF At, Slot
  <2>2. At(p) = IF p <= u THEN buffer[Slot(p)] ELSE wire[p - u]
    BY DEF At
  <2> HIDE DEF u
  <2>3. p \in Nat /\ p >= 1 /\ p <= u + Len(wire)
    BY <1>1
  <2>4. CASE p <= u
    <3>1. p \in 1 .. u /\ p \in 1 .. BufferSize
      BY <1>1, <1>4, <2>3, <2>4
    <3>2. Slot(p) \in 0 .. BufferSize - 1 /\ Slot(p) \notin head .. head + n - 1
      BY <1>4, <1>5, <3>1, SlotIs
    <3>3. buffer'[Slot(p)] = buffer[Slot(p)]
      BY <1>3, <3>2
    <3>4. p <= u + n
      BY <1>1, <2>3, <2>4
    <3>5. QED BY <2>1, <2>2, <2>4, <3>3, <3>4
  <2>5. CASE u < p /\ p <= u + n
    <3>1. p - u \in 1 .. n /\ u + (p - u) = p
      BY <1>1, <2>3, <2>5
    <3>2. Slot(p) = head + (p - u) - 1
      BY <1>5, <3>1
    <3>3. p \in 1 .. BufferSize
      BY <1>1, <1>4, <2>3, <2>5
    <3>4. Slot(p) \in 0 .. BufferSize - 1
      BY <1>4, <3>3, SlotIs
    <3>5. Slot(p) \in head .. head + n - 1 /\ Slot(p) - head + 1 = p - u
      BY <1>1, <1>4, <3>1, <3>2
    <3>6. buffer'[Slot(p)] = wire[p - u]
      BY <1>3, <3>4, <3>5
    <3>7. ~(p <= u)
      BY <1>1, <2>3, <2>5
    <3>8. QED BY <2>1, <2>2, <2>5, <3>6, <3>7
  <2>6. CASE u + n < p
    <3>1. p - (u + n) \in 1 .. Len(wire) - n /\ p - (u + n) + n = p - u
      BY <1>1, <2>3, <2>6
    <3>2. wire'[p - (u + n)] = wire[p - u]
      BY <3>1, ReceiveTypes
    <3>3. ~(p <= u) /\ ~(p <= u + n)
      BY <1>1, <2>3, <2>6
    <3>4. QED BY <2>1, <2>2, <3>2, <3>3
  <2>7. QED BY <1>1, <2>3, <2>4, <2>5, <2>6
<1>7. Stream'
  BY <1>1, <1>2, <1>6, StreamKept
<1>8. QED BY <1>1, <1>7, ReceiveTypes DEF FramingInv, NoneComplete

LEMMA WaitForRestKeeps ==
  ASSUME FramingInv, WaitForRest
  PROVE  FramingInv'
<1>1. UNCHANGED <<sent, wire, head, tail, buffer, handled>> /\ loop' = "recv"
  BY DEF WaitForRest
<1>2. GetUsedSize' = GetUsedSize /\ Unread' = Unread /\ \A p \in 1 .. Unread : At(p)' = At(p)
  BY <1>1 DEF GetUsedSize, Unread, At, Slot
<1>3. Stream'
  BY <1>1, <1>2, StreamKept
<1>4. FramingTypeOK'
  BY <1>1 DEF FramingInv, FramingTypeOK, TypeOK
<1>5. ASSUME Len(handled) < Len(sent) PROVE GetUsedSize < sent[Len(handled) + 1]
  <2>1. sent[Len(handled) + 1] \in HeaderSize .. BufferSize - 1
    BY <1>5, Facts
  <2>2. CASE GetUsedSize < HeaderSize
    BY <2>1, <2>2, Facts
  <2>3. CASE GetUsedSize >= HeaderSize
    BY <2>1, <2>3, HeaderIsOfFront, Facts DEF WaitForRest, Complete
  <2>4. QED BY <2>2, <2>3, Facts
<1>6. NoneComplete'
  BY <1>1, <1>2, <1>5 DEF NoneComplete
<1>7. QED BY <1>1, <1>3, <1>4, <1>6 DEF FramingInv

(* A packet sent ends the stream.                                          *)
LEMMA SendPacketKeeps ==
  ASSUME FramingInv, NEW size \in PacketSizes, SendPacket(size)
  PROVE  FramingInv'
<1> DEFINE k == Len(sent) + 1
<1>1. /\ UNCHANGED <<head, tail, buffer, loop, handled>> /\ Len(sent) < MaxSent
      /\ sent \in Seq(PacketSizes) /\ wire \in Seq(Nat \X Nat) /\ size \in Nat \ {0}
  BY FramingAssumption DEF SendPacket, FramingInv, FramingTypeOK, TypeOK
<1>2. /\ sent' \in Seq(PacketSizes) /\ Len(sent') = k /\ sent'[k] = size /\ k \in Nat \ {0}
      /\ \A j \in 1 .. Len(sent) : sent'[j] = sent[j]
  BY <1>1 DEF SendPacket
<1>3. /\ Bytes(k, size) \in Seq(Nat \X Nat) /\ Len(Bytes(k, size)) = size
      /\ \A i \in 1 .. size : Bytes(k, size)[i] = <<k, i>>
  BY <1>1, <1>2 DEF Bytes
<1>4. /\ wire' \in Seq(Nat \X Nat) /\ Len(wire') = Len(wire) + size
      /\ \A i \in 1 .. Len(wire) : wire'[i] = wire[i]
      /\ \A i \in 1 .. size : wire'[Len(wire) + i] = <<k, i>>
  <2> DEFINE b == Bytes(k, size)
             S == Nat \X Nat
  <2>1. wire' = wire \o b
    BY DEF SendPacket
  <2>2. Len(b) = size /\ \A i \in 1 .. size : b[i] = <<k, i>>
    BY <1>3
  <2>3. wire \in Seq(S) /\ b \in Seq(S)
    BY <1>1, <1>3
  <2> HIDE DEF b, k, S
  <2>4. /\ wire \o b \in Seq(S) /\ Len(wire \o b) = Len(wire) + Len(b)
        /\ \A i \in 1 .. Len(wire) : (wire \o b)[i] = wire[i]
        /\ \A i \in 1 .. Len(b) : (wire \o b)[Len(wire) + i] = b[i]
    BY ONLY <2>3, ConcatAt
  <2>5. QED BY <2>1, <2>2, <2>4 DEF S
<1> HIDE DEF k
<1>5. GetUsedSize' = GetUsedSize /\ Unread' = Unread + size
  BY <1>1, <1>4, Facts DEF Unread, GetUsedSize
<1>6. ASSUME NEW p \in 1 .. Unread PROVE At(p)' = At(p)
  <2>1. At(p)' = IF p <= GetUsedSize THEN buffer[Slot(p)] ELSE wire'[p - GetUsedSize]
    BY <1>1, <1>5 DEF At, Slot
  <2>2. ~(p <= GetUsedSize) => p - GetUsedSize \in 1 .. Len(wire)
    BY Facts
  <2>3. QED BY <1>4, <2>1, <2>2 DEF At
<1>7. ASSUME NEW p \in Unread + 1 .. Unread + size PROVE At(p)' = <<k, p - Unread>>
  <2>1. At(p)' = IF p <= GetUsedSize THEN buffer[Slot(p)] ELSE wire'[p - GetUsedSize]
    BY <1>1, <1>5 DEF At, Slot
  <2>2. ~(p <= GetUsedSize) /\ p - GetUsedSize = Len(wire) + (p - Unread) /\ p - Unread \in 1 .. size
    BY <1>1, Facts
  <2>3. QED BY <1>4, <2>1, <2>2
<1>8. \A p \in 1 .. Unread + size : p \in 1 .. Unread \/ p \in Unread + 1 .. Unread + size
  BY <1>1, Facts
<1>9. k = Len(sent) + 1 /\ Len(sent) \in Nat /\ Len(handled) <= Len(sent) /\ Unread \in Nat
  BY Facts DEF k
<1>10. ASSUME NEW p \in 1 .. Unread PROVE LastOf(p)' = LastOf(p)
  BY <1>2, <1>6, ByteFacts DEF LastOf
<1>11. ASSUME NEW p \in Unread + 1 .. Unread + size PROVE LastOf(p)' = Unread + size
  <2>1. LastOf(p)' = p + sent'[k] - (p - Unread)
    BY <1>7 DEF LastOf
  <2>2. QED BY <1>1, <1>2, <1>9, <2>1
<1>12. ASSUME NEW p \in 1 .. Unread + size PROVE IsByte(At(p))' /\ At(p)'[1] > Len(handled)
  <2>1. CASE p \in 1 .. Unread
    <3>1. /\ At(p)[1] \in 1 .. Len(sent) /\ At(p) \in Nat \X Nat
          /\ At(p)[2] \in 1 .. sent[At(p)[1]] /\ At(p)[1] > Len(handled)
      BY <2>1 DEF FramingInv, Stream, IsByte
    <3>2. QED BY <1>2, <1>6, <1>9, <2>1, <3>1 DEF IsByte
  <2>2. CASE p \in Unread + 1 .. Unread + size
    <3>1. p - Unread \in 1 .. size /\ k > Len(handled) /\ k \in 1 .. k /\ k \in Nat /\ p - Unread \in Nat
      BY <1>1, <1>9, <2>2, Facts
    <3>2. At(p)' = <<k, p - Unread>>
      BY <1>7, <2>2
    <3>3. QED BY <1>2, <3>1, <3>2 DEF IsByte
  <2>3. QED BY <1>8, <2>1, <2>2
<1>13. Unread + size # 0 /\ At(1)' = <<Len(handled) + 1, 1>>
  <2>1. CASE Unread = 0
    <3>1. Len(handled) = Len(sent) /\ 1 \in Unread + 1 .. Unread + size /\ 1 - Unread = 1
      BY <1>1, <2>1 DEF FramingInv, Stream
    <3>2. QED BY <1>1, <1>7, <1>9, <2>1, <3>1
  <2>2. CASE Unread # 0
    <3>1. 1 \in 1 .. Unread
      BY <1>9, <2>2
    <3>2. At(1) = <<Len(handled) + 1, 1>>
      BY <2>2 DEF FramingInv, Stream
    <3>3. QED BY <1>1, <1>6, <1>9, <3>1, <3>2
  <2>3. QED BY <2>1, <2>2
<1>14. ASSUME NEW p \in 1 .. Unread + size, NEW q \in 1 .. Unread + size, p < q
       PROVE  IF q <= LastOf(p)' THEN At(q)' = <<At(p)'[1], At(p)'[2] + q - p>> ELSE At(q)'[1] > At(p)'[1]
  <2>1. CASE p \in 1 .. Unread /\ q \in 1 .. Unread
    BY <1>6, <1>10, <1>14, <2>1 DEF FramingInv, Stream
  <2>2. CASE p \in 1 .. Unread /\ q \in Unread + 1 .. Unread + size
    <3>1. LastOf(p) <= Unread /\ At(p)[1] \in 1 .. Len(sent) /\ LastOf(p) \in Int
      BY <1>9, <2>2, ByteFacts
    <3>2. ~(q <= LastOf(p)') /\ At(q)'[1] = k /\ At(p)' = At(p)
      BY <1>1, <1>6, <1>7, <1>9, <1>10, <2>2, <3>1
    <3>3. QED BY <1>9, <3>1, <3>2
  <2>3. CASE p \in Unread + 1 .. Unread + size /\ q \in Unread + 1 .. Unread + size
    <3>1. q <= LastOf(p)' /\ At(q)' = <<k, q - Unread>> /\ At(p)'[1] = k /\ At(p)'[2] = p - Unread
      BY <1>1, <1>7, <1>9, <1>11, <2>3
    <3>2. q - Unread = p - Unread + q - p
      BY <1>1, <1>9, <2>3
    <3>3. QED BY <3>1, <3>2
  <2>4. QED BY <1>1, <1>8, <1>9, <1>14, <2>1, <2>2, <2>3
<1>15. ASSUME NEW p \in 1 .. Unread + size
       PROVE  /\ LastOf(p)' <= Unread + size
              /\ IF LastOf(p)' = Unread + size THEN At(p)'[1] = Len(sent')
                                               ELSE At(LastOf(p) + 1)' = <<At(p)'[1] + 1, 1>>
  <2>1. CASE p \in 1 .. Unread
    <3>1. LastOf(p) \in p .. Unread /\ LastOf(p)' = LastOf(p) /\ At(p)' = At(p)
      BY <1>6, <1>10, <2>1, ByteFacts
    <3>2. LastOf(p) <= Unread + size /\ LastOf(p) # Unread + size
      BY <1>1, <1>9, <3>1
    <3>3. CASE LastOf(p) = Unread
      <4>1. At(p)[1] = Len(sent)
        BY <2>1, <3>3 DEF FramingInv, Stream
      <4>2. Unread + 1 \in Unread + 1 .. Unread + size /\ Unread + 1 - Unread = 1
        BY <1>1, <1>9
      <4>3. At(LastOf(p) + 1)' = <<k, 1>>
        BY <1>7, <3>1, <3>3, <4>2
      <4>4. QED BY <1>9, <3>1, <3>2, <4>1, <4>3
    <3>4. CASE LastOf(p) # Unread
      <4>1. LastOf(p) + 1 \in 1 .. Unread /\ At(LastOf(p) + 1) = <<At(p)[1] + 1, 1>>
        BY <1>9, <2>1, <3>1, <3>4 DEF FramingInv, Stream
      <4>2. At(LastOf(p) + 1)' = At(LastOf(p) + 1)
        BY <1>6, <3>1, <4>1
      <4>3. QED BY <3>1, <3>2, <4>1, <4>2
    <3>5. QED BY <3>3, <3>4
  <2>2. CASE p \in Unread + 1 .. Unread + size
    BY <1>1, <1>2, <1>7, <1>9, <1>11, <2>2
  <2>3. QED BY <1>8, <2>1, <2>2
<1>16. Stream'
  BY <1>1, <1>5, <1>12, <1>13, <1>14, <1>15 DEF Stream
<1>17. FramingTypeOK'
  <2>1. Len(sent') <= MaxSent /\ Len(handled) <= Len(sent')
    BY <1>1, <1>2, <1>9, FramingAssumption
  <2>2. QED BY <1>1, <1>2, <1>4, <2>1 DEF FramingInv, FramingTypeOK, TypeOK
<1>18. NoneComplete'
  <2>1. CASE Len(handled) < Len(sent)
    <3>1. Len(handled) + 1 \in 1 .. Len(sent)
      BY <2>1, Facts
    <3>2. sent'[Len(handled) + 1] = sent[Len(handled) + 1]
      BY <1>2, <3>1
    <3>3. QED BY <1>1, <1>5, <2>1, <3>2 DEF NoneComplete, FramingInv
  <2>2. CASE Len(handled) = Len(sent)
    <3>1. Unread = 0
      BY <2>2, Front, Facts
    <3>2. GetUsedSize = 0
      BY <3>1, Facts
    <3>3. QED BY <1>1, <1>2, <1>5, <1>9, <2>2, <3>2 DEF NoneComplete
  <2>3. QED BY <2>1, <2>2, Facts
<1>19. \A j \in 1 .. Len(handled) : handled[j] = Bytes(j, sent'[j])
  <2>1. \A j \in 1 .. Len(handled) : sent'[j] = sent[j]
    BY <1>2, <1>9, Facts
  <2>2. QED BY <2>1 DEF FramingInv
<1>20. QED BY <1>1, <1>16, <1>17, <1>18, <1>19 DEF FramingInv

(* Pop moves the unread bytes one packet towards the front.                *)
LEMMA PopMoves ==
  ASSUME FramingInv, NEW z \in 1 .. GetUsedSize, tail' = (tail + z) % BufferSize,
         UNCHANGED <<head, buffer, wire>>
  PROVE  /\ tail' \in 0 .. BufferSize - 1 /\ GetUsedSize' = GetUsedSize - z
         /\ Unread' = Unread - z
         /\ \A p \in 1 .. Unread - z : At(p)' = At(p + z)
<1> DEFINE u == GetUsedSize
<1>1. /\ BufferSize \in Nat \ {0} /\ head \in 0 .. BufferSize - 1 /\ tail \in 0 .. BufferSize - 1
      /\ u \in 0 .. BufferSize - 1 /\ z \in 1 .. u
  BY Facts DEF FramingInv, FramingTypeOK, TypeOK
<1>2. u = IF tail <= head THEN head - tail ELSE head - tail + BufferSize
  BY <1>1, UsedIs
<1>3. tail' = IF tail + z < BufferSize THEN tail + z ELSE tail + z - BufferSize
  <2>1. z \in 0 .. BufferSize
    BY <1>1
  <2>2. QED BY <1>1, <2>1, OnWriteIs
<1>4. tail' \in 0 .. BufferSize - 1
  BY <1>1, <1>3
<1>5. GetUsedSize' = IF tail' <= head THEN head - tail' ELSE head - tail' + BufferSize
  <2> DEFINE x == head - tail' + BufferSize
  <2>1. x \in 0 .. 2 * BufferSize - 1
    BY <1>1, <1>4
  <2>2. x % BufferSize = IF x < BufferSize THEN x ELSE x - BufferSize
    BY <1>1, <2>1, ModTwice
  <2>3. GetUsedSize' = x % BufferSize
    BY DEF GetUsedSize
  <2>4. QED BY <1>1, <1>4, <2>2, <2>3
<1> HIDE DEF u
<1>6. GetUsedSize' = u - z
  BY <1>1, <1>2, <1>3, <1>5
<1>7. Unread' = Unread - z
  BY <1>1, <1>6, Facts DEF Unread, u
<1>8. ASSUME NEW p \in 1 .. u - z PROVE Slot(p)' = Slot(p + z)
  <2> DEFINE x == tail' + p - 1
             j == p + z
  <2>1. x \in 0 .. 2 * BufferSize - 1 /\ j \in 1 .. BufferSize
    BY <1>1, <1>4
  <2>2. x % BufferSize = IF x < BufferSize THEN x ELSE x - BufferSize
    BY <1>1, <2>1, ModTwice
  <2>3. Slot(j) = IF tail + j <= BufferSize THEN tail + j - 1 ELSE tail + j - 1 - BufferSize
    BY <1>1, <2>1, SlotIs
  <2>4. Slot(p)' = x % BufferSize
    BY DEF Slot
  <2>5. p \in Int /\ x = tail' + p - 1 /\ j = p + z
    OBVIOUS
  <2> HIDE DEF x, j
  <2>6. (IF x < BufferSize THEN x ELSE x - BufferSize)
           = IF tail + j <= BufferSize THEN tail + j - 1 ELSE tail + j - 1 - BufferSize
    BY <1>1, <1>3, <1>4, <2>1, <2>5
  <2>7. QED BY <2>2, <2>3, <2>4, <2>5, <2>6
<1>9. ASSUME NEW p \in 1 .. Unread - z PROVE At(p)' = At(p + z)
  <2> DEFINE j == p + z
  <2>1. At(p)' = IF p <= u - z THEN buffer[Slot(p)'] ELSE wire[p - (u - z)]
    BY <1>6 DEF At
  <2>2. (p <= u - z => p \in 1 .. u - z) /\ (p <= u - z <=> j <= u) /\ p - (u - z) = j - u
    BY <1>1, Facts
  <2>3. p <= u - z => Slot(p)' = Slot(j)
    BY <1>8, <2>2
  <2> HIDE DEF j
  <2>4. At(j) = IF j <= u THEN buffer[Slot(j)] ELSE wire[j - u]
    BY DEF At, u
  <2>5. At(p)' = At(j)
    BY <2>1, <2>2, <2>3, <2>4
  <2>6. QED BY <2>5 DEF j
<1>10. QED BY <1>4, <1>6, <1>7, <1>9 DEF u

LEMMA ExtractPacketKeeps ==
  ASSUME FramingInv, ExtractPacket
  PROVE  FramingInv'
<1> DEFINE k == Len(handled) + 1
           z == sent[k]
<1>1. Unread # 0 /\ DecodedSize(Peek(HeaderSize)) = z
  BY HeaderIsOfFront DEF ExtractPacket, Complete
<1>2. /\ k \in 1 .. Len(sent) /\ z <= Unread /\ LastOf(1) = z
      /\ \A q \in 1 .. z : At(q) = <<k, q>>
  BY <1>1, Front
<1>3. /\ z \in HeaderSize .. BufferSize - 1 /\ HeaderSize \in Nat \ {0} /\ Unread \in Nat
      /\ GetUsedSize \in 0 .. BufferSize - 1 /\ BufferSize \in Nat /\ k \in Nat
  BY <1>2, Facts
<1>4. GetUsedSize >= z
  BY <1>1 DEF ExtractPacket, Complete
<1>5. /\ handled' = Append(handled, Peek(z)) /\ tail' = (tail + z) % BufferSize
      /\ UNCHANGED <<sent, wire, head, buffer, loop>> /\ loop = "extract"
  BY <1>1 DEF ExtractPacket
<1>6. Peek(z) = Bytes(k, z)
  <2>1. ASSUME NEW q \in 1 .. z PROVE buffer[(tail + q - 1) % BufferSize] = <<k, q>>
    <3>1. q <= GetUsedSize
      BY <1>3, <1>4
    <3>2. At(q) = buffer[(tail + q - 1) % BufferSize]
      BY <3>1 DEF At, Slot
    <3>3. QED BY <1>2, <3>2
  <2>2. QED BY <2>1 DEF Peek, Bytes
<1>7. z \in 1 .. GetUsedSize
  BY <1>3, <1>4
<1> HIDE DEF z
<1>8. /\ tail' \in 0 .. BufferSize - 1 /\ Unread' = Unread - z
      /\ \A p \in 1 .. Unread - z : At(p)' = At(p + z)
  BY <1>5, <1>7, PopMoves
<1>9. /\ handled' \in Seq(Seq(Nat \X Nat)) /\ Len(handled') = k /\ handled'[k] = Bytes(k, z)
      /\ \A j \in 1 .. Len(handled) : handled'[j] = handled[j]
  <2> DEFINE S == Seq(Nat \X Nat)
             b == Bytes(k, z)
  <2>1. b \in S
    BY <1>3 DEF Bytes
  <2>2. handled \in Seq(S)
    BY DEF FramingInv, FramingTypeOK
  <2>3. handled' = Append(handled, b)
    BY <1>5, <1>6
  <2> HIDE DEF S, b
  <2>4. handled' \in Seq(S) /\ Len(handled') = Len(handled) + 1 /\ handled'[Len(handled) + 1] = b
        /\ \A j \in 1 .. Len(handled) : handled'[j] = handled[j]
    BY <2>1, <2>2, <2>3
  <2>5. QED BY <2>4 DEF S, b
<1> HIDE DEF k
<1>10. ASSUME NEW p \in 1 .. Unread - z
       PROVE  /\ p + z \in 1 .. Unread /\ 1 < p + z /\ p \in Nat
              /\ At(p)' = At(p + z) /\ LastOf(p)' = LastOf(p + z) - z
  <2>1. p + z \in 1 .. Unread /\ 1 < p + z /\ p \in Nat
    BY <1>3, <1>7
  <2>2. At(p)' = At(p + z)
    BY <1>8
  <2>3. /\ LastOf(p)' = p + sent[At(p + z)[1]] - At(p + z)[2]
        /\ LastOf(p + z) = p + z + sent[At(p + z)[1]] - At(p + z)[2]
    BY <1>5, <2>2 DEF LastOf
  <2>4. sent[At(p + z)[1]] \in Nat /\ At(p + z)[2] \in Int
    BY <2>1, ByteFacts
  <2>5. QED BY <1>3, <2>1, <2>2, <2>3, <2>4
<1>11. 1 \in 1 .. Unread /\ At(1)[1] = k
  BY <1>1, <1>2, <1>3, <1>7
<1>12. ASSUME NEW p \in 1 .. Unread - z PROVE IsByte(At(p))' /\ At(p)'[1] > Len(handled')
  <2>1. ~(p + z <= LastOf(1)) /\ p + z \in 1 .. Unread /\ 1 < p + z
    BY <1>2, <1>3, <1>10
  <2>2. At(p + z)[1] > At(1)[1]
    BY <1>11, <2>1 DEF FramingInv, Stream
  <2>3. IsByte(At(p + z))
    BY <2>1 DEF FramingInv, Stream
  <2>4. QED BY <1>5, <1>9, <1>10, <1>11, <2>2, <2>3 DEF IsByte
<1>13. IF Unread - z = 0 THEN Len(handled') = Len(sent) ELSE At(1)' = <<Len(handled') + 1, 1>>
  <2>1. CASE Unread - z = 0
    <3>1. LastOf(1) = Unread
      BY <1>2, <1>3, <2>1
    <3>2. At(1)[1] = Len(sent)
      BY <1>11, <3>1 DEF FramingInv, Stream
    <3>3. QED BY <1>9, <1>11, <2>1, <3>2
  <2>2. CASE Unread - z # 0
    <3>1. LastOf(1) # Unread /\ 1 \in 1 .. Unread - z /\ LastOf(1) = z
      BY <1>2, <1>3, <2>2
    <3>2. At(LastOf(1) + 1) = <<At(1)[1] + 1, 1>>
      BY <1>11, <3>1 DEF FramingInv, Stream
    <3>3. z + 1 = 1 + z
      BY <1>3
    <3>4. At(1)' = At(1 + z)
      BY <1>8, <3>1
    <3>5. QED BY <1>9, <1>11, <2>2, <3>1, <3>2, <3>3, <3>4
  <2>3. QED BY <2>1, <2>2
<1>14. ASSUME NEW p \in 1 .. Unread - z, NEW q \in 1 .. Unread - z, p < q
       PROVE  IF q <= LastOf(p)' THEN At(q)' = <<At(p)'[1], At(p)'[2] + q - p>> ELSE At(q)'[1] > At(p)'[1]
  <2> DEFINE s == p + z
             t == q + z
  <2>1. /\ s \in 1 .. Unread /\ t \in 1 .. Unread /\ s < t
        /\ At(p)' = At(s) /\ At(q)' = At(t) /\ LastOf(p)' = LastOf(s) - z
    BY <1>3, <1>10, <1>14
  <2>2. (q <= LastOf(p)' <=> t <= LastOf(s)) /\ At(s)[2] + q - p = At(s)[2] + t - s
    <3>1. LastOf(s) \in Int /\ At(s)[2] \in Int
      BY <2>1, ByteFacts, <1>3
    <3>2. QED BY <1>3, <2>1, <3>1
  <2> HIDE DEF s, t
  <2>3. IF t <= LastOf(s) THEN At(t) = <<At(s)[1], At(s)[2] + t - s>> ELSE At(t)[1] > At(s)[1]
    BY <2>1 DEF FramingInv, Stream
  <2>4. QED BY <2>1, <2>2, <2>3
<1>15. ASSUME NEW p \in 1 .. Unread - z
       PROVE  /\ LastOf(p)' <= Unread - z
              /\ IF LastOf(p)' = Unread - z THEN At(p)'[1] = Len(sent)
                                            ELSE At(LastOf(p) + 1)' = <<At(p)'[1] + 1, 1>>
  <2> DEFINE s == p + z
  <2>1. s \in 1 .. Unread /\ At(p)' = At(s) /\ LastOf(p)' = LastOf(s) - z /\ LastOf(s) \in s .. Unread
    BY <1>10, ByteFacts
  <2>2. LastOf(p)' <= Unread - z /\ (LastOf(p)' = Unread - z <=> LastOf(s) = Unread) /\ LastOf(p)' \in p .. Unread - z
    BY <1>3, <2>1
  <2> HIDE DEF s
  <2>3. IF LastOf(s) = Unread THEN At(s)[1] = Len(sent) ELSE At(LastOf(s) + 1) = <<At(s)[1] + 1, 1>>
    BY <2>1 DEF FramingInv, Stream
  <2>4. ASSUME LastOf(s) # Unread PROVE At(LastOf(p) + 1)' = At(LastOf(s) + 1)
    <3>1. LastOf(p)' + 1 \in 1 .. Unread - z /\ LastOf(p)' + 1 + z = LastOf(s) + 1
      BY <1>3, <2>1, <2>2, <2>4
    <3>2. At(LastOf(p) + 1)' = At(LastOf(p)' + 1 + z)
      BY <1>8, <3>1
    <3>3. QED BY <3>1, <3>2
  <2>5. QED BY <2>1, <2>2, <2>3, <2>4
<1>16. Stream'
  BY <1>5, <1>8, <1>12, <1>13, <1>14, <1>15 DEF Stream
<1>17. \A j \in 1 .. Len(handled') : handled'[j] = Bytes(j, sent[j])
  <2>1. \A j \in 1 .. Len(handled') : j = k \/ j \in 1 .. Len(handled)
    BY <1>9, Facts DEF k
  <2>2. QED BY <1>9, <2>1 DEF FramingInv, z
<1>18. FramingTypeOK'
  BY <1>2, <1>5, <1>8, <1>9 DEF FramingInv, FramingTypeOK, TypeOK
<1>19. QED BY <1>5, <1>16, <1>17, <1>18 DEF FramingInv, NoneComplete

-----------------------------------------------------------------------------
LEMMA FramingStep == FramingInv /\ [Next]_vars => FramingInv'
<1> SUFFICES ASSUME FramingInv, [Next]_vars PROVE FramingInv'
  OBVIOUS
<1>1. ASSUME NEW size \in PacketSizes, SendPacket(size) PROVE FramingInv'
  BY <1>1, SendPacketKeeps
<1>2. CASE ReceiveSome
  BY <1>2, ReceiveKeeps DEF ReceiveSome
<1>3. CASE ExtractPacket
  BY <1>3, ExtractPacketKeeps
<1>4. CASE WaitForRest
  BY <1>4, WaitForRestKeeps
<1>5. CASE UNCHANGED vars
  <2>1. GetUsedSize' = GetUsedSize /\ Unread' = Unread /\ \A p \in 1 .. Unread : At(p)' = At(p)
    BY <1>5 DEF vars, GetUsedSize, Unread, At, Slot
  <2>2. Stream'
    BY <1>5, <2>1, StreamKept DEF vars
  <2>3. QED BY <1>5, <2>1, <2>2 DEF vars, FramingInv, FramingTypeOK, TypeOK, NoneComplete
<1>6. QED BY <1>1, <1>2, <1>3, <1>4, <1>5 DEF Next

THEOREM FramingInvAlways == Spec => []FramingInv
BY FramingInit, FramingStep, PTL DEF Spec

(* HandlePacket, or the client's OnPacket, gets the packets that were sent,*)
(* byte by byte and in order, whatever the size of the ring buffer,        *)
(* wherever it wraps and wherever the network cuts the stream.             *)
THEOREM FramedAsSentAlways == Spec => []FramedAsSent
<1>1. FramingInv => FramedAsSent
  BY DEF FramingInv, FramedAsSent
<1>2. QED BY FramingInvAlways, <1>1, PTL

(* Whenever the receiver waits for bytes it has handled every packet that  *)
(* has come as a whole, and what it holds is the beginning of the next.    *)
THEOREM NoneLeftBehindAlways == Spec => []NoneLeftBehind
<1> DEFINE k == Len(handled) + 1
<1>1. ASSUME FramingInv, loop = "recv", k > Len(sent) PROVE GetUsedSize = 0
  BY <1>1, Front, Facts
<1>2. ASSUME FramingInv, loop = "recv", ~(k > Len(sent))
      PROVE  /\ GetUsedSize < sent[k]
             /\ Peek(GetUsedSize) = SubSeq(Bytes(k, sent[k]), 1, GetUsedSize)
  <2>1. /\ Len(handled) < Len(sent) /\ GetUsedSize \in Nat /\ Unread \in Nat /\ Unread >= GetUsedSize
        /\ sent[k] \in Nat
    BY <1>2, Facts
  <2>2. GetUsedSize < sent[k]
    BY <1>2, <2>1 DEF FramingInv, NoneComplete
  <2>3. ASSUME NEW q \in 1 .. GetUsedSize PROVE buffer[(tail + q - 1) % BufferSize] = <<k, q>>
    <3>1. Unread # 0 /\ q \in 1 .. sent[k] /\ q <= GetUsedSize
      BY <2>1, <2>2
    <3>2. At(q) = <<k, q>>
      BY <1>2, <3>1, Front
    <3>3. QED BY <3>1, <3>2 DEF At, Slot
  <2>4. SubSeq(Bytes(k, sent[k]), 1, GetUsedSize) = [q \in 1 .. GetUsedSize |-> <<k, q>>]
    <3> DEFINE u == GetUsedSize
               z == sent[k]
    <3>1. u \in Nat /\ z \in Nat /\ u <= z
      BY <2>1, <2>2
    <3> HIDE DEF u, z, k
    <3>2. SubSeq([q \in 1 .. z |-> <<k, q>>], 1, u) = [q \in 1 .. u |-> <<k, q>>]
      BY <3>1
    <3>3. QED BY <3>2 DEF u, z, k, Bytes
  <2>5. QED BY <2>2, <2>3, <2>4 DEF Peek
<1>3. FramingInv => NoneLeftBehind
  BY <1>1, <1>2 DEF NoneLeftBehind, FramingInv, FramingTypeOK
<1>4. QED BY FramingInvAlways, <1>3, PTL

(* What has been sent, as HandlePacket is to see it, grows by a packet.    *)
LEMMA SentGrows ==
  ASSUME FramingInv, NEW size \in PacketSizes, SendPacket(size)
  PROVE  /\ Bytes(Len(sent) + 1, size) \in Packets
         /\ [k \in 1 .. Len(sent') |-> Bytes(k, sent'[k])]
              = Append([k \in 1 .. Len(sent) |-> Bytes(k, sent[k])], Bytes(Len(sent) + 1, size))
<1> DEFINE old == [k \in 1 .. Len(sent) |-> Bytes(k, sent[k])]
           new == [k \in 1 .. Len(sent') |-> Bytes(k, sent'[k])]
           b == Bytes(Len(sent) + 1, size)
           S == {Bytes(k, z) : k \in Nat, z \in PacketSizes}
<1>1. sent \in Seq(PacketSizes) /\ Len(sent) \in Nat /\ MaxSent \in Nat
  BY FramingAssumption DEF FramingInv, FramingTypeOK, TypeOK
<1>2. /\ Len(sent') = Len(sent) + 1 /\ sent'[Len(sent) + 1] = size
      /\ \A k \in 1 .. Len(sent) : sent'[k] = sent[k] /\ sent[k] \in PacketSizes
  BY <1>1 DEF SendPacket
<1>3. Len(sent) + 1 \in 1 .. MaxSent
  BY <1>1 DEF SendPacket
<1>4. b \in Packets
  BY <1>3 DEF Packets
<1>5. old \in Seq(S) /\ b \in S /\ Len(old) = Len(sent)
  BY <1>1, <1>2
<1>6. new \in Seq(S) /\ Len(new) = Len(sent) + 1
  <2>1. \A k \in 1 .. Len(sent') : sent'[k] \in PacketSizes
    BY <1>1, <1>2
  <2>2. Len(sent') \in Nat /\ \A k \in 1 .. Len(sent') : Bytes(k, sent'[k]) \in S
    BY <1>1, <1>2, <2>1
  <2> HIDE DEF S
  <2>3. QED BY <1>2, <2>2
<1>7. /\ new[Len(sent) + 1] = b
      /\ \A k \in 1 .. Len(sent) : new[k] = old[k]
  BY <1>1, <1>2
<1> HIDE DEF old, new, b, S
<1>8. new = Append(old, b)
  BY <1>1, <1>5, <1>6, <1>7
<1>9. QED BY <1>4, <1>8 DEF old, new, b

(* The ring buffer and the extraction loop implement the abstract channel: *)
(* SendPacket sends, ExtractPacket delivers, and how the network cuts the  *)
(* stream, where the buffer wraps and when the loop waits is invisible.    *)
THEOREM ImplementsChannel == Spec => RefinesChannel
<1>1. Init => Connection!Init
  BY DEF Init, Connection!Init
<1>2. FramingInv /\ FramingInv' /\ [Next]_vars => [Connection!Next]_(Connection!vars)
  <2> SUFFICES ASSUME FramingInv, FramingInv', [Next]_vars
               PROVE  [Connection!Next]_(Connection!vars)
    OBVIOUS
  <2>1. ASSUME NEW size \in PacketSizes, SendPacket(size) PROVE Connection!Next
    <3> DEFINE b == Bytes(Len(sent) + 1, size)
    <3>1. b \in Packets
      BY <2>1, SentGrows
    <3>2. Connection!Send(b)
      BY <2>1, SentGrows DEF SendPacket, Connection!Send
    <3> HIDE DEF b
    <3>3. \E m \in Packets : Connection!Send(m)
      BY <3>1, <3>2 DEF Connection!Send
    <3>4. QED BY <3>3 DEF Connection!Next
  <2>2. CASE ExtractPacket
    <3> DEFINE k == Len(handled) + 1
               x == Peek(DecodedSize(Peek(HeaderSize)))
    <3>1. handled' = Append(handled, x) /\ sent' = sent
      BY <2>2 DEF ExtractPacket
    <3>2. Len(handled') = k /\ handled'[k] = x
      BY <3>1 DEF FramingInv, FramingTypeOK
    <3>3. k \in 1 .. Len(sent)
      BY <3>1, <3>2, Facts DEF FramingInv, FramingTypeOK, TypeOK
    <3>4. x = Bytes(k, sent[k])
      BY <3>1, <3>2, <3>3 DEF FramingInv
    <3> HIDE DEF x
    <3>5. Connection!Deliver
      <4>1. Len([j \in 1 .. Len(sent) |-> Bytes(j, sent[j])]) = Len(sent)
        BY Facts
      <4>2. Len(handled) < Len(sent) /\ [j \in 1 .. Len(sent) |-> Bytes(j, sent[j])][k] = x
        BY <3>3, <3>4, Facts
      <4>3. QED BY <3>1, <4>1, <4>2 DEF Connection!Deliver
    <3>6. QED BY <3>5 DEF Connection!Next
  <2>3. CASE ReceiveSome \/ WaitForRest \/ UNCHANGED vars
    BY <2>3 DEF ReceiveSome, Receive, WaitForRest, vars, Connection!vars
  <2>4. QED BY <2>1, <2>2, <2>3 DEF Next
<1>3. QED BY FramingInvAlways, <1>1, <1>2, PTL DEF Spec, RefinesChannel, Connection!Spec
=============================================================================
