--------------------------- MODULE SessionIOProofs ---------------------------
(***************************************************************************)
(* Theorems about SessionIO for any number of sessions, packets and        *)
(* receives.                                                               *)
(*                                                                         *)
(* The second part is about View: what the packets of a session show its   *)
(* client.                                                                 *)
(***************************************************************************)
EXTENDS SessionIO, View, Integers, TLAPS

\* Packets of t that are on the wire and no longer queued: one that has
\* completed is in both until OnSendComplete takes it out.
Done(t) == IF flight[t] = "completed" THEN Len(wire[t]) - 1 ELSE Len(wire[t])

\* What has been accepted for t is on the wire or queued behind it, in the
\* order of its numbers.
Stream(t) ==
    /\ accepted[t] = Done(t) + Len(queue[t])
    /\ \A i \in 1 .. Len(queue[t]) : queue[t][i] = Done(t) + i

\* m_isSending, the WSASend outstanding and the queue agree.
Busy(t) ==
    /\ isSending[t] <=> flight[t] # "none"
    /\ isSending[t] <=> queue[t] # <<>>

\* Nobody reads m_sendQueue of a closed socket, and only a broken connection
\* closes one.
IOInv ==
    /\ TypeOK
    /\ \A t \in Sessions : \A i \in 1 .. Len(wire[t]) : wire[t][i] = i
    /\ \A t \in Sessions : open[t] => Stream(t) /\ Busy(t)
    /\ \A t \in Sessions : ~open[t] \/ recv[t] = "none" => \E u \in Sessions : lost[u]
    /\ \A t \in Sessions : gone[t] => ~open[t]

LEMMA IOInit == Init => IOInv
<1> SUFFICES ASSUME Init PROVE IOInv
  OBVIOUS
<1>1. TypeOK
  BY IOAssumption DEF Init, TypeOK
<1>2. QED BY <1>1 DEF Init, IOInv, Stream, Busy, Done

(* The empty sequence; Append and Tail at an index.                        *)
LEMMA EmptyIsSeq == ASSUME NEW S PROVE <<>> \in Seq(S) /\ Len(<<>>) = 0
OBVIOUS

LEMMA AppendAt ==
  ASSUME NEW S, NEW q \in Seq(S), NEW x \in S
  PROVE  /\ Append(q, x) \in Seq(S) /\ Append(q, x) # <<>>
         /\ Len(Append(q, x)) = Len(q) + 1 /\ Len(q) \in Nat
         /\ \A i \in 1 .. Len(q) : Append(q, x)[i] = q[i]
         /\ Append(q, x)[Len(q) + 1] = x
OBVIOUS

LEMMA TailAt ==
  ASSUME NEW S, NEW q \in Seq(S), q # <<>>
  PROVE  /\ Tail(q) \in Seq(S) /\ Len(q) \in Nat \ {0}
         /\ Len(Tail(q)) = Len(q) - 1
         /\ \A i \in 1 .. Len(q) - 1 : Tail(q)[i] = q[i + 1]
         /\ Head(q) = q[1] /\ q[1] \in S
OBVIOUS

(* A packet put behind the others keeps the order.                         *)
LEMMA StreamGrows ==
  ASSUME IOInv, NEW t \in Sessions, accepted[t] < MaxPackets
  PROVE  LET q == Append(queue[t], accepted[t] + 1)
         IN  /\ q \in Seq(1 .. MaxPackets) /\ q # <<>>
             /\ open[t] => /\ accepted[t] + 1 = Done(t) + Len(q)
                           /\ \A i \in 1 .. Len(q) : q[i] = Done(t) + i
<1> DEFINE x == accepted[t] + 1
           q == Append(queue[t], x)
<1>1. /\ queue[t] \in Seq(1 .. MaxPackets) /\ wire[t] \in Seq(1 .. MaxPackets)
      /\ accepted[t] \in 0 .. MaxPackets /\ MaxPackets \in Nat
  BY IOAssumption DEF IOInv, TypeOK
<1>2. x \in 1 .. MaxPackets
  BY <1>1
<1> HIDE DEF x
<1>3. /\ q \in Seq(1 .. MaxPackets) /\ q # <<>> /\ Len(q) = Len(queue[t]) + 1 /\ Len(queue[t]) \in Nat
      /\ \A i \in 1 .. Len(queue[t]) : q[i] = queue[t][i]
      /\ q[Len(queue[t]) + 1] = x
  <2>1. queue[t] \in Seq(1 .. MaxPackets)
    BY <1>1
  <2> HIDE DEF q
  <2>2. q = Append(queue[t], x)
    BY DEF q
  <2>3. QED BY ONLY <2>1, <2>2, <1>2, AppendAt
<1> HIDE DEF q
<1>4. ASSUME open[t] PROVE x = Done(t) + Len(q) /\ \A i \in 1 .. Len(q) : q[i] = Done(t) + i
  <2>1. accepted[t] = Done(t) + Len(queue[t]) /\ \A i \in 1 .. Len(queue[t]) : queue[t][i] = Done(t) + i
    BY <1>4 DEF IOInv, Stream
  <2>2. Done(t) \in Int
    BY <1>1 DEF Done
  <2>3. x = Done(t) + Len(queue[t]) + 1
    BY <2>1 DEF x
  <2>4. x = Done(t) + Len(q)
    BY <1>3, <2>2, <2>3
  <2>5. ASSUME NEW i \in 1 .. Len(q) PROVE q[i] = Done(t) + i
    <3>1. CASE i = Len(queue[t]) + 1
      BY <1>3, <2>2, <2>3, <3>1
    <3>2. CASE i # Len(queue[t]) + 1
      BY <1>3, <2>1, <3>2
    <3>3. QED BY <3>1, <3>2
  <2>6. QED BY <2>4, <2>5
<1>5. QED BY <1>3, <1>4 DEF q, x

-----------------------------------------------------------------------------
(* The actions, one by one                                                 *)

LEMMA ConnectionLostKeeps ==
  ASSUME IOInv, NEW s \in Sessions, ConnectionLost(s)
  PROVE  IOInv'
BY DEF ConnectionLost, IOInv, TypeOK, Stream, Done, Busy

(* A session no step touches stays as it is.                               *)
LEMMA Untouched ==
  ASSUME NEW t \in Sessions, open[t] => Stream(t) /\ Busy(t), open'[t] = open[t],
         queue'[t] = queue[t], wire'[t] = wire[t], flight'[t] = flight[t],
         isSending'[t] = isSending[t], accepted'[t] = accepted[t]
  PROVE  open'[t] => Stream(t)' /\ Busy(t)'
BY DEF Stream, Done, Busy

LEMMA TransmitKeeps ==
  ASSUME IOInv, NEW s \in Sessions, Transmit(s)
  PROVE  IOInv'
<1>1. Stream(s) /\ Busy(s)
  BY DEF IOInv, Transmit
<1>2. /\ queue[s] \in Seq(1 .. MaxPackets) /\ queue[s] # <<>> /\ wire[s] \in Seq(1 .. MaxPackets)
      /\ flight[s] = "kernel"
  BY <1>1 DEF IOInv, TypeOK, Transmit, Busy
<1>3. Head(queue[s]) = Len(wire[s]) + 1 /\ Head(queue[s]) \in 1 .. MaxPackets
  <2>1. Head(queue[s]) = queue[s][1] /\ queue[s][1] \in 1 .. MaxPackets /\ Len(queue[s]) \in Nat \ {0}
    BY <1>2, TailAt
  <2>2. QED BY <1>1, <1>2, <2>1 DEF Stream, Done
<1> DEFINE w == Append(wire[s], Head(queue[s]))
<1>4. /\ w \in Seq(1 .. MaxPackets) /\ Len(w) = Len(wire[s]) + 1 /\ Len(wire[s]) \in Nat
      /\ \A i \in 1 .. Len(wire[s]) : w[i] = wire[s][i]
      /\ w[Len(wire[s]) + 1] = Head(queue[s])
  BY <1>2, <1>3, AppendAt
<1>5. wire' = [wire EXCEPT ![s] = w] /\ flight' = [flight EXCEPT ![s] = "completed"]
  BY DEF Transmit
<1> HIDE DEF w
<1>6. TypeOK'
  <2>1. wire' \in [Sessions -> Seq(1 .. MaxPackets)]
    BY <1>4, <1>5 DEF IOInv, TypeOK
  <2>2. flight' \in [Sessions -> {"none", "kernel", "completed"}]
    BY <1>5 DEF IOInv, TypeOK
  <2>3. QED BY <2>1, <2>2 DEF IOInv, TypeOK, Transmit
<1>7. wire'[s] = w /\ flight'[s] = "completed"
  BY <1>5 DEF IOInv, TypeOK
<1>8. ASSUME NEW t \in Sessions PROVE \A i \in 1 .. Len(wire'[t]) : wire'[t][i] = i
  <2>1. CASE t = s
    BY <1>3, <1>4, <1>7, <2>1 DEF IOInv
  <2>2. CASE t # s
    BY <1>5, <2>2 DEF IOInv, TypeOK
  <2>3. QED BY <2>1, <2>2
<1>9. Stream(s)' /\ Busy(s)'
  <2>1. Done(s)' = Done(s)
    BY <1>2, <1>4, <1>7 DEF Done
  <2>2. QED BY <1>1, <1>2, <1>7, <2>1 DEF Stream, Busy, Transmit
<1>10. ASSUME NEW t \in Sessions PROVE open'[t] => Stream(t)' /\ Busy(t)'
  <2>1. CASE t = s
    BY <1>9, <2>1
  <2>2. CASE t # s
    <3>1. wire'[t] = wire[t] /\ flight'[t] = flight[t]
      BY <1>5, <2>2 DEF IOInv, TypeOK
    <3>2. QED BY <3>1, Untouched DEF Transmit, IOInv
  <2>3. QED BY <2>1, <2>2
<1>11. QED BY <1>6, <1>8, <1>10 DEF IOInv, Transmit

LEMMA SendPacketKeeps ==
  ASSUME IOInv, NEW s \in Sessions, NEW t \in Sessions, SendPacket(s, t)
  PROVE  IOInv'
<1> DEFINE q == Append(queue[t], accepted[t] + 1)
<1>1. /\ q \in Seq(1 .. MaxPackets) /\ q # <<>>
      /\ open[t] => /\ accepted[t] + 1 = Done(t) + Len(q)
                    /\ \A i \in 1 .. Len(q) : q[i] = Done(t) + i
  BY StreamGrows DEF SendPacket
<1>2. /\ queue' = [queue EXCEPT ![t] = q]
      /\ accepted' = [accepted EXCEPT ![t] = @ + 1]
      /\ UNCHANGED <<open, wire>>
  BY DEF SendPacket, Enqueue, PostSend
<1>3. \/ isSending[t] /\ UNCHANGED <<isSending, flight>>
      \/ /\ ~isSending[t] /\ open[t]
         /\ isSending' = [isSending EXCEPT ![t] = TRUE]
         /\ flight' = [flight EXCEPT ![t] = "kernel"]
  BY DEF SendPacket, Enqueue, PostSend
<1> HIDE DEF q
<1>4. /\ queue'[t] = q /\ accepted'[t] = accepted[t] + 1
      /\ \A u \in Sessions \ {t} : queue'[u] = queue[u] /\ accepted'[u] = accepted[u]
  BY <1>2 DEF IOInv, TypeOK
<1>5. \A u \in Sessions \ {t} : isSending'[u] = isSending[u] /\ flight'[u] = flight[u]
  BY <1>3 DEF IOInv, TypeOK
<1>6. TypeOK'
  <2>1. queue' \in [Sessions -> Seq(1 .. MaxPackets)]
    BY <1>1, <1>2 DEF IOInv, TypeOK
  <2>2. accepted' \in [Sessions -> 0 .. MaxPackets]
    BY <1>2, IOAssumption DEF IOInv, TypeOK, SendPacket
  <2>3. isSending' \in [Sessions -> BOOLEAN] /\ flight' \in [Sessions -> {"none", "kernel", "completed"}]
    BY <1>3 DEF IOInv, TypeOK
  <2>4. QED BY <2>1, <2>2, <2>3 DEF IOInv, TypeOK, SendPacket, Enqueue, PostSend
<1>7. ASSUME open[t] PROVE Stream(t)' /\ Busy(t)'
  <2>1. Busy(t) /\ flight[t] \in {"none", "kernel", "completed"} /\ isSending[t] \in BOOLEAN
    BY <1>7 DEF IOInv, TypeOK
  <2>2. Done(t)' = Done(t) /\ (isSending'[t] <=> flight'[t] # "none") /\ isSending'[t]
    BY <1>2, <1>3, <2>1 DEF Done, Busy, IOInv, TypeOK
  <2>3. QED BY <1>1, <1>4, <1>7, <2>2 DEF Stream, Busy
<1>8. ASSUME NEW u \in Sessions PROVE open'[u] => Stream(u)' /\ Busy(u)'
  <2>1. CASE u = t
    BY <1>2, <1>7, <2>1
  <2>2. CASE u # t
    BY <1>2, <1>4, <1>5, <2>2, Untouched DEF IOInv
  <2>3. QED BY <2>1, <2>2
<1>9. QED BY <1>2, <1>6, <1>8 DEF IOInv, SendPacket

LEMMA SendPacketFailsKeeps ==
  ASSUME IOInv, NEW s \in Sessions, NEW t \in Sessions, SendPacketFails(s, t)
  PROVE  IOInv'
<1> DEFINE q == Append(queue[t], accepted[t] + 1)
<1>1. q \in Seq(1 .. MaxPackets)
  BY StreamGrows DEF SendPacketFails
<1>2. PICK throws \in BOOLEAN : PostSendFails(t, q, throws) /\ recv' = [recv EXCEPT ![s] = IF throws THEN "none" ELSE @]
  BY DEF SendPacketFails
<1> HIDE DEF q
<1>3. /\ accepted' = [accepted EXCEPT ![t] = @ + 1]
      /\ UNCHANGED <<lost, flight, gone, recvs, wire>>
  BY DEF SendPacketFails
<1>4. TypeOK'
  <2>1. queue' \in [Sessions -> Seq(1 .. MaxPackets)]
    <3> DEFINE r == IF throws THEN q ELSE <<>>
    <3>1. r \in Seq(1 .. MaxPackets)
      BY <1>1, EmptyIsSeq
    <3>2. queue' = [queue EXCEPT ![t] = r]
      BY <1>2 DEF PostSendFails
    <3> HIDE DEF r
    <3>3. QED BY <3>1, <3>2 DEF IOInv, TypeOK
  <2>2. accepted' \in [Sessions -> 0 .. MaxPackets]
    BY <1>3, IOAssumption DEF IOInv, TypeOK, SendPacketFails
  <2>3. isSending' \in [Sessions -> BOOLEAN] /\ open' \in [Sessions -> BOOLEAN]
    BY <1>2 DEF IOInv, TypeOK, PostSendFails
  <2>4. recv' \in [Sessions -> {"posted", "handling", "none"}]
    BY <1>2 DEF IOInv, TypeOK
  <2>5. QED BY <1>3, <2>1, <2>2, <2>3, <2>4 DEF IOInv, TypeOK
<1>5. ~open'[t] /\ \A u \in Sessions \ {t} : /\ open'[u] = open[u] /\ queue'[u] = queue[u]
                                             /\ isSending'[u] = isSending[u] /\ accepted'[u] = accepted[u]
  BY <1>2, <1>3 DEF IOInv, TypeOK, PostSendFails
<1>6. ASSUME NEW u \in Sessions PROVE open'[u] => Stream(u)' /\ Busy(u)'
  <2>1. CASE u = t
    BY <1>5, <2>1
  <2>2. CASE u # t
    BY <1>3, <1>5, <2>2, Untouched DEF IOInv
  <2>3. QED BY <2>1, <2>2
<1>7. \E u \in Sessions : lost'[u]
  BY <1>2, <1>3 DEF PostSendFails, Refused, IOInv
<1>8. \A u \in Sessions : gone'[u] => ~open'[u]
  BY <1>3, <1>5 DEF IOInv
<1>9. QED BY <1>3, <1>4, <1>6, <1>7, <1>8 DEF IOInv

LEMMA OnSendCompleteKeeps ==
  ASSUME IOInv, NEW s \in Sessions, OnSendComplete(s)
  PROVE  IOInv'
<1> DEFINE q == IF queue[s] = <<>> THEN <<>> ELSE Tail(queue[s])
<1>1. /\ flight[s] = "completed" /\ ~gone[s] /\ UNCHANGED <<lost, recv, gone, accepted, recvs, wire>>
      /\ \/ q # <<>> /\ PostSend(s, q)
         \/ /\ \E throws \in BOOLEAN : PostSendFails(s, q, throws)
            /\ flight' = [flight EXCEPT ![s] = "none"]
         \/ /\ q = <<>>
            /\ queue' = [queue EXCEPT ![s] = q]
            /\ isSending' = [isSending EXCEPT ![s] = FALSE]
            /\ flight' = [flight EXCEPT ![s] = "none"]
            /\ UNCHANGED open
  BY DEF OnSendComplete
<1>2. queue[s] \in Seq(1 .. MaxPackets) /\ wire[s] \in Seq(1 .. MaxPackets) /\ accepted[s] \in Nat
  BY IOAssumption DEF IOInv, TypeOK
<1>3. q \in Seq(1 .. MaxPackets) /\ (q = <<>> => Len(q) = 0)
  <2>1. CASE queue[s] = <<>>
    BY <2>1, EmptyIsSeq
  <2>2. CASE queue[s] # <<>>
    BY <1>2, <2>2, TailAt, EmptyIsSeq
  <2>3. QED BY <2>1, <2>2
<1>4. ASSUME open[s]
      PROVE  /\ accepted[s] = Len(wire[s]) + Len(q)
             /\ \A i \in 1 .. Len(q) : q[i] = Len(wire[s]) + i
  <2>1. Stream(s) /\ queue[s] # <<>>
    BY <1>1, <1>4 DEF IOInv, Busy
  <2>2. /\ Len(q) = Len(queue[s]) - 1 /\ Len(queue[s]) \in Nat /\ Len(wire[s]) \in Nat
        /\ \A i \in 1 .. Len(q) : q[i] = queue[s][i + 1]
    BY <1>2, <2>1, TailAt
  <2>3. Done(s) = Len(wire[s]) - 1
    BY <1>1 DEF Done
  <2> HIDE DEF q
  <2>4. accepted[s] = Len(wire[s]) + Len(q)
    BY <2>1, <2>2, <2>3 DEF Stream
  <2>5. ASSUME NEW i \in 1 .. Len(q) PROVE q[i] = Len(wire[s]) + i
    <3>1. i + 1 \in 1 .. Len(queue[s]) /\ q[i] = queue[s][i + 1]
      BY <2>2
    <3>2. QED BY <2>1, <2>2, <2>3, <3>1 DEF Stream
  <2>6. QED BY <2>4, <2>5
<1> HIDE DEF q
<1>5. /\ flight' = [flight EXCEPT ![s] = IF flight'[s] = "kernel" THEN "kernel" ELSE "none"]
      /\ flight'[s] \in {"kernel", "none"}
  BY <1>1 DEF IOInv, TypeOK, PostSend
<1>6. PICK r : queue' = [queue EXCEPT ![s] = r] /\ (r = q \/ r = <<>>)
  BY <1>1 DEF PostSend, PostSendFails
<1>7. TypeOK'
  <2>1. queue' \in [Sessions -> Seq(1 .. MaxPackets)]
    <3>1. r \in Seq(1 .. MaxPackets)
      BY <1>3, <1>6, EmptyIsSeq
    <3>2. QED BY <1>6, <3>1 DEF IOInv, TypeOK
  <2>2. open' \in [Sessions -> BOOLEAN] /\ isSending' \in [Sessions -> BOOLEAN]
    BY <1>1 DEF IOInv, TypeOK, PostSend, PostSendFails
  <2>3. flight' \in [Sessions -> {"none", "kernel", "completed"}]
    BY <1>5 DEF IOInv, TypeOK
  <2>4. QED BY <1>1, <2>1, <2>2, <2>3 DEF IOInv, TypeOK
<1>8. \A u \in Sessions \ {s} : /\ open'[u] = open[u] /\ queue'[u] = queue[u]
                                /\ isSending'[u] = isSending[u] /\ flight'[u] = flight[u]
  BY <1>1, <1>5, <1>6 DEF IOInv, TypeOK, PostSend, PostSendFails
<1>9. ASSUME open'[s] PROVE Stream(s)' /\ Busy(s)'
  <2>1. /\ open[s] /\ queue'[s] = q /\ (isSending'[s] <=> q # <<>>)
        /\ flight'[s] = IF q # <<>> THEN "kernel" ELSE "none"
    BY <1>1, <1>9 DEF IOInv, TypeOK, PostSend, PostSendFails
  <2>2. Done(s)' = Len(wire[s])
    BY <1>1, <2>1 DEF Done
  <2>3. QED BY <1>1, <1>4, <2>1, <2>2 DEF Stream, Busy
<1>10. ASSUME NEW u \in Sessions PROVE open'[u] => Stream(u)' /\ Busy(u)'
  <2>1. CASE u = s
    BY <1>9, <2>1
  <2>2. CASE u # s
    BY <1>1, <1>8, <2>2, Untouched DEF IOInv
  <2>3. QED BY <2>1, <2>2
<1>11. ASSUME NEW u \in Sessions, ~open'[u] PROVE \E v \in Sessions : lost'[v]
  BY <1>1, <1>8, <1>11 DEF PostSend, PostSendFails, Refused, IOInv
<1>12. \A u \in Sessions : gone'[u] => ~open'[u]
  BY <1>1, <1>8 DEF IOInv
<1>13. QED BY <1>1, <1>7, <1>10, <1>11, <1>12 DEF IOInv

LEMMA OnRecvCompleteKeeps ==
  ASSUME IOInv, NEW s \in Sessions, OnRecvComplete(s)
  PROVE  IOInv'
<1>1. TypeOK'
  BY IOAssumption DEF OnRecvComplete, IOInv, TypeOK
<1>2. \A u \in Sessions : recv'[u] = "none" => recv[u] = "none"
  BY DEF OnRecvComplete, IOInv, TypeOK
<1>3. QED BY <1>1, <1>2 DEF OnRecvComplete, IOInv, Stream, Done, Busy

LEMMA PostRecvKeeps ==
  ASSUME IOInv, NEW s \in Sessions, PostRecv(s)
  PROVE  IOInv'
<1>1. TypeOK'
  BY DEF PostRecv, IOInv, TypeOK
<1>2. \A u \in Sessions : recv'[u] = "none" => recv[u] = "none"
  BY DEF PostRecv, IOInv, TypeOK
<1>3. QED BY <1>1, <1>2 DEF PostRecv, IOInv, Stream, Done, Busy

(* Close, whoever calls it.                                                *)
LEMMA CloseKeeps ==
  ASSUME IOInv, NEW s \in Sessions, PostRecvFails(s) \/ DisconnectSession(s)
  PROVE  IOInv'
<1>1. TypeOK'
  <2>1. queue' = [queue EXCEPT ![s] = <<>>] /\ <<>> \in Seq(1 .. MaxPackets)
    BY DEF PostRecvFails, DisconnectSession
  <2>2. queue' \in [Sessions -> Seq(1 .. MaxPackets)]
    BY <2>1 DEF IOInv, TypeOK
  <2>3. QED BY <2>2 DEF PostRecvFails, DisconnectSession, IOInv, TypeOK
<1>2. UNCHANGED <<lost, wire, accepted>> /\ Refused(s)
  BY DEF PostRecvFails, DisconnectSession
<1>3. ~open'[s] /\ \A u \in Sessions \ {s} :
         /\ open'[u] = open[u] /\ queue'[u] = queue[u] /\ isSending'[u] = isSending[u]
         /\ flight'[u] = flight[u] /\ gone'[u] = gone[u]
  BY DEF PostRecvFails, DisconnectSession, IOInv, TypeOK
<1>4. ASSUME NEW u \in Sessions PROVE open'[u] => Stream(u)' /\ Busy(u)'
  <2>1. CASE u = s
    BY <1>3, <2>1
  <2>2. CASE u # s
    BY <1>2, <1>3, <2>2, Untouched DEF IOInv
  <2>3. QED BY <2>1, <2>2
<1>5. \E u \in Sessions : lost'[u]
  BY <1>2 DEF Refused, IOInv
<1>6. \A u \in Sessions : gone'[u] => ~open'[u]
  BY <1>3 DEF IOInv
<1>7. QED BY <1>1, <1>2, <1>4, <1>5, <1>6 DEF IOInv

-----------------------------------------------------------------------------
LEMMA IOStep == IOInv /\ [Next]_vars => IOInv'
<1> SUFFICES ASSUME IOInv, [Next]_vars PROVE IOInv'
  OBVIOUS
<1>1. ASSUME NEW s \in Sessions, ConnectionLost(s) PROVE IOInv'
  BY <1>1, ConnectionLostKeeps
<1>2. ASSUME NEW s \in Sessions, Completion(s) PROVE IOInv'
  BY <1>2, TransmitKeeps, OnSendCompleteKeeps, CloseKeeps DEF Completion
<1>3. ASSUME NEW s \in Sessions,
             OnRecvComplete(s) \/ PostRecv(s) \/ PostRecvFails(s) PROVE IOInv'
  BY <1>3, OnRecvCompleteKeeps, PostRecvKeeps, CloseKeeps
<1>4. ASSUME NEW s \in Sessions, NEW t \in Sessions, SendPacket(s, t) \/ SendPacketFails(s, t)
      PROVE  IOInv'
  BY <1>4, SendPacketKeeps, SendPacketFailsKeeps
<1>5. CASE UNCHANGED vars
  BY <1>5 DEF IOInv, TypeOK, Stream, Done, Busy, vars
<1>6. QED BY <1>1, <1>2, <1>3, <1>4, <1>5 DEF Next

THEOREM IOInvAlways == Spec => []IOInv
BY IOInit, IOStep, PTL DEF Spec

(* What the kernel has sent on a session is the packets SendPacket was     *)
(* called with, in that order, whichever workers call it and whenever a    *)
(* connection breaks or WSASend throws in PostSend.                        *)
THEOREM InOrderAlways == Spec => []InOrder
<1>1. IOInv => InOrder
  BY DEF IOInv, InOrder
<1>2. QED BY IOInvAlways, <1>1, PTL

(* While a socket is open, m_isSending, the send queue and the WSASend     *)
(* outstanding agree: no queued packet waits for a send nobody will make,  *)
(* and no session has two WSASends.                                        *)
THEOREM SendingWhileQueuedAlways == Spec => []SendingWhileQueued
<1>1. IOInv => SendingWhileQueued
  BY DEF IOInv, SendingWhileQueued, Busy
<1>2. QED BY IOInvAlways, <1>1, PTL

(* Without a broken connection every session has its receive outstanding   *)
(* or its handler running.                                                 *)
THEOREM KeepsReceivingAlways == Spec => []KeepsReceiving
<1>1. IOInv => KeepsReceiving
  BY DEF IOInv, KeepsReceiving
<1>2. QED BY IOInvAlways, <1>1, PTL

-----------------------------------------------------------------------------
(* Each session's queue implements the abstract channel.                   *)

\* What SendPacket has been called with: k packets.
Numbers(k) == [n \in 1 .. k |-> n]

LEMMA NumbersGrow ==
  ASSUME NEW k \in Nat
  PROVE  /\ Append(Numbers(k), k + 1) = Numbers(k + 1)
         /\ Len(Numbers(k)) = k
         /\ \A n \in 1 .. k : Numbers(k)[n] = n
<1>1. Numbers(k) \in Seq(Nat) /\ Numbers(k + 1) \in Seq(Nat)
  BY DEF Numbers
<1>2. Len(Numbers(k)) = k /\ Len(Numbers(k + 1)) = k + 1
  BY DEF Numbers
<1>3. \A n \in 1 .. k + 1 : Append(Numbers(k), k + 1)[n] = Numbers(k + 1)[n]
  BY <1>1, <1>2 DEF Numbers
<1>4. QED BY <1>1, <1>2, <1>3 DEF Numbers

\* What a channel shows of session t.
Shown(t) == <<accepted[t], wire[t], open[t]>>

LEMMA ShownKept ==
  ASSUME NEW t \in Sessions, UNCHANGED Shown(t)
  PROVE  UNCHANGED Out(t)!vars
<1>1. accepted'[t] = accepted[t] /\ wire'[t] = wire[t] /\ open'[t] = open[t]
  BY DEF Shown
<1>2. QED BY <1>1 DEF Out!vars

(* A socket that closes breaks the channel, one that was closed is broken. *)
LEMMA Closed ==
  ASSUME NEW t \in Sessions, accepted'[t] = accepted[t], wire'[t] = wire[t], ~open'[t]
  PROVE  [Out(t)!Next]_(Out(t)!vars)
<1>1. Out(t)!Break
  BY DEF Out!Break
<1>2. QED BY <1>1 DEF Out!Next

LEMMA SendIsSend ==
  ASSUME IOInv, NEW t \in Sessions, accepted[t] < MaxPackets,
         accepted'[t] = accepted[t] + 1, wire'[t] = wire[t],
         open'[t] = open[t] \/ ~open'[t]
  PROVE  Out(t)!Next
<1>1. accepted[t] \in Nat /\ accepted[t] + 1 \in 1 .. MaxPackets
  BY IOAssumption DEF IOInv, TypeOK
<1>2. [n \in 1 .. accepted'[t] |-> n] = Append([n \in 1 .. accepted[t] |-> n], accepted[t] + 1)
  <2>1. Append(Numbers(accepted[t]), accepted[t] + 1) = Numbers(accepted[t] + 1)
    BY <1>1, NumbersGrow
  <2>2. QED BY <2>1 DEF Numbers
<1>3. (~open'[t]) \in {~open[t], TRUE}
  OBVIOUS
<1>4. \E m \in 1 .. MaxPackets : Out(t)!Send(m)
  BY <1>1, <1>2, <1>3 DEF Out!Send
<1>5. QED BY <1>4 DEF Out!Next

LEMMA TransmitIsDeliver ==
  ASSUME IOInv, NEW t \in Sessions, Transmit(t)
  PROVE  Out(t)!Next
<1>1. Stream(t) /\ Busy(t) /\ open[t] /\ flight[t] = "kernel"
  BY DEF IOInv, Transmit
<1>2. /\ queue[t] \in Seq(1 .. MaxPackets) /\ queue[t] # <<>> /\ wire[t] \in Seq(1 .. MaxPackets)
      /\ accepted[t] \in Nat
  BY <1>1, IOAssumption DEF IOInv, TypeOK, Busy
<1>3. Head(queue[t]) = queue[t][1] /\ Len(queue[t]) \in Nat \ {0} /\ Len(wire[t]) \in Nat
  BY <1>2, TailAt
<1>4. Head(queue[t]) = Len(wire[t]) + 1 /\ Len(wire[t]) < accepted[t]
  <2>1. Done(t) = Len(wire[t])
    BY <1>1 DEF Done
  <2>2. accepted[t] = Len(wire[t]) + Len(queue[t]) /\ queue[t][1] = Len(wire[t]) + 1
    <3>1. 1 \in 1 .. Len(queue[t])
      BY <1>3
    <3>2. QED BY <1>1, <2>1, <3>1 DEF Stream
  <2> DEFINE a == Len(wire[t])
             b == Len(queue[t])
  <2>3. a \in Nat /\ b \in Nat \ {0} /\ Head(queue[t]) = a + 1 /\ accepted[t] = a + b
    BY <1>3, <2>2
  <2> HIDE DEF a, b
  <2>4. a < accepted[t]
    BY <2>3
  <2>5. QED BY <2>3, <2>4 DEF a
<1>5. /\ accepted'[t] = accepted[t] /\ open'[t] = open[t]
      /\ wire'[t] = Append(wire[t], Len(wire[t]) + 1)
  BY <1>4 DEF Transmit, IOInv, TypeOK
<1>6. /\ Len([n \in 1 .. accepted[t] |-> n]) = accepted[t]
      /\ [n \in 1 .. accepted[t] |-> n][Len(wire[t]) + 1] = Len(wire[t]) + 1
  BY <1>2, <1>3, <1>4, NumbersGrow DEF Numbers
<1>7. Out(t)!Deliver
  BY <1>1, <1>4, <1>5, <1>6 DEF Out!Deliver
<1>8. QED BY <1>7 DEF Out!Next

LEMMA OutSteps ==
  ASSUME IOInv, NEW s \in Sessions, NEW t \in Sessions,
         \/ ConnectionLost(s) \/ Completion(s)
         \/ OnRecvComplete(s) \/ PostRecv(s) \/ PostRecvFails(s)
         \/ \E u \in Sessions : SendPacket(s, u) \/ SendPacketFails(s, u)
  PROVE  OutStep(t)
<1> USE DEF IOInv, TypeOK, OutStep
<1>1. CASE ConnectionLost(s) \/ OnRecvComplete(s) \/ PostRecv(s)
  BY <1>1, ShownKept DEF ConnectionLost, OnRecvComplete, PostRecv, Shown
<1>2. CASE Transmit(s)
  <2>1. CASE t = s
    BY <1>2, <2>1, TransmitIsDeliver
  <2>2. CASE t # s
    BY <1>2, <2>2, ShownKept DEF Transmit, Shown
  <2>3. QED BY <2>1, <2>2
<1>3. CASE OnSendComplete(s) \/ DisconnectSession(s) \/ PostRecvFails(s)
  <2>1. UNCHANGED <<accepted, wire>> /\ (open'[t] = open[t] \/ ~open'[t])
    BY <1>3 DEF OnSendComplete, PostSend, PostSendFails, DisconnectSession, PostRecvFails
  <2>2. CASE open'[t] = open[t]
    BY <2>1, <2>2, ShownKept DEF Shown
  <2>3. CASE ~open'[t]
    BY <2>1, <2>3, Closed
  <2>4. QED BY <2>1, <2>2, <2>3
<1>4. ASSUME NEW u \in Sessions, SendPacket(s, u) \/ SendPacketFails(s, u)
      PROVE  OutStep(t)
  <2>1. /\ accepted[u] < MaxPackets /\ accepted' = [accepted EXCEPT ![u] = @ + 1]
        /\ wire' = wire
    BY <1>4 DEF SendPacket, SendPacketFails
  <2>2. open' = open \/ open' = [open EXCEPT ![u] = FALSE]
    BY <1>4 DEF SendPacket, SendPacketFails, Enqueue, PostSend, PostSendFails
  <2>3. CASE t = u
    <3>1. accepted'[t] = accepted[t] + 1 /\ (open'[t] = open[t] \/ ~open'[t])
      BY <2>1, <2>2, <2>3
    <3>2. QED BY <2>1, <2>3, <3>1, SendIsSend
  <2>4. CASE t # u
    BY <2>1, <2>2, <2>4, ShownKept DEF Shown
  <2>5. QED BY <2>3, <2>4
<1>5. QED BY <1>1, <1>2, <1>3, <1>4 DEF Completion

(* m_sendQueue, m_isSending and the completions implement a FIFO channel   *)
(* for every session, whichever workers send on it: WSASend gets the       *)
(* packets in the order of the SendPacket calls until Close.               *)
THEOREM ImplementsChannel == Spec => RefinesChannel
<1>1. Init => \A s \in Sessions : Out(s)!Init
  <2> SUFFICES ASSUME Init, NEW s \in Sessions PROVE Out(s)!Init
    OBVIOUS
  <2>1. open[s] = TRUE /\ accepted[s] = 0 /\ wire[s] = <<>>
    BY DEF Init
  <2>2. [n \in 1 .. accepted[s] |-> n] = <<>>
    BY <2>1
  <2>3. (~open[s]) = FALSE
    BY <2>1
  <2>4. QED BY ONLY <2>1, <2>2, <2>3 DEF Out!Init
<1>2. IOInv /\ [Next]_vars => \A s \in Sessions : OutStep(s)
  <2> SUFFICES ASSUME IOInv, [Next]_vars, NEW t \in Sessions PROVE OutStep(t)
    OBVIOUS
  <2>1. CASE UNCHANGED vars
    BY <2>1, ShownKept DEF vars, Shown, OutStep
  <2>2. CASE Next
    <3>1. PICK s \in Sessions :
             \/ ConnectionLost(s) \/ Completion(s)
             \/ OnRecvComplete(s) \/ PostRecv(s) \/ PostRecvFails(s)
             \/ \E u \in Sessions : SendPacket(s, u) \/ SendPacketFails(s, u)
      BY <2>2 DEF Next
    <3>2. QED BY ONLY <3>1, OutSteps, IOInv, t \in Sessions
  <2>3. QED BY <2>1, <2>2
<1>3. QED BY IOInvAlways, <1>1, <1>2, PTL DEF Spec, RefinesChannel

-----------------------------------------------------------------------------
(* What the clients show (module View), for any objects, any places and    *)
(* any view distance.                                                      *)

\* The object stands in no sector while its handler takes it from one place to another.
Nowhere == {"land", "remove", "revive"}

\* What one does that stands in a sector.
Acting == {"scanFull", "full", "scanOld", "scanNew", "look", "send"}

PresenceInv ==
    /\ \A p \in Players \ astray :
        /\ p \notin online => pc[p] = "idle" /\ p \notin indexed /\ shown[p] = {}
        /\ pc[p] \in Nowhere => p \notin indexed
        /\ pc[p] \in Acting => p \in indexed
    /\ \A m \in Monsters \ astray :
        /\ pc[m] # "idle" => m \in indexed
        /\ pc[m] \notin Nowhere \cup {"leaving"}
    /\ \A o \in Objects :
        pc[o] \notin {"look", "send"} => oldView[o] = {} /\ newView[o] = {}

\* The view of b that o had, and has.
HadInView(o, b) == b \in indexed /\ IsInView(pos[b], from[o])
HasInView(o, b) == b \in indexed /\ IsInView(pos[b], pos[o])

\* What the handler of o has made of the clients' view of o and b so far.
Told(o, b) ==
    CASE pc[o] \in {"scanFull", "remove", "revive"} -> FALSE
      [] pc[o] = "full" -> b \notin newNearby[o] /\ HasInView(o, b)
      [] pc[o] \in {"scanOld", "scanNew", "look"} -> HadInView(o, b)
      [] pc[o] = "send" -> IF b \in newView[o] \cup oldView[o] THEN HadInView(o, b)
                                                               ELSE HasInView(o, b)
      [] pc[o] \in {"dying", "leaving"} ->
            o \in indexed /\ b \in oldNearby[o] /\ HasInView(o, b)
      [] pc[o] = "land" -> HasInView(o, b)
      [] OTHER -> o \in indexed /\ HasInView(o, b)

\* The client of p shows x if seen, and else at most as a ghost.
Shows(p, x, seen) ==
    /\ seen => x \in shown[p]
    /\ x \in shown[p] => seen \/ x \in ghosts[p]

\* The handler of o ends with its client's view of the others.
KeepsView(o) == pc[o] \notin {"dying", "leaving", "remove", "revive"}

ShownInv(o, b) ==
    /\ b \in online => Shows(b, o, Told(o, b))
    /\ o \in online /\ KeepsView(o) => Shows(o, b, Told(o, b))

\* What o has found out about b.
ScanInv(o, b) ==
    /\ pc[o] = "full" /\ b \in newNearby[o] => b \in indexed
    /\ pc[o] = "scanNew" => (b \in oldNearby[o] <=> b \in indexed)
    /\ pc[o] = "look" =>
        /\ b \in oldNearby[o] => b \in indexed /\ b \notin oldView[o]
        /\ b \notin oldNearby[o] => (b \in oldView[o] <=> HadInView(o, b))
        /\ b \in newNearby[o] => b \in indexed /\ b \notin newView[o]
        /\ b \notin newNearby[o] => (b \in newView[o] <=> HasInView(o, b))
    /\ pc[o] = "send" =>
        /\ b \in newView[o] => HasInView(o, b) /\ ~HadInView(o, b)
        /\ b \in oldView[o] => HadInView(o, b) /\ ~HasInView(o, b)

PairInv(o, b) ==
    /\ pc[o] = "idle" \/ pc[b] = "idle"
    /\ pc[b] = "idle" => ShownInv(o, b) /\ ScanInv(o, b)

Pair(o, b) ==
    /\ o # b /\ (o \in Players \/ b \in Players)
    /\ {o, b} \notin raced /\ o \notin astray /\ b \notin astray

ViewInv ==
    /\ ViewTypeOK
    /\ PresenceInv
    /\ \A o, b \in Objects : Pair(o, b) => PairInv(o, b)

(* Every step keeps the types.                                             *)
LEMMA ViewTypeStep ==
    ASSUME ViewTypeOK, [ViewNext]_viewVars
    PROVE  ViewTypeOK'
<1>0. Players \subseteq Objects /\ Monsters \subseteq Objects
  BY DEF Objects
<1> USE ViewAssumption
<1> USE <1>0 DEF ViewTypeOK, placeVars, scanVars, diffVars,
        history
<1>1. ASSUME NEW o \in Players, AddPlayer(o) PROVE ViewTypeOK'
  BY <1>1 DEF AddPlayer, Goto, Start, Change
<1>2. ASSUME NEW o \in Players, ProcessTeleport(o) PROVE ViewTypeOK'
  BY <1>2 DEF ProcessTeleport, StrayIfOut, Goto, Start, Change
<1>3. ASSUME NEW o \in Players, Land(o) PROVE ViewTypeOK'
  BY <1>3 DEF Land, Goto, Change
<1>4. ASSUME NEW o \in Players, ProcessDisconnect(o) PROVE ViewTypeOK'
  BY <1>4 DEF ProcessDisconnect, Goto, Start, Change
<1>5. ASSUME NEW o \in Players, Revive(o) PROVE ViewTypeOK'
  BY <1>5 DEF Revive, Goto, Change
<1>6. ASSUME NEW o \in Players, RemovePlayer(o) PROVE ViewTypeOK'
  BY <1>6 DEF RemovePlayer, Goto, Change
<1>7. ASSUME NEW o \in Monsters, RespawnMonster(o) PROVE ViewTypeOK'
  BY <1>7 DEF RespawnMonster, Goto, Start, Change
<1>8. ASSUME NEW o \in Objects, NEW t \in Places, Move(o, t) PROVE ViewTypeOK'
  BY <1>8 DEF Move, StrayIfOut, Goto, Start, Change
<1>9. ASSUME NEW o \in Objects, ScanFull(o) PROVE ViewTypeOK'
  <2>1. Nearby(o) \in SUBSET Objects
    BY DEF Nearby
  <2> QED BY <2>1, <1>9 DEF ScanFull, Goto
<1>10. ASSUME NEW o \in Objects, FullViewSent(o) PROVE ViewTypeOK'
  BY <1>10 DEF FullViewSent, Goto
<1>11. ASSUME NEW o \in Objects, ScanOld(o) PROVE ViewTypeOK'
  <2>1. Nearby(o) \in SUBSET Objects
    BY DEF Nearby
  <2> QED BY <2>1, <1>11 DEF ScanOld, Goto
<1>12. ASSUME NEW o \in Objects, ScanNew(o) PROVE ViewTypeOK'
  <2>1. Nearby(o) \in SUBSET Objects
    BY DEF Nearby
  <2> QED BY <2>1, <1>12 DEF ScanNew, Goto
<1>13. ASSUME NEW o \in Objects, Diff(o) PROVE ViewTypeOK'
  BY <1>13 DEF Diff, Goto
<1>14. ASSUME NEW o \in Objects, DiffSent(o) PROVE ViewTypeOK'
  BY <1>14 DEF DiffSent, Goto
<1>15. ASSUME NEW o \in Objects, OnDied(o) PROVE ViewTypeOK'
  BY <1>15 DEF OnDied, Goto, Start, Change
<1>16. ASSUME NEW o \in Objects, RemoveObject(o) PROVE ViewTypeOK'
  BY <1>16 DEF RemoveObject, Change
<1>17. ASSUME NEW o \in Objects, NEW c \in Objects, SendFullView(o, c)
       PROVE  ViewTypeOK'
  BY <1>17 DEF SendFullView, Introduce
<1>18. ASSUME NEW o \in Objects, NEW c \in Objects, LookOld(o, c)
       PROVE  ViewTypeOK'
  BY <1>18 DEF LookOld
<1>19. ASSUME NEW o \in Objects, NEW c \in Objects, LookNew(o, c)
       PROVE  ViewTypeOK'
  BY <1>19 DEF LookNew
<1>20. ASSUME NEW o \in Objects, NEW c \in Objects, AddSeen(o, c)
       PROVE  ViewTypeOK'
  BY <1>20 DEF AddSeen, Introduce
<1>21. ASSUME NEW o \in Objects, NEW c \in Objects, RemoveUnseen(o, c)
       PROVE  ViewTypeOK'
  BY <1>21 DEF RemoveUnseen, Part
<1>22. ASSUME NEW o \in Objects, NEW c \in Objects, SendDisappear(o, c)
       PROVE  ViewTypeOK'
  BY <1>22 DEF SendDisappear
<1>23. CASE UNCHANGED viewVars
  BY <1>23 DEF viewVars
<1>24. ASSUME NEW o \in Players, LandFails(o) PROVE ViewTypeOK'
  BY <1>24 DEF LandFails, Goto, Change
<1>25. ASSUME NEW o \in Players, ReviveFails(o) PROVE ViewTypeOK'
  BY <1>25 DEF ReviveFails, Goto, Change
<1>26. ASSUME NEW o \in Objects, NEW t \in Places, Strays(o, t) PROVE ViewTypeOK'
  BY <1>26 DEF Strays, Overlap, Start
<1>27. ASSUME NEW o \in Objects, NEW c \in Objects, Tells(o, c)
       PROVE  ViewTypeOK'
  BY <1>27 DEF Tells, Overlap, Start, Introduce, Part
<1>28. ASSUME NEW o \in Players, Leaves(o) PROVE ViewTypeOK'
  BY <1>28 DEF Leaves, Overlap, Start
<1> QED BY <1>1, <1>2, <1>3, <1>4, <1>5, <1>6, <1>7, <1>8, <1>9, <1>10, <1>11, <1>12, <1>13,
           <1>14, <1>15, <1>16, <1>17, <1>18, <1>19, <1>20, <1>21, <1>22, <1>23,
           <1>24, <1>25, <1>26, <1>27, <1>28
           DEF ViewNext

(* Where each object is listed follows from where its handler stands.      *)
LEMMA PresenceStep ==
    ASSUME ViewTypeOK, PresenceInv, [ViewNext]_viewVars
    PROVE  PresenceInv'
<1>0. Players \subseteq Objects /\ Monsters \subseteq Objects
  BY DEF Objects
<1> USE ViewAssumption
<1> USE <1>0 DEF ViewTypeOK, PresenceInv, Nowhere, Acting, placeVars, scanVars,
        diffVars, history
<1>1. ASSUME NEW o \in Players, AddPlayer(o) PROVE PresenceInv'
  BY <1>1 DEF AddPlayer, Goto, Start, Change
<1>2. ASSUME NEW o \in Players, ProcessTeleport(o) PROVE PresenceInv'
  BY <1>2 DEF ProcessTeleport, StrayIfOut, Goto, Start, Change
<1>3. ASSUME NEW o \in Players, Land(o) PROVE PresenceInv'
  BY <1>3 DEF Land, Goto, Change
<1>4. ASSUME NEW o \in Players, ProcessDisconnect(o) PROVE PresenceInv'
  BY <1>4 DEF ProcessDisconnect, Goto, Start, Change
<1>5. ASSUME NEW o \in Players, Revive(o) PROVE PresenceInv'
  BY <1>5 DEF Revive, Goto, Change
<1>6. ASSUME NEW o \in Players, RemovePlayer(o) PROVE PresenceInv'
  BY <1>6 DEF RemovePlayer, Goto, Change
<1>7. ASSUME NEW o \in Monsters, RespawnMonster(o) PROVE PresenceInv'
  BY <1>7 DEF RespawnMonster, Goto, Start, Change
<1>8. ASSUME NEW o \in Objects, NEW t \in Places, Move(o, t) PROVE PresenceInv'
  BY <1>8 DEF Move, StrayIfOut, Goto, Start, Change
<1>9. ASSUME NEW o \in Objects, ScanFull(o) PROVE PresenceInv'
  BY <1>9 DEF ScanFull, Goto
<1>10. ASSUME NEW o \in Objects, FullViewSent(o) PROVE PresenceInv'
  BY <1>10 DEF FullViewSent, Goto
<1>11. ASSUME NEW o \in Objects, ScanOld(o) PROVE PresenceInv'
  BY <1>11 DEF ScanOld, Goto
<1>12. ASSUME NEW o \in Objects, ScanNew(o) PROVE PresenceInv'
  BY <1>12 DEF ScanNew, Goto
<1>13. ASSUME NEW o \in Objects, Diff(o) PROVE PresenceInv'
  BY <1>13 DEF Diff, Goto
<1>14. ASSUME NEW o \in Objects, DiffSent(o) PROVE PresenceInv'
  BY <1>14 DEF DiffSent, Goto
<1>15. ASSUME NEW o \in Objects, OnDied(o) PROVE PresenceInv'
  BY <1>15 DEF OnDied, Goto, Start, Change
<1>16. ASSUME NEW o \in Objects, RemoveObject(o) PROVE PresenceInv'
  BY <1>16 DEF RemoveObject, Change
<1>17. ASSUME NEW o \in Objects, NEW c \in Objects, SendFullView(o, c)
       PROVE  PresenceInv'
  BY <1>17 DEF SendFullView, Introduce
<1>18. ASSUME NEW o \in Objects, NEW c \in Objects, LookOld(o, c)
       PROVE  PresenceInv'
  BY <1>18 DEF LookOld
<1>19. ASSUME NEW o \in Objects, NEW c \in Objects, LookNew(o, c)
       PROVE  PresenceInv'
  BY <1>19 DEF LookNew
<1>20. ASSUME NEW o \in Objects, NEW c \in Objects, AddSeen(o, c)
       PROVE  PresenceInv'
  BY <1>20 DEF AddSeen, Introduce
<1>21. ASSUME NEW o \in Objects, NEW c \in Objects, RemoveUnseen(o, c)
       PROVE  PresenceInv'
  BY <1>21 DEF RemoveUnseen, Part
<1>22. ASSUME NEW o \in Objects, NEW c \in Objects, SendDisappear(o, c)
       PROVE  PresenceInv'
  BY <1>22 DEF SendDisappear
<1>23. CASE UNCHANGED viewVars
  BY <1>23 DEF viewVars
<1>24. ASSUME NEW o \in Players, LandFails(o) PROVE PresenceInv'
  BY <1>24 DEF LandFails, Goto, Change
<1>25. ASSUME NEW o \in Players, ReviveFails(o) PROVE PresenceInv'
  BY <1>25 DEF ReviveFails, Goto, Change
<1>26. ASSUME NEW o \in Objects, NEW t \in Places, Strays(o, t) PROVE PresenceInv'
  BY <1>26 DEF Strays, Overlap, Start
<1>27. ASSUME NEW o \in Objects, NEW c \in Objects, Tells(o, c)
       PROVE  PresenceInv'
  BY <1>27 DEF Tells, Overlap, Start, Introduce, Part
<1>28. ASSUME NEW o \in Players, Leaves(o) PROVE PresenceInv'
  BY <1>28 DEF Leaves, Overlap, Start
<1> QED BY <1>1, <1>2, <1>3, <1>4, <1>5, <1>6, <1>7, <1>8, <1>9, <1>10, <1>11, <1>12, <1>13,
           <1>14, <1>15, <1>16, <1>17, <1>18, <1>19, <1>20, <1>21, <1>22, <1>23,
           <1>24, <1>25, <1>26, <1>27, <1>28
           DEF ViewNext

(* One sees the other as far as it is seen.                                *)
LEMMA ViewSymmetric ==
    ASSUME NEW s \in Places, NEW t \in Places
    PROVE  IsInView(s, t) = IsInView(t, s)
<1>1. s \in Int /\ t \in Int /\ HalfView \in Nat
  BY ViewAssumption
<1> QED BY <1>1 DEF IsInView

Acts(o) ==
    \/ o \in Players /\ (AddPlayer(o) \/ ProcessTeleport(o) \/ Land(o) \/ LandFails(o)
                        \/ ProcessDisconnect(o) \/ Revive(o) \/ ReviveFails(o)
                        \/ RemovePlayer(o) \/ Leaves(o))
    \/ o \in Monsters /\ RespawnMonster(o)
    \/ \E t \in Places : Move(o, t) \/ Strays(o, t)
    \/ ScanFull(o) \/ FullViewSent(o)
    \/ ScanOld(o) \/ ScanNew(o) \/ Diff(o) \/ DiffSent(o)
    \/ OnDied(o) \/ RemoveObject(o)
    \/ \E c \in Objects :
          \/ SendFullView(o, c) \/ LookOld(o, c) \/ LookNew(o, c)
          \/ AddSeen(o, c) \/ RemoveUnseen(o, c) \/ SendDisappear(o, c)
          \/ Tells(o, c)

Same(x, y) ==
    /\ pc'[x] = pc[x] /\ pc'[y] = pc[y] /\ pos'[x] = pos[x] /\ pos'[y] = pos[y]
    /\ (x \in indexed' <=> x \in indexed) /\ (y \in indexed' <=> y \in indexed)
    /\ (x \in online' <=> x \in online) /\ (y \in online' <=> y \in online)
    /\ from'[x] = from[x] /\ oldNearby'[x] = oldNearby[x] /\ newNearby'[x] = newNearby[x]
    /\ oldView'[x] = oldView[x] /\ newView'[x] = newView[x]
    /\ x \in Players => (y \in shown'[x] <=> y \in shown[x]) /\ ghosts'[x] = ghosts[x]
    /\ y \in Players => (x \in shown'[y] <=> x \in shown[y]) /\ ghosts'[y] = ghosts[y]

(* A step of one object's handler leaves two others to themselves.         *)
LEMMA Bystanders ==
    ASSUME ViewTypeOK, NEW o \in Objects, Acts(o), NEW x \in Objects \ {o},
           NEW y \in Objects \ {o}
    PROVE  Same(x, y)
<1>0. Players \subseteq Objects /\ Monsters \subseteq Objects
  BY DEF Objects
<1> USE <1>0 DEF ViewTypeOK, Same, placeVars, scanVars, diffVars,
        history
<1>1. ASSUME o \in Players, AddPlayer(o) PROVE Same(x, y)
  BY <1>1 DEF AddPlayer, Goto, Start, Change
<1>2. ASSUME o \in Players, ProcessTeleport(o) PROVE Same(x, y)
  BY <1>2 DEF ProcessTeleport, StrayIfOut, Goto, Start, Change
<1>3. ASSUME o \in Players, Land(o) PROVE Same(x, y)
  BY <1>3 DEF Land, Goto, Change
<1>4. ASSUME o \in Players, ProcessDisconnect(o) PROVE Same(x, y)
  BY <1>4 DEF ProcessDisconnect, Goto, Start, Change
<1>5. ASSUME o \in Players, Revive(o) PROVE Same(x, y)
  BY <1>5 DEF Revive, Goto, Change
<1>6. ASSUME o \in Players, RemovePlayer(o) PROVE Same(x, y)
  BY <1>6 DEF RemovePlayer, Goto, Change
<1>7. ASSUME o \in Monsters, RespawnMonster(o) PROVE Same(x, y)
  BY <1>7 DEF RespawnMonster, Goto, Start, Change
<1>8. ASSUME NEW t \in Places, Move(o, t) PROVE Same(x, y)
  BY <1>8 DEF Move, StrayIfOut, Goto, Start, Change
<1>9. ASSUME ScanFull(o) PROVE Same(x, y)
  BY <1>9 DEF ScanFull, Goto
<1>10. ASSUME FullViewSent(o) PROVE Same(x, y)
  BY <1>10 DEF FullViewSent, Goto
<1>11. ASSUME ScanOld(o) PROVE Same(x, y)
  BY <1>11 DEF ScanOld, Goto
<1>12. ASSUME ScanNew(o) PROVE Same(x, y)
  BY <1>12 DEF ScanNew, Goto
<1>13. ASSUME Diff(o) PROVE Same(x, y)
  BY <1>13 DEF Diff, Goto
<1>14. ASSUME DiffSent(o) PROVE Same(x, y)
  BY <1>14 DEF DiffSent, Goto
<1>15. ASSUME OnDied(o) PROVE Same(x, y)
  BY <1>15 DEF OnDied, Goto, Start, Change
<1>16. ASSUME RemoveObject(o) PROVE Same(x, y)
  BY <1>16 DEF RemoveObject, Change
<1>17. ASSUME NEW c \in Objects, SendFullView(o, c) PROVE Same(x, y)
  BY <1>17 DEF SendFullView, Introduce
<1>18. ASSUME NEW c \in Objects, LookOld(o, c) PROVE Same(x, y)
  BY <1>18 DEF LookOld
<1>19. ASSUME NEW c \in Objects, LookNew(o, c) PROVE Same(x, y)
  BY <1>19 DEF LookNew
<1>20. ASSUME NEW c \in Objects, AddSeen(o, c) PROVE Same(x, y)
  BY <1>20 DEF AddSeen, Introduce
<1>21. ASSUME NEW c \in Objects, RemoveUnseen(o, c) PROVE Same(x, y)
  BY <1>21 DEF RemoveUnseen, Part
<1>22. ASSUME NEW c \in Objects, SendDisappear(o, c) PROVE Same(x, y)
  BY <1>22 DEF SendDisappear
<1>24. ASSUME o \in Players, LandFails(o)
       PROVE  Same(x, y)
  BY <1>24 DEF LandFails, Goto, Change
<1>25. ASSUME o \in Players, ReviveFails(o)
       PROVE  Same(x, y)
  BY <1>25 DEF ReviveFails, Goto, Change
<1>26. ASSUME NEW t \in Places, Strays(o, t)
       PROVE  Same(x, y)
  BY <1>26 DEF Strays, Overlap, Start
<1>27. ASSUME NEW c \in Objects, Tells(o, c)
       PROVE  Same(x, y)
  BY <1>27 DEF Tells, Overlap, Start, Introduce, Part
<1>28. ASSUME o \in Players, Leaves(o)
       PROVE  Same(x, y)
  BY <1>28 DEF Leaves, Overlap, Start
<1> QED BY <1>1, <1>2, <1>3, <1>4, <1>5, <1>6, <1>7, <1>8, <1>9, <1>10, <1>11, <1>12, <1>13,
           <1>14, <1>15, <1>16, <1>17, <1>18, <1>19, <1>20, <1>21, <1>22,
           <1>24, <1>25, <1>26, <1>27, <1>28 DEF Acts

(* What PairInv says of two objects depends on those two only.             *)
LEMMA SamePair ==
    ASSUME NEW x \in Objects, NEW y \in Objects, ViewTypeOK, PairInv(x, y),
           Same(x, y)
    PROVE  PairInv(x, y)'
<1>1. /\ HadInView(x, y)' = HadInView(x, y)
      /\ HasInView(x, y)' = HasInView(x, y)
      /\ Sees(x, y)' = Sees(x, y)
  BY DEF Same, HadInView, HasInView, Sees, IsInView
<1>2. Told(x, y)' = Told(x, y)
  BY <1>1 DEF Same, Told
<1>3. y \in online => y \in Players
  BY DEF ViewTypeOK
<1>4. x \in online => x \in Players
  BY DEF ViewTypeOK
<1> QED BY <1>1, <1>2, <1>3, <1>4 DEF Same, PairInv, ShownInv, ScanInv, Shows, KeepsView

(* Two that are not in each other's way now were not before.               *)
LEMMA Unraced ==
    ASSUME ViewTypeOK, NEW o \in Objects, NEW b \in Objects, b # o,
           Change(o), {o, b} \notin raced'
    PROVE  pc[b] = "idle" /\ {o, b} \notin raced
  BY DEF Change

(* Of two objects that are not in each other's way one handler runs at a   *)
(* time.                                                                   *)
LEMMA ActsAlone ==
    ASSUME ViewTypeOK, NEW o \in Objects, Acts(o), NEW b \in Objects, b # o,
           {o, b} \notin raced', o \notin astray', {o, b} \notin raced => (pc[o] = "idle" \/ pc[b] = "idle")
    PROVE  pc[b] = "idle" /\ {o, b} \notin raced /\ pc'[b] = pc[b]
<1>0. Players \subseteq Objects /\ Monsters \subseteq Objects
  BY DEF Objects
<1> USE <1>0 DEF ViewTypeOK, placeVars, scanVars, diffVars,
        history
<1>1. ASSUME o \in Players, AddPlayer(o)
      PROVE  pc[b] = "idle" /\ {o, b} \notin raced /\ pc'[b] = pc[b]
  BY Unraced, <1>1 DEF AddPlayer, Goto, Start, Change
<1>2. ASSUME o \in Players, ProcessTeleport(o)
      PROVE  pc[b] = "idle" /\ {o, b} \notin raced /\ pc'[b] = pc[b]
  BY Unraced, <1>2 DEF ProcessTeleport, StrayIfOut, Goto, Start, Change
<1>3. ASSUME o \in Players, Land(o)
      PROVE  pc[b] = "idle" /\ {o, b} \notin raced /\ pc'[b] = pc[b]
  BY Unraced, <1>3 DEF Land, Goto, Change
<1>4. ASSUME o \in Players, ProcessDisconnect(o)
      PROVE  pc[b] = "idle" /\ {o, b} \notin raced /\ pc'[b] = pc[b]
  BY Unraced, <1>4 DEF ProcessDisconnect, Goto, Start, Change
<1>5. ASSUME o \in Players, Revive(o)
      PROVE  pc[b] = "idle" /\ {o, b} \notin raced /\ pc'[b] = pc[b]
  BY Unraced, <1>5 DEF Revive, Goto, Change
<1>6. ASSUME o \in Players, RemovePlayer(o)
      PROVE  pc[b] = "idle" /\ {o, b} \notin raced /\ pc'[b] = pc[b]
  BY Unraced, <1>6 DEF RemovePlayer, Goto, Change
<1>7. ASSUME o \in Monsters, RespawnMonster(o)
      PROVE  pc[b] = "idle" /\ {o, b} \notin raced /\ pc'[b] = pc[b]
  BY Unraced, <1>7 DEF RespawnMonster, Goto, Start, Change
<1>8. ASSUME NEW t \in Places, Move(o, t)
      PROVE  pc[b] = "idle" /\ {o, b} \notin raced /\ pc'[b] = pc[b]
  BY Unraced, <1>8 DEF Move, StrayIfOut, Goto, Start, Change
<1>9. ASSUME ScanFull(o) PROVE pc[b] = "idle" /\ {o, b} \notin raced /\ pc'[b] = pc[b]
  BY Unraced, <1>9 DEF ScanFull, Goto
<1>10. ASSUME FullViewSent(o)
       PROVE  pc[b] = "idle" /\ {o, b} \notin raced /\ pc'[b] = pc[b]
  BY Unraced, <1>10 DEF FullViewSent, Goto
<1>11. ASSUME ScanOld(o) PROVE pc[b] = "idle" /\ {o, b} \notin raced /\ pc'[b] = pc[b]
  BY Unraced, <1>11 DEF ScanOld, Goto
<1>12. ASSUME ScanNew(o) PROVE pc[b] = "idle" /\ {o, b} \notin raced /\ pc'[b] = pc[b]
  BY Unraced, <1>12 DEF ScanNew, Goto
<1>13. ASSUME Diff(o) PROVE pc[b] = "idle" /\ {o, b} \notin raced /\ pc'[b] = pc[b]
  BY Unraced, <1>13 DEF Diff, Goto
<1>14. ASSUME DiffSent(o)
       PROVE  pc[b] = "idle" /\ {o, b} \notin raced /\ pc'[b] = pc[b]
  BY Unraced, <1>14 DEF DiffSent, Goto
<1>15. ASSUME OnDied(o) PROVE pc[b] = "idle" /\ {o, b} \notin raced /\ pc'[b] = pc[b]
  BY Unraced, <1>15 DEF OnDied, Goto, Start, Change
<1>16. ASSUME RemoveObject(o)
       PROVE  pc[b] = "idle" /\ {o, b} \notin raced /\ pc'[b] = pc[b]
  BY Unraced, <1>16 DEF RemoveObject, Change
<1>17. ASSUME NEW c \in Objects, SendFullView(o, c)
       PROVE  pc[b] = "idle" /\ {o, b} \notin raced /\ pc'[b] = pc[b]
  BY Unraced, <1>17 DEF SendFullView, Introduce
<1>18. ASSUME NEW c \in Objects, LookOld(o, c)
       PROVE  pc[b] = "idle" /\ {o, b} \notin raced /\ pc'[b] = pc[b]
  BY Unraced, <1>18 DEF LookOld
<1>19. ASSUME NEW c \in Objects, LookNew(o, c)
       PROVE  pc[b] = "idle" /\ {o, b} \notin raced /\ pc'[b] = pc[b]
  BY Unraced, <1>19 DEF LookNew
<1>20. ASSUME NEW c \in Objects, AddSeen(o, c)
       PROVE  pc[b] = "idle" /\ {o, b} \notin raced /\ pc'[b] = pc[b]
  BY Unraced, <1>20 DEF AddSeen, Introduce
<1>21. ASSUME NEW c \in Objects, RemoveUnseen(o, c)
       PROVE  pc[b] = "idle" /\ {o, b} \notin raced /\ pc'[b] = pc[b]
  BY Unraced, <1>21 DEF RemoveUnseen, Part
<1>22. ASSUME NEW c \in Objects, SendDisappear(o, c)
       PROVE  pc[b] = "idle" /\ {o, b} \notin raced /\ pc'[b] = pc[b]
  BY Unraced, <1>22 DEF SendDisappear
<1>24. ASSUME o \in Players, LandFails(o)
       PROVE  pc[b] = "idle" /\ {o, b} \notin raced /\ pc'[b] = pc[b]
  BY Unraced, <1>24 DEF LandFails, Goto, Change
<1>25. ASSUME o \in Players, ReviveFails(o)
       PROVE  pc[b] = "idle" /\ {o, b} \notin raced /\ pc'[b] = pc[b]
  BY Unraced, <1>25 DEF ReviveFails, Goto, Change
<1>26. ASSUME NEW t \in Places, Strays(o, t)
       PROVE  pc[b] = "idle" /\ {o, b} \notin raced /\ pc'[b] = pc[b]
  BY Unraced, <1>26 DEF Strays, Overlap, Start
<1>27. ASSUME NEW c \in Objects, Tells(o, c)
       PROVE  pc[b] = "idle" /\ {o, b} \notin raced /\ pc'[b] = pc[b]
  BY Unraced, <1>27 DEF Tells, Overlap, Start, Introduce, Part
<1>28. ASSUME o \in Players, Leaves(o)
       PROVE  pc[b] = "idle" /\ {o, b} \notin raced /\ pc'[b] = pc[b]
  BY Unraced, <1>28 DEF Leaves, Overlap, Start
<1> QED BY <1>1, <1>2, <1>3, <1>4, <1>5, <1>6, <1>7, <1>8, <1>9, <1>10, <1>11, <1>12, <1>13,
           <1>14, <1>15, <1>16, <1>17, <1>18, <1>19, <1>20, <1>21, <1>22,
           <1>24, <1>25, <1>26, <1>27, <1>28 DEF Acts

(* A step of o's handler keeps what is said of o and an idle b.            *)
LEMMA OwnStep ==
    ASSUME ViewTypeOK, ViewTypeOK', PresenceInv,
           NEW o \in Objects, Acts(o), NEW b \in Objects, b # o,
           o \in Players \/ b \in Players, o \notin astray, b \notin astray, o \notin astray',
           pc[b] = "idle", pc'[b] = "idle", ShownInv(o, b), ScanInv(o, b)
    PROVE  ShownInv(o, b)' /\ ScanInv(o, b)'
<1>0. Players \subseteq Objects /\ Monsters \subseteq Objects
  BY DEF Objects
<1>s. /\ IsInView(pos[o], pos[b]) = IsInView(pos[b], pos[o])
      /\ IsInView(pos'[o], pos'[b]) = IsInView(pos'[b], pos'[o])
  BY ViewSymmetric DEF ViewTypeOK
<1>k. /\ b \in indexed => Known(b)
      /\ pc[o] \in {"full", "send"} => o \in indexed
  BY DEF PresenceInv, Nowhere, Acting, Objects, Known
<1> USE <1>s, <1>k
<1> USE <1>0 DEF ViewTypeOK, PresenceInv, Nowhere, Acting, ShownInv, ScanInv, Shows, Told,
        KeepsView, HadInView, HasInView, Sees, Known, Nearby,
        placeVars, scanVars, diffVars, history
<1>1. ASSUME o \in Players, AddPlayer(o) PROVE ShownInv(o, b)' /\ ScanInv(o, b)'
  BY <1>1 DEF AddPlayer, Goto, Start, Change
<1>2. ASSUME o \in Players, ProcessTeleport(o) PROVE ShownInv(o, b)' /\ ScanInv(o, b)'
  BY <1>2 DEF ProcessTeleport, StrayIfOut, Goto, Start, Change
<1>3. ASSUME o \in Players, Land(o) PROVE ShownInv(o, b)' /\ ScanInv(o, b)'
  BY <1>3 DEF Land, Goto, Change
<1>4. ASSUME o \in Players, ProcessDisconnect(o)
      PROVE  ShownInv(o, b)' /\ ScanInv(o, b)'
  BY <1>4 DEF ProcessDisconnect, Goto, Start, Change
<1>5. ASSUME o \in Players, Revive(o) PROVE ShownInv(o, b)' /\ ScanInv(o, b)'
  BY <1>5 DEF Revive, Goto, Change
<1>6. ASSUME o \in Players, RemovePlayer(o) PROVE ShownInv(o, b)' /\ ScanInv(o, b)'
  BY <1>6 DEF RemovePlayer, Goto, Change
<1>7. ASSUME o \in Monsters, RespawnMonster(o) PROVE ShownInv(o, b)' /\ ScanInv(o, b)'
  BY <1>7 DEF RespawnMonster, Goto, Start, Change
<1>8. ASSUME NEW t \in Places, Move(o, t) PROVE ShownInv(o, b)' /\ ScanInv(o, b)'
  BY <1>8 DEF Move, StrayIfOut, Goto, Start, Change
<1>9. ASSUME ScanFull(o) PROVE ShownInv(o, b)' /\ ScanInv(o, b)'
  BY <1>9 DEF ScanFull, Goto
<1>10. ASSUME FullViewSent(o) PROVE ShownInv(o, b)' /\ ScanInv(o, b)'
  <2>1. /\ pc[o] = "full" /\ pc'[o] = "idle" /\ newNearby[o] = {}
        /\ UNCHANGED <<indexed, online, pos, shown, ghosts>>
    BY <1>10 DEF FullViewSent, Goto
  <2>2. o \in indexed
    BY <2>1
  <2> QED BY <2>1, <2>2
<1>11. ASSUME ScanOld(o) PROVE ShownInv(o, b)' /\ ScanInv(o, b)'
  BY <1>11 DEF ScanOld, Goto
<1>12. ASSUME ScanNew(o) PROVE ShownInv(o, b)' /\ ScanInv(o, b)'
  BY <1>12 DEF ScanNew, Goto
<1>13. ASSUME Diff(o) PROVE ShownInv(o, b)' /\ ScanInv(o, b)'
  BY <1>13 DEF Diff, Goto
<1>14. ASSUME DiffSent(o) PROVE ShownInv(o, b)' /\ ScanInv(o, b)'
  <2>1. /\ pc[o] = "send" /\ pc'[o] = "idle" /\ newView[o] = {} /\ oldView[o] = {}
        /\ UNCHANGED <<indexed, online, pos, shown, ghosts>>
    BY <1>14 DEF DiffSent, Goto
  <2>2. o \in indexed
    BY <2>1
  <2> QED BY <2>1, <2>2
<1>15. ASSUME OnDied(o) PROVE ShownInv(o, b)' /\ ScanInv(o, b)'
  BY <1>15 DEF OnDied, Goto, Start, Change
<1>16. ASSUME RemoveObject(o) PROVE ShownInv(o, b)' /\ ScanInv(o, b)'
  <2>1. /\ pc[o] \in {"dying", "leaving"} /\ oldNearby[o] = {} /\ o \notin indexed'
        /\ pc'[o] \in {"remove", "revive", "idle"} /\ (pc'[o] = "idle" => o \in Monsters)
        /\ (b \in indexed' <=> b \in indexed)
        /\ UNCHANGED <<online, pos, shown, ghosts>>
    BY <1>16 DEF RemoveObject
  <2>2. o \in Monsters => o \notin online
    BY ViewAssumption
  <2> QED BY <2>1, <2>2
<1>17. ASSUME NEW c \in Objects, SendFullView(o, c)
       PROVE  ShownInv(o, b)' /\ ScanInv(o, b)'
  <2>1. /\ pc[o] = "full" /\ c \in newNearby[o]
        /\ newNearby' = [newNearby EXCEPT ![o] = @ \ {c}]
        /\ UNCHANGED <<indexed, online, pos, pc, from, oldNearby, oldView, newView, ghosts>>
    BY <1>17 DEF SendFullView
  <2>2. CASE c # b
    <3>1. /\ b \in Players => (o \in shown'[b] <=> o \in shown[b])
          /\ o \in Players => (b \in shown'[o] <=> b \in shown[o])
      BY <1>17, <2>2 DEF SendFullView, Introduce
    <3>2. b \in newNearby'[o] <=> b \in newNearby[o]
      BY <2>1, <2>2
    <3> QED BY <2>1, <3>1, <3>2
  <2>3. CASE c = b
    <3>1. b \in indexed /\ Known(b) /\ b \notin newNearby'[o]
      BY <2>1, <2>3
    <3>2. CASE HasInView(o, b)
      <4>1. /\ b \in online => o \in shown'[b]
            /\ o \in online => b \in shown'[o]
        BY <1>17, <2>3, <3>1, <3>2 DEF SendFullView, Introduce
      <4> QED BY <2>1, <3>1, <3>2, <4>1
    <3>3. CASE ~HasInView(o, b)
      <4>1. UNCHANGED shown
        BY <1>17, <2>3, <3>1, <3>3 DEF SendFullView
      <4> QED BY <2>1, <3>1, <3>3, <4>1
    <3> QED BY <3>2, <3>3
  <2> QED BY <2>2, <2>3
<1>18. ASSUME NEW c \in Objects, LookOld(o, c)
       PROVE  ShownInv(o, b)' /\ ScanInv(o, b)'
  <2>1. /\ pc[o] = "look" /\ c \in oldNearby[o]
        /\ oldNearby' = [oldNearby EXCEPT ![o] = @ \ {c}]
        /\ UNCHANGED <<indexed, online, pos, pc, from, newNearby, newView, shown, ghosts>>
    BY <1>18 DEF LookOld
  <2>2. CASE c # b
    <3>1. /\ b \in oldNearby'[o] <=> b \in oldNearby[o]
          /\ b \in oldView'[o] <=> b \in oldView[o]
      BY <1>18, <2>2 DEF LookOld
    <3> QED BY <2>1, <3>1
  <2>3. CASE c = b
    <3>1. b \in indexed /\ b \notin oldView[o] /\ Known(b) /\ b \notin oldNearby'[o]
      BY <2>1, <2>3
    <3>2. b \in oldView'[o] <=> HadInView(o, b)
      BY <1>18, <2>3, <3>1 DEF LookOld
    <3> QED BY <2>1, <3>1, <3>2
  <2> QED BY <2>2, <2>3
<1>19. ASSUME NEW c \in Objects, LookNew(o, c)
       PROVE  ShownInv(o, b)' /\ ScanInv(o, b)'
  <2>1. /\ pc[o] = "look" /\ c \in newNearby[o]
        /\ newNearby' = [newNearby EXCEPT ![o] = @ \ {c}]
        /\ UNCHANGED <<indexed, online, pos, pc, from, oldNearby, oldView, shown, ghosts>>
    BY <1>19 DEF LookNew
  <2>2. CASE c # b
    <3>1. /\ b \in newNearby'[o] <=> b \in newNearby[o]
          /\ b \in newView'[o] <=> b \in newView[o]
      BY <1>19, <2>2 DEF LookNew
    <3> QED BY <2>1, <3>1
  <2>3. CASE c = b
    <3>1. b \in indexed /\ b \notin newView[o] /\ Known(b) /\ b \notin newNearby'[o]
      BY <2>1, <2>3
    <3>2. b \in newView'[o] <=> HasInView(o, b)
      BY <1>19, <2>3, <3>1 DEF LookNew
    <3> QED BY <2>1, <3>1, <3>2
  <2> QED BY <2>2, <2>3
<1>20. ASSUME NEW c \in Objects, AddSeen(o, c)
       PROVE  ShownInv(o, b)' /\ ScanInv(o, b)'
  <2>1. /\ pc[o] = "send" /\ c \in newView[o]
        /\ newView' = [newView EXCEPT ![o] = @ \ {c}]
        /\ UNCHANGED <<indexed, online, pos, pc, from, oldNearby, newNearby, oldView, ghosts>>
    BY <1>20 DEF AddSeen
  <2>2. CASE c # b
    <3>1. /\ b \in Players => (o \in shown'[b] <=> o \in shown[b])
          /\ o \in Players => (b \in shown'[o] <=> b \in shown[o])
      BY <1>20, <2>2 DEF AddSeen, Introduce
    <3>2. b \in newView'[o] <=> b \in newView[o]
      BY <2>1, <2>2
    <3> QED BY <2>1, <3>1, <3>2
  <2>3. CASE c = b
    <3>1. HasInView(o, b) /\ ~HadInView(o, b) /\ Known(b)
      BY <2>1, <2>3
    <3>2. b \notin newView'[o] /\ b \notin oldView'[o]
      BY <2>1, <2>3, <3>1
    <3>3. /\ b \in online => o \in shown'[b]
          /\ o \in online => b \in shown'[o]
      BY <1>20, <2>3, <3>1 DEF AddSeen, Introduce
    <3> QED BY <2>1, <3>1, <3>2, <3>3
  <2> QED BY <2>2, <2>3
<1>21. ASSUME NEW c \in Objects, RemoveUnseen(o, c)
       PROVE  ShownInv(o, b)' /\ ScanInv(o, b)'
  BY <1>21 DEF RemoveUnseen, Part
<1>22. ASSUME NEW c \in Objects, SendDisappear(o, c)
       PROVE  ShownInv(o, b)' /\ ScanInv(o, b)'
  BY <1>22 DEF SendDisappear
<1>24. ASSUME o \in Players, LandFails(o)
       PROVE  ShownInv(o, b)' /\ ScanInv(o, b)'
  BY <1>24 DEF LandFails, Goto, Change
<1>25. ASSUME o \in Players, ReviveFails(o)
       PROVE  ShownInv(o, b)' /\ ScanInv(o, b)'
  BY <1>25 DEF ReviveFails, Goto, Change
<1>26. ASSUME NEW t \in Places, Strays(o, t)
       PROVE  ShownInv(o, b)' /\ ScanInv(o, b)'
  BY <1>26 DEF Strays, Overlap, Start
<1>27. ASSUME NEW c \in Objects, Tells(o, c)
       PROVE  ShownInv(o, b)' /\ ScanInv(o, b)'
  BY <1>27 DEF Tells, Overlap, Start, Introduce, Part
<1>28. ASSUME o \in Players, Leaves(o)
       PROVE  ShownInv(o, b)' /\ ScanInv(o, b)'
  BY <1>28 DEF Leaves, Overlap, Start
<1> QED BY <1>1, <1>2, <1>3, <1>4, <1>5, <1>6, <1>7, <1>8, <1>9, <1>10, <1>11, <1>12, <1>13,
           <1>14, <1>15, <1>16, <1>17, <1>18, <1>19, <1>20, <1>21, <1>22,
           <1>24, <1>25, <1>26, <1>27, <1>28 DEF Acts

(* PairInv of two idle objects is the same from either side.               *)
LEMMA Turn ==
    ASSUME ViewTypeOK', NEW o \in Objects,
           NEW b \in Objects,
           pc'[o] = "idle", pc'[b] = "idle", ShownInv(o, b)'
    PROVE  PairInv(b, o)'
<1>1. IsInView(pos'[o], pos'[b]) = IsInView(pos'[b], pos'[o])
  BY ViewSymmetric DEF ViewTypeOK
<1>2. Told(o, b)' <=> ({o, b} \subseteq indexed' /\ IsInView(pos'[b], pos'[o]))
  BY DEF Told, HasInView
<1>3. Told(b, o)' <=> ({o, b} \subseteq indexed' /\ IsInView(pos'[o], pos'[b]))
  BY DEF Told, HasInView
<1> QED BY <1>1, <1>2, <1>3 DEF PairInv, ShownInv, ScanInv, Shows, KeepsView

(* A pair that got in each other's way stays in raced, and one that was    *)
(* astray stays astray.                                                        *)
LEMMA RacedGrows ==
    ASSUME NEW o \in Objects, Acts(o) PROVE raced \subseteq raced' /\ astray \subseteq astray'
  BY DEF Acts, history, Change, StrayIfOut, Overlap, AddPlayer, ProcessTeleport,
         Land, LandFails, ProcessDisconnect, Revive, ReviveFails, RemovePlayer,
         RespawnMonster, Move, ScanFull, FullViewSent,
         ScanOld, ScanNew, Diff, DiffSent, OnDied,
         RemoveObject, SendFullView, LookOld, LookNew,
         AddSeen, RemoveUnseen, SendDisappear, Strays, Tells, Leaves

(* A step of either handler keeps what is said of the two.                 *)
LEMMA PairStep ==
    ASSUME ViewTypeOK, ViewTypeOK', PresenceInv,
           [ViewNext]_viewVars,
           \A o, b \in Objects : Pair(o, b) => PairInv(o, b)
    PROVE  \A o, b \in Objects : Pair(o, b)' => PairInv(o, b)'
<1> SUFFICES ASSUME NEW x \in Objects, NEW y \in Objects, Pair(x, y)'
             PROVE  PairInv(x, y)'
  OBVIOUS
<1>1. CASE UNCHANGED viewVars
  <2>1. PairInv(x, y) /\ Same(x, y)
    BY <1>1 DEF viewVars, placeVars, scanVars, diffVars, history,
       Pair, Same
  <2> QED BY <2>1, SamePair
<1>2. ASSUME NEW o \in Objects, Acts(o) PROVE PairInv(x, y)'
  <2>1. /\ x # y /\ (x \in Players \/ y \in Players) /\ {x, y} \notin raced'
        /\ x \notin astray' /\ y \notin astray'
    BY DEF Pair
  <2>2. {x, y} \notin raced /\ Pair(x, y) /\ Pair(y, x) /\ {y, x} = {x, y}
    <3>1. {x, y} \notin raced /\ {y, x} = {x, y} /\ x \notin astray /\ y \notin astray
      BY <1>2, <2>1, RacedGrows
    <3> QED BY <2>1, <3>1 DEF Pair
  <2>3. CASE o # x /\ o # y
    <3>1. Same(x, y)
      BY <1>2, <2>3, Bystanders
    <3> QED BY <2>2, <3>1, SamePair
  <2>4. ASSUME NEW b \in Objects, b # o, {o, b} = {x, y}
        PROVE  /\ pc'[b] = "idle" /\ ShownInv(o, b)' /\ ScanInv(o, b)'
               /\ pc'[o] # "idle" \/ PairInv(b, o)'
    <3>1. Pair(o, b) /\ {o, b} \notin raced' /\ o \notin astray'
      BY <2>1, <2>2, <2>4 DEF Pair
    <3>2. PairInv(o, b)
      BY <3>1
    <3>3. pc[b] = "idle" /\ pc'[b] = pc[b]
      BY <1>2, <2>4, <3>1, <3>2, ActsAlone DEF PairInv
    <3>4. ShownInv(o, b)' /\ ScanInv(o, b)'
      BY <1>2, <2>4, <3>1, <3>2, <3>3, OwnStep DEF PairInv, Pair
    <3>5. pc'[o] = "idle" => PairInv(b, o)'
      BY <3>3, <3>4, Turn
    <3> QED BY <3>3, <3>4, <3>5
  <2>5. CASE o = x
    BY <2>1, <2>4, <2>5 DEF PairInv
  <2>6. CASE o = y
    BY <2>1, <2>2, <2>4, <2>6 DEF PairInv
  <2> QED BY <2>3, <2>5, <2>6
<1> QED BY <1>1, <1>2 DEF ViewNext, Acts, Objects

(* The invariant holds at the start,                                       *)
LEMMA ViewInvStart ==
    ASSUME ViewInit PROVE ViewInv
<1>1. ViewTypeOK
  BY ViewAssumption DEF ViewInit, ViewTypeOK, Objects
<1>2. PresenceInv
  BY ViewAssumption DEF ViewInit, PresenceInv, Objects, Nowhere, Acting
<1>3. \A o, b \in Objects : Pair(o, b) => PairInv(o, b)
  <2> SUFFICES ASSUME NEW o \in Objects, NEW b \in Objects, Pair(o, b)
               PROVE  PairInv(o, b)
    OBVIOUS
  <2>1. pc[o] = "idle" /\ pc[b] = "idle" /\ online = {}
    BY DEF ViewInit
  <2> QED BY <2>1 DEF PairInv, ShownInv, ScanInv
<1> QED BY <1>1, <1>2, <1>3 DEF ViewInv

(* and always.                                                             *)
LEMMA ViewInvAlways == ViewSpec => []ViewInv
<1>1. ViewInit => ViewInv
  BY ViewInvStart
<1>2. ASSUME ViewInv, [ViewNext]_viewVars PROVE ViewInv'
  <2>1. ViewTypeOK' /\ PresenceInv'
    BY <1>2, ViewTypeStep, PresenceStep DEF ViewInv
  <2>2. \A o, b \in Objects : Pair(o, b)' => PairInv(o, b)'
    BY <1>2, <2>1, PairStep DEF ViewInv
  <2> QED BY <2>1, <2>2 DEF ViewInv
<1> QED BY <1>1, <1>2, PTL DEF ViewSpec

(* A client shows another object when it is in the view of its player, and *)
(* else only what it showed when its player died (OnPlayerDied removes     *)
(* nothing at the client), once the handlers of both are done, if neither  *)
(* of the two was changed while the other's handler of ViewProcessor was   *)
(* at work, moved or teleported after a revival that found no tile, or had *)
(* two handlers at once.  A player that found none and rests is covered.   *)
THEOREM ShowsAlways == ViewSpec => []ShowsWhatIsInView
<1>1. ViewInv => ShowsWhatIsInView
  <2> SUFFICES ASSUME ViewInv, NEW p \in online, NEW o \in Objects,
                      p # o, pc[p] = "idle", pc[o] = "idle", {p, o} \notin raced,
                      p \notin astray, o \notin astray
               PROVE  /\ Sees(p, o) => o \in shown[p]
                      /\ o \in shown[p] => Sees(p, o) \/ o \in ghosts[p]
    BY DEF ShowsWhatIsInView, ViewInv
  <2>1. p \in Players /\ p \in Objects
    BY DEF ViewInv, ViewTypeOK, Objects
  <2>2. Shows(p, o, Told(p, o))
    BY <2>1 DEF ViewInv, Pair, PairInv, ShownInv, KeepsView
  <2>3. IsInView(pos[p], pos[o]) = IsInView(pos[o], pos[p])
    BY <2>1, ViewSymmetric DEF ViewInv, ViewTypeOK
  <2>4. Told(p, o) <=> Sees(p, o)
    BY <2>1, <2>3 DEF Told, HasInView, Sees
  <2> QED BY <2>2, <2>4 DEF Shows
<1> QED BY <1>1, ViewInvAlways, PTL
=============================================================================
