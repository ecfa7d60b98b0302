------------------------------ MODULE SessionIO ------------------------------
(***************************************************************************)
(* Server/Network/Session.cpp: the receive loop and the send queue of each *)
(* session.  A session has one receive outstanding; the worker that gets   *)
(* its completion handles the packets, which sends to any sessions, and    *)
(* posts the next receive.  Sends are queued, one WSASend at a time.       *)
(*                                                                         *)
(* PostSend runs under m_sendMutex and, when WSASend fails at once, calls  *)
(* Close, which locks the same std::mutex again.  That is undefined; the   *)
(* library either throws, and the exception unwinds the whole packet       *)
(* handler up to WorkerThread, or goes on.  Both are modelled.             *)
(***************************************************************************)
EXTENDS Naturals, Sequences

CONSTANTS
    Sessions,       \* sessions with an established connection
    MaxPackets,     \* bound: packets sent to one session
    MaxRecvs        \* bound: receives completed on one session

ASSUME IOAssumption == MaxPackets \in Nat /\ MaxRecvs \in Nat

VARIABLES
    open,           \* m_socket is valid
    lost,           \* the peer is gone (the network, not the program)
    queue,          \* m_sendQueue; the packets to a session are numbered
    isSending,      \* m_isSending
    flight,         \* the WSASend on m_sendOv: none, sent to the kernel, completed
    recv,           \* the receive: posted, its packets being handled, or none
    gone,           \* DisconnectSession has run
    accepted,       \* packets passed to SendPacket (bounded by MaxPackets)
    recvs,          \* receives completed (bounded by MaxRecvs)
    wire            \* what the kernel has sent, in this order

vars == <<open, lost, queue, isSending, flight, recv, gone, accepted, recvs, wire>>

Init ==
    /\ open = [s \in Sessions |-> TRUE]
    /\ lost = [s \in Sessions |-> FALSE]
    /\ queue = [s \in Sessions |-> <<>>]
    /\ isSending = [s \in Sessions |-> FALSE]
    /\ flight = [s \in Sessions |-> "none"]
    /\ recv = [s \in Sessions |-> "posted"]
    /\ gone = [s \in Sessions |-> FALSE]
    /\ accepted = [s \in Sessions |-> 0]
    /\ recvs = [s \in Sessions |-> 0]
    /\ wire = [s \in Sessions |-> <<>>]

-----------------------------------------------------------------------------
(* The kernel *)

ConnectionLost(s) ==
    /\ ~lost[s]
    /\ lost' = [lost EXCEPT ![s] = TRUE]
    /\ UNCHANGED <<open, queue, isSending, flight, recv, gone, accepted, recvs, wire>>

\* m_sendOv's buffer is the front of the queue.
Transmit(s) ==
    /\ flight[s] = "kernel" /\ open[s] /\ ~gone[s]
    /\ wire' = [wire EXCEPT ![s] = Append(@, Head(queue[s]))]
    /\ flight' = [flight EXCEPT ![s] = "completed"]
    /\ UNCHANGED <<open, lost, queue, isSending, recv, gone, accepted, recvs>>

-----------------------------------------------------------------------------
(* Sending *)

\* WSASend(s) is pending.  It may be refused at once when the peer is gone
\* or the socket is closed.
Refused(s) == lost[s] \/ ~open[s]

\* PostSend with q as the queue, m_isSending set by the caller.
PostSend(s, q) ==
    /\ open[s]
    /\ queue' = [queue EXCEPT ![s] = q]
    /\ isSending' = [isSending EXCEPT ![s] = TRUE]
    /\ flight' = [flight EXCEPT ![s] = "kernel"]
    /\ UNCHANGED open

\* WSASend fails, Close closes the socket and locks m_sendMutex again: it
\* throws, or the queue is emptied.
PostSendFails(s, q, throws) ==
    /\ Refused(s)
    /\ open' = [open EXCEPT ![s] = FALSE]
    /\ queue' = [queue EXCEPT ![s] = IF throws THEN q ELSE <<>>]
    /\ isSending' = [isSending EXCEPT ![s] = throws]

\* SendPacket puts a packet behind the others and starts sending if need be.
Enqueue(s, q) ==
    IF isSending[s]
    THEN /\ queue' = [queue EXCEPT ![s] = q]
         /\ UNCHANGED <<open, isSending, flight>>
    ELSE PostSend(s, q)

\* The handler of a packet of s sends to t.
SendPacket(s, t) ==
    LET q == Append(queue[t], accepted[t] + 1) IN
    /\ recv[s] = "handling" /\ ~gone[t] /\ accepted[t] < MaxPackets
    /\ accepted' = [accepted EXCEPT ![t] = @ + 1]
    /\ Enqueue(t, q)
    /\ UNCHANGED <<lost, recv, gone, recvs, wire>>

\* The first send on a broken connection; an exception ends the handler of
\* s: no more packets, no PostRecv.
SendPacketFails(s, t) ==
    LET q == Append(queue[t], accepted[t] + 1) IN
    /\ recv[s] = "handling" /\ ~gone[t] /\ accepted[t] < MaxPackets
    /\ ~isSending[t]
    /\ accepted' = [accepted EXCEPT ![t] = @ + 1]
    /\ \E throws \in BOOLEAN :
          /\ PostSendFails(t, q, throws)
          /\ recv' = [recv EXCEPT ![s] = IF throws THEN "none" ELSE @]
    /\ UNCHANGED <<lost, flight, gone, recvs, wire>>

\* Mutant: the completed packet stays in the queue.
KeepFront(s) ==
    /\ flight[s] = "completed" /\ ~gone[s]
    /\ IF queue[s] # <<>> THEN PostSend(s, queue[s])
       ELSE /\ isSending' = [isSending EXCEPT ![s] = FALSE]
            /\ flight' = [flight EXCEPT ![s] = "none"]
            /\ UNCHANGED <<open, queue>>
    /\ UNCHANGED <<lost, recv, gone, accepted, recvs, wire>>

\* Mutant: with more to send, nothing is sent.
StopAfterOne(s) ==
    /\ flight[s] = "completed" /\ ~gone[s]
    /\ queue' = [queue EXCEPT ![s] = IF @ = <<>> THEN @ ELSE Tail(@)]
    /\ isSending' = [isSending EXCEPT ![s] = FALSE]
    /\ flight' = [flight EXCEPT ![s] = "none"]
    /\ UNCHANGED <<open, lost, recv, gone, accepted, recvs, wire>>

OnSendComplete(s) ==
    LET q == IF queue[s] = <<>> THEN <<>> ELSE Tail(queue[s]) IN
    /\ flight[s] = "completed" /\ ~gone[s]
    /\ \/ q # <<>> /\ PostSend(s, q)
       \/ /\ q # <<>>
          /\ \E throws \in BOOLEAN : PostSendFails(s, q, throws)
          /\ flight' = [flight EXCEPT ![s] = "none"]
       \/ /\ q = <<>>
          /\ queue' = [queue EXCEPT ![s] = q]
          /\ isSending' = [isSending EXCEPT ![s] = FALSE]
          /\ flight' = [flight EXCEPT ![s] = "none"]
          /\ UNCHANGED open
    /\ UNCHANGED <<lost, recv, gone, accepted, recvs, wire>>

-----------------------------------------------------------------------------
(* Receiving *)

OnRecvComplete(s) ==
    /\ recv[s] = "posted" /\ open[s] /\ ~lost[s] /\ ~gone[s] /\ recvs[s] < MaxRecvs
    /\ recv' = [recv EXCEPT ![s] = "handling"]
    /\ recvs' = [recvs EXCEPT ![s] = @ + 1]
    /\ UNCHANGED <<open, lost, queue, isSending, flight, gone, accepted, wire>>

\* Mutant: OnRecvComplete returns without the next receive.
ForgetRecv(s) ==
    /\ recv[s] = "handling" /\ open[s] /\ ~gone[s]
    /\ recv' = [recv EXCEPT ![s] = "none"]
    /\ UNCHANGED <<open, lost, queue, isSending, flight, gone, accepted, recvs, wire>>

PostRecv(s) ==
    /\ recv[s] = "handling" /\ open[s] /\ ~gone[s]
    /\ recv' = [recv EXCEPT ![s] = "posted"]
    /\ UNCHANGED <<open, lost, queue, isSending, flight, gone, accepted, recvs, wire>>

\* WSARecv fails at once: Close, and nothing is outstanding on this session
\* but a WSASend that Close has just cancelled or that has completed.
PostRecvFails(s) ==
    /\ recv[s] = "handling" /\ Refused(s) /\ ~gone[s]
    /\ recv' = [recv EXCEPT ![s] = "none"]
    /\ open' = [open EXCEPT ![s] = FALSE]
    /\ queue' = [queue EXCEPT ![s] = <<>>]
    /\ isSending' = [isSending EXCEPT ![s] = FALSE]
    /\ UNCHANGED <<lost, flight, gone, accepted, recvs, wire>>

\* A receive or a send completes with an error: DisconnectSession, which
\* closes and deletes the session.
DisconnectSession(s) ==
    /\ Refused(s) /\ ~gone[s]
    /\ recv[s] = "posted" \/ flight[s] = "kernel"
    /\ gone' = [gone EXCEPT ![s] = TRUE]
    /\ open' = [open EXCEPT ![s] = FALSE]
    /\ queue' = [queue EXCEPT ![s] = <<>>]
    /\ isSending' = [isSending EXCEPT ![s] = FALSE]
    /\ flight' = [flight EXCEPT ![s] = "none"]
    /\ recv' = [recv EXCEPT ![s] = "none"]
    /\ UNCHANGED <<lost, accepted, recvs, wire>>

-----------------------------------------------------------------------------
\* What comes to WorkerThread for a session that nobody need act for.
Completion(s) == Transmit(s) \/ OnSendComplete(s) \/ DisconnectSession(s)

Next ==
    \E s \in Sessions :
       \/ ConnectionLost(s)
       \/ Completion(s)
       \/ OnRecvComplete(s) \/ PostRecv(s) \/ PostRecvFails(s)
       \/ \E t \in Sessions : SendPacket(s, t) \/ SendPacketFails(s, t)

Spec == Init /\ [][Next]_vars

\* The kernel completes what it is given and a worker handles it.
FairSpec == Spec /\ \A s \in Sessions : WF_vars(Completion(s))

-----------------------------------------------------------------------------
TypeOK ==
    /\ open \in [Sessions -> BOOLEAN] /\ lost \in [Sessions -> BOOLEAN]
    /\ queue \in [Sessions -> Seq(1 .. MaxPackets)]
    /\ isSending \in [Sessions -> BOOLEAN]
    /\ flight \in [Sessions -> {"none", "kernel", "completed"}]
    /\ recv \in [Sessions -> {"posted", "handling", "none"}]
    /\ gone \in [Sessions -> BOOLEAN]
    /\ accepted \in [Sessions -> 0 .. MaxPackets]
    /\ recvs \in [Sessions -> 0 .. MaxRecvs]
    /\ wire \in [Sessions -> Seq(1 .. MaxPackets)]

(* TCP gets the packets of a session in the order of the SendPacket calls, *)
(* none twice and none left out, whichever workers call it, and whether or *)
(* not the connection breaks in between.                                   *)
InOrder == \A s \in Sessions : \A i \in 1 .. Len(wire[s]) : wire[s][i] = i

(* As long as its socket is open, a session has a WSASend outstanding      *)
(* exactly when m_isSending says so and exactly when packets wait: none is *)
(* left in the queue with nobody to send it.                               *)
SendingWhileQueued ==
    /\ TypeOK
    /\ \A s \in Sessions : open[s] =>
          /\ isSending[s] <=> flight[s] # "none"
          /\ isSending[s] <=> queue[s] # <<>>

(* What SendPacket accepts for a session that stays connected reaches the  *)
(* wire.                                                                   *)
Delivered ==
    \A s \in Sessions : \A n \in 1 .. MaxPackets :
        accepted[s] >= n ~> Len(wire[s]) >= n \/ lost[s]

(* "3. Wait for the next recv" (OnRecvComplete): as long as no connection  *)
(* is broken, every session has a receive outstanding or being handled.    *)
(* One broken connection may cost others theirs: the exception of a failed *)
(* send ends the handler of whoever was sending.                           *)
KeepsReceiving ==
    (\A s \in Sessions : ~lost[s]) => \A s \in Sessions : recv[s] # "none"

-----------------------------------------------------------------------------
(* Refinement: to those who call SendPacket the send queue, m_isSending    *)
(* and the completions of each session are a channel, which breaks when    *)
(* the socket is closed.                                                   *)

Out(s) == INSTANCE Channel WITH
    Messages <- 1 .. MaxPackets, broken <- ~open[s],
    sent <- [n \in 1 .. accepted[s] |-> n], delivered <- wire[s]

OutStep(s) == [Out(s)!Next]_(Out(s)!vars)

(* TCP gets every session's packets in the order of the SendPacket calls,  *)
(* each once, none left out, and none any more once Close has run.         *)
RefinesChannel ==
    /\ \A s \in Sessions : Out(s)!Init
    /\ [][\A s \in Sessions : OutStep(s)]_vars
=============================================================================
