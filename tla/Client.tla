------------------------------- MODULE Client -------------------------------
(***************************************************************************)
(* The client program (Client/main.cpp, NetworkClient.cpp, GameState.cpp)  *)
(* against as much of the server as answers it.  Two threads of the client *)
(* share m_me: the main thread moves it on before the server has agreed,   *)
(* RecvThread puts it where the server says.  Each takes the mutex for one *)
(* access at a time; SC_LOGIN_OK and SC_STAT_CHANGE read all of m_me, and  *)
(* write all of it back, in two accesses.                                  *)
(*                                                                         *)
(* On the server the session's packets are handled one after another, the  *)
(* login's answer and a death by other workers at the same time.  The map  *)
(* is a row of tiles.  Whether a request is refused (cooldown, wall or     *)
(* somebody in the way) is left open; the server does not say so.          *)
(***************************************************************************)
EXTENDS Integers, Sequences

CONSTANTS
    Width,          \* tiles are 0 .. Width - 1, players revive near tile 0
    Reasons,        \* LoginFailReason
    MaxConnections, \* bound: calls of Connect that succeed
    MaxMoves,       \* bound: moves the user makes
    MaxEvents       \* bound: deaths, and SC_STAT_CHANGE from regeneration,
                    \* hits and rewards

Tiles    == 0 .. Width - 1
Origin   == 0
Out      == -1      \* not in the world
NoReason == 0
Steps    == {-1, 1}

ASSUME ClientAssumption ==
    /\ Width \in Nat \ {0}
    /\ NoReason \notin Reasons
    /\ {MaxConnections, MaxMoves, MaxEvents} \subseteq Nat

VARIABLES
    app,            \* AppState
    main,           \* where the main thread stands in its frame
    guess,          \* newX, newY of the move under way
    step,           \* its direction
    me,             \* m_me.x, m_me.y
    known,          \* m_me.id is the player's: SC_LOGIN_OK was applied
    recv,           \* where RecvThread stands
    copy,           \* its copy of m_me's position
    hasFail,        \* m_hasLoginFail
    reason,         \* m_loginFailReason
    shown,          \* the reason in errorMsg
    alive,          \* the connection is open at both ends
    up,             \* packets to the server
    down,           \* packets to the client
    spos,           \* the player's position on the server
    entering,       \* OnLoginDBLoaded
    okPos,          \* the position SC_LOGIN_OK is to carry
    mover,          \* ProcessMove
    target,         \* its newX, newY
    killer,         \* OnPlayerDied
    revived,        \* its respawnX, respawnY
    answer,         \* history: what became of the last move the server handled
    said,           \* history: the last position sent to the client
    wrote,          \* history: where the position in m_me comes from
    behind,         \* history: threads that work on a position changed since
    crossed,        \* history: a position changed before the last was sent
    verdict,        \* history: the reason sent on this connection
    count           \* connections, moves and events so far

clientVars == <<app, main, guess, step, shown>>
recvVars   == <<recv, copy, reason>>
netVars    == <<alive, up, down>>
serverVars == <<spos, entering, okPos, mover, target, killer, revived, answer, said, crossed, verdict>>
allVars == <<clientVars, me, known, recvVars, hasFail, netVars, serverVars, wrote, behind, count>>

ClientInit ==
    /\ app = "menu" /\ main = "frame" /\ guess = 0 /\ step = 1 /\ shown = NoReason
    /\ me = 0 /\ known = FALSE
    /\ recv = "none" /\ copy = 0
    /\ hasFail = FALSE /\ reason = NoReason
    /\ alive = FALSE /\ up = <<>> /\ down = <<>>
    /\ spos = Out /\ entering = "none" /\ okPos = 0 /\ mover = "idle" /\ target = 0
    /\ killer = "idle" /\ revived = 0
    /\ answer = "none" /\ said = Out /\ wrote = "none" /\ behind = {}
    /\ crossed = FALSE /\ verdict = NoReason
    /\ count = [connections |-> 0, moves |-> 0, events |-> 0]

Count(what, bound) ==
    /\ count[what] < bound
    /\ count' = [count EXCEPT ![what] = @ + 1]

-----------------------------------------------------------------------------
(* The main thread *)

\* Enter in the main menu, then Connect: a new connection and its RecvThread.
Connect ==
    /\ app = "menu" /\ main = "frame"
    /\ Count("connections", MaxConnections)
    /\ main' = "login" /\ app' = "connecting" /\ shown' = NoReason
    /\ recv' = "loop"
    /\ alive' = TRUE /\ up' = <<>> /\ down' = <<>>
    /\ verdict' = NoReason
    /\ UNCHANGED <<guess, step, me, known, copy, reason, hasFail, spos, entering, okPos, mover,
                   target, killer, revived, answer, said, crossed, wrote, behind>>

\* Send fails on a closed connection; SendPacket only logs it.
Sent(p) == up' = IF alive THEN Append(up, p) ELSE up

SendLogin ==
    /\ main = "login"
    /\ Sent([type |-> "login"])
    /\ app' = "game" /\ main' = "frame"
    /\ UNCHANGED <<guess, step, shown, me, known, recvVars, hasFail, alive, down, serverVars,
                   wrote, behind, count>>

\* Mutant: the flag is read and not exchanged.
ConsumeKeeping ==
    /\ app = "game" /\ main = "frame"
    /\ main' = IF hasFail THEN "disconnect" ELSE "input"
    /\ shown' = IF hasFail THEN reason ELSE shown
    /\ UNCHANGED <<app, guess, step, me, known, recvVars, hasFail, netVars, serverVars, wrote,
                   behind, count>>

\* A frame begins: ConsumeLoginFail.
ConsumeLoginFail ==
    /\ app = "game" /\ main = "frame"
    /\ main' = IF hasFail THEN "disconnect" ELSE "input"
    /\ shown' = IF hasFail THEN reason ELSE shown
    /\ hasFail' = FALSE
    /\ UNCHANGED <<app, guess, step, me, known, recvVars, netVars, serverVars, wrote, behind,
                   count>>

\* Mutant: the thread is joined before its socket is closed.
JoinFirst ==
    /\ main = "disconnect"
    /\ main' = "join"
    /\ UNCHANGED <<app, guess, step, shown, me, known, recvVars, hasFail, netVars, serverVars,
                   wrote, behind, count>>

\* Disconnect closes the socket ...
CloseSocket ==
    /\ main = "disconnect"
    /\ main' = "join"
    /\ alive' = FALSE /\ up' = <<>> /\ down' = <<>>
    /\ UNCHANGED <<app, guess, step, shown, me, known, recvVars, hasFail, serverVars, wrote,
                   behind, count>>

\* ... and joins RecvThread; then the menu shows the reason.
JoinRecvThread ==
    /\ main = "join" /\ recv = "none"
    /\ main' = "frame" /\ app' = IF app = "game" THEN "menu" ELSE app
    /\ UNCHANGED <<guess, step, shown, me, known, recvVars, hasFail, netVars, serverVars, wrote,
                   behind, count>>

\* ESC: the program ends; in the game it disconnects first.
Quit ==
    /\ \/ app = "menu" /\ main = "frame" /\ UNCHANGED main
       \/ main = "input" /\ main' = "disconnect"
    /\ app' = "over"
    /\ UNCHANGED <<guess, step, shown, me, known, recvVars, hasFail, netVars, serverVars, wrote,
                   behind, count>>

\* No key, or the way is blocked.
NoMove ==
    /\ main = "input"
    /\ main' = "frame"
    /\ UNCHANGED <<app, guess, step, shown, me, known, recvVars, hasFail, netVars, serverVars,
                   wrote, behind, count>>

\* An arrow key: GetMyPlayer, and the walls.
ReadMe(d) ==
    /\ main = "input" /\ me + d \in Tiles
    /\ Count("moves", MaxMoves)
    /\ guess' = me + d /\ step' = d
    /\ main' = "send"
    /\ behind' = behind \ {"main"}
    /\ UNCHANGED <<app, shown, me, known, recvVars, hasFail, netVars, serverVars, wrote>>

SendMove ==
    /\ main = "send"
    /\ Sent([type |-> "move", step |-> step])
    /\ main' = "predict"
    /\ UNCHANGED <<app, guess, step, shown, me, known, recvVars, hasFail, alive, down,
                   serverVars, wrote, behind, count>>

\* Thread t has stored a position: the other works on an older one.
Outdates(t) == behind' = (behind \cup {"main", "recv"}) \ {t}

\* MoveMyPlayer(newX, newY)
Predict ==
    /\ main = "predict"
    /\ me' = guess
    /\ wrote' = IF "main" \in behind THEN "outdated" ELSE "guess"
    /\ Outdates("main")
    /\ main' = "frame"
    /\ UNCHANGED <<app, guess, step, shown, known, recvVars, hasFail, netVars, serverVars,
                   count>>

-----------------------------------------------------------------------------
(* RecvThread.  What has arrived is received even when the server has     *)
(* closed the connection; what is lost with it, RecvEnds leaves.           *)

FirstDown == Head(down)
Receive(type) ==
    /\ recv = "loop" /\ down # <<>> /\ FirstDown.type = type
    /\ down' = Tail(down)
    /\ UNCHANGED <<alive, up>>

\* SC_LOGIN_OK: GetMyPlayer, then SetMyPlayer with the server's position.
OnLoginOk ==
    /\ Receive("ok")
    /\ recv' = "setAll" /\ copy' = FirstDown.pos
    /\ UNCHANGED <<clientVars, me, known, reason, hasFail, serverVars, wrote, behind, count>>

SetAll ==
    /\ recv = "setAll"
    /\ me' = copy /\ known' = TRUE
    /\ wrote' = "server"
    /\ Outdates("recv")
    /\ recv' = "loop"
    /\ UNCHANGED <<clientVars, copy, reason, hasFail, netVars, serverVars, count>>

\* SC_STAT_CHANGE of the own id: GetMyPlayer, then SetMyPlayer.
OnStatChange ==
    /\ Receive("stat")
    /\ recv' = IF known THEN "setStat" ELSE "loop"
    /\ copy' = IF known THEN me ELSE copy
    /\ behind' = behind \ {"recv"}
    /\ UNCHANGED <<clientVars, me, known, reason, hasFail, serverVars, wrote, count>>

SetStat ==
    /\ recv = "setStat"
    /\ me' = copy
    /\ wrote' = IF "recv" \in behind THEN "outdated" ELSE wrote
    /\ IF "recv" \in behind THEN Outdates("recv") ELSE UNCHANGED behind
    /\ recv' = "loop"
    /\ UNCHANGED <<clientVars, known, copy, reason, hasFail, netVars, serverVars, count>>

\* Mutant: an answer to a move is taken for another player's.
MoveIgnored ==
    /\ Receive("pos")
    /\ UNCHANGED <<clientVars, me, known, recvVars, hasFail, serverVars, wrote, behind, count>>

\* SC_MOVE_OBJECT: of the own id if that is known.
OnMoveObject ==
    /\ Receive("pos")
    /\ IF known
       THEN me' = FirstDown.pos /\ wrote' = "server" /\ Outdates("recv")
       ELSE UNCHANGED <<me, wrote, behind>>
    /\ UNCHANGED <<clientVars, known, recvVars, hasFail, serverVars, count>>

\* SC_LOGIN_FAIL: the reason, then the flag.
OnLoginFail ==
    /\ Receive("fail")
    /\ reason' = FirstDown.reason
    /\ recv' = "flag"
    /\ UNCHANGED <<clientVars, me, known, copy, hasFail, serverVars, wrote, behind, count>>

SetFlag ==
    /\ recv = "flag"
    /\ hasFail' = TRUE
    /\ recv' = "loop"
    /\ UNCHANGED <<clientVars, me, known, copy, reason, netVars, serverVars, wrote, behind,
                   count>>

\* recv returns 0 or an error: the thread ends, and nobody is told.
RecvEnds ==
    /\ recv = "loop" /\ ~alive
    /\ recv' = "none"
    /\ UNCHANGED <<clientVars, me, known, copy, reason, hasFail, netVars, serverVars, wrote,
                   behind, count>>

\* The connection breaks, or the server closes it; what it has not handled it
\* never will.
Lose ==
    /\ alive
    /\ alive' = FALSE /\ up' = <<>>
    /\ UNCHANGED <<clientVars, me, known, recvVars, hasFail, down, serverVars, wrote, behind,
                   count>>

-----------------------------------------------------------------------------
(* The server *)

Tell(p) == down' = IF alive THEN Append(down, p) ELSE down

\* It sends its position p.
TellPos(type, p) ==
    /\ Tell([type |-> type, pos |-> p])
    /\ said' = p

\* The packet handlers run one after another.
Packet(type) ==
    /\ mover = "idle" /\ alive /\ up # <<>> /\ Head(up).type = type
    /\ up' = Tail(up)
    /\ UNCHANGED alive

TakeLogin ==
    /\ Packet("login")
    /\ entering' = "asked"
    /\ UNCHANGED <<clientVars, me, known, recvVars, hasFail, down, spos, okPos, mover, target,
                   killer, revived, answer, said, crossed, verdict, wrote, behind, count>>

\* OnLoginDBFailed: no row, a duplicate, or no room.
LoginFails ==
    /\ entering = "asked"
    /\ entering' = "none"
    /\ \E r \in Reasons : verdict' = r /\ Tell([type |-> "fail", reason |-> r])
    /\ UNCHANGED <<clientVars, me, known, recvVars, hasFail, alive, up, spos, okPos, mover, target,
                   killer, revived, answer, said, crossed, wrote, behind, count>>

\* OnLoginDBLoaded: AddPlayer; from now on it can be hit.
EnterWorld ==
    /\ entering = "asked"
    /\ entering' = "added"
    /\ \E t \in Tiles : spos' = t
    /\ UNCHANGED <<clientVars, me, known, recvVars, hasFail, netVars, okPos, mover, target, killer, revived,
                   answer, said, crossed, verdict, wrote, behind, count>>

ReadPos ==
    /\ entering = "added"
    /\ entering' = "read" /\ okPos' = spos
    /\ UNCHANGED <<clientVars, me, known, recvVars, hasFail, netVars, spos, mover, target, killer, revived,
                   answer, said, crossed, verdict, wrote, behind, count>>

SendLoginOk ==
    /\ entering = "read"
    /\ entering' = "in"
    /\ TellPos("ok", okPos)
    /\ UNCHANGED <<clientVars, me, known, recvVars, hasFail, alive, up, spos, okPos, mover, target,
                   killer, revived, answer, crossed, verdict, wrote, behind, count>>

\* Somebody is on its way to send a position.
Speaking == entering = "read" \/ mover = "ack" \/ killer \in {"stat", "move"}

\* ProcessMove of one that is not in the world, or whose request is refused.
RefuseMove ==
    /\ Packet("move")
    /\ answer' = "refused"
    /\ UNCHANGED <<clientVars, me, known, recvVars, hasFail, down, spos, entering, okPos, mover,
                   target, killer, revived, said, crossed, verdict, wrote, behind, count>>

\* ProcessMove: the position it starts from, and TryMoveObject.
ProcessMove ==
    /\ Packet("move") /\ spos # Out
    /\ spos + Head(up).step \in Tiles
    /\ mover' = "set" /\ target' = spos + Head(up).step
    /\ answer' = "moved"
    /\ UNCHANGED <<clientVars, me, known, recvVars, hasFail, down, spos, entering, okPos, killer,
                   revived, said, crossed, verdict, wrote, behind, count>>

SetPos ==
    /\ mover = "set"
    /\ spos' = target
    /\ crossed' = (crossed \/ Speaking)
    /\ mover' = "ack"
    /\ UNCHANGED <<clientVars, me, known, recvVars, hasFail, netVars, entering, okPos, target,
                   killer, revived, answer, said, verdict, wrote, behind, count>>

\* Mutant: only other players are told of the move.
NoAck ==
    /\ mover = "ack"
    /\ mover' = "idle"
    /\ UNCHANGED <<clientVars, me, known, recvVars, hasFail, netVars, spos, entering, okPos, target,
                   killer, revived, answer, said, crossed, verdict, wrote, behind, count>>

\* The mover's own SC_MOVE_OBJECT.
SendAck ==
    /\ mover = "ack"
    /\ mover' = "idle"
    /\ TellPos("pos", target)
    /\ UNCHANGED <<clientVars, me, known, recvVars, hasFail, alive, up, spos, entering, okPos,
                   target, killer, revived, answer, crossed, verdict, wrote, behind, count>>

\* OnPlayerDied: Die puts the player at the origin ...
Die ==
    /\ killer = "idle" /\ spos # Out
    /\ Count("events", MaxEvents)
    /\ killer' = "revive"
    /\ spos' = Origin
    /\ crossed' = (crossed \/ Speaking)
    /\ UNCHANGED <<clientVars, me, known, recvVars, hasFail, netVars, entering, okPos, mover, target, revived,
                   answer, said, verdict, wrote, behind>>

\* ... AddObject finds a tile near it, the position is stored ...
Revive ==
    /\ killer = "revive"
    /\ \E t \in Tiles : t <= 1 /\ spos' = t /\ revived' = t
    /\ crossed' = (crossed \/ Speaking)
    /\ killer' = "stat"
    /\ UNCHANGED <<clientVars, me, known, recvVars, hasFail, netVars, entering, okPos, mover, target,
                   answer, said, verdict, wrote, behind, count>>

\* ... or finds none, and nothing more is done.
NoRoom ==
    /\ killer = "revive"
    /\ killer' = "idle"
    /\ crossed' = TRUE
    /\ UNCHANGED <<clientVars, me, known, recvVars, hasFail, netVars, spos, entering, okPos,
                   mover, target, revived, answer, said, verdict, wrote, behind, count>>

SendRevivedStat ==
    /\ killer = "stat"
    /\ killer' = "move"
    /\ Tell([type |-> "stat"])
    /\ UNCHANGED <<clientVars, me, known, recvVars, hasFail, alive, up, spos, entering, okPos,
                   mover, target, revived, answer, said, crossed, verdict, wrote, behind, count>>

SendRevivedPos ==
    /\ killer = "move"
    /\ killer' = "idle"
    /\ TellPos("pos", revived)
    /\ UNCHANGED <<clientVars, me, known, recvVars, hasFail, alive, up, spos, entering, okPos,
                   mover, target, revived, answer, crossed, verdict, wrote, behind, count>>

\* SC_STAT_CHANGE: regeneration, a hit, a reward.
SendStat ==
    /\ spos # Out
    /\ Count("events", MaxEvents)
    /\ Tell([type |-> "stat"])
    /\ UNCHANGED <<clientVars, me, known, recvVars, hasFail, alive, up, serverVars, wrote, behind>>

-----------------------------------------------------------------------------
MainThread ==
    \/ SendLogin \/ ConsumeLoginFail \/ CloseSocket \/ JoinRecvThread
    \/ NoMove \/ (\E d \in Steps : ReadMe(d)) \/ SendMove \/ Predict

RecvThread ==
    \/ OnLoginOk \/ SetAll \/ OnStatChange \/ SetStat \/ OnMoveObject
    \/ OnLoginFail \/ SetFlag \/ RecvEnds

Server ==
    \/ TakeLogin \/ LoginFails \/ EnterWorld \/ ReadPos \/ SendLoginOk
    \/ RefuseMove \/ ProcessMove \/ SetPos \/ SendAck
    \/ Revive \/ NoRoom \/ SendRevivedStat \/ SendRevivedPos

ClientNext ==
    \/ Connect \/ Quit \/ MainThread \/ RecvThread \/ Lose
    \/ Server \/ Die \/ SendStat

\* The client's threads run, and so does a handler that has begun.  The user
\* need not press a key and connections may break.
ClientSpec ==
    /\ ClientInit /\ [][ClientNext]_allVars
    /\ WF_allVars(MainThread) /\ WF_allVars(RecvThread) /\ WF_allVars(Server)

-----------------------------------------------------------------------------
Types == {"login", "move", "ok", "fail", "pos", "stat"}

ClientTypeOK ==
    /\ app \in {"menu", "connecting", "game", "over"}
    /\ main \in {"frame", "login", "input", "send", "predict", "disconnect", "join"}
    /\ {guess, me, copy, okPos, target, revived} \subseteq Tiles
    /\ step \in Steps
    /\ {reason, shown, verdict} \subseteq Reasons \cup {NoReason}
    /\ {known, hasFail, alive, crossed} \subseteq BOOLEAN
    /\ recv \in {"none", "loop", "setAll", "setStat", "flag"}
    /\ \A c \in {up, down} : \A i \in DOMAIN c : c[i].type \in Types
    /\ {spos, said} \subseteq Tiles \cup {Out}
    /\ entering \in {"none", "asked", "added", "read", "in"}
    /\ mover \in {"idle", "set", "ack"}
    /\ killer \in {"idle", "revive", "stat", "move"}
    /\ answer \in {"none", "moved", "refused"}
    /\ wrote \in {"none", "server", "guess", "outdated"}
    /\ behind \subseteq {"main", "recv"}

\* The player is in the world and nothing is under way.
ClientQuiet ==
    /\ app = "game" /\ known /\ alive
    /\ main \in {"frame", "input"} /\ recv = "loop" /\ up = <<>> /\ down = <<>>
ServerQuiet == entering = "in" /\ mover = "idle" /\ killer = "idle"

(* Once everything has arrived the client shows the last position the      *)
(* server has sent, unless its last move was refused, of which it is not   *)
(* told, or one of its threads wrote what it had read before the other     *)
(* changed it (a stat change over a move, a move over a revival).          *)
ClientFollows ==
    /\ ClientTypeOK
    /\ ClientQuiet /\ ServerQuiet =>
        \/ me = said
        \/ wrote = "guess" /\ answer = "refused"
        \/ wrote = "outdated"

(* The last position the server has sent is the player's, unless another   *)
(* handler changed it before that was sent, or a revival found no room.    *)
ServerTells == ServerQuiet => said = spos \/ crossed

(* A login failure that takes the user back to the menu is one of this     *)
(* connection, and the reason shown is the one the server gave for it.     *)
FailReported == main \in {"disconnect", "join"} /\ app = "game" => verdict # NoReason /\ shown = verdict

(* A refused login ends in the menu once RecvThread has the answer: the    *)
(* flag is seen, and Disconnect does not wait for that thread for ever,    *)
(* nor when the user has quit.                                             *)
FailReturns == recv = "flag" ~> app \in {"menu", "over"} /\ recv = "none"
=============================================================================
