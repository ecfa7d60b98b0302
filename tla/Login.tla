-------------------------------- MODULE Login --------------------------------
(***************************************************************************)
(* Who is logged in as whom.  Three pieces of state are updated without a  *)
(* common lock: IOCPServer's session table and pool of session ids,        *)
(* GameWorld's m_players (keyed by the session id) and its m_activeDbIds.  *)
(* A login leaves the worker for the login DB thread and comes back, with  *)
(* nothing but the session id, as a callback on any worker; meanwhile the  *)
(* connection may be gone and its id may belong to somebody else.          *)
(*                                                                         *)
(* A Session object is identified with the connection it was made for.     *)
(* Reading the id of a deleted Session yields the id it had.               *)
(***************************************************************************)
EXTENDS Naturals, Sequences, FiniteSets

CONSTANTS
    Ids,            \* session ids, 0 .. MAX_PLAYERS - 1
    Pool,           \* the order in which Init puts them into m_availableIds
    Conns,          \* connections made in a behaviour
    Requests,       \* CS_LOGIN packets sent in a behaviour
    Owner,          \* the connection that sends a request
    Characters,     \* rows of the players table (dbId and name)
    None            \* nullptr, no row, no entry

ASSUME LoginAssumption ==
    /\ Pool \in Seq(Ids)
    /\ \A i, j \in 1 .. Len(Pool) : Pool[i] = Pool[j] => i = j
    /\ Owner \in [Requests -> Conns]
    /\ None \notin Ids \cup Conns \cup Characters

VARIABLES
    availableIds,   \* IOCPServer::m_availableIds
    sessions,       \* IOCPServer::m_sessions
    conn,           \* life of a connection, DisconnectSession step by step
    sid,            \* Session::m_id
    left,           \* ProcessDisconnect: dbId of the player it found
    players,        \* GameWorld::m_players: the character
    playerConn,     \* GameWorld::m_players: Player::m_session
    activeDbIds,    \* GameWorld::m_activeDbIds
    req,            \* life of a login request
    char,           \* the character it asks for
    reqId,          \* the session id it carries
    found,          \* OnLoginDBLoaded: what GetSession returned
    answeredFor,    \* history: the request that put the player in
    orphaned        \* history: characters whose claim nobody is left to give back

sessionVars == <<availableIds, sessions, conn, sid>>
worldVars   == <<players, playerConn, activeDbIds, answeredFor>>
reqVars     == <<req, char, reqId, found, orphaned>>
vars        == <<availableIds, sessions, conn, sid, left, players, playerConn,
                 activeDbIds, answeredFor, req, char, reqId, found, orphaned>>

Init ==
    /\ availableIds = Pool
    /\ sessions = [i \in Ids |-> None]
    /\ conn = [c \in Conns |-> "away"]
    /\ sid = [c \in Conns |-> None]
    /\ left = [c \in Conns |-> None]
    /\ players = [i \in Ids |-> None]
    /\ playerConn = [i \in Ids |-> None]
    /\ activeDbIds = {}
    /\ req = [r \in Requests |-> "unsent"]
    /\ char = [r \in Requests |-> None]
    /\ reqId = [r \in Requests |-> None]
    /\ found = [r \in Requests |-> None]
    /\ answeredFor = [i \in Ids |-> None]
    /\ orphaned = {}

GotoC(c, from, to) == conn[c] = from /\ conn' = [conn EXCEPT ![c] = to]
GotoR(r, from, to) == req[r] = from /\ req' = [req EXCEPT ![r] = to]

\* m_players[i] is overwritten or erased: a character that is not on its way
\* out loses the only one who would give its claim back.
Abandoned(i) ==
    {players[i]} \ ({None} \cup {left[c] : c \in {d \in Conns : conn[d] \in {"removing", "releasing"}}})

-----------------------------------------------------------------------------
(* OnAccept *)

\* Mutant: AllocSessionId looks at the front of the pool but does not pop it.
PeekSessionId(c) ==
    /\ availableIds # <<>>
    /\ GotoC(c, "away", "accepted")
    /\ sid' = [sid EXCEPT ![c] = Head(availableIds)]
    /\ UNCHANGED <<availableIds, sessions, left, worldVars, reqVars>>

AllocSessionId(c) ==
    /\ availableIds # <<>>
    /\ GotoC(c, "away", "accepted")
    /\ sid' = [sid EXCEPT ![c] = Head(availableIds)]
    /\ availableIds' = Tail(availableIds)
    /\ UNCHANGED <<sessions, left, worldVars, reqVars>>

\* No id left: the socket is closed at once.
ServerFull(c) ==
    /\ availableIds = <<>>
    /\ GotoC(c, "away", "closed")
    /\ UNCHANGED <<availableIds, sessions, sid, left, worldVars, reqVars>>

\* new Session, m_sessions[id] = session, first recv posted.
OnAccept(c) ==
    /\ GotoC(c, "accepted", "open")
    /\ sessions' = [sessions EXCEPT ![sid[c]] = c]
    /\ UNCHANGED <<availableIds, sid, left, worldVars, reqVars>>

-----------------------------------------------------------------------------
(* DisconnectSession and ProcessDisconnect.  Any completion that fails may  *)
(* start it; TryMarkDisconnected lets the first one through.                *)

DisconnectSession(c) ==
    /\ GotoC(c, "open", "leaving")
    /\ UNCHANGED <<availableIds, sessions, sid, left, worldVars, reqVars>>

\* GetPlayer(id): without a player there is nothing to take out of the world.
FindPlayer(c) ==
    /\ GotoC(c, "leaving", IF players[sid[c]] = None THEN "clearing" ELSE "removing")
    /\ left' = [left EXCEPT ![c] = players[sid[c]]]
    /\ UNCHANGED <<availableIds, sessions, sid, worldVars, reqVars>>

RemovePlayer(c) ==
    /\ GotoC(c, "removing", "releasing")
    /\ players' = [players EXCEPT ![sid[c]] = None]
    /\ playerConn' = [playerConn EXCEPT ![sid[c]] = None]
    /\ answeredFor' = [answeredFor EXCEPT ![sid[c]] = None]
    /\ orphaned' = orphaned \cup Abandoned(sid[c])
    /\ UNCHANGED <<availableIds, sessions, sid, left, activeDbIds, req, char, reqId, found>>

\* Mutant: the dbId of the player that is in m_players now.
ReleaseByLookup(c) ==
    /\ GotoC(c, "releasing", "clearing")
    /\ activeDbIds' = activeDbIds \ {players[sid[c]]}
    /\ UNCHANGED <<availableIds, sessions, sid, left, players, playerConn, answeredFor, reqVars>>

ReleaseDbId(c) ==
    /\ GotoC(c, "releasing", "clearing")
    /\ activeDbIds' = activeDbIds \ {left[c]}
    /\ UNCHANGED <<availableIds, sessions, sid, left, players, playerConn, answeredFor, reqVars>>

\* Close, delete session, m_sessions[id] = nullptr.
ClearSession(c) ==
    /\ GotoC(c, "clearing", "freeing")
    /\ sessions' = [sessions EXCEPT ![sid[c]] = None]
    /\ UNCHANGED <<availableIds, sid, left, worldVars, reqVars>>

FreeSessionId(c) ==
    /\ GotoC(c, "freeing", "closed")
    /\ availableIds' = Append(availableIds, sid[c])
    /\ UNCHANGED <<sessions, sid, left, worldVars, reqVars>>

-----------------------------------------------------------------------------
(* ProcessLogin, the login DB thread and OnLoginDBLoaded *)

ProcessLogin(r, n) ==
    /\ conn[Owner[r]] = "open"
    /\ GotoR(r, "unsent", "queued")
    /\ char' = [char EXCEPT ![r] = n]
    /\ reqId' = [reqId EXCEPT ![r] = sid[Owner[r]]]
    /\ UNCHANGED <<sessionVars, left, worldVars, found, orphaned>>

\* The DB thread loads or creates the row and posts the callback.
LoadRow(r) ==
    /\ GotoR(r, "queued", "loaded")
    /\ UNCHANGED <<sessionVars, left, worldVars, char, reqId, found, orphaned>>

\* A DB error: OnLoginDBFailed only sends SC_LOGIN_FAIL.
LoadFails(r) ==
    /\ GotoR(r, "queued", "done")
    /\ UNCHANGED <<sessionVars, left, worldVars, char, reqId, found, orphaned>>

\* Mutant: the first session in the table is taken for the one with the id.
LoadedByFirst(r) ==
    LET up == {i \in Ids : sessions[i] # None}
        s  == IF up = {} THEN None ELSE sessions[CHOOSE i \in up : TRUE]
    IN  /\ GotoR(r, "loaded", IF s = None THEN "done" ELSE "claiming")
        /\ found' = [found EXCEPT ![r] = s]
        /\ UNCHANGED <<sessionVars, left, worldVars, char, reqId, orphaned>>

\* GetSession(sessionId): whoever has the id now.
OnLoginDBLoaded(r) ==
    /\ GotoR(r, "loaded", IF sessions[reqId[r]] = None THEN "done" ELSE "claiming")
    /\ found' = [found EXCEPT ![r] = sessions[reqId[r]]]
    /\ UNCHANGED <<sessionVars, left, worldVars, char, reqId, orphaned>>

\* Mutant: the result of insert is not looked at.
ClaimAnyway(r) ==
    /\ GotoR(r, "claiming", "spawning")
    /\ activeDbIds' = activeDbIds \cup {char[r]}
    /\ UNCHANGED <<sessionVars, left, players, playerConn, answeredFor, char, reqId, found, orphaned>>

TryClaimDbId(r) ==
    /\ char[r] \notin activeDbIds
    /\ GotoR(r, "claiming", "spawning")
    /\ activeDbIds' = activeDbIds \cup {char[r]}
    /\ UNCHANGED <<sessionVars, left, players, playerConn, answeredFor, char, reqId, found, orphaned>>

DuplicateLogin(r) ==
    /\ char[r] \in activeDbIds
    /\ GotoR(r, "claiming", "done")
    /\ UNCHANGED <<sessionVars, left, worldVars, char, reqId, found, orphaned>>

\* AddObject found a tile; m_players[id] is overwritten whatever it held.
AddPlayer(r) ==
    LET i == sid[found[r]]
    IN  /\ GotoR(r, "spawning", "done")
        /\ players' = [players EXCEPT ![i] = char[r]]
        /\ playerConn' = [playerConn EXCEPT ![i] = found[r]]
        /\ answeredFor' = [answeredFor EXCEPT ![i] = r]
        /\ orphaned' = orphaned \cup Abandoned(i)
        /\ UNCHANGED <<sessionVars, left, activeDbIds, char, reqId, found>>

\* No tile within the radius: SC_LOGIN_FAIL(SPAWN_FULL); the claim stays.
SpawnFull(r) ==
    /\ GotoR(r, "spawning", "done")
    /\ orphaned' = orphaned \cup {char[r]}
    /\ UNCHANGED <<sessionVars, left, worldVars, char, reqId, found>>

-----------------------------------------------------------------------------
ConnStep(c) ==
    \/ AllocSessionId(c) \/ ServerFull(c) \/ OnAccept(c)
    \/ DisconnectSession(c) \/ FindPlayer(c) \/ RemovePlayer(c) \/ ReleaseDbId(c)
    \/ ClearSession(c) \/ FreeSessionId(c)

LoginStep(r) ==
    \/ \E n \in Characters : ProcessLogin(r, n)
    \/ LoadRow(r) \/ LoadFails(r) \/ OnLoginDBLoaded(r)
    \/ TryClaimDbId(r) \/ DuplicateLogin(r) \/ AddPlayer(r) \/ SpawnFull(r)

Next ==
    \/ \E c \in Conns : ConnStep(c)
    \/ \E r \in Requests : LoginStep(r)

Spec == Init /\ [][Next]_vars

-----------------------------------------------------------------------------
TypeOK ==
    /\ availableIds \in Seq(Ids)
    /\ sessions \in [Ids -> Conns \cup {None}]
    /\ conn \in [Conns -> {"away", "accepted", "open", "leaving", "removing", "releasing",
                           "clearing", "freeing", "closed"}]
    /\ sid \in [Conns -> Ids \cup {None}]
    /\ left \in [Conns -> Characters \cup {None}]
    /\ players \in [Ids -> Characters \cup {None}]
    /\ playerConn \in [Ids -> Conns \cup {None}]
    /\ activeDbIds \subseteq Characters
    /\ req \in [Requests -> {"unsent", "queued", "loaded", "claiming", "spawning", "done"}]
    /\ char \in [Requests -> Characters \cup {None}]
    /\ reqId \in [Requests -> Ids \cup {None}]
    /\ found \in [Requests -> Conns \cup {None}]
    /\ answeredFor \in [Ids -> Requests \cup {None}]
    /\ orphaned \subseteq Characters
    /\ \A r \in Requests : req[r] \in {"claiming", "spawning"} => found[r] # None

HasId(c) == conn[c] \in {"accepted", "open", "leaving", "removing", "releasing",
                         "clearing", "freeing"}

(* A session id is in the pool or with one connection, once: no two        *)
(* connections share an id and none is handed out while it is in use.      *)
IdsNotShared ==
    /\ TypeOK
    /\ \A i, j \in 1 .. Len(availableIds) : availableIds[i] = availableIds[j] => i = j
    /\ \A c \in Conns : HasId(c) => \A i \in 1 .. Len(availableIds) : availableIds[i] # sid[c]
    /\ \A c, d \in Conns : HasId(c) /\ HasId(d) /\ sid[c] = sid[d] => c = d

(* One character is in the world at most once, and while it is, its dbId   *)
(* is claimed: however logins and disconnects overlap, with reused session *)
(* ids and overwritten entries, the claim is never given back early.       *)
OneBodyPerCharacter ==
    /\ \A i, j \in Ids : players[i] # None /\ players[i] = players[j] => i = j
    /\ \A i \in Ids : players[i] # None => players[i] \in activeDbIds

\* Somebody has this character, is getting it or is giving it back.
InUse(n) ==
    \/ \E i \in Ids : players[i] = n
    \/ \E r \in Requests : req[r] = "spawning" /\ char[r] = n
    \/ \E c \in Conns : conn[c] \in {"removing", "releasing"} /\ left[c] = n

(* A claimed dbId has a holder who will give it back, however logins and   *)
(* disconnects overlap, unless the spawn found no tile (OnLoginDBLoaded    *)
(* then keeps the claim) or another login's entry of m_players was         *)
(* overwritten or erased: then, and only then, the character is refused as *)
(* a DUPLICATE_LOGIN for ever.                                             *)
ClaimsHaveHolders ==
    \A n \in activeDbIds \cup orphaned :
        n \in activeDbIds /\ (InUse(n) <=> n \notin orphaned)

(* The answer to a login goes by the session id alone.  As long as the     *)
(* connection that asked is not closed, the answer cannot go astray: a     *)
(* player in the world belongs to the connection that asked for it.        *)
AnswersItsConnection ==
    \A i \in Ids : players[i] # None =>
        \/ playerConn[i] = Owner[answeredFor[i]]
        \/ conn[Owner[answeredFor[i]]] = "closed"

-----------------------------------------------------------------------------
(* Refinement: to one character, sessions, ids and requests come to a claim *)
(* that somebody takes, enters the world with and gives back.               *)

Stage(n) == IF n \in orphaned THEN "lost"
            ELSE IF n \notin activeDbIds THEN "free"
            ELSE IF \E i \in Ids : players[i] = n THEN "in" ELSE "held"

Of(n) == INSTANCE Claim WITH stage <- Stage(n)

(* A character enters the world only under a claim taken for it, its dbId  *)
(* is given back only once it is out of m_players, and a claim that lost   *)
(* its holder is neither given back nor used again.                        *)
RefinesClaim ==
    /\ \A n \in Characters : Of(n)!Init
    /\ [][\A n \in Characters : [Of(n)!Next]_(Stage(n))]_vars
=============================================================================
