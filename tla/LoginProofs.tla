------------------------------ MODULE LoginProofs ------------------------------
(***************************************************************************)
(* Theorems about Login for any pool of session ids, any number of         *)
(* connections and requests, and any characters.                           *)
(*                                                                         *)
(* The second part is about Client: the program that logs in.              *)
(***************************************************************************)
EXTENDS Login, Client, TLAPS

\* States of a connection whose Session is in m_sessions.
Up == {"open", "leaving", "removing", "releasing", "clearing"}

\* Session ids and the session table.
IdsInv ==
    /\ IdsNotShared
    /\ \A c \in Conns : HasId(c) => sid[c] \in Ids
    /\ \A i \in Ids : sessions[i] # None => conn[sessions[i]] \in Up /\ sid[sessions[i]] = i

\* A request carries the id of the connection it came on.  The session it was
\* answered with is that one, unless that one is closed by now.
Known(c) == conn[c] # "away" /\ sid[c] \in Ids

AskedInv ==
    /\ \A r \in Requests : req[r] # "unsent" =>
          /\ char[r] \in Characters
          /\ Known(Owner[r]) /\ conn[Owner[r]] # "accepted" /\ reqId[r] = sid[Owner[r]]
    /\ \A r \in Requests : req[r] \in {"claiming", "spawning"} =>
          Known(found[r]) /\ (found[r] = Owner[r] \/ conn[Owner[r]] = "closed")
    /\ \A i \in Ids : players[i] # None => answeredFor[i] \in Requests

\* A character is held once: by an entry of m_players, by a login that has
\* claimed it, or by a connection that gives it back, which may still have
\* its entry.
Spawning(r) == req[r] = "spawning"
Returning(c) == conn[c] \in {"removing", "releasing"}

HeldOnce ==
    /\ \A i, j \in Ids : players[i] # None /\ players[i] = players[j] => i = j
    /\ \A r, q \in Requests : Spawning(r) /\ Spawning(q) /\ char[r] = char[q] => r = q
    /\ \A c, d \in Conns : Returning(c) /\ Returning(d) /\ left[c] = left[d] => c = d
    /\ \A r \in Requests, i \in Ids : Spawning(r) => players[i] # char[r]
    /\ \A r \in Requests, c \in Conns : Spawning(r) /\ Returning(c) => left[c] # char[r]
    /\ \A c \in Conns, i \in Ids : Returning(c) /\ players[i] = left[c] => conn[c] = "removing" /\ i = sid[c]

\* What is held is claimed.
HeldIsClaimed ==
    /\ \A i \in Ids : players[i] # None => players[i] \in activeDbIds
    /\ \A r \in Requests : Spawning(r) => char[r] \in activeDbIds
    /\ \A c \in Conns : Returning(c) => left[c] \in activeDbIds

LoginInv == IdsInv /\ AskedInv /\ AnswersItsConnection /\ HeldOnce /\ HeldIsClaimed /\ ClaimsHaveHolders

LEMMA LoginInit == Init => LoginInv
<1> SUFFICES ASSUME Init PROVE LoginInv
  OBVIOUS
<1>1. TypeOK
  BY LoginAssumption DEF Init, TypeOK
<1>2. IdsInv
  BY <1>1, LoginAssumption DEF Init, IdsInv, IdsNotShared, HasId
<1>3. AskedInv /\ AnswersItsConnection
  BY DEF Init, AskedInv, AnswersItsConnection
<1>4. HeldOnce /\ HeldIsClaimed /\ ClaimsHaveHolders
  BY DEF Init, HeldOnce, HeldIsClaimed, ClaimsHaveHolders, Spawning, Returning
<1>5. QED BY <1>2, <1>3, <1>4 DEF LoginInv

-----------------------------------------------------------------------------
(* Types                                                                   *)

LEMMA ConnTypes ==
  ASSUME TypeOK, NEW c \in Conns, HasId(c) => sid[c] \in Ids, ConnStep(c)
  PROVE  TypeOK'
<1> USE DEF GotoC, sessionVars, worldVars, reqVars
<1>1. CASE AllocSessionId(c)
  BY <1>1 DEF AllocSessionId, TypeOK
<1>2. CASE ServerFull(c)
  BY <1>2 DEF ServerFull, TypeOK
<1>3. CASE OnAccept(c)
  BY <1>3 DEF OnAccept, TypeOK
<1>4. CASE DisconnectSession(c)
  BY <1>4 DEF DisconnectSession, TypeOK
<1>5. CASE FindPlayer(c)
  BY <1>5 DEF FindPlayer, TypeOK, HasId
<1>6. CASE RemovePlayer(c)
  <2>1. Abandoned(sid[c]) \subseteq Characters
    BY <1>6 DEF RemovePlayer, TypeOK, HasId, Abandoned
  <2>2. QED BY <1>6, <2>1 DEF RemovePlayer, TypeOK
<1>7. CASE ReleaseDbId(c)
  BY <1>7 DEF ReleaseDbId, TypeOK
<1>8. CASE ClearSession(c)
  BY <1>8 DEF ClearSession, TypeOK
<1>9. CASE FreeSessionId(c)
  BY <1>9 DEF FreeSessionId, TypeOK, HasId
<1>10. QED BY <1>1, <1>2, <1>3, <1>4, <1>5, <1>6, <1>7, <1>8, <1>9 DEF ConnStep

LEMMA LoginTypes ==
  ASSUME TypeOK, AskedInv, NEW r \in Requests, LoginStep(r)
  PROVE  TypeOK'
<1> USE DEF GotoR, sessionVars, worldVars, reqVars
<1>1. ASSUME NEW n \in Characters, ProcessLogin(r, n) PROVE TypeOK'
  BY <1>1, LoginAssumption DEF ProcessLogin, TypeOK
<1>2. CASE LoadRow(r) \/ LoadFails(r)
  BY <1>2 DEF LoadRow, LoadFails, TypeOK
<1>3. CASE OnLoginDBLoaded(r)
  BY <1>3 DEF OnLoginDBLoaded, TypeOK, AskedInv, Known
<1>4. CASE TryClaimDbId(r)
  BY <1>4 DEF TryClaimDbId, TypeOK, AskedInv
<1>5. CASE DuplicateLogin(r)
  BY <1>5 DEF DuplicateLogin, TypeOK
<1>6. CASE AddPlayer(r)
  <2>1. char[r] \in Characters /\ sid[found[r]] \in Ids /\ found[r] \in Conns
    BY <1>6 DEF AddPlayer, AskedInv, Known, TypeOK
  <2>2. Abandoned(sid[found[r]]) \subseteq Characters
    BY <2>1 DEF TypeOK, Abandoned
  <2>3. QED BY <1>6, <2>1, <2>2 DEF AddPlayer, TypeOK
<1>7. CASE SpawnFull(r)
  BY <1>7 DEF SpawnFull, TypeOK, AskedInv
<1>8. QED BY <1>1, <1>2, <1>3, <1>4, <1>5, <1>6, <1>7 DEF LoginStep

-----------------------------------------------------------------------------
(* Session ids                                                             *)

(* Nothing changes for the ids when no connection gets or loses one.       *)
LEMMA IdsKept ==
  ASSUME IdsInv, TypeOK', UNCHANGED <<availableIds, sessions, sid>>,
         \A c \in Conns : (HasId(c)' => HasId(c)) /\ (conn[c] \in Up => conn'[c] \in Up)
  PROVE  IdsInv'
<1>1. \A i \in Ids : sessions[i] # None => sessions[i] \in Conns
  BY DEF IdsInv, IdsNotShared, TypeOK
<1>2. QED BY <1>1 DEF IdsInv, IdsNotShared

LEMMA AllocKeepsIds ==
  ASSUME IdsInv, TypeOK', NEW c \in Conns, AllocSessionId(c)
  PROVE  IdsInv'
<1> DEFINE p == availableIds
<1>1. /\ p \in Seq(Ids) /\ Len(p) \in Nat \ {0} /\ Len(Tail(p)) = Len(p) - 1
      /\ Head(p) = p[1] /\ p[1] \in Ids
      /\ \A i \in 1 .. Len(Tail(p)) : Tail(p)[i] = p[i + 1] /\ i + 1 \in 1 .. Len(p) /\ i + 1 # 1
      /\ 1 \in 1 .. Len(p)
  BY DEF IdsInv, IdsNotShared, TypeOK, AllocSessionId
<1>2. /\ availableIds' = Tail(p) /\ sid'[c] = p[1] /\ conn'[c] = "accepted" /\ conn[c] = "away"
      /\ \A d \in Conns \ {c} : sid'[d] = sid[d] /\ conn'[d] = conn[d]
      /\ UNCHANGED sessions
  BY <1>1 DEF IdsInv, IdsNotShared, TypeOK, AllocSessionId, GotoC
<1>3. \A i, j \in 1 .. Len(availableIds') : availableIds'[i] = availableIds'[j] => i = j
  BY <1>1, <1>2 DEF IdsInv, IdsNotShared
<1>4. \A d \in Conns : HasId(d)' => (d = c \/ HasId(d))
  BY <1>2 DEF HasId
<1>5. ASSUME NEW d \in Conns, HasId(d)'
      PROVE  sid'[d] \in Ids /\ \A i \in 1 .. Len(availableIds') : availableIds'[i] # sid'[d]
  <2>1. CASE d = c
    BY <1>1, <1>2, <2>1 DEF IdsInv, IdsNotShared
  <2>2. CASE d # c
    BY <1>1, <1>2, <1>4, <1>5, <2>2 DEF IdsInv, IdsNotShared
  <2>3. QED BY <2>1, <2>2
<1>6. \A d, e \in Conns : HasId(d)' /\ HasId(e)' /\ sid'[d] = sid'[e] => d = e
  <2>1. \A d \in Conns \ {c} : HasId(d)' => sid'[d] # sid'[c]
    BY <1>1, <1>2, <1>4 DEF IdsInv, IdsNotShared
  <2>2. QED BY <1>2, <1>4, <2>1 DEF IdsInv, IdsNotShared
<1>7. \A i \in Ids : sessions'[i] # None => conn'[sessions'[i]] \in Up /\ sid'[sessions'[i]] = i
  <2>1. \A i \in Ids : sessions[i] # None => sessions[i] \in Conns \ {c}
    <3>1. \A i \in Ids : sessions[i] # None => sessions[i] \in Conns
      BY DEF IdsInv, IdsNotShared, TypeOK
    <3>2. \A i \in Ids : sessions[i] # None => conn[sessions[i]] \in Up
      BY DEF IdsInv
    <3>3. conn[c] \notin Up
      BY <1>2 DEF Up
    <3>4. QED BY <3>1, <3>2, <3>3
  <2>2. QED BY <1>2, <2>1 DEF IdsInv
<1>8. QED BY <1>3, <1>5, <1>6, <1>7 DEF IdsInv, IdsNotShared

LEMMA FreeKeepsIds ==
  ASSUME IdsInv, TypeOK', NEW c \in Conns, FreeSessionId(c)
  PROVE  IdsInv'
<1> DEFINE p == availableIds
<1>1. conn[c] = "freeing" /\ HasId(c) /\ sid[c] \in Ids /\ UNCHANGED <<sessions, sid>>
  BY DEF FreeSessionId, GotoC, IdsInv, HasId
<1>2. /\ p \in Seq(Ids) /\ Len(p) \in Nat
      /\ Len(Append(p, sid[c])) = Len(p) + 1 /\ Append(p, sid[c])[Len(p) + 1] = sid[c]
      /\ \A i \in 1 .. Len(p) : Append(p, sid[c])[i] = p[i]
  BY <1>1 DEF IdsInv, IdsNotShared, TypeOK
<1>3. /\ availableIds' = Append(p, sid[c]) /\ conn'[c] = "closed"
      /\ \A d \in Conns \ {c} : conn'[d] = conn[d]
  BY DEF IdsInv, IdsNotShared, TypeOK, FreeSessionId, GotoC
<1> HIDE DEF p
<1>4. \A i \in 1 .. Len(availableIds') : i = Len(p) + 1 \/ (i \in 1 .. Len(p) /\ availableIds'[i] = p[i])
  BY <1>2, <1>3
<1>5. \A i \in 1 .. Len(p) : p[i] # sid[c]
  BY <1>1 DEF IdsInv, IdsNotShared, p
<1>6. \A i, j \in 1 .. Len(availableIds') : availableIds'[i] = availableIds'[j] => i = j
  <2>1. \A i, j \in 1 .. Len(p) : p[i] = p[j] => i = j
    BY DEF IdsInv, IdsNotShared, p
  <2>2. QED BY <1>2, <1>3, <1>4, <1>5, <2>1
<1>7. \A d \in Conns : HasId(d)' => HasId(d) /\ d # c
  BY <1>3 DEF HasId
<1>8. \A d \in Conns : HasId(d)' => \A i \in 1 .. Len(availableIds') : availableIds'[i] # sid'[d]
  <2> SUFFICES ASSUME NEW d \in Conns, HasId(d)', NEW i \in 1 .. Len(availableIds')
               PROVE  availableIds'[i] # sid[d]
    BY <1>1
  <2>1. HasId(d) /\ d # c /\ sid[d] # sid[c]
    BY <1>1, <1>7 DEF IdsInv, IdsNotShared
  <2>2. QED BY <1>2, <1>3, <1>4, <2>1 DEF IdsInv, IdsNotShared, p
<1>9. \A i \in Ids : sessions'[i] # None => conn'[sessions'[i]] \in Up /\ sid'[sessions'[i]] = i
  <2>1. \A i \in Ids : sessions[i] # None => sessions[i] \in Conns \ {c}
    <3>1. \A i \in Ids : sessions[i] # None => sessions[i] \in Conns
      BY DEF IdsInv, IdsNotShared, TypeOK
    <3>2. \A i \in Ids : sessions[i] # None => conn[sessions[i]] \in Up
      BY DEF IdsInv
    <3>3. conn[c] \notin Up
      BY <1>1 DEF Up
    <3>4. QED BY <3>1, <3>2, <3>3
  <2>2. QED BY <1>1, <1>3, <2>1 DEF IdsInv
<1>10. QED BY <1>1, <1>6, <1>7, <1>8, <1>9 DEF IdsInv, IdsNotShared

LEMMA ConnKeepsIds ==
  ASSUME IdsInv, NEW c \in Conns, ConnStep(c)
  PROVE  IdsInv'
<1>1. TypeOK'
  BY ConnTypes DEF IdsInv, IdsNotShared
<1>2. conn \in [Conns -> {"away", "accepted", "open", "leaving", "removing", "releasing",
                          "clearing", "freeing", "closed"}]
  BY DEF IdsInv, IdsNotShared, TypeOK
<1>3. CASE AllocSessionId(c)
  BY <1>1, <1>3, AllocKeepsIds
<1>4. CASE FreeSessionId(c)
  BY <1>1, <1>4, FreeKeepsIds
<1>5. CASE \/ ServerFull(c) \/ DisconnectSession(c) \/ FindPlayer(c)
           \/ RemovePlayer(c) \/ ReleaseDbId(c)
  <2>1. UNCHANGED <<availableIds, sessions, sid>>
    BY <1>5 DEF ServerFull, DisconnectSession, FindPlayer, RemovePlayer, ReleaseDbId
  <2>2. \A d \in Conns : (HasId(d)' => HasId(d)) /\ (conn[d] \in Up => conn'[d] \in Up)
    BY <1>2, <1>5 DEF ServerFull, DisconnectSession, FindPlayer, RemovePlayer, ReleaseDbId,
       GotoC, HasId, Up
  <2>3. QED BY <1>1, <2>1, <2>2, IdsKept
<1>6. CASE OnAccept(c) \/ ClearSession(c)
  <2>1. /\ UNCHANGED <<availableIds, sid>> /\ \A d \in Conns : HasId(d)' <=> HasId(d)
        /\ \A d \in Conns \ {c} : conn'[d] = conn[d]
    BY <1>2, <1>6 DEF OnAccept, ClearSession, GotoC, HasId
  <2>2. sid[c] \in Ids
    BY <1>6 DEF OnAccept, ClearSession, GotoC, HasId, IdsInv
  <2>3. \A i \in Ids : sessions'[i] # None =>
           \/ i = sid[c] /\ sessions'[i] = c /\ conn'[c] = "open"
           \/ sessions'[i] = sessions[i] /\ sessions[i] \in Conns \ {c}
    BY <1>2, <1>6, <2>2 DEF OnAccept, ClearSession, GotoC, IdsInv, IdsNotShared, TypeOK, Up
  <2>4. \A i \in Ids : sessions'[i] # None => conn'[sessions'[i]] \in Up /\ sid'[sessions'[i]] = i
    BY <2>1, <2>3 DEF IdsInv, Up
  <2>5. QED BY <1>1, <2>1, <2>4 DEF IdsInv, IdsNotShared
<1>7. QED BY <1>3, <1>4, <1>5, <1>6 DEF ConnStep

LEMMA LoginKeepsIds ==
  ASSUME IdsInv, AskedInv, NEW r \in Requests, LoginStep(r)
  PROVE  IdsInv'
<1>1. TypeOK'
  BY LoginTypes DEF IdsInv, IdsNotShared
<1>2. UNCHANGED <<availableIds, sessions, conn, sid>>
  BY DEF LoginStep, ProcessLogin, LoadRow, LoadFails, OnLoginDBLoaded, TryClaimDbId,
         DuplicateLogin,
         AddPlayer, SpawnFull, sessionVars
<1>3. QED BY <1>1, <1>2, IdsKept DEF HasId

-----------------------------------------------------------------------------
(* Requests and answers                                                    *)

(* A connection keeps its id and, once closed, stays closed.               *)
LEMMA ConnGoesOn ==
  ASSUME TypeOK, NEW c \in Conns, ConnStep(c), NEW d \in Conns
  PROVE  /\ conn[d] # "away" => sid'[d] = sid[d] /\ conn'[d] # "away"
         /\ conn[d] \notin {"away", "accepted"} => conn'[d] # "accepted"
         /\ conn[d] = "closed" => conn'[d] = "closed"
BY DEF TypeOK, ConnStep, AllocSessionId, ServerFull, OnAccept, DisconnectSession, FindPlayer,
       RemovePlayer, ReleaseDbId, ClearSession, FreeSessionId, GotoC

LEMMA ConnKeepsAsked ==
  ASSUME TypeOK, AskedInv, AnswersItsConnection, NEW c \in Conns,
         HasId(c) => sid[c] \in Ids, ConnStep(c)
  PROVE  AskedInv' /\ AnswersItsConnection'
<1>1. Owner \in [Requests -> Conns]
  BY LoginAssumption
<1>2. UNCHANGED <<req, char, reqId, found>>
  BY DEF ConnStep, AllocSessionId, ServerFull, OnAccept, DisconnectSession, FindPlayer,
         RemovePlayer, ReleaseDbId, ClearSession, FreeSessionId, reqVars
<1>3. \A d \in Conns : Known(d) => Known(d)'
  BY ConnGoesOn DEF Known
<1>4. AskedInv'
  <2>1. ASSUME NEW r \in Requests, req[r] # "unsent"
        PROVE  /\ char[r] \in Characters
               /\ Known(Owner[r])' /\ conn'[Owner[r]] # "accepted" /\ reqId[r] = sid'[Owner[r]]
    <3>1. Owner[r] \in Conns /\ Known(Owner[r])
      BY <1>1, <2>1 DEF AskedInv
    <3>2. QED BY <1>3, <2>1, <3>1, ConnGoesOn DEF AskedInv, Known
  <2>2. ASSUME NEW r \in Requests, req[r] \in {"claiming", "spawning"}
        PROVE  Known(found[r])' /\ (found[r] = Owner[r] \/ conn'[Owner[r]] = "closed")
    <3>1. Owner[r] \in Conns /\ found[r] \in Conns
      BY <1>1, <2>2 DEF TypeOK
    <3>2. Known(found[r]) /\ (found[r] = Owner[r] \/ conn[Owner[r]] = "closed")
      BY <2>2 DEF AskedInv
    <3>3. conn[Owner[r]] = "closed" => conn'[Owner[r]] = "closed"
      BY <3>1, ConnGoesOn
    <3>4. QED BY <1>2, <1>3, <3>1, <3>2, <3>3
  <2>3. \A i \in Ids : players'[i] # None => players[i] # None /\ answeredFor'[i] = answeredFor[i]
    BY DEF TypeOK, ConnStep, AllocSessionId, ServerFull, OnAccept, DisconnectSession,
           FindPlayer,
           RemovePlayer, ReleaseDbId, ClearSession, FreeSessionId, GotoC, HasId, worldVars
  <2>4. QED BY <1>2, <2>1, <2>2, <2>3 DEF AskedInv
<1>5. AnswersItsConnection'
  <2> SUFFICES ASSUME NEW i \in Ids, players'[i] # None
               PROVE  \/ playerConn'[i] = Owner[answeredFor'[i]]
                      \/ conn'[Owner[answeredFor'[i]]] = "closed"
    BY DEF AnswersItsConnection
  <2>1. players[i] # None /\ answeredFor'[i] = answeredFor[i] /\ playerConn'[i] = playerConn[i]
    BY DEF TypeOK, ConnStep, AllocSessionId, ServerFull, OnAccept, DisconnectSession,
           FindPlayer,
           RemovePlayer, ReleaseDbId, ClearSession, FreeSessionId, GotoC, HasId, worldVars
  <2>2. Owner[answeredFor[i]] \in Conns
    BY <1>1, <2>1 DEF AskedInv
  <2>3. QED BY <2>1, <2>2, ConnGoesOn DEF AnswersItsConnection
<1>6. QED BY <1>4, <1>5

(* Whoever GetSession finds under the id of a request is the connection    *)
(* that asked, unless that one is closed.                                  *)
LEMMA FindsItsOwner ==
  ASSUME IdsInv, AskedInv, NEW r \in Requests, req[r] # "unsent", sessions[reqId[r]] # None
  PROVE  /\ Known(sessions[reqId[r]]) /\ sessions[reqId[r]] \in Conns
         /\ sessions[reqId[r]] = Owner[r] \/ conn[Owner[r]] = "closed"
<1> DEFINE s == sessions[reqId[r]]
<1>1. Owner[r] \in Conns /\ reqId[r] \in Ids /\ reqId[r] = sid[Owner[r]]
  BY LoginAssumption DEF AskedInv, Known
<1>2. s \in Conns /\ conn[s] \in Up /\ sid[s] = reqId[r]
  BY <1>1 DEF IdsInv, IdsNotShared, TypeOK
<1>3. HasId(s) /\ Known(s)
  BY <1>1, <1>2 DEF HasId, Up, Known
<1>4. conn[Owner[r]] \notin {"away", "accepted"}
  BY DEF AskedInv, Known
<1>5. conn[Owner[r]] = "closed" \/ HasId(Owner[r])
  BY <1>1, <1>4 DEF HasId, IdsInv, IdsNotShared, TypeOK
<1>6. QED BY <1>1, <1>2, <1>3, <1>5 DEF IdsInv, IdsNotShared

LEMMA LoginKeepsAsked ==
  ASSUME IdsInv, AskedInv, AnswersItsConnection, NEW r \in Requests, LoginStep(r)
  PROVE  AskedInv' /\ AnswersItsConnection'
<1> USE DEF GotoR, sessionVars, worldVars
<1>1. Owner \in [Requests -> Conns] /\ TypeOK
  BY LoginAssumption DEF IdsInv, IdsNotShared
<1>2. UNCHANGED <<conn, sid>>
  BY DEF LoginStep, ProcessLogin, LoadRow, LoadFails, OnLoginDBLoaded, TryClaimDbId,
         DuplicateLogin,
         AddPlayer, SpawnFull
<1>3. ASSUME NEW n \in Characters, ProcessLogin(r, n) PROVE AskedInv' /\ AnswersItsConnection'
  <2>1. Known(Owner[r]) /\ conn[Owner[r]] = "open" /\ Owner[r] \in Conns
    BY <1>1, <1>3 DEF ProcessLogin, IdsInv, HasId, Known
  <2>2. AskedInv'
    BY <1>1, <1>2, <1>3, <2>1 DEF ProcessLogin, AskedInv, Known, TypeOK
  <2>3. QED BY <1>2, <1>3, <2>2 DEF ProcessLogin, AnswersItsConnection
<1>4. CASE LoadRow(r) \/ LoadFails(r) \/ TryClaimDbId(r) \/ DuplicateLogin(r) \/ SpawnFull(r)
  <2>1. /\ UNCHANGED <<char, reqId, found, players, playerConn, answeredFor>>
        /\ req[r] # "unsent" /\ \A q \in Requests \ {r} : req'[q] = req[q]
        /\ req'[r] \in {"claiming", "spawning"} => req[r] \in {"claiming", "spawning"}
    BY <1>1, <1>4 DEF LoadRow, LoadFails, TryClaimDbId, DuplicateLogin, SpawnFull, TypeOK
  <2>2. QED BY <1>2, <2>1 DEF AskedInv, AnswersItsConnection, Known
<1>5. CASE OnLoginDBLoaded(r)
  <2>1. /\ UNCHANGED <<char, reqId, players, playerConn, answeredFor>>
        /\ req[r] = "loaded" /\ found'[r] = sessions[reqId[r]]
        /\ \A q \in Requests \ {r} : req'[q] = req[q] /\ found'[q] = found[q]
        /\ req'[r] = IF sessions[reqId[r]] = None THEN "done" ELSE "claiming"
    BY <1>1, <1>5 DEF OnLoginDBLoaded, TypeOK
  <2>2. req'[r] \in {"claiming", "spawning"} =>
           Known(found'[r]) /\ (found'[r] = Owner[r] \/ conn[Owner[r]] = "closed")
    BY <2>1, FindsItsOwner
  <2>3. QED BY <1>2, <2>1, <2>2 DEF AskedInv, AnswersItsConnection, Known
<1>6. CASE AddPlayer(r)
  <2> DEFINE i == sid[found[r]]
  <2>1. i \in Ids /\ (found[r] = Owner[r] \/ conn[Owner[r]] = "closed")
    BY <1>6 DEF AddPlayer, AskedInv, Known
  <2>2. /\ UNCHANGED <<char, reqId, found>>
        /\ req[r] = "spawning" /\ req'[r] = "done" /\ \A q \in Requests \ {r} : req'[q] = req[q]
        /\ playerConn'[i] = found[r] /\ answeredFor'[i] = r
        /\ \A j \in Ids \ {i} : /\ players'[j] = players[j] /\ playerConn'[j] = playerConn[j]
                                /\ answeredFor'[j] = answeredFor[j]
    BY <1>1, <1>6, <2>1 DEF AddPlayer, TypeOK
  <2>3. AskedInv'
    BY <1>2, <2>2 DEF AskedInv, Known
  <2>4. QED BY <1>2, <2>1, <2>2, <2>3 DEF AnswersItsConnection
<1>7. QED BY <1>3, <1>4, <1>5, <1>6 DEF LoginStep

-----------------------------------------------------------------------------
(* Claims                                                                  *)

HeldInv == HeldOnce /\ HeldIsClaimed /\ ClaimsHaveHolders

(* Steps at which nobody gets or gives back a character.                   *)
LEMMA HeldKept ==
  ASSUME HeldInv, UNCHANGED <<players, left, activeDbIds, orphaned>>,
         \A r \in Requests : (Spawning(r)' <=> Spawning(r)) /\ (Spawning(r) => char'[r] = char[r]),
         \A c \in Conns : /\ Returning(c)' <=> Returning(c)
                          /\ conn[c] = "removing" <=> conn'[c] = "removing"
                          /\ Returning(c) => sid'[c] = sid[c]
  PROVE  HeldInv'
<1>1. HeldOnce'
  BY DEF HeldInv, HeldOnce
<1>2. HeldIsClaimed'
  BY DEF HeldInv, HeldIsClaimed
<1>3. \A n : InUse(n)' <=> InUse(n)
  BY DEF InUse, Spawning, Returning
<1>4. ClaimsHaveHolders'
  BY <1>3 DEF HeldInv, ClaimsHaveHolders
<1>5. QED BY <1>1, <1>2, <1>4 DEF HeldInv

LEMMA FindPlayerKeepsHeld ==
  ASSUME IdsInv, HeldInv, NEW c \in Conns, FindPlayer(c)
  PROVE  HeldInv'
<1> DEFINE n == players[sid[c]]
<1>1. TypeOK /\ HasId(c) /\ sid[c] \in Ids /\ conn[c] = "leaving"
  BY DEF IdsInv, IdsNotShared, FindPlayer, GotoC, HasId
<1>2. /\ UNCHANGED <<players, playerConn, activeDbIds, orphaned, sid, req, char>>
      /\ left'[c] = n /\ conn'[c] = IF n = None THEN "clearing" ELSE "removing"
      /\ \A d \in Conns \ {c} : left'[d] = left[d] /\ conn'[d] = conn[d]
  BY <1>1 DEF FindPlayer, GotoC, TypeOK, worldVars, reqVars
<1>3. /\ \A d \in Conns \ {c} : Returning(d)' <=> Returning(d)
      /\ Returning(c)' <=> n # None
      /\ ~Returning(c)
  BY <1>1, <1>2 DEF Returning
<1>4. \A d \in Conns : Returning(d) => left[d] # n
  <2> SUFFICES ASSUME NEW d \in Conns, Returning(d), left[d] = n PROVE FALSE
    OBVIOUS
  <2>1. conn[d] = "removing" /\ sid[d] = sid[c]
    BY <1>1 DEF HeldInv, HeldOnce
  <2>2. QED BY <1>1, <2>1 DEF IdsInv, IdsNotShared, HasId
<1>5. HeldOnce'
  <2>1. \A d, e \in Conns : Returning(d)' /\ Returning(e)' /\ left'[d] = left'[e] => d = e
    BY <1>2, <1>3, <1>4 DEF HeldInv, HeldOnce
  <2>2. \A r \in Requests, d \in Conns : Spawning(r)' /\ Returning(d)' => left'[d] # char'[r]
    BY <1>1, <1>2, <1>3 DEF HeldInv, HeldOnce, Spawning
  <2>3. \A d \in Conns, i \in Ids :
           Returning(d)' /\ players'[i] = left'[d] => conn'[d] = "removing" /\ i = sid'[d]
    BY <1>1, <1>2, <1>3 DEF HeldInv, HeldOnce
  <2>4. QED BY <1>2, <2>1, <2>2, <2>3 DEF HeldInv, HeldOnce, Spawning
<1>6. HeldIsClaimed'
  BY <1>1, <1>2, <1>3 DEF HeldInv, HeldIsClaimed, Spawning
<1>7. \A m \in Characters : InUse(m)' <=> InUse(m)
  BY <1>1, <1>2, <1>3, LoginAssumption DEF InUse, Returning
<1>8. ClaimsHaveHolders'
  BY <1>1, <1>2, <1>7 DEF HeldInv, ClaimsHaveHolders, TypeOK
<1>9. QED BY <1>5, <1>6, <1>8 DEF HeldInv

LEMMA RemovePlayerKeepsHeld ==
  ASSUME IdsInv, HeldInv, NEW c \in Conns, RemovePlayer(c)
  PROVE  HeldInv'
<1> DEFINE i == sid[c]
<1>1. TypeOK /\ HasId(c) /\ i \in Ids /\ conn[c] = "removing" /\ Returning(c)
  BY DEF IdsInv, IdsNotShared, RemovePlayer, GotoC, HasId, Returning
<1>2. /\ UNCHANGED <<left, activeDbIds, sid, req, char>>
      /\ orphaned' = orphaned \cup Abandoned(i)
      /\ players'[i] = None /\ \A j \in Ids \ {i} : players'[j] = players[j]
      /\ conn'[c] = "releasing" /\ \A d \in Conns \ {c} : conn'[d] = conn[d]
  BY <1>1 DEF RemovePlayer, GotoC, TypeOK, worldVars, reqVars
<1>3. \A d \in Conns : Returning(d)' <=> Returning(d)
  BY <1>1, <1>2 DEF Returning
<1>4. \A d \in Conns : Returning(d) => left[d] \in Characters /\ left[d] # None
  BY <1>1, LoginAssumption DEF HeldInv, HeldIsClaimed, TypeOK
<1>5. HeldOnce'
  <2>1. \A d \in Conns, j \in Ids :
           Returning(d)' /\ players'[j] = left'[d] => conn'[d] = "removing" /\ j = sid'[d]
    BY <1>1, <1>2, <1>3, <1>4 DEF HeldInv, HeldOnce
  <2>2. \A r \in Requests, j \in Ids : Spawning(r)' => players'[j] # char'[r]
    <3>1. \A r \in Requests : Spawning(r) => char[r] # None
      BY <1>1, LoginAssumption DEF HeldInv, HeldIsClaimed, TypeOK
    <3>2. QED BY <1>2, <3>1 DEF HeldInv, HeldOnce, Spawning
  <2>3. \A j, k \in Ids : players'[j] # None /\ players'[j] = players'[k] => j = k
    BY <1>2 DEF HeldInv, HeldOnce
  <2>4. QED BY <1>2, <1>3, <2>1, <2>2, <2>3 DEF HeldInv, HeldOnce, Spawning
<1>6. HeldIsClaimed'
  BY <1>2, <1>3 DEF HeldInv, HeldIsClaimed, Spawning
<1>7. \A m \in Characters : InUse(m)' <=> InUse(m) /\ m \notin Abandoned(i)
  <2> SUFFICES ASSUME NEW m \in Characters PROVE InUse(m)' <=> InUse(m) /\ m \notin Abandoned(i)
    OBVIOUS
  <2>1. m # None
    BY LoginAssumption
  <2>2. InUse(m)' <=> \/ \E j \in Ids \ {i} : players[j] = m
                      \/ \E r \in Requests : Spawning(r) /\ char[r] = m
                      \/ \E d \in Conns : Returning(d) /\ left[d] = m
    BY <1>1, <1>2, <1>3, <2>1 DEF InUse, Spawning, Returning
  <2>3. InUse(m) <=> \/ \E j \in Ids : players[j] = m
                     \/ \E r \in Requests : Spawning(r) /\ char[r] = m
                     \/ \E d \in Conns : Returning(d) /\ left[d] = m
    BY DEF InUse, Spawning, Returning
  <2>4. m \in Abandoned(i) <=> m = players[i] /\ ~\E d \in Conns : Returning(d) /\ left[d] = m
    BY <2>1 DEF Abandoned, Returning
  <2>5. m = players[i] => /\ ~\E j \in Ids \ {i} : players[j] = m
                          /\ ~\E r \in Requests : Spawning(r) /\ char[r] = m
    BY <1>1, <2>1 DEF HeldInv, HeldOnce
  <2>6. QED BY <1>1, <2>2, <2>3, <2>4, <2>5
<1>8. Abandoned(i) \subseteq activeDbIds
  BY <1>1 DEF Abandoned, HeldInv, HeldIsClaimed
<1>9. ClaimsHaveHolders'
  BY <1>1, <1>2, <1>7, <1>8 DEF HeldInv, ClaimsHaveHolders, TypeOK
<1>10. QED BY <1>5, <1>6, <1>9 DEF HeldInv

LEMMA ReleaseKeepsHeld ==
  ASSUME IdsInv, HeldInv, NEW c \in Conns, ReleaseDbId(c)
  PROVE  HeldInv'
<1>1. TypeOK /\ conn[c] = "releasing" /\ Returning(c) /\ left[c] \in activeDbIds
  BY DEF IdsInv, IdsNotShared, ReleaseDbId, GotoC, Returning, HeldInv, HeldIsClaimed
<1>2. /\ UNCHANGED <<left, players, orphaned, sid, req, char>>
      /\ activeDbIds' = activeDbIds \ {left[c]}
      /\ conn'[c] = "clearing" /\ \A d \in Conns \ {c} : conn'[d] = conn[d]
  BY <1>1 DEF ReleaseDbId, GotoC, TypeOK, reqVars
<1>3. ~Returning(c)' /\ \A d \in Conns \ {c} : Returning(d)' <=> Returning(d)
  BY <1>2 DEF Returning
<1>4. /\ \A i \in Ids : players[i] # left[c]
      /\ \A r \in Requests : Spawning(r) => char[r] # left[c]
      /\ \A d \in Conns \ {c} : Returning(d) => left[d] # left[c]
  BY <1>1 DEF HeldInv, HeldOnce
<1>5. HeldOnce'
  BY <1>2, <1>3 DEF HeldInv, HeldOnce, Spawning
<1>6. HeldIsClaimed'
  BY <1>2, <1>3, <1>4 DEF HeldInv, HeldIsClaimed, Spawning
<1>7. \A m \in Characters : InUse(m)' <=> InUse(m) /\ m # left[c]
  BY <1>1, <1>2, <1>3, <1>4 DEF InUse, Spawning, Returning
<1>8. InUse(left[c])
  BY <1>1 DEF InUse, Returning
<1>9. ClaimsHaveHolders'
  BY <1>1, <1>2, <1>7, <1>8 DEF HeldInv, ClaimsHaveHolders, TypeOK
<1>10. QED BY <1>5, <1>6, <1>9 DEF HeldInv

LEMMA TryClaimKeepsHeld ==
  ASSUME TypeOK, AskedInv, HeldInv, NEW r \in Requests, TryClaimDbId(r)
  PROVE  HeldInv'
<1>1. char[r] \in Characters /\ char[r] \notin activeDbIds /\ char[r] # None /\ ~Spawning(r)
  BY LoginAssumption DEF TryClaimDbId, GotoR, AskedInv, Spawning
<1>2. /\ UNCHANGED <<left, players, orphaned, sid, char, conn>>
      /\ activeDbIds' = activeDbIds \cup {char[r]}
      /\ req'[r] = "spawning" /\ \A q \in Requests \ {r} : req'[q] = req[q]
  BY DEF TryClaimDbId, GotoR, TypeOK, sessionVars
<1>3. Spawning(r)' /\ \A q \in Requests \ {r} : Spawning(q)' <=> Spawning(q)
  BY <1>2 DEF Spawning
<1>4. /\ \A i \in Ids : players[i] # char[r]
      /\ \A q \in Requests : Spawning(q) => char[q] # char[r]
      /\ \A d \in Conns : Returning(d) => left[d] # char[r]
  BY <1>1 DEF HeldInv, HeldIsClaimed
<1>5. HeldOnce'
  BY <1>2, <1>3, <1>4 DEF HeldInv, HeldOnce, Returning
<1>6. HeldIsClaimed'
  BY <1>2, <1>3 DEF HeldInv, HeldIsClaimed, Returning
<1>7. \A m \in Characters : InUse(m)' <=> InUse(m) \/ m = char[r]
  BY <1>1, <1>2, <1>3 DEF InUse, Spawning, Returning
<1>8. ClaimsHaveHolders'
  BY <1>1, <1>2, <1>7 DEF HeldInv, ClaimsHaveHolders, TypeOK
<1>9. QED BY <1>5, <1>6, <1>8 DEF HeldInv

LEMMA AddPlayerKeepsHeld ==
  ASSUME TypeOK, AskedInv, HeldInv, NEW r \in Requests, AddPlayer(r)
  PROVE  HeldInv'
<1> DEFINE i == sid[found[r]]
<1>1. i \in Ids /\ Spawning(r) /\ char[r] \in Characters /\ char[r] # None /\ char[r] \in activeDbIds
  BY LoginAssumption DEF AddPlayer, GotoR, AskedInv, Known, Spawning, HeldInv, HeldIsClaimed
<1>2. /\ UNCHANGED <<left, activeDbIds, sid, char, conn>>
      /\ orphaned' = orphaned \cup Abandoned(i)
      /\ players'[i] = char[r] /\ \A j \in Ids \ {i} : players'[j] = players[j]
      /\ req'[r] = "done" /\ \A q \in Requests \ {r} : req'[q] = req[q]
  BY <1>1 DEF AddPlayer, GotoR, TypeOK, sessionVars
<1>3. ~Spawning(r)' /\ \A q \in Requests \ {r} : Spawning(q)' <=> Spawning(q)
  BY <1>2 DEF Spawning
<1>4. \A d \in Conns : Returning(d)' <=> Returning(d)
  BY <1>2 DEF Returning
<1>5. /\ \A j \in Ids : players[j] # char[r]
      /\ \A q \in Requests \ {r} : Spawning(q) => char[q] # char[r]
      /\ \A d \in Conns : Returning(d) => left[d] # char[r]
  BY <1>1 DEF HeldInv, HeldOnce
<1>6. HeldOnce'
  <2>1. \A j, k \in Ids : players'[j] # None /\ players'[j] = players'[k] => j = k
    BY <1>2, <1>5 DEF HeldInv, HeldOnce
  <2>2. \A q \in Requests, j \in Ids : Spawning(q)' => players'[j] # char'[q]
    BY <1>2, <1>3, <1>5 DEF HeldInv, HeldOnce
  <2>3. \A d \in Conns, j \in Ids :
           Returning(d)' /\ players'[j] = left'[d] => conn'[d] = "removing" /\ j = sid'[d]
    BY <1>2, <1>4, <1>5 DEF HeldInv, HeldOnce
  <2>4. QED BY <1>2, <1>3, <1>4, <2>1, <2>2, <2>3 DEF HeldInv, HeldOnce
<1>7. HeldIsClaimed'
  BY <1>1, <1>2, <1>3, <1>4 DEF HeldInv, HeldIsClaimed
<1>8. \A m \in Characters : InUse(m)' <=> InUse(m) /\ m \notin Abandoned(i)
  <2> SUFFICES ASSUME NEW m \in Characters PROVE InUse(m)' <=> InUse(m) /\ m \notin Abandoned(i)
    OBVIOUS
  <2>1. m # None
    BY LoginAssumption
  <2>2. InUse(m)' <=> \/ m = char[r]
                      \/ \E j \in Ids \ {i} : players[j] = m
                      \/ \E q \in Requests \ {r} : Spawning(q) /\ char[q] = m
                      \/ \E d \in Conns : Returning(d) /\ left[d] = m
    BY <1>1, <1>2, <1>3, <1>4 DEF InUse, Spawning, Returning
  <2>3. InUse(m) <=> \/ \E j \in Ids : players[j] = m
                     \/ \E q \in Requests : Spawning(q) /\ char[q] = m
                     \/ \E d \in Conns : Returning(d) /\ left[d] = m
    BY DEF InUse, Spawning, Returning
  <2>4. m \in Abandoned(i) <=> m = players[i] /\ ~\E d \in Conns : Returning(d) /\ left[d] = m
    BY <2>1 DEF Abandoned, Returning
  <2>5. m = players[i] => /\ ~\E j \in Ids \ {i} : players[j] = m
                          /\ ~\E q \in Requests : Spawning(q) /\ char[q] = m
    BY <1>1, <2>1 DEF HeldInv, HeldOnce
  <2>6. QED BY <1>1, <1>5, <2>2, <2>3, <2>4, <2>5
<1>9. Abandoned(i) \subseteq activeDbIds
  BY <1>1 DEF Abandoned, HeldInv, HeldIsClaimed
<1>10. ClaimsHaveHolders'
  BY <1>2, <1>8, <1>9 DEF HeldInv, ClaimsHaveHolders, TypeOK
<1>11. QED BY <1>6, <1>7, <1>10 DEF HeldInv

LEMMA SpawnFullKeepsHeld ==
  ASSUME TypeOK, AskedInv, HeldInv, NEW r \in Requests, SpawnFull(r)
  PROVE  HeldInv'
<1>1. Spawning(r) /\ char[r] \in activeDbIds
  BY DEF SpawnFull, GotoR, Spawning, HeldInv, HeldIsClaimed
<1>2. /\ UNCHANGED <<left, players, activeDbIds, sid, char, conn>>
      /\ orphaned' = orphaned \cup {char[r]}
      /\ req'[r] = "done" /\ \A q \in Requests \ {r} : req'[q] = req[q]
  BY DEF SpawnFull, GotoR, TypeOK, sessionVars, worldVars
<1>3. ~Spawning(r)' /\ \A q \in Requests \ {r} : Spawning(q)' <=> Spawning(q)
  BY <1>2 DEF Spawning
<1>4. /\ \A j \in Ids : players[j] # char[r]
      /\ \A q \in Requests \ {r} : Spawning(q) => char[q] # char[r]
      /\ \A d \in Conns : Returning(d) => left[d] # char[r]
  BY <1>1 DEF HeldInv, HeldOnce
<1>5. HeldOnce'
  BY <1>2, <1>3 DEF HeldInv, HeldOnce, Returning
<1>6. HeldIsClaimed'
  BY <1>2, <1>3 DEF HeldInv, HeldIsClaimed, Returning
<1>7. \A m \in Characters : InUse(m)' <=> InUse(m) /\ m # char[r]
  BY <1>2, <1>3, <1>4 DEF InUse, Spawning, Returning
<1>8. ClaimsHaveHolders'
  BY <1>1, <1>2, <1>7 DEF HeldInv, ClaimsHaveHolders, TypeOK
<1>9. QED BY <1>5, <1>6, <1>8 DEF HeldInv

LEMMA HeldStep ==
  ASSUME IdsInv, AskedInv, HeldInv, Next
  PROVE  HeldInv'
<1> USE DEF GotoC, GotoR, sessionVars, worldVars, reqVars
<1>1. TypeOK
  BY DEF IdsInv, IdsNotShared
<1>2. ASSUME NEW c \in Conns, ConnStep(c) PROVE HeldInv'
  <2>1. CASE \/ AllocSessionId(c) \/ ServerFull(c) \/ OnAccept(c)
             \/ DisconnectSession(c) \/ ClearSession(c) \/ FreeSessionId(c)
    <3>1. UNCHANGED <<players, left, activeDbIds, orphaned, req, char>>
      BY <2>1 DEF AllocSessionId, ServerFull, OnAccept, DisconnectSession, ClearSession,
         FreeSessionId
    <3>2. \A d \in Conns : /\ Returning(d)' <=> Returning(d)
                           /\ conn[d] = "removing" <=> conn'[d] = "removing"
                           /\ Returning(d) => sid'[d] = sid[d]
      BY <1>1, <2>1 DEF AllocSessionId, ServerFull, OnAccept, DisconnectSession, ClearSession,
                        FreeSessionId, Returning, TypeOK
    <3>3. QED BY <3>1, <3>2, HeldKept DEF Spawning
  <2>2. QED BY <1>2, <2>1, FindPlayerKeepsHeld, RemovePlayerKeepsHeld, ReleaseKeepsHeld
               DEF ConnStep
<1>3. ASSUME NEW r \in Requests, LoginStep(r) PROVE HeldInv'
  <2>1. CASE \/ \E n \in Characters : ProcessLogin(r, n)
             \/ LoadRow(r) \/ LoadFails(r) \/ OnLoginDBLoaded(r) \/ DuplicateLogin(r)
    <3>1. UNCHANGED <<players, left, activeDbIds, orphaned, conn, sid>>
      BY <2>1 DEF ProcessLogin, LoadRow, LoadFails, OnLoginDBLoaded, DuplicateLogin
    <3>2. \A q \in Requests : (Spawning(q)' <=> Spawning(q)) /\ (Spawning(q) => char'[q] = char[q])
      BY <1>1, <2>1 DEF ProcessLogin, LoadRow, LoadFails, OnLoginDBLoaded, DuplicateLogin,
         Spawning, TypeOK
    <3>3. QED BY <3>1, <3>2, HeldKept DEF Returning
  <2>2. QED BY <1>1, <1>3, <2>1, TryClaimKeepsHeld, AddPlayerKeepsHeld, SpawnFullKeepsHeld
               DEF LoginStep
<1>4. QED BY <1>2, <1>3 DEF Next

-----------------------------------------------------------------------------
LEMMA LoginInvStep == LoginInv /\ [Next]_vars => LoginInv'
<1> SUFFICES ASSUME LoginInv, [Next]_vars PROVE LoginInv'
  OBVIOUS
<1> USE DEF LoginInv
<1>1. TypeOK /\ \A c \in Conns : HasId(c) => sid[c] \in Ids
  BY DEF IdsInv, IdsNotShared
<1>2. ASSUME NEW c \in Conns, ConnStep(c) PROVE LoginInv'
  <2>1. IdsInv' /\ AskedInv' /\ AnswersItsConnection'
    BY <1>1, <1>2, ConnKeepsIds, ConnKeepsAsked
  <2>2. HeldInv'
    BY <1>2, HeldStep DEF HeldInv, Next
  <2>3. QED BY <2>1, <2>2 DEF HeldInv
<1>3. ASSUME NEW r \in Requests, LoginStep(r) PROVE LoginInv'
  <2>1. IdsInv' /\ AskedInv' /\ AnswersItsConnection'
    BY <1>3, LoginKeepsIds, LoginKeepsAsked
  <2>2. HeldInv'
    BY <1>3, HeldStep DEF HeldInv, Next
  <2>3. QED BY <2>1, <2>2 DEF HeldInv
<1>4. CASE UNCHANGED vars
  <2>1. IdsInv' /\ AskedInv' /\ AnswersItsConnection'
    BY <1>4 DEF vars, IdsInv, IdsNotShared, TypeOK, HasId, AskedInv, Known, AnswersItsConnection
  <2>2. HeldInv'
    BY <1>4, HeldKept DEF vars, HeldInv, Spawning, Returning
  <2>3. QED BY <2>1, <2>2 DEF HeldInv
<1>5. QED BY <1>2, <1>3, <1>4 DEF Next

THEOREM LoginInvAlways == Spec => []LoginInv
BY LoginInit, LoginInvStep, PTL DEF Spec

(* AllocSessionId and FreeSessionId keep every session id either in the    *)
(* pool or with one connection.                                            *)
THEOREM IdsNotSharedAlways == Spec => []IdsNotShared
<1>1. LoginInv => IdsNotShared
  BY DEF LoginInv, IdsInv
<1>2. QED BY LoginInvAlways, <1>1, PTL

(* TryClaimDbId keeps a character from being in the world twice, and the   *)
(* claim stands for as long as the character is in the world, whatever     *)
(* overwrites or erases entries of m_players.                              *)
THEOREM OneBodyAlways == Spec => []OneBodyPerCharacter
<1>1. LoginInv => OneBodyPerCharacter
  BY DEF LoginInv, HeldOnce, HeldIsClaimed, OneBodyPerCharacter
<1>2. QED BY LoginInvAlways, <1>1, PTL

(* OnLoginDBLoaded, which knows the session id only, never gives the       *)
(* answer to another connection while the one that asked is not closed.    *)
THEOREM AnswersItsConnectionAlways == Spec => []AnswersItsConnection
<1>1. LoginInv => AnswersItsConnection
  BY DEF LoginInv
<1>2. QED BY LoginInvAlways, <1>1, PTL

(* A claim has somebody who will give it back, but for the characters that *)
(* a full spawn area or an overwritten entry of m_players left orphaned.   *)
THEOREM ClaimsHaveHoldersAlways == Spec => []ClaimsHaveHolders
<1>1. LoginInv => ClaimsHaveHolders
  BY DEF LoginInv
<1>2. QED BY LoginInvAlways, <1>1, PTL

-----------------------------------------------------------------------------
(* What happens to one character implements the abstract claim.            *)

(* A step that changes neither entries, claims nor orphans is invisible.   *)
LEMMA StageKept ==
  ASSUME UNCHANGED <<players, activeDbIds, orphaned>>, NEW n \in Characters
  PROVE  Stage(n)' = Stage(n)
BY DEF Stage

(* A held character is not lost, and in or out of the world by m_players.  *)
LEMMA HeldStage ==
  ASSUME HeldInv, NEW n \in Characters, InUse(n)
  PROVE  /\ n \in activeDbIds /\ n \notin orphaned
         /\ Stage(n) = IF \E i \in Ids : players[i] = n THEN "in" ELSE "held"
<1>1. n \in activeDbIds
  BY LoginAssumption DEF HeldInv, HeldIsClaimed, InUse, Spawning, Returning
<1>2. QED BY <1>1 DEF HeldInv, ClaimsHaveHolders, Stage

(* Whatever entry is overwritten or erased, the character that was there   *)
(* leaves the world or is lost, and no other notices.                      *)
LEMMA PutOut ==
  ASSUME HeldInv, NEW i \in Ids, NEW n \in Characters, UNCHANGED activeDbIds,
         orphaned' = orphaned \cup Abandoned(i), players'[i] # n,
         \A j \in Ids \ {i} : players'[j] = players[j]
  PROVE  [Of(n)!Next]_(Stage(n))
<1>1. n # None
  BY LoginAssumption
<1>2. CASE players[i] = n
  <2>1. InUse(n)
    BY <1>2 DEF InUse
  <2>2. n \in activeDbIds /\ n \notin orphaned /\ Stage(n) = "in"
    BY <1>2, <2>1, HeldStage
  <2>3. \A j \in Ids : players'[j] # n
    BY <1>1, <1>2 DEF HeldInv, HeldOnce
  <2>4. CASE n \in Abandoned(i)
    <3>1. Stage(n)' = "lost"
      BY <2>4 DEF Stage
    <3>2. QED BY <2>2, <3>1 DEF Of!Lose, Of!Next
  <2>5. CASE n \notin Abandoned(i)
    <3>1. Stage(n)' = "held"
      BY <2>2, <2>3, <2>5 DEF Stage
    <3>2. QED BY <2>2, <3>1 DEF Of!Leave, Of!Next
  <2>6. QED BY <2>4, <2>5
<1>3. CASE players[i] # n
  <2>1. n \notin Abandoned(i)
    BY <1>3 DEF Abandoned
  <2>2. (\E j \in Ids : players'[j] = n) <=> (\E j \in Ids : players[j] = n)
    BY <1>3
  <2>3. Stage(n)' = Stage(n)
    BY <2>1, <2>2 DEF Stage
  <2>4. QED BY <2>3
<1>4. QED BY <1>2, <1>3

LEMMA ConnClaims ==
  ASSUME LoginInv, NEW c \in Conns, ConnStep(c), NEW n \in Characters
  PROVE  [Of(n)!Next]_(Stage(n))
<1> USE DEF GotoC, worldVars, reqVars
<1>1. TypeOK /\ HeldInv
  BY DEF LoginInv, IdsInv, IdsNotShared, HeldInv
<1>2. CASE \/ AllocSessionId(c) \/ ServerFull(c) \/ OnAccept(c) \/ DisconnectSession(c)
           \/ FindPlayer(c) \/ ClearSession(c) \/ FreeSessionId(c)
  BY <1>2, StageKept DEF AllocSessionId, ServerFull, OnAccept, DisconnectSession, FindPlayer,
     ClearSession, FreeSessionId
<1>3. CASE RemovePlayer(c)
  <2>1. sid[c] \in Ids
    BY <1>3 DEF RemovePlayer, HasId, LoginInv, IdsInv
  <2>2. players'[sid[c]] = None /\ \A j \in Ids \ {sid[c]} : players'[j] = players[j]
    BY <1>1, <1>3, <2>1 DEF RemovePlayer, TypeOK
  <2>3. players'[sid[c]] # n
    BY <2>2, LoginAssumption
  <2>4. QED BY <1>1, <1>3, <2>1, <2>2, <2>3, PutOut DEF RemovePlayer
<1>4. CASE ReleaseDbId(c)
  <2>1. activeDbIds' = activeDbIds \ {left[c]} /\ UNCHANGED <<players, orphaned>>
    BY <1>4 DEF ReleaseDbId
  <2>2. CASE n = left[c]
    <3>1. conn[c] = "releasing" /\ Returning(c) /\ InUse(n)
      BY <1>4, <2>2 DEF ReleaseDbId, Returning, InUse
    <3>2. \A i \in Ids : players[i] # n
      BY <1>1, <2>2, <3>1 DEF HeldInv, HeldOnce
    <3>3. n \notin orphaned /\ Stage(n) = "held"
      BY <1>1, <3>1, <3>2, HeldStage
    <3>4. Stage(n)' = "free"
      BY <2>1, <2>2, <3>3 DEF Stage
    <3>5. QED BY <3>3, <3>4 DEF Of!GiveBack, Of!Next
  <2>3. CASE n # left[c]
    BY <2>1, <2>3 DEF Stage
  <2>4. QED BY <2>2, <2>3
<1>5. QED BY <1>2, <1>3, <1>4 DEF ConnStep

LEMMA LoginClaims ==
  ASSUME LoginInv, NEW r \in Requests, LoginStep(r), NEW n \in Characters
  PROVE  [Of(n)!Next]_(Stage(n))
<1> USE DEF GotoR, worldVars
<1>1. TypeOK /\ HeldInv
  BY DEF LoginInv, IdsInv, IdsNotShared, HeldInv
<1>2. CASE \/ \E m \in Characters : ProcessLogin(r, m)
           \/ LoadRow(r) \/ LoadFails(r) \/ OnLoginDBLoaded(r) \/ DuplicateLogin(r)
  BY <1>2, StageKept DEF ProcessLogin, LoadRow, LoadFails, OnLoginDBLoaded, DuplicateLogin
<1>3. CASE TryClaimDbId(r)
  <2>1. activeDbIds' = activeDbIds \cup {char[r]} /\ UNCHANGED <<players, orphaned>>
    BY <1>3 DEF TryClaimDbId
  <2>2. CASE n = char[r]
    <3>1. n \notin activeDbIds
      BY <1>3, <2>2 DEF TryClaimDbId
    <3>2. n \notin orphaned /\ \A i \in Ids : players[i] # n
      BY <1>1, <3>1, LoginAssumption DEF HeldInv, HeldIsClaimed, ClaimsHaveHolders
    <3>3. Stage(n) = "free" /\ Stage(n)' = "held"
      BY <2>1, <2>2, <3>1, <3>2 DEF Stage
    <3>4. QED BY <3>3 DEF Of!Take, Of!Next
  <2>3. CASE n # char[r]
    BY <2>1, <2>3 DEF Stage
  <2>4. QED BY <2>2, <2>3
<1>4. CASE AddPlayer(r)
  <2> DEFINE i == sid[found[r]]
  <2>1. i \in Ids /\ Spawning(r)
    BY <1>4 DEF AddPlayer, LoginInv, AskedInv, Known, Spawning
  <2>2. /\ players'[i] = char[r] /\ \A j \in Ids \ {i} : players'[j] = players[j]
        /\ UNCHANGED activeDbIds /\ orphaned' = orphaned \cup Abandoned(i)
    BY <1>1, <1>4, <2>1 DEF AddPlayer, TypeOK
  <2> HIDE DEF i
  <2>3. CASE n = char[r]
    <3>1. InUse(n) /\ \A j \in Ids : players[j] # n
      BY <1>1, <2>1, <2>3 DEF InUse, Spawning, HeldInv, HeldOnce
    <3>2. n \in activeDbIds /\ n \notin orphaned /\ Stage(n) = "held"
      BY <1>1, <3>1, HeldStage
    <3>3. n \notin Abandoned(i)
      BY <2>1, <3>1 DEF Abandoned
    <3>4. Stage(n)' = "in"
      BY <2>1, <2>2, <2>3, <3>2, <3>3 DEF Stage
    <3>5. QED BY <3>2, <3>4 DEF Of!Enter, Of!Next
  <2>4. CASE n # char[r]
    BY <1>1, <2>1, <2>2, <2>4, PutOut
  <2>5. QED BY <2>3, <2>4
<1>5. CASE SpawnFull(r)
  <2>1. orphaned' = orphaned \cup {char[r]} /\ UNCHANGED <<players, activeDbIds>> /\ Spawning(r)
    BY <1>5 DEF SpawnFull, Spawning
  <2>2. CASE n = char[r]
    <3>1. InUse(n) /\ \A j \in Ids : players[j] # n
      BY <1>1, <2>1, <2>2 DEF InUse, Spawning, HeldInv, HeldOnce
    <3>2. Stage(n) = "held"
      BY <1>1, <3>1, HeldStage
    <3>3. Stage(n)' = "lost"
      BY <2>1, <2>2 DEF Stage
    <3>4. QED BY <3>2, <3>3 DEF Of!Lose, Of!Next
  <2>3. CASE n # char[r]
    BY <2>1, <2>3 DEF Stage
  <2>4. QED BY <2>2, <2>3
<1>6. QED BY <1>2, <1>3, <1>4, <1>5 DEF LoginStep

(* m_activeDbIds, m_players and the callbacks between them implement the   *)
(* abstract claim for every character: TryClaimDbId before AddPlayer, the  *)
(* entry gone before ReleaseDbId, and no way back for a lost claim.        *)
THEOREM ImplementsClaim == Spec => RefinesClaim
<1>1. Init => \A n \in Characters : Of(n)!Init
  BY DEF Init, Of!Init, Stage
<1>2. LoginInv /\ [Next]_vars => \A n \in Characters : [Of(n)!Next]_(Stage(n))
  <2> SUFFICES ASSUME LoginInv, [Next]_vars, NEW n \in Characters
               PROVE  [Of(n)!Next]_(Stage(n))
    OBVIOUS
  <2>1. CASE UNCHANGED vars
    BY <2>1, StageKept DEF vars
  <2>2. QED BY <2>1, ConnClaims, LoginClaims DEF Next
<1>3. QED BY LoginInvAlways, <1>1, <1>2, PTL DEF Spec, RefinesClaim

-----------------------------------------------------------------------------
(* The client program (module Client), for any width of the map, any set   *)
(* of reasons and any bounds.                                              *)

Packets ==
    [type : {"login", "stat"}] \cup [type : {"move"}, step : Steps]
    \cup [type : {"ok", "pos"}, pos : Tiles] \cup [type : {"fail"}, reason : Reasons]

NetInv == up \in Seq(Packets) /\ down \in Seq(Packets)

InUp(type)   == \E i \in DOMAIN up : up[i].type = type
InDown(type) == \E i \in DOMAIN down : down[i].type = type

\* No login is under way on the server; the player has never been in the world.
Outside == entering = "none" /\ spos = Out /\ mover = "idle" /\ killer = "idle"

\* Only one login is asked for per connection, and only the first packet asks.
OneLoginInv ==
    /\ entering \in {"none", "asked"} <=> spos = Out
    /\ spos = Out => mover = "idle" /\ killer = "idle"
    /\ main = "login" => up = <<>> /\ Outside /\ verdict = NoReason
    /\ \A i \in DOMAIN up : i > 1 => up[i].type # "login"
    /\ InUp("login") => Outside /\ verdict = NoReason /\ main # "login"
    /\ entering # "none" => verdict = NoReason
    /\ (app = "menu" => Outside /\ recv = "none" /\ ~alive)
    /\ main = "join" => ~alive
    /\ main = "login" <=> app = "connecting"
    /\ app = "menu" => main = "frame"
    /\ ~alive => up = <<>>

\* The one answer that refuses it is in one place.
FailInv ==
    /\ \A i \in DOMAIN down : down[i].type = "fail" =>
        /\ verdict # NoReason /\ down[i].reason = verdict
        /\ recv # "flag" /\ ~hasFail
        /\ \A j \in DOMAIN down : down[j].type = "fail" => j = i
    /\ recv = "flag" => verdict # NoReason /\ reason = verdict /\ ~hasFail
    /\ hasFail => verdict # NoReason /\ reason = verdict
    /\ main \in {"disconnect", "join"} /\ app = "game" =>
        /\ verdict # NoReason /\ shown = verdict
        /\ ~InDown("fail") /\ recv # "flag" /\ ~hasFail
    /\ app = "menu" => ~hasFail

\* What a handler is about to send is the player's position.
TellsInv == ~crossed =>
    /\ entering = "read" => okPos = spos
    /\ mover = "ack" => target = spos
    /\ killer \in {"stat", "move"} => revived = spos
    /\ entering = "in" /\ mover = "idle" /\ killer = "idle" => said = spos

IsPos(i) == down[i].type \in {"ok", "pos"}
NoPos == \A i \in DOMAIN down : ~IsPos(i)

\* The last position on its way is the last one sent; when none is on its way
\* the client has it, unless its own thread has written since.
LastIsSaid ==
    \A i \in DOMAIN down : IsPos(i) /\ (\A j \in DOMAIN down : j > i => ~IsPos(j)) =>
        down[i].pos = said
LastInv == alive =>
    /\ LastIsSaid
    /\ NoPos /\ recv = "setAll" => copy = said
    /\ NoPos /\ recv # "setAll" /\ known /\ wrote = "server" => me = said

\* SC_LOGIN_OK reaches a client that is in.
KnownInv ==
    /\ alive /\ ~known => recv \in {"loop", "setAll", "flag"} /\
          (entering # "in" \/ InDown("ok") \/ recv = "setAll")
    /\ known => wrote # "none"
    /\ known \/ recv = "setAll" \/ InDown("ok") => spos # Out

\* A move that was predicted will be answered, or was refused.
Pending ==
    \/ InUp("move") \/ mover # "idle" \/ ~NoPos \/ recv = "setAll"
    \/ entering # "in" \/ answer = "refused"
MoveInv == alive =>
    /\ main = "predict" /\ "main" \notin behind => Pending
    /\ wrote = "guess" => Pending

StatInv == recv = "setStat" => known /\ ("recv" \notin behind => copy = me)

ClientInv ==
    /\ ClientTypeOK /\ NetInv /\ OneLoginInv /\ FailInv /\ TellsInv
    /\ LastInv /\ KnownInv /\ MoveInv /\ StatInv

\* One packet more on its way, or none if the connection is lost; one less.
Grows(q, new, p) ==
    IF alive THEN /\ \A i \in DOMAIN q : i \in DOMAIN new /\ new[i] = q[i]
                  /\ Len(q) + 1 \in DOMAIN new /\ new[Len(q) + 1] = p
                  /\ \A i \in DOMAIN new : i \in 1 .. Len(q) + 1
                  /\ \A i \in DOMAIN q : i \in 1 .. Len(q)
             ELSE new = q

Shrinks(q, new, type) ==
    /\ 1 \in DOMAIN q /\ q[1].type = type /\ Head(q) = q[1] /\ q[1] \in Packets
    /\ \A i \in DOMAIN new : i \in Nat \ {0} /\ i + 1 \in DOMAIN q /\ new[i] = q[i + 1]
    /\ \A i \in DOMAIN q :
        i \in Nat \ {0} /\ (i > 1 => i - 1 \in DOMAIN new /\ new[i - 1] = q[i])

SentOn(p)         == up' \in Seq(Packets) /\ Grows(up, up', p) /\ Len(up) \in Nat
ToldOf(p)         == down' \in Seq(Packets) /\ Grows(down, down', p) /\ Len(down) \in Nat
ReceivedOne(type) == down' \in Seq(Packets) /\ Shrinks(down, down', type)
TakenOne(type)    == up' \in Seq(Packets) /\ Shrinks(up, up', type)

(* Append, one element at a time.                                          *)
LEMMA QueueGrows ==
    ASSUME NEW q \in Seq(Packets), NEW p \in Packets, NEW new,
           new = IF alive THEN Append(q, p) ELSE q
    PROVE  new \in Seq(Packets) /\ Grows(q, new, p) /\ Len(q) \in Nat
  BY DEF Grows

(* Tail, one element at a time.                                            *)
LEMMA QueueShrinks ==
    ASSUME NEW q \in Seq(Packets), q # <<>>, NEW type, Head(q).type = type, NEW new,
           new = Tail(q)
    PROVE  new \in Seq(Packets) /\ Shrinks(q, new, type)
  BY DEF Shrinks

\* TypeOK, one variable at a time.
Scalars ==
    /\ app \in {"menu", "connecting", "game", "over"}
    /\ main \in {"frame", "login", "input", "send", "predict", "disconnect", "join"}
    /\ guess \in Tiles /\ me \in Tiles /\ copy \in Tiles
    /\ okPos \in Tiles /\ target \in Tiles /\ revived \in Tiles
    /\ step \in Steps
    /\ reason \in Reasons \cup {NoReason} /\ shown \in Reasons \cup {NoReason}
    /\ verdict \in Reasons \cup {NoReason}
    /\ known \in BOOLEAN /\ hasFail \in BOOLEAN /\ alive \in BOOLEAN /\ crossed \in BOOLEAN
    /\ recv \in {"none", "loop", "setAll", "setStat", "flag"}
    /\ spos \in Tiles \cup {Out} /\ said \in Tiles \cup {Out}
    /\ entering \in {"none", "asked", "added", "read", "in"}
    /\ mover \in {"idle", "set", "ack"}
    /\ killer \in {"idle", "revive", "stat", "move"}
    /\ answer \in {"none", "moved", "refused"}
    /\ wrote \in {"none", "server", "guess", "outdated"}
    /\ behind \subseteq {"main", "recv"}

(* What a packet of each type carries.                                     *)
LEMMA PacketFields ==
    ASSUME NEW p \in Packets
    PROVE  /\ p.type \in Types
           /\ p.type \in {"ok", "pos"} => p.pos \in Tiles
           /\ p.type = "move" => p.step \in Steps
           /\ p.type = "fail" => p.reason \in Reasons
  BY DEF Packets, Types

(* With packets of the known types on their way, TypeOK is Scalars.        *)
LEMMA TypesAre == ASSUME NetInv PROVE ClientTypeOK <=> Scalars
<1>1. \A c \in {up, down} : \A i \in DOMAIN c : c[i].type \in Types
  <2> SUFFICES ASSUME NEW q \in Seq(Packets), NEW i \in DOMAIN q PROVE q[i].type \in Types
    BY DEF NetInv
  <2>1. q[i] \in Packets
    OBVIOUS
  <2> QED BY <2>1, PacketFields
<1> QED BY <1>1 DEF ClientTypeOK, Scalars

LEMMA TypesAreNext == ASSUME NetInv' PROVE Scalars' => ClientTypeOK'
<1>1. \A c \in {up', down'} : \A i \in DOMAIN c : c[i].type \in Types
  <2> SUFFICES ASSUME NEW q \in Seq(Packets), NEW i \in DOMAIN q PROVE q[i].type \in Types
    BY DEF NetInv
  <2>1. q[i] \in Packets
    OBVIOUS
  <2> QED BY <2>1, PacketFields
<1> QED BY <1>1 DEF ClientTypeOK, Scalars

(* Each action that sends or receives, as what it does to a queue.         *)
LEMMA SendLoginQueue ==
    ASSUME ClientTypeOK, NetInv, SendLogin
    PROVE  SentOn([type |-> "login"])
<1>1. [type |-> "login"] \in Packets
  BY DEF ClientTypeOK, Packets
<1>2. up' = IF alive THEN Append(up, [type |-> "login"]) ELSE up
  BY DEF SendLogin, Sent
<1> QED BY <1>1, <1>2, QueueGrows DEF SentOn, NetInv

LEMMA SendMoveQueue ==
    ASSUME ClientTypeOK, NetInv, SendMove
    PROVE  SentOn([type |-> "move", step |-> step])
<1>1. [type |-> "move", step |-> step] \in Packets
  BY DEF ClientTypeOK, Packets
<1>2. up' = IF alive THEN Append(up, [type |-> "move", step |-> step]) ELSE up
  BY DEF SendMove, Sent
<1> QED BY <1>1, <1>2, QueueGrows DEF SentOn, NetInv

LEMMA OnLoginOkQueue == ASSUME ClientTypeOK, NetInv, OnLoginOk PROVE ReceivedOne("ok")
<1>1. down # <<>> /\ Head(down).type = "ok" /\ down' = Tail(down)
  BY DEF OnLoginOk, Receive, FirstDown
<1> QED BY <1>1, QueueShrinks DEF ReceivedOne, NetInv

LEMMA OnStatChangeQueue ==
    ASSUME ClientTypeOK, NetInv, OnStatChange
    PROVE  ReceivedOne("stat")
<1>1. down # <<>> /\ Head(down).type = "stat" /\ down' = Tail(down)
  BY DEF OnStatChange, Receive, FirstDown
<1> QED BY <1>1, QueueShrinks DEF ReceivedOne, NetInv

LEMMA OnMoveObjectQueue ==
    ASSUME ClientTypeOK, NetInv, OnMoveObject
    PROVE  ReceivedOne("pos")
<1>1. down # <<>> /\ Head(down).type = "pos" /\ down' = Tail(down)
  BY DEF OnMoveObject, Receive, FirstDown
<1> QED BY <1>1, QueueShrinks DEF ReceivedOne, NetInv

LEMMA OnLoginFailQueue ==
    ASSUME ClientTypeOK, NetInv, OnLoginFail
    PROVE  ReceivedOne("fail")
<1>1. down # <<>> /\ Head(down).type = "fail" /\ down' = Tail(down)
  BY DEF OnLoginFail, Receive, FirstDown
<1> QED BY <1>1, QueueShrinks DEF ReceivedOne, NetInv

LEMMA ProcessLoginQueue ==
    ASSUME ClientTypeOK, NetInv, TakeLogin
    PROVE  TakenOne("login")
<1>1. up # <<>> /\ Head(up).type = "login" /\ up' = Tail(up)
  BY DEF TakeLogin, Packet
<1> QED BY <1>1, QueueShrinks DEF TakenOne, NetInv

LEMMA RefuseMoveQueue == ASSUME ClientTypeOK, NetInv, RefuseMove PROVE TakenOne("move")
<1>1. up # <<>> /\ Head(up).type = "move" /\ up' = Tail(up)
  BY DEF RefuseMove, Packet
<1> QED BY <1>1, QueueShrinks DEF TakenOne, NetInv

LEMMA ProcessMoveQueue ==
    ASSUME ClientTypeOK, NetInv, ProcessMove
    PROVE  TakenOne("move")
<1>1. up # <<>> /\ Head(up).type = "move" /\ up' = Tail(up)
  BY DEF ProcessMove, Packet
<1> QED BY <1>1, QueueShrinks DEF TakenOne, NetInv

LEMMA SendLoginOkQueue ==
    ASSUME ClientTypeOK, NetInv, SendLoginOk
    PROVE  ToldOf([type |-> "ok", pos |-> okPos])
<1>1. [type |-> "ok", pos |-> okPos] \in Packets
  BY DEF ClientTypeOK, Packets
<1>2. down' = IF alive THEN Append(down, [type |-> "ok", pos |-> okPos]) ELSE down
  BY DEF SendLoginOk, Tell, TellPos
<1> QED BY <1>1, <1>2, QueueGrows DEF ToldOf, NetInv

LEMMA SendAckQueue ==
    ASSUME ClientTypeOK, NetInv, SendAck
    PROVE  ToldOf([type |-> "pos", pos |-> target])
<1>1. [type |-> "pos", pos |-> target] \in Packets
  BY DEF ClientTypeOK, Packets
<1>2. down' = IF alive THEN Append(down, [type |-> "pos", pos |-> target]) ELSE down
  BY DEF SendAck, Tell, TellPos
<1> QED BY <1>1, <1>2, QueueGrows DEF ToldOf, NetInv

LEMMA SendRevivedPosQueue ==
    ASSUME ClientTypeOK, NetInv, SendRevivedPos
    PROVE  ToldOf([type |-> "pos", pos |-> revived])
<1>1. [type |-> "pos", pos |-> revived] \in Packets
  BY DEF ClientTypeOK, Packets
<1>2. down' = IF alive THEN Append(down, [type |-> "pos", pos |-> revived]) ELSE down
  BY DEF SendRevivedPos, Tell, TellPos
<1> QED BY <1>1, <1>2, QueueGrows DEF ToldOf, NetInv

LEMMA SendRevivedStatQueue ==
    ASSUME ClientTypeOK, NetInv, SendRevivedStat
    PROVE  ToldOf([type |-> "stat"])
<1>1. [type |-> "stat"] \in Packets
  BY DEF ClientTypeOK, Packets
<1>2. down' = IF alive THEN Append(down, [type |-> "stat"]) ELSE down
  BY DEF SendRevivedStat, Tell
<1> QED BY <1>1, <1>2, QueueGrows DEF ToldOf, NetInv

LEMMA SendStatQueue ==
    ASSUME ClientTypeOK, NetInv, SendStat
    PROVE  ToldOf([type |-> "stat"])
<1>1. [type |-> "stat"] \in Packets
  BY DEF ClientTypeOK, Packets
<1>2. down' = IF alive THEN Append(down, [type |-> "stat"]) ELSE down
  BY DEF SendStat, Tell
<1> QED BY <1>1, <1>2, QueueGrows DEF ToldOf, NetInv

(* SC_LOGIN_FAIL, with the reason the server remembers.                    *)
LEMMA LoginFailsQueue ==
    ASSUME ClientTypeOK, NetInv, LoginFails
    PROVE  \E r \in Reasons : verdict' = r /\ ToldOf([type |-> "fail", reason |-> r])
<1>1. PICK r \in Reasons : verdict' = r /\ Tell([type |-> "fail", reason |-> r])
  BY DEF LoginFails
<1>2. [type |-> "fail", reason |-> r] \in Packets
  BY DEF Packets
<1>3. ToldOf([type |-> "fail", reason |-> r])
  BY <1>1, <1>2, QueueGrows DEF ToldOf, Tell, NetInv
<1> QED BY <1>1, <1>3

(* A packet sent or received changes nothing for the other types.          *)
LEMMA UpGrows ==
    ASSUME NEW p, SentOn(p), NEW t
    PROVE  InUp(t)' <=> InUp(t) \/ (alive /\ p.type = t)
  BY DEF SentOn, Grows, InUp

LEMMA DownShrinks ==
    ASSUME NEW type, ReceivedOne(type), NEW t, t # type
    PROVE  InDown(t)' <=> InDown(t)
<1>1. ASSUME InDown(t)' PROVE InDown(t)
  BY <1>1 DEF ReceivedOne, Shrinks, InDown
<1>2. ASSUME InDown(t) PROVE InDown(t)'
  <2>1. PICK i \in DOMAIN down : down[i].type = t
    BY <1>2 DEF InDown
  <2>2. i > 1 /\ i - 1 \in DOMAIN down' /\ down'[i - 1] = down[i]
    BY <2>1 DEF ReceivedOne, Shrinks
  <2> QED BY <2>1, <2>2 DEF InDown
<1> QED BY <1>1, <1>2

LEMMA DownGrows ==
    ASSUME NEW p, ToldOf(p), NEW t, p.type # t
    PROVE  InDown(t)' <=> InDown(t)
  BY DEF ToldOf, Grows, InDown

LEMMA NoPosIs == NoPos <=> ~InDown("ok") /\ ~InDown("pos")
  BY DEF NoPos, IsPos, InDown

LEMMA NoPosIsNext == NoPos' <=> ~InDown("ok")' /\ ~InDown("pos")'
  BY DEF NoPos, IsPos, InDown

(* Receiving leaves the last position on its way; the very last was the    *)
(* last sent.                                                              *)
LEMMA LastShrinks ==
    ASSUME NEW type, ReceivedOne(type), LastIsSaid, said' = said
    PROVE  /\ LastIsSaid'
           /\ type \in {"ok", "pos"} /\ NoPos' => down[1].pos = said
<1>1. \A i \in DOMAIN down' : i \in Nat /\ i + 1 \in DOMAIN down /\ down'[i] = down[i + 1]
  BY DEF ReceivedOne, Shrinks
<1>2. \A j \in DOMAIN down :
        j > 1 => j \in Nat /\ j - 1 \in DOMAIN down' /\ down'[j - 1] = down[j]
  BY DEF ReceivedOne, Shrinks
<1>3. LastIsSaid'
  <2> SUFFICES ASSUME NEW i \in DOMAIN down', IsPos(i)',
                      \A j \in DOMAIN down' : j > i => ~IsPos(j)'
               PROVE  down'[i].pos = said
    BY DEF LastIsSaid
  <2>1. IsPos(i + 1) /\ i + 1 \in DOMAIN down
    BY <1>1 DEF IsPos
  <2>2. ASSUME NEW j \in DOMAIN down, j > i + 1 PROVE ~IsPos(j)
    <3>1. i \in Nat
      BY <1>1
    <3>2. j > 1
      BY <2>2, <3>1 DEF ReceivedOne, Shrinks
    <3>3. j \in Nat /\ j - 1 \in DOMAIN down' /\ down'[j - 1] = down[j]
      BY <1>2, <2>2, <3>2
    <3>4. j - 1 > i
      BY <2>2, <3>1, <3>3
    <3> QED BY <3>3, <3>4 DEF IsPos
  <2> QED BY <1>1, <2>1, <2>2 DEF LastIsSaid
<1>4. ASSUME type \in {"ok", "pos"}, NoPos' PROVE down[1].pos = said
  <2>1. 1 \in DOMAIN down /\ IsPos(1)
    BY <1>4 DEF ReceivedOne, Shrinks, IsPos
  <2>2. ASSUME NEW j \in DOMAIN down, j > 1 PROVE ~IsPos(j)
    BY <1>2, <1>4, <2>2 DEF NoPos, IsPos
  <2> QED BY <2>1, <2>2 DEF LastIsSaid
<1> QED BY <1>3, <1>4

(* SC_LOGIN_FAIL and SC_STAT_CHANGE carry no position.                     *)
LEMMA OthersSayNothing ==
    ASSUME NEW p, ToldOf(p), p.type \notin {"ok", "pos"}, alive, LastIsSaid, said' = said
    PROVE  LastIsSaid' /\ (NoPos' <=> NoPos)
  BY DEF ToldOf, Grows, LastIsSaid, NoPos, IsPos

(* The queues hold packets.                                                *)
LEMMA NetStep ==
    ASSUME ClientTypeOK, NetInv, [ClientNext]_allVars
    PROVE  NetInv'
<1> USE DEF NetInv, clientVars, recvVars, netVars, serverVars
<1>1. CASE Connect
  BY <1>1 DEF Connect
<1>2. CASE Quit
  BY <1>2 DEF Quit
<1>3. CASE SendLogin
  <2>1. SentOn([type |-> "login"])
    BY <1>3, SendLoginQueue
  <2> QED BY <1>3, <2>1 DEF SendLogin, SentOn
<1>4. CASE ConsumeLoginFail
  BY <1>4 DEF ConsumeLoginFail
<1>5. CASE CloseSocket
  BY <1>5 DEF CloseSocket
<1>6. CASE JoinRecvThread
  BY <1>6 DEF JoinRecvThread
<1>7. CASE NoMove
  BY <1>7 DEF NoMove
<1>8. ASSUME NEW d \in Steps, ReadMe(d) PROVE NetInv'
  BY <1>8 DEF ReadMe
<1>9. CASE SendMove
  <2>1. SentOn([type |-> "move", step |-> step])
    BY <1>9, SendMoveQueue
  <2> QED BY <1>9, <2>1 DEF SendMove, SentOn
<1>10. CASE Predict
  BY <1>10 DEF Predict, Outdates
<1>11. CASE OnLoginOk
  <2>1. ReceivedOne("ok")
    BY <1>11, OnLoginOkQueue
  <2> QED BY <1>11, <2>1 DEF OnLoginOk, Receive, ReceivedOne, FirstDown
<1>12. CASE SetAll
  BY <1>12 DEF SetAll, Outdates
<1>13. CASE OnStatChange
  <2>1. ReceivedOne("stat")
    BY <1>13, OnStatChangeQueue
  <2> QED BY <1>13, <2>1 DEF OnStatChange, Receive, ReceivedOne, FirstDown
<1>14. CASE SetStat
  BY <1>14 DEF SetStat, Outdates
<1>15. CASE OnMoveObject
  <2>1. ReceivedOne("pos")
    BY <1>15, OnMoveObjectQueue
  <2> QED BY <1>15, <2>1 DEF OnMoveObject, Outdates, Receive, ReceivedOne,
             FirstDown
<1>16. CASE OnLoginFail
  <2>1. ReceivedOne("fail")
    BY <1>16, OnLoginFailQueue
  <2> QED BY <1>16, <2>1 DEF OnLoginFail, Receive, ReceivedOne, FirstDown
<1>17. CASE SetFlag
  BY <1>17 DEF SetFlag
<1>18. CASE RecvEnds
  BY <1>18 DEF RecvEnds
<1>19. CASE Lose
  BY <1>19 DEF Lose
<1>20. CASE TakeLogin
  <2>1. TakenOne("login")
    BY <1>20, ProcessLoginQueue
  <2> QED BY <1>20, <2>1 DEF TakeLogin, Packet, TakenOne
<1>21. CASE LoginFails
  <2>1. PICK r \in Reasons : verdict' = r /\ ToldOf([type |-> "fail", reason |-> r])
    BY <1>21, LoginFailsQueue
  <2> QED BY <1>21, <2>1 DEF LoginFails, ToldOf
<1>22. CASE EnterWorld
  BY <1>22 DEF EnterWorld
<1>23. CASE ReadPos
  BY <1>23 DEF ReadPos
<1>24. CASE SendLoginOk
  <2>1. ToldOf([type |-> "ok", pos |-> okPos])
    BY <1>24, SendLoginOkQueue
  <2> QED BY <1>24, <2>1 DEF SendLoginOk, TellPos, ToldOf
<1>25. CASE RefuseMove
  <2>1. TakenOne("move")
    BY <1>25, RefuseMoveQueue
  <2> QED BY <1>25, <2>1 DEF RefuseMove, Packet, TakenOne
<1>26. CASE ProcessMove
  <2>1. TakenOne("move")
    BY <1>26, ProcessMoveQueue
  <2> QED BY <1>26, <2>1 DEF ProcessMove, Packet, TakenOne
<1>27. CASE SetPos
  BY <1>27 DEF SetPos, Speaking
<1>28. CASE SendAck
  <2>1. ToldOf([type |-> "pos", pos |-> target])
    BY <1>28, SendAckQueue
  <2> QED BY <1>28, <2>1 DEF SendAck, TellPos, ToldOf
<1>29. CASE Revive
  BY <1>29 DEF Revive, Speaking
<1>30. CASE NoRoom
  BY <1>30 DEF NoRoom
<1>31. CASE SendRevivedStat
  <2>1. ToldOf([type |-> "stat"])
    BY <1>31, SendRevivedStatQueue
  <2> QED BY <1>31, <2>1 DEF SendRevivedStat, ToldOf
<1>32. CASE SendRevivedPos
  <2>1. ToldOf([type |-> "pos", pos |-> revived])
    BY <1>32, SendRevivedPosQueue
  <2> QED BY <1>32, <2>1 DEF SendRevivedPos, TellPos, ToldOf
<1>33. CASE Die
  BY <1>33 DEF Die, Speaking
<1>34. CASE SendStat
  <2>1. ToldOf([type |-> "stat"])
    BY <1>34, SendStatQueue
  <2> QED BY <1>34, <2>1 DEF SendStat, ToldOf
<1>35. CASE UNCHANGED allVars
  BY <1>35 DEF allVars
<1> QED BY <1>1, <1>2, <1>3, <1>4, <1>5, <1>6, <1>7, <1>8, <1>9, <1>10, <1>11, <1>12, <1>13,
           <1>14, <1>15, <1>16, <1>17, <1>18, <1>19, <1>20, <1>21, <1>22, <1>23, <1>24,
           <1>25, <1>26, <1>27, <1>28, <1>29, <1>30, <1>31, <1>32, <1>33, <1>34, <1>35
    DEF ClientNext, MainThread, RecvThread, Server

(* Every step keeps the types.                                             *)
LEMMA ClientTypeStep ==
    ASSUME ClientTypeOK, NetInv, OneLoginInv, NetInv', Scalars,
           [ClientNext]_allVars
    PROVE  Scalars'
<1> USE ClientAssumption
<1> USE DEF Scalars, NetInv, OneLoginInv, clientVars, recvVars, netVars,
            serverVars
<1>1. CASE Connect
  BY <1>1 DEF Connect
<1>2. CASE Quit
  BY <1>2 DEF Quit
<1>3. CASE SendLogin
  BY <1>3 DEF SendLogin
<1>4. CASE ConsumeLoginFail
  <2>1. hasFail' \in BOOLEAN
    BY <1>4 DEF ConsumeLoginFail
  <2> QED BY <1>4, <2>1 DEF ConsumeLoginFail
<1>5. CASE CloseSocket
  <2>1. alive' \in BOOLEAN
    BY <1>5 DEF CloseSocket
  <2> QED BY <1>5, <2>1 DEF CloseSocket
<1>6. CASE JoinRecvThread
  BY <1>6 DEF JoinRecvThread
<1>7. CASE NoMove
  BY <1>7 DEF NoMove
<1>8. ASSUME NEW d \in Steps, ReadMe(d) PROVE Scalars'
  BY <1>8 DEF ReadMe
<1>9. CASE SendMove
  BY <1>9 DEF SendMove
<1>10. CASE Predict
  BY <1>10 DEF Predict, Outdates
<1>11. CASE OnLoginOk
  <2>1. ReceivedOne("ok")
    BY <1>11, OnLoginOkQueue, TypesAre
  <2>2. FirstDown.pos \in Tiles
    BY <2>1, PacketFields DEF ReceivedOne, Shrinks, FirstDown
  <2> QED BY <1>11, <2>2 DEF OnLoginOk, Receive, Outdates
<1>12. CASE SetAll
  BY <1>12 DEF SetAll, Outdates
<1>13. CASE OnStatChange
  <2>1. recv' \in {"none", "loop", "setAll", "setStat", "flag"} /\ copy' \in Tiles
    BY <1>13 DEF OnStatChange
  <2> QED BY <1>13, <2>1 DEF OnStatChange, Receive
<1>14. CASE SetStat
  <2>1. wrote' \in {"none", "server", "guess", "outdated"} /\ me' \in Tiles
    BY <1>14 DEF SetStat
  <2>2. behind' \subseteq {"main", "recv"}
    BY <1>14 DEF SetStat, Outdates
  <2> QED BY <1>14, <2>1, <2>2 DEF SetStat
<1>15. CASE OnMoveObject
  <2>1. ReceivedOne("pos")
    BY <1>15, OnMoveObjectQueue, TypesAre
  <2>2. FirstDown.pos \in Tiles
    BY <2>1, PacketFields DEF ReceivedOne, Shrinks, FirstDown
  <2>3. me' \in Tiles /\ wrote' \in {"none", "server", "guess", "outdated"}
    BY <1>15, <2>2 DEF OnMoveObject
  <2>4. behind' \subseteq {"main", "recv"}
    BY <1>15 DEF OnMoveObject, Outdates
  <2> QED BY <1>15, <2>3, <2>4 DEF OnMoveObject, Receive
<1>16. CASE OnLoginFail
  <2>1. ReceivedOne("fail")
    BY <1>16, OnLoginFailQueue, TypesAre
  <2>2. FirstDown.reason \in Reasons
    BY <2>1, PacketFields DEF ReceivedOne, Shrinks, FirstDown
  <2> QED BY <1>16, <2>2 DEF OnLoginFail, Receive, Outdates
<1>17. CASE SetFlag
  BY <1>17 DEF SetFlag
<1>18. CASE RecvEnds
  BY <1>18 DEF RecvEnds
<1>19. CASE Lose
  <2>1. alive' \in BOOLEAN
    BY <1>19 DEF Lose
  <2> QED BY <1>19, <2>1 DEF Lose
<1>20. CASE TakeLogin
  BY <1>20 DEF TakeLogin, Packet
<1>21. CASE LoginFails
  BY <1>21 DEF LoginFails
<1>22. CASE EnterWorld
  BY <1>22 DEF EnterWorld
<1>23. CASE ReadPos
  BY <1>23 DEF ReadPos
<1>24. CASE SendLoginOk
  BY <1>24 DEF SendLoginOk, TellPos
<1>25. CASE RefuseMove
  BY <1>25 DEF RefuseMove, Packet
<1>26. CASE ProcessMove
  BY <1>26 DEF ProcessMove, Packet
<1>27. CASE SetPos
  BY <1>27 DEF SetPos, Speaking
<1>28. CASE SendAck
  BY <1>28 DEF SendAck, TellPos
<1>29. CASE Revive
  BY <1>29 DEF Revive, Speaking
<1>30. CASE NoRoom
  BY <1>30 DEF NoRoom
<1>31. CASE SendRevivedStat
  BY <1>31 DEF SendRevivedStat
<1>32. CASE SendRevivedPos
  BY <1>32 DEF SendRevivedPos, TellPos
<1>33. CASE Die
  <2>1. crossed' \in BOOLEAN
    BY <1>33 DEF Die
  <2>2. Origin \in Tiles
    BY <1>33 DEF Origin, Tiles
  <2> QED BY <1>33, <2>1, <2>2 DEF Die
<1>34. CASE SendStat
  BY <1>34 DEF SendStat
<1>35. CASE UNCHANGED allVars
  BY <1>35 DEF allVars
<1> QED BY <1>1, <1>2, <1>3, <1>4, <1>5, <1>6, <1>7, <1>8, <1>9, <1>10, <1>11, <1>12, <1>13,
           <1>14, <1>15, <1>16, <1>17, <1>18, <1>19, <1>20, <1>21, <1>22, <1>23, <1>24,
           <1>25, <1>26, <1>27, <1>28, <1>29, <1>30, <1>31, <1>32, <1>33, <1>34, <1>35
    DEF ClientNext, MainThread, RecvThread, Server

(* One login per connection, and first: SendLogin comes right after        *)
(* Connect.                                                                *)
LEMMA OneLoginStep ==
    ASSUME ClientTypeOK, Scalars, NetInv, NetInv', OneLoginInv,
           FailInv, [ClientNext]_allVars
    PROVE  OneLoginInv'
<1> USE ClientAssumption
<1> USE DEF Scalars, OneLoginInv, Outside, InUp, Grows, Shrinks, Out, Tiles,
            clientVars, recvVars, netVars, serverVars
<1>1. CASE Connect
  BY <1>1 DEF Connect
<1>2. CASE Quit
  BY <1>2 DEF Quit
<1>3. CASE SendLogin
  <2>1. SentOn([type |-> "login"])
    BY <1>3, SendLoginQueue
  <2> QED BY <1>3, <2>1 DEF SendLogin, SentOn
<1>4. CASE ConsumeLoginFail
  BY <1>4 DEF ConsumeLoginFail
<1>5. CASE CloseSocket
  BY <1>5 DEF CloseSocket
<1>6. CASE JoinRecvThread
  <2>1. app' = "menu" => Outside
    BY <1>6 DEF JoinRecvThread, FailInv
  <2> QED BY <1>6, <2>1 DEF JoinRecvThread
<1>7. CASE NoMove
  BY <1>7 DEF NoMove
<1>8. ASSUME NEW d \in Steps, ReadMe(d) PROVE OneLoginInv'
  BY <1>8 DEF ReadMe
<1>9. CASE SendMove
  <2>1. SentOn([type |-> "move", step |-> step])
    BY <1>9, SendMoveQueue
  <2>2. InUp("login")' <=> InUp("login")
    <3>1. [type |-> "move", step |-> step].type # "login"
      OBVIOUS
    <3> DEFINE packet == [type |-> "move", step |-> step]
    <3> HIDE DEF packet
    <3>2. InUp("login")' <=> InUp("login") \/ (alive /\ packet.type = "login")
      <4>1. SentOn(packet)
        BY <2>1 DEF packet
      <4>2. QED BY <4>1, UpGrows
    <3>3. packet.type # "login"
      BY <3>1 DEF packet
    <3> QED BY <3>2, <3>3
  <2>3. \A i \in DOMAIN up' : i > 1 => up'[i].type # "login"
    BY <2>1 DEF SentOn, Grows
  <2>4. ~alive => up' = up
    BY <2>1 DEF SentOn, Grows
  <2> QED BY <1>9, <2>2, <2>3, <2>4 DEF SendMove
<1>10. CASE Predict
  BY <1>10 DEF Predict, Outdates
<1>11. CASE OnLoginOk
  <2>1. ReceivedOne("ok")
    BY <1>11, OnLoginOkQueue
  <2> QED BY <1>11, <2>1 DEF OnLoginOk, Receive, ReceivedOne, FirstDown
<1>12. CASE SetAll
  BY <1>12 DEF SetAll, Outdates
<1>13. CASE OnStatChange
  <2>1. ReceivedOne("stat")
    BY <1>13, OnStatChangeQueue
  <2> QED BY <1>13, <2>1 DEF OnStatChange, Receive, ReceivedOne, FirstDown
<1>14. CASE SetStat
  BY <1>14 DEF SetStat, Outdates
<1>15. CASE OnMoveObject
  <2>1. ReceivedOne("pos")
    BY <1>15, OnMoveObjectQueue
  <2> QED BY <1>15, <2>1 DEF OnMoveObject, Outdates, Receive, ReceivedOne,
             FirstDown
<1>16. CASE OnLoginFail
  <2>1. ReceivedOne("fail")
    BY <1>16, OnLoginFailQueue
  <2> QED BY <1>16, <2>1 DEF OnLoginFail, Receive, ReceivedOne, FirstDown
<1>17. CASE SetFlag
  BY <1>17 DEF SetFlag
<1>18. CASE RecvEnds
  BY <1>18 DEF RecvEnds
<1>19. CASE Lose
  BY <1>19 DEF Lose
<1>20. CASE TakeLogin
  <2>1. TakenOne("login")
    BY <1>20, ProcessLoginQueue
  <2> QED BY <1>20, <2>1 DEF TakeLogin, Packet, TakenOne
<1>21. CASE LoginFails
  <2>1. PICK r \in Reasons : verdict' = r /\ ToldOf([type |-> "fail", reason |-> r])
    BY <1>21, LoginFailsQueue
  <2> QED BY <1>21, <2>1 DEF LoginFails, ToldOf
<1>22. CASE EnterWorld
  BY <1>22 DEF EnterWorld
<1>23. CASE ReadPos
  BY <1>23 DEF ReadPos
<1>24. CASE SendLoginOk
  <2>1. ToldOf([type |-> "ok", pos |-> okPos])
    BY <1>24, SendLoginOkQueue
  <2> QED BY <1>24, <2>1 DEF SendLoginOk, TellPos, ToldOf
<1>25. CASE RefuseMove
  <2>1. TakenOne("move")
    BY <1>25, RefuseMoveQueue
  <2> QED BY <1>25, <2>1 DEF RefuseMove, Packet, TakenOne
<1>26. CASE ProcessMove
  <2>1. TakenOne("move")
    BY <1>26, ProcessMoveQueue
  <2> QED BY <1>26, <2>1 DEF ProcessMove, Packet, TakenOne
<1>27. CASE SetPos
  BY <1>27 DEF SetPos, Speaking
<1>28. CASE SendAck
  <2>1. ToldOf([type |-> "pos", pos |-> target])
    BY <1>28, SendAckQueue
  <2> QED BY <1>28, <2>1 DEF SendAck, TellPos, ToldOf
<1>29. CASE Revive
  BY <1>29 DEF Revive, Speaking
<1>30. CASE NoRoom
  BY <1>30 DEF NoRoom
<1>31. CASE SendRevivedStat
  <2>1. ToldOf([type |-> "stat"])
    BY <1>31, SendRevivedStatQueue
  <2> QED BY <1>31, <2>1 DEF SendRevivedStat, ToldOf
<1>32. CASE SendRevivedPos
  <2>1. ToldOf([type |-> "pos", pos |-> revived])
    BY <1>32, SendRevivedPosQueue
  <2> QED BY <1>32, <2>1 DEF SendRevivedPos, TellPos, ToldOf
<1>33. CASE Die
  BY <1>33 DEF Die, Speaking, Origin
<1>34. CASE SendStat
  <2>1. ToldOf([type |-> "stat"])
    BY <1>34, SendStatQueue
  <2> QED BY <1>34, <2>1 DEF SendStat, ToldOf
<1>35. CASE UNCHANGED allVars
  BY <1>35 DEF allVars
<1> QED BY <1>1, <1>2, <1>3, <1>4, <1>5, <1>6, <1>7, <1>8, <1>9, <1>10, <1>11, <1>12, <1>13,
           <1>14, <1>15, <1>16, <1>17, <1>18, <1>19, <1>20, <1>21, <1>22, <1>23, <1>24,
           <1>25, <1>26, <1>27, <1>28, <1>29, <1>30, <1>31, <1>32, <1>33, <1>34, <1>35
    DEF ClientNext, MainThread, RecvThread, Server

(* The refusal is in exactly one place on its way from the server to the   *)
(* menu.                                                                   *)
LEMMA FailStep ==
    ASSUME ClientTypeOK, Scalars, NetInv, NetInv', OneLoginInv,
           FailInv, [ClientNext]_allVars
    PROVE  FailInv'
<1> USE ClientAssumption
<1> USE DEF Scalars, OneLoginInv, Outside, FailInv, InDown, Grows, Shrinks, NoReason,
            clientVars, recvVars, netVars, serverVars
<1>1. CASE Connect
  BY <1>1 DEF Connect
<1>2. CASE Quit
  BY <1>2 DEF Quit
<1>3. CASE SendLogin
  <2>1. SentOn([type |-> "login"])
    BY <1>3, SendLoginQueue
  <2> QED BY <1>3, <2>1 DEF SendLogin, SentOn
<1>4. CASE ConsumeLoginFail
  BY <1>4 DEF ConsumeLoginFail
<1>5. CASE CloseSocket
  BY <1>5 DEF CloseSocket
<1>6. CASE JoinRecvThread
  BY <1>6 DEF JoinRecvThread
<1>7. CASE NoMove
  BY <1>7 DEF NoMove
<1>8. ASSUME NEW d \in Steps, ReadMe(d) PROVE FailInv'
  BY <1>8 DEF ReadMe
<1>9. CASE SendMove
  <2>1. SentOn([type |-> "move", step |-> step])
    BY <1>9, SendMoveQueue
  <2> QED BY <1>9, <2>1 DEF SendMove, SentOn
<1>10. CASE Predict
  BY <1>10 DEF Predict, Outdates
<1>11. CASE OnLoginOk
  <2>1. ReceivedOne("ok")
    BY <1>11, OnLoginOkQueue
  <2> QED BY <1>11, <2>1 DEF OnLoginOk, Receive, ReceivedOne, FirstDown
<1>12. CASE SetAll
  BY <1>12 DEF SetAll, Outdates
<1>13. CASE OnStatChange
  <2>1. ReceivedOne("stat")
    BY <1>13, OnStatChangeQueue
  <2> QED BY <1>13, <2>1 DEF OnStatChange, Receive, ReceivedOne, FirstDown
<1>14. CASE SetStat
  BY <1>14 DEF SetStat, Outdates
<1>15. CASE OnMoveObject
  <2>1. ReceivedOne("pos")
    BY <1>15, OnMoveObjectQueue
  <2> QED BY <1>15, <2>1 DEF OnMoveObject, Outdates, Receive, ReceivedOne,
             FirstDown
<1>16. CASE OnLoginFail
  <2>1. ReceivedOne("fail")
    BY <1>16, OnLoginFailQueue
  <2> QED BY <1>16, <2>1 DEF OnLoginFail, Receive, ReceivedOne, FirstDown
<1>17. CASE SetFlag
  BY <1>17 DEF SetFlag
<1>18. CASE RecvEnds
  BY <1>18 DEF RecvEnds
<1>19. CASE Lose
  BY <1>19 DEF Lose
<1>20. CASE TakeLogin
  <2>1. TakenOne("login")
    BY <1>20, ProcessLoginQueue
  <2> QED BY <1>20, <2>1 DEF TakeLogin, Packet, TakenOne
<1>21. CASE LoginFails
  <2>1. PICK r \in Reasons : verdict' = r /\ ToldOf([type |-> "fail", reason |-> r])
    BY <1>21, LoginFailsQueue
  <2> QED BY <1>21, <2>1 DEF LoginFails, ToldOf
<1>22. CASE EnterWorld
  BY <1>22 DEF EnterWorld
<1>23. CASE ReadPos
  BY <1>23 DEF ReadPos
<1>24. CASE SendLoginOk
  <2>1. ToldOf([type |-> "ok", pos |-> okPos])
    BY <1>24, SendLoginOkQueue
  <2> QED BY <1>24, <2>1 DEF SendLoginOk, TellPos, ToldOf
<1>25. CASE RefuseMove
  <2>1. TakenOne("move")
    BY <1>25, RefuseMoveQueue
  <2> QED BY <1>25, <2>1 DEF RefuseMove, Packet, TakenOne
<1>26. CASE ProcessMove
  <2>1. TakenOne("move")
    BY <1>26, ProcessMoveQueue
  <2> QED BY <1>26, <2>1 DEF ProcessMove, Packet, TakenOne
<1>27. CASE SetPos
  BY <1>27 DEF SetPos, Speaking
<1>28. CASE SendAck
  <2>1. ToldOf([type |-> "pos", pos |-> target])
    BY <1>28, SendAckQueue
  <2> QED BY <1>28, <2>1 DEF SendAck, TellPos, ToldOf
<1>29. CASE Revive
  BY <1>29 DEF Revive, Speaking
<1>30. CASE NoRoom
  BY <1>30 DEF NoRoom
<1>31. CASE SendRevivedStat
  <2>1. ToldOf([type |-> "stat"])
    BY <1>31, SendRevivedStatQueue
  <2> QED BY <1>31, <2>1 DEF SendRevivedStat, ToldOf
<1>32. CASE SendRevivedPos
  <2>1. ToldOf([type |-> "pos", pos |-> revived])
    BY <1>32, SendRevivedPosQueue
  <2> QED BY <1>32, <2>1 DEF SendRevivedPos, TellPos, ToldOf
<1>33. CASE Die
  BY <1>33 DEF Die, Speaking
<1>34. CASE SendStat
  <2>1. ToldOf([type |-> "stat"])
    BY <1>34, SendStatQueue
  <2> QED BY <1>34, <2>1 DEF SendStat, ToldOf
<1>35. CASE UNCHANGED allVars
  BY <1>35 DEF allVars
<1> QED BY <1>1, <1>2, <1>3, <1>4, <1>5, <1>6, <1>7, <1>8, <1>9, <1>10, <1>11, <1>12, <1>13,
           <1>14, <1>15, <1>16, <1>17, <1>18, <1>19, <1>20, <1>21, <1>22, <1>23, <1>24,
           <1>25, <1>26, <1>27, <1>28, <1>29, <1>30, <1>31, <1>32, <1>33, <1>34, <1>35
    DEF ClientNext, MainThread, RecvThread, Server

(* What a handler on the server is about to send is the position, unless   *)
(* another changed it meanwhile.                                           *)
LEMMA TellsStep ==
    ASSUME ClientTypeOK, Scalars, NetInv, OneLoginInv, TellsInv,
           [ClientNext]_allVars
    PROVE  TellsInv'
<1> USE ClientAssumption
<1> USE DEF Scalars, OneLoginInv, Outside, TellsInv, InUp, Grows, Shrinks, Out,
            clientVars, recvVars, netVars, serverVars
<1>1. CASE Connect
  BY <1>1 DEF Connect
<1>2. CASE Quit
  BY <1>2 DEF Quit
<1>3. CASE SendLogin
  <2>1. SentOn([type |-> "login"])
    BY <1>3, SendLoginQueue
  <2> QED BY <1>3, <2>1 DEF SendLogin, SentOn
<1>4. CASE ConsumeLoginFail
  BY <1>4 DEF ConsumeLoginFail
<1>5. CASE CloseSocket
  BY <1>5 DEF CloseSocket
<1>6. CASE JoinRecvThread
  BY <1>6 DEF JoinRecvThread
<1>7. CASE NoMove
  BY <1>7 DEF NoMove
<1>8. ASSUME NEW d \in Steps, ReadMe(d) PROVE TellsInv'
  BY <1>8 DEF ReadMe
<1>9. CASE SendMove
  <2>1. SentOn([type |-> "move", step |-> step])
    BY <1>9, SendMoveQueue
  <2> QED BY <1>9, <2>1 DEF SendMove, SentOn
<1>10. CASE Predict
  BY <1>10 DEF Predict, Outdates
<1>11. CASE OnLoginOk
  <2>1. ReceivedOne("ok")
    BY <1>11, OnLoginOkQueue
  <2> QED BY <1>11, <2>1 DEF OnLoginOk, Receive, ReceivedOne, FirstDown
<1>12. CASE SetAll
  BY <1>12 DEF SetAll, Outdates
<1>13. CASE OnStatChange
  <2>1. ReceivedOne("stat")
    BY <1>13, OnStatChangeQueue
  <2> QED BY <1>13, <2>1 DEF OnStatChange, Receive, ReceivedOne, FirstDown
<1>14. CASE SetStat
  BY <1>14 DEF SetStat, Outdates
<1>15. CASE OnMoveObject
  <2>1. ReceivedOne("pos")
    BY <1>15, OnMoveObjectQueue
  <2> QED BY <1>15, <2>1 DEF OnMoveObject, Outdates, Receive, ReceivedOne,
             FirstDown
<1>16. CASE OnLoginFail
  <2>1. ReceivedOne("fail")
    BY <1>16, OnLoginFailQueue
  <2> QED BY <1>16, <2>1 DEF OnLoginFail, Receive, ReceivedOne, FirstDown
<1>17. CASE SetFlag
  BY <1>17 DEF SetFlag
<1>18. CASE RecvEnds
  BY <1>18 DEF RecvEnds
<1>19. CASE Lose
  BY <1>19 DEF Lose
<1>20. CASE TakeLogin
  <2>1. TakenOne("login")
    BY <1>20, ProcessLoginQueue
  <2> QED BY <1>20, <2>1 DEF TakeLogin, Packet, TakenOne
<1>21. CASE LoginFails
  <2>1. PICK r \in Reasons : verdict' = r /\ ToldOf([type |-> "fail", reason |-> r])
    BY <1>21, LoginFailsQueue
  <2> QED BY <1>21, <2>1 DEF LoginFails, ToldOf
<1>22. CASE EnterWorld
  BY <1>22 DEF EnterWorld
<1>23. CASE ReadPos
  BY <1>23 DEF ReadPos
<1>24. CASE SendLoginOk
  <2>1. ToldOf([type |-> "ok", pos |-> okPos])
    BY <1>24, SendLoginOkQueue
  <2> QED BY <1>24, <2>1 DEF SendLoginOk, TellPos, ToldOf
<1>25. CASE RefuseMove
  <2>1. TakenOne("move")
    BY <1>25, RefuseMoveQueue
  <2> QED BY <1>25, <2>1 DEF RefuseMove, Packet, TakenOne
<1>26. CASE ProcessMove
  <2>1. TakenOne("move")
    BY <1>26, ProcessMoveQueue
  <2> QED BY <1>26, <2>1 DEF ProcessMove, Packet, TakenOne
<1>27. CASE SetPos
  BY <1>27 DEF SetPos, Speaking
<1>28. CASE SendAck
  <2>1. ToldOf([type |-> "pos", pos |-> target])
    BY <1>28, SendAckQueue
  <2> QED BY <1>28, <2>1 DEF SendAck, TellPos, ToldOf
<1>29. CASE Revive
  BY <1>29 DEF Revive, Speaking
<1>30. CASE NoRoom
  BY <1>30 DEF NoRoom
<1>31. CASE SendRevivedStat
  <2>1. ToldOf([type |-> "stat"])
    BY <1>31, SendRevivedStatQueue
  <2> QED BY <1>31, <2>1 DEF SendRevivedStat, ToldOf
<1>32. CASE SendRevivedPos
  <2>1. ToldOf([type |-> "pos", pos |-> revived])
    BY <1>32, SendRevivedPosQueue
  <2> QED BY <1>32, <2>1 DEF SendRevivedPos, TellPos, ToldOf
<1>33. CASE Die
  BY <1>33 DEF Die, Speaking
<1>34. CASE SendStat
  <2>1. ToldOf([type |-> "stat"])
    BY <1>34, SendStatQueue
  <2> QED BY <1>34, <2>1 DEF SendStat, ToldOf
<1>35. CASE UNCHANGED allVars
  BY <1>35 DEF allVars
<1> QED BY <1>1, <1>2, <1>3, <1>4, <1>5, <1>6, <1>7, <1>8, <1>9, <1>10, <1>11, <1>12, <1>13,
           <1>14, <1>15, <1>16, <1>17, <1>18, <1>19, <1>20, <1>21, <1>22, <1>23, <1>24,
           <1>25, <1>26, <1>27, <1>28, <1>29, <1>30, <1>31, <1>32, <1>33, <1>34, <1>35
    DEF ClientNext, MainThread, RecvThread, Server

(* The last position sent is on its way or with the client.                *)
LEMMA LastStep ==
    ASSUME ClientTypeOK, Scalars, NetInv, NetInv', OneLoginInv,
           LastInv, KnownInv, StatInv, [ClientNext]_allVars
    PROVE  LastInv'
<1> USE ClientAssumption
<1> USE DEF Scalars, OneLoginInv, Outside, LastInv, LastIsSaid, KnownInv, StatInv, NoPos,
            IsPos, Grows, Shrinks, clientVars, recvVars, netVars,
            serverVars
<1>1. CASE Connect
  <2>1. alive' /\ down' = <<>> /\ recv' = "loop" /\ ~known'
    BY <1>1 DEF Connect
  <2> QED BY <2>1
<1>2. CASE Quit
  BY <1>2 DEF Quit
<1>3. CASE SendLogin
  <2>1. SentOn([type |-> "login"])
    BY <1>3, SendLoginQueue
  <2> QED BY <1>3, <2>1 DEF SendLogin, SentOn
<1>4. CASE ConsumeLoginFail
  BY <1>4 DEF ConsumeLoginFail
<1>5. CASE CloseSocket
  BY <1>5 DEF CloseSocket
<1>6. CASE JoinRecvThread
  BY <1>6 DEF JoinRecvThread
<1>7. CASE NoMove
  BY <1>7 DEF NoMove
<1>8. ASSUME NEW d \in Steps, ReadMe(d) PROVE LastInv'
  BY <1>8 DEF ReadMe
<1>9. CASE SendMove
  <2>1. SentOn([type |-> "move", step |-> step])
    BY <1>9, SendMoveQueue
  <2> QED BY <1>9, <2>1 DEF SendMove, SentOn
<1>10. CASE Predict
  BY <1>10 DEF Predict, Outdates
<1>11. CASE OnLoginOk
  <2>1. ReceivedOne("ok") /\ recv = "loop"
    BY <1>11, OnLoginOkQueue DEF OnLoginOk, Receive
  <2>2. recv' = "setAll" /\ copy' = down[1].pos /\ UNCHANGED <<alive, said>>
    BY <1>11, <2>1 DEF OnLoginOk, Receive, FirstDown, ReceivedOne, Shrinks
  <2> QED BY <2>1, <2>2, LastShrinks
<1>12. CASE SetAll
  BY <1>12 DEF SetAll, Outdates
<1>13. CASE OnStatChange
  <2>1. ReceivedOne("stat") /\ recv = "loop"
    BY <1>13, OnStatChangeQueue DEF OnStatChange, Receive
  <2>2. recv' # "setAll" /\ UNCHANGED <<alive, said, me, known, wrote>>
    BY <1>13, <2>1 DEF OnStatChange, Receive
  <2>3. NoPos' <=> NoPos
    BY ONLY <2>1, DownShrinks, NoPosIs, NoPosIsNext
  <2> QED BY <2>1, <2>2, <2>3, LastShrinks
<1>14. CASE SetStat
  BY <1>14 DEF SetStat, Outdates
<1>15. CASE OnMoveObject
  <2>1. ReceivedOne("pos") /\ recv = "loop"
    BY <1>15, OnMoveObjectQueue DEF OnMoveObject, Receive
  <2>2. recv' = "loop" /\ UNCHANGED <<alive, said, known>> /\ (known => me' = down[1].pos)
    BY <1>15, <2>1 DEF OnMoveObject, Receive, FirstDown, ReceivedOne, Shrinks
  <2> QED BY <2>1, <2>2, LastShrinks
<1>16. CASE OnLoginFail
  <2>1. ReceivedOne("fail") /\ recv = "loop"
    BY <1>16, OnLoginFailQueue DEF OnLoginFail, Receive
  <2>2. recv' # "setAll" /\ UNCHANGED <<alive, said, me, known, wrote>>
    BY <1>16, <2>1 DEF OnLoginFail, Receive
  <2>3. NoPos' <=> NoPos
    BY ONLY <2>1, DownShrinks, NoPosIs, NoPosIsNext
  <2> QED BY <2>1, <2>2, <2>3, LastShrinks
<1>17. CASE SetFlag
  BY <1>17 DEF SetFlag
<1>18. CASE RecvEnds
  BY <1>18 DEF RecvEnds
<1>19. CASE Lose
  BY <1>19 DEF Lose
<1>20. CASE TakeLogin
  <2>1. TakenOne("login")
    BY <1>20, ProcessLoginQueue
  <2> QED BY <1>20, <2>1 DEF TakeLogin, Packet, TakenOne
<1>21. CASE LoginFails
  <2>1. PICK r \in Reasons : verdict' = r /\ ToldOf([type |-> "fail", reason |-> r])
    BY <1>21, LoginFailsQueue
  <2>2. UNCHANGED <<alive, said, me, known, wrote, recv, copy>>
    BY <1>21 DEF LoginFails
  <2> QED BY <2>1, <2>2, OthersSayNothing
<1>22. CASE EnterWorld
  BY <1>22 DEF EnterWorld
<1>23. CASE ReadPos
  BY <1>23 DEF ReadPos
<1>24. CASE SendLoginOk
  <2>1. ToldOf([type |-> "ok", pos |-> okPos])
    BY <1>24, SendLoginOkQueue
  <2> QED BY <1>24, <2>1 DEF SendLoginOk, TellPos, ToldOf
<1>25. CASE RefuseMove
  <2>1. TakenOne("move")
    BY <1>25, RefuseMoveQueue
  <2> QED BY <1>25, <2>1 DEF RefuseMove, Packet, TakenOne
<1>26. CASE ProcessMove
  <2>1. TakenOne("move")
    BY <1>26, ProcessMoveQueue
  <2> QED BY <1>26, <2>1 DEF ProcessMove, Packet, TakenOne
<1>27. CASE SetPos
  BY <1>27 DEF SetPos, Speaking
<1>28. CASE SendAck
  <2>1. ToldOf([type |-> "pos", pos |-> target])
    BY <1>28, SendAckQueue
  <2> QED BY <1>28, <2>1 DEF SendAck, TellPos, ToldOf
<1>29. CASE Revive
  BY <1>29 DEF Revive, Speaking
<1>30. CASE NoRoom
  BY <1>30 DEF NoRoom
<1>31. CASE SendRevivedStat
  <2>1. ToldOf([type |-> "stat"])
    BY <1>31, SendRevivedStatQueue
  <2>2. UNCHANGED <<alive, said, me, known, wrote, recv, copy>>
    BY <1>31 DEF SendRevivedStat
  <2> QED BY <2>1, <2>2, OthersSayNothing
<1>32. CASE SendRevivedPos
  <2>1. ToldOf([type |-> "pos", pos |-> revived])
    BY <1>32, SendRevivedPosQueue
  <2> QED BY <1>32, <2>1 DEF SendRevivedPos, TellPos, ToldOf
<1>33. CASE Die
  BY <1>33 DEF Die, Speaking
<1>34. CASE SendStat
  <2>1. ToldOf([type |-> "stat"])
    BY <1>34, SendStatQueue
  <2>2. UNCHANGED <<alive, said, me, known, wrote, recv, copy>>
    BY <1>34 DEF SendStat
  <2> QED BY <2>1, <2>2, OthersSayNothing
<1>35. CASE UNCHANGED allVars
  BY <1>35 DEF allVars
<1> QED BY <1>1, <1>2, <1>3, <1>4, <1>5, <1>6, <1>7, <1>8, <1>9, <1>10, <1>11, <1>12, <1>13,
           <1>14, <1>15, <1>16, <1>17, <1>18, <1>19, <1>20, <1>21, <1>22, <1>23, <1>24,
           <1>25, <1>26, <1>27, <1>28, <1>29, <1>30, <1>31, <1>32, <1>33, <1>34, <1>35
    DEF ClientNext, MainThread, RecvThread, Server

(* A player that is in the world will learn its id.                        *)
LEMMA KnownStep ==
    ASSUME ClientTypeOK, Scalars, NetInv, NetInv', OneLoginInv,
           KnownInv, StatInv, [ClientNext]_allVars
    PROVE  KnownInv'
<1> USE ClientAssumption
<1> USE DEF Scalars, OneLoginInv, Outside, KnownInv, StatInv, InDown, Grows, Shrinks,
            Origin, Out, Tiles, clientVars, recvVars, netVars,
            serverVars
<1>1. CASE Connect
  BY <1>1 DEF Connect
<1>2. CASE Quit
  BY <1>2 DEF Quit
<1>3. CASE SendLogin
  <2>1. SentOn([type |-> "login"])
    BY <1>3, SendLoginQueue
  <2> QED BY <1>3, <2>1 DEF SendLogin, SentOn
<1>4. CASE ConsumeLoginFail
  BY <1>4 DEF ConsumeLoginFail
<1>5. CASE CloseSocket
  BY <1>5 DEF CloseSocket
<1>6. CASE JoinRecvThread
  BY <1>6 DEF JoinRecvThread
<1>7. CASE NoMove
  BY <1>7 DEF NoMove
<1>8. ASSUME NEW d \in Steps, ReadMe(d) PROVE KnownInv'
  BY <1>8 DEF ReadMe
<1>9. CASE SendMove
  <2>1. SentOn([type |-> "move", step |-> step])
    BY <1>9, SendMoveQueue
  <2> QED BY <1>9, <2>1 DEF SendMove, SentOn
<1>10. CASE Predict
  BY <1>10 DEF Predict, Outdates
<1>11. CASE OnLoginOk
  <2>1. ReceivedOne("ok")
    BY <1>11, OnLoginOkQueue
  <2> QED BY <1>11, <2>1 DEF OnLoginOk, Receive, ReceivedOne, FirstDown
<1>12. CASE SetAll
  BY <1>12 DEF SetAll, Outdates
<1>13. CASE OnStatChange
  <2>1. ReceivedOne("stat") /\ recv = "loop"
    BY <1>13, OnStatChangeQueue DEF OnStatChange, Receive
  <2>2. InDown("ok")' <=> InDown("ok")
    BY ONLY <2>1, DownShrinks
  <2> HIDE DEF InDown
  <2> QED BY <1>13, <2>1, <2>2 DEF OnStatChange, Receive
<1>14. CASE SetStat
  BY <1>14 DEF SetStat, Outdates
<1>15. CASE OnMoveObject
  <2>1. ReceivedOne("pos") /\ recv = "loop"
    BY <1>15, OnMoveObjectQueue DEF OnMoveObject, Receive
  <2>2. InDown("ok")' <=> InDown("ok")
    BY ONLY <2>1, DownShrinks
  <2> HIDE DEF InDown
  <2> QED BY <1>15, <2>1, <2>2 DEF OnMoveObject, Receive
<1>16. CASE OnLoginFail
  <2>1. ReceivedOne("fail") /\ recv = "loop"
    BY <1>16, OnLoginFailQueue DEF OnLoginFail, Receive
  <2>2. InDown("ok")' <=> InDown("ok")
    BY ONLY <2>1, DownShrinks
  <2> HIDE DEF InDown
  <2> QED BY <1>16, <2>1, <2>2 DEF OnLoginFail, Receive
<1>17. CASE SetFlag
  BY <1>17 DEF SetFlag
<1>18. CASE RecvEnds
  BY <1>18 DEF RecvEnds
<1>19. CASE Lose
  BY <1>19 DEF Lose
<1>20. CASE TakeLogin
  <2>1. TakenOne("login")
    BY <1>20, ProcessLoginQueue
  <2> QED BY <1>20, <2>1 DEF TakeLogin, Packet, TakenOne
<1>21. CASE LoginFails
  <2>1. PICK r \in Reasons : verdict' = r /\ ToldOf([type |-> "fail", reason |-> r])
    BY <1>21, LoginFailsQueue
  <2>2. InDown("ok")' <=> InDown("ok")
    BY ONLY <2>1, DownGrows
  <2> HIDE DEF InDown
  <2> QED BY <1>21, <2>2 DEF LoginFails
<1>22. CASE EnterWorld
  BY <1>22 DEF EnterWorld
<1>23. CASE ReadPos
  BY <1>23 DEF ReadPos
<1>24. CASE SendLoginOk
  <2>1. ToldOf([type |-> "ok", pos |-> okPos])
    BY <1>24, SendLoginOkQueue
  <2> QED BY <1>24, <2>1 DEF SendLoginOk, TellPos, ToldOf
<1>25. CASE RefuseMove
  <2>1. TakenOne("move")
    BY <1>25, RefuseMoveQueue
  <2> QED BY <1>25, <2>1 DEF RefuseMove, Packet, TakenOne
<1>26. CASE ProcessMove
  <2>1. TakenOne("move")
    BY <1>26, ProcessMoveQueue
  <2> QED BY <1>26, <2>1 DEF ProcessMove, Packet, TakenOne
<1>27. CASE SetPos
  BY <1>27 DEF SetPos, Speaking
<1>28. CASE SendAck
  <2>1. ToldOf([type |-> "pos", pos |-> target])
    BY <1>28, SendAckQueue
  <2> QED BY <1>28, <2>1 DEF SendAck, TellPos, ToldOf
<1>29. CASE Revive
  BY <1>29 DEF Revive, Speaking
<1>30. CASE NoRoom
  BY <1>30 DEF NoRoom
<1>31. CASE SendRevivedStat
  <2>1. ToldOf([type |-> "stat"])
    BY <1>31, SendRevivedStatQueue
  <2> QED BY <1>31, <2>1 DEF SendRevivedStat, ToldOf
<1>32. CASE SendRevivedPos
  <2>1. ToldOf([type |-> "pos", pos |-> revived])
    BY <1>32, SendRevivedPosQueue
  <2> QED BY <1>32, <2>1 DEF SendRevivedPos, TellPos, ToldOf
<1>33. CASE Die
  BY <1>33 DEF Die, Speaking
<1>34. CASE SendStat
  <2>1. ToldOf([type |-> "stat"])
    BY <1>34, SendStatQueue
  <2> QED BY <1>34, <2>1 DEF SendStat, ToldOf
<1>35. CASE UNCHANGED allVars
  BY <1>35 DEF allVars
<1> QED BY <1>1, <1>2, <1>3, <1>4, <1>5, <1>6, <1>7, <1>8, <1>9, <1>10, <1>11, <1>12, <1>13,
           <1>14, <1>15, <1>16, <1>17, <1>18, <1>19, <1>20, <1>21, <1>22, <1>23, <1>24,
           <1>25, <1>26, <1>27, <1>28, <1>29, <1>30, <1>31, <1>32, <1>33, <1>34, <1>35
    DEF ClientNext, MainThread, RecvThread, Server

(* A predicted move will be answered or was refused.                       *)
LEMMA MoveStep ==
    ASSUME ClientTypeOK, Scalars, NetInv, NetInv', OneLoginInv,
           KnownInv, MoveInv, StatInv, [ClientNext]_allVars
    PROVE  MoveInv'
<1> USE ClientAssumption
<1> USE DEF Scalars, OneLoginInv, Outside, KnownInv, MoveInv, StatInv, Pending, InUp, NoPos,
            IsPos, InDown, Grows, Shrinks, clientVars, recvVars, netVars,
            serverVars
<1>1. CASE Connect
  BY <1>1 DEF Connect
<1>2. CASE Quit
  BY <1>2 DEF Quit
<1>3. CASE SendLogin
  <2>1. SentOn([type |-> "login"])
    BY <1>3, SendLoginQueue
  <2> QED BY <1>3, <2>1 DEF SendLogin, SentOn
<1>4. CASE ConsumeLoginFail
  BY <1>4 DEF ConsumeLoginFail
<1>5. CASE CloseSocket
  BY <1>5 DEF CloseSocket
<1>6. CASE JoinRecvThread
  BY <1>6 DEF JoinRecvThread
<1>7. CASE NoMove
  BY <1>7 DEF NoMove
<1>8. ASSUME NEW d \in Steps, ReadMe(d) PROVE MoveInv'
  BY <1>8 DEF ReadMe
<1>9. CASE SendMove
  <2>1. SentOn([type |-> "move", step |-> step])
    BY <1>9, SendMoveQueue
  <2> QED BY <1>9, <2>1 DEF SendMove, SentOn
<1>10. CASE Predict
  BY <1>10 DEF Predict, Outdates
<1>11. CASE OnLoginOk
  <2>1. ReceivedOne("ok")
    BY <1>11, OnLoginOkQueue
  <2> QED BY <1>11, <2>1 DEF OnLoginOk, Receive, ReceivedOne, FirstDown
<1>12. CASE SetAll
  BY <1>12 DEF SetAll, Outdates
<1>13. CASE OnStatChange
  <2>1. ReceivedOne("stat") /\ recv = "loop"
    BY <1>13, OnStatChangeQueue DEF OnStatChange, Receive
  <2>2. NoPos' <=> NoPos
    <3>1. (InDown("ok")' <=> InDown("ok")) /\ (InDown("pos")' <=> InDown("pos"))
      BY ONLY <2>1, DownShrinks
    <3> QED BY ONLY <3>1, NoPosIs, NoPosIsNext
  <2> HIDE DEF NoPos
  <2> QED BY <1>13, <2>1, <2>2 DEF OnStatChange, Receive
<1>14. CASE SetStat
  BY <1>14 DEF SetStat, Outdates
<1>15. CASE OnMoveObject
  <2>1. ReceivedOne("pos") /\ recv = "loop"
    BY <1>15, OnMoveObjectQueue DEF OnMoveObject, Receive
  <2>2. InDown("ok")' <=> InDown("ok")
    BY ONLY <2>1, DownShrinks
  <2>3. UNCHANGED <<alive, known, entering, main, up, mover, answer, recv>>
    BY <1>15 DEF OnMoveObject, Receive
  <2>4. CASE known
    <3>1. wrote' = "server" /\ "main" \in behind'
      BY <1>15, <2>4 DEF OnMoveObject, Outdates
    <3> QED BY <3>1
  <2>5. CASE ~known
    <3>1. alive => entering # "in" \/ InDown("ok")
      BY <2>1, <2>5
    <3>2. alive => entering' # "in" \/ ~NoPos'
      BY <2>2, <2>3, <3>1, NoPosIsNext
    <3> QED BY <2>3, <3>2
  <2> QED BY <2>4, <2>5
<1>16. CASE OnLoginFail
  <2>1. ReceivedOne("fail") /\ recv = "loop"
    BY <1>16, OnLoginFailQueue DEF OnLoginFail, Receive
  <2>2. NoPos' <=> NoPos
    <3>1. (InDown("ok")' <=> InDown("ok")) /\ (InDown("pos")' <=> InDown("pos"))
      BY ONLY <2>1, DownShrinks
    <3> QED BY ONLY <3>1, NoPosIs, NoPosIsNext
  <2> HIDE DEF NoPos
  <2> QED BY <1>16, <2>1, <2>2 DEF OnLoginFail, Receive
<1>17. CASE SetFlag
  BY <1>17 DEF SetFlag
<1>18. CASE RecvEnds
  BY <1>18 DEF RecvEnds
<1>19. CASE Lose
  BY <1>19 DEF Lose
<1>20. CASE TakeLogin
  <2>1. TakenOne("login")
    BY <1>20, ProcessLoginQueue
  <2> QED BY <1>20, <2>1 DEF TakeLogin, Packet, TakenOne
<1>21. CASE LoginFails
  <2>1. PICK r \in Reasons : verdict' = r /\ ToldOf([type |-> "fail", reason |-> r])
    BY <1>21, LoginFailsQueue
  <2> QED BY <1>21, <2>1 DEF LoginFails, ToldOf
<1>22. CASE EnterWorld
  BY <1>22 DEF EnterWorld
<1>23. CASE ReadPos
  BY <1>23 DEF ReadPos
<1>24. CASE SendLoginOk
  <2>1. ToldOf([type |-> "ok", pos |-> okPos])
    BY <1>24, SendLoginOkQueue
  <2> QED BY <1>24, <2>1 DEF SendLoginOk, TellPos, ToldOf
<1>25. CASE RefuseMove
  <2>1. TakenOne("move")
    BY <1>25, RefuseMoveQueue
  <2> QED BY <1>25, <2>1 DEF RefuseMove, Packet, TakenOne
<1>26. CASE ProcessMove
  <2>1. TakenOne("move")
    BY <1>26, ProcessMoveQueue
  <2> QED BY <1>26, <2>1 DEF ProcessMove, Packet, TakenOne
<1>27. CASE SetPos
  BY <1>27 DEF SetPos, Speaking
<1>28. CASE SendAck
  <2>1. ToldOf([type |-> "pos", pos |-> target])
    BY <1>28, SendAckQueue
  <2> QED BY <1>28, <2>1 DEF SendAck, TellPos, ToldOf
<1>29. CASE Revive
  BY <1>29 DEF Revive, Speaking
<1>30. CASE NoRoom
  BY <1>30 DEF NoRoom
<1>31. CASE SendRevivedStat
  <2>1. ToldOf([type |-> "stat"])
    BY <1>31, SendRevivedStatQueue
  <2> QED BY <1>31, <2>1 DEF SendRevivedStat, ToldOf
<1>32. CASE SendRevivedPos
  <2>1. ToldOf([type |-> "pos", pos |-> revived])
    BY <1>32, SendRevivedPosQueue
  <2> QED BY <1>32, <2>1 DEF SendRevivedPos, TellPos, ToldOf
<1>33. CASE Die
  BY <1>33 DEF Die, Speaking
<1>34. CASE SendStat
  <2>1. ToldOf([type |-> "stat"])
    BY <1>34, SendStatQueue
  <2> QED BY <1>34, <2>1 DEF SendStat, ToldOf
<1>35. CASE UNCHANGED allVars
  BY <1>35 DEF allVars
<1> QED BY <1>1, <1>2, <1>3, <1>4, <1>5, <1>6, <1>7, <1>8, <1>9, <1>10, <1>11, <1>12, <1>13,
           <1>14, <1>15, <1>16, <1>17, <1>18, <1>19, <1>20, <1>21, <1>22, <1>23, <1>24,
           <1>25, <1>26, <1>27, <1>28, <1>29, <1>30, <1>31, <1>32, <1>33, <1>34, <1>35
    DEF ClientNext, MainThread, RecvThread, Server

(* OnStatChange works on the position in m_me unless the main thread has   *)
(* moved since.                                                            *)
LEMMA StatStep ==
    ASSUME ClientTypeOK, Scalars, NetInv, OneLoginInv, StatInv, [ClientNext]_allVars
    PROVE  StatInv'
<1> USE DEF Scalars, OneLoginInv, Outside, StatInv, clientVars, recvVars,
            netVars, serverVars
<1>1. CASE Connect
  BY <1>1 DEF Connect
<1>2. CASE Quit
  BY <1>2 DEF Quit
<1>3. CASE SendLogin
  BY <1>3 DEF SendLogin
<1>4. CASE ConsumeLoginFail
  BY <1>4 DEF ConsumeLoginFail
<1>5. CASE CloseSocket
  BY <1>5 DEF CloseSocket
<1>6. CASE JoinRecvThread
  BY <1>6 DEF JoinRecvThread
<1>7. CASE NoMove
  BY <1>7 DEF NoMove
<1>8. ASSUME NEW d \in Steps, ReadMe(d) PROVE StatInv'
  BY <1>8 DEF ReadMe
<1>9. CASE SendMove
  BY <1>9 DEF SendMove
<1>10. CASE Predict
  BY <1>10 DEF Predict, Outdates
<1>11. CASE OnLoginOk
  BY <1>11 DEF OnLoginOk
<1>12. CASE SetAll
  BY <1>12 DEF SetAll, Outdates
<1>13. CASE OnStatChange
  BY <1>13 DEF OnStatChange
<1>14. CASE SetStat
  BY <1>14 DEF SetStat, Outdates
<1>15. CASE OnMoveObject
  BY <1>15 DEF OnMoveObject, Receive
<1>16. CASE OnLoginFail
  BY <1>16 DEF OnLoginFail
<1>17. CASE SetFlag
  BY <1>17 DEF SetFlag
<1>18. CASE RecvEnds
  BY <1>18 DEF RecvEnds
<1>19. CASE Lose
  BY <1>19 DEF Lose
<1>20. CASE TakeLogin
  BY <1>20 DEF TakeLogin
<1>21. CASE LoginFails
  BY <1>21 DEF LoginFails
<1>22. CASE EnterWorld
  BY <1>22 DEF EnterWorld
<1>23. CASE ReadPos
  BY <1>23 DEF ReadPos
<1>24. CASE SendLoginOk
  BY <1>24 DEF SendLoginOk, TellPos
<1>25. CASE RefuseMove
  BY <1>25 DEF RefuseMove
<1>26. CASE ProcessMove
  BY <1>26 DEF ProcessMove
<1>27. CASE SetPos
  BY <1>27 DEF SetPos, Speaking
<1>28. CASE SendAck
  BY <1>28 DEF SendAck, TellPos
<1>29. CASE Revive
  BY <1>29 DEF Revive, Speaking
<1>30. CASE NoRoom
  BY <1>30 DEF NoRoom
<1>31. CASE SendRevivedStat
  BY <1>31 DEF SendRevivedStat
<1>32. CASE SendRevivedPos
  BY <1>32 DEF SendRevivedPos, TellPos
<1>33. CASE Die
  BY <1>33 DEF Die, Speaking
<1>34. CASE SendStat
  BY <1>34 DEF SendStat
<1>35. CASE UNCHANGED allVars
  BY <1>35 DEF allVars
<1> QED BY <1>1, <1>2, <1>3, <1>4, <1>5, <1>6, <1>7, <1>8, <1>9, <1>10, <1>11, <1>12, <1>13,
           <1>14, <1>15, <1>16, <1>17, <1>18, <1>19, <1>20, <1>21, <1>22, <1>23, <1>24,
           <1>25, <1>26, <1>27, <1>28, <1>29, <1>30, <1>31, <1>32, <1>33, <1>34, <1>35
    DEF ClientNext, MainThread, RecvThread, Server

(* The invariant holds at the start,                                       *)
LEMMA ClientInvStart ==
    ASSUME ClientInit PROVE ClientInv
<1> USE ClientAssumption
<1>1. NetInv
  BY DEF ClientInit, NetInv
<1>2. Scalars
  <2>1. 0 \in Tiles /\ 1 \in Steps
    BY ClientAssumption DEF Tiles, Steps
  <2> QED BY <2>1 DEF ClientInit, Scalars
<1>3. ClientTypeOK
  BY <1>1, <1>2, TypesAre
<1>4. OneLoginInv /\ FailInv /\ TellsInv
  BY DEF ClientInit, OneLoginInv, FailInv, TellsInv, Outside, InUp, InDown, Out
<1>5. LastInv /\ KnownInv /\ MoveInv /\ StatInv
  BY DEF ClientInit, LastInv, KnownInv, MoveInv, StatInv, InDown, Out
<1> QED BY <1>1, <1>3, <1>4, <1>5 DEF ClientInv

(* every step keeps it,                                                    *)
LEMMA ClientInvStep ==
    ASSUME ClientInv, [ClientNext]_allVars PROVE ClientInv'
<1>1. ClientTypeOK /\ NetInv /\ OneLoginInv /\ FailInv /\ TellsInv
  BY DEF ClientInv
<1>2. LastInv /\ KnownInv /\ MoveInv /\ StatInv
  BY DEF ClientInv
<1>3. Scalars /\ NetInv'
  BY <1>1, TypesAre, NetStep
<1>4. ClientTypeOK'
  BY <1>1, <1>3, ClientTypeStep, TypesAreNext
<1>5. OneLoginInv' /\ FailInv' /\ TellsInv'
  BY <1>1, <1>3, OneLoginStep, FailStep, TellsStep
<1>6. LastInv' /\ KnownInv' /\ MoveInv' /\ StatInv'
  BY <1>1, <1>2, <1>3, LastStep, KnownStep, MoveStep, StatStep
<1> QED BY <1>3, <1>4, <1>5, <1>6 DEF ClientInv

(* and so it always holds.                                                 *)
LEMMA ClientInvAlways == ClientSpec => []ClientInv
  BY ClientInvStart, ClientInvStep, PTL DEF ClientSpec

(* It implies ClientFollows.                                               *)
LEMMA Follows == ASSUME ClientInv PROVE ClientFollows
<1>1. ClientTypeOK
  BY DEF ClientInv
<1>2. ASSUME ClientQuiet, ServerQuiet
      PROVE  wrote = "outdated" \/ me = said \/ (wrote = "guess" /\ answer = "refused")
  <2>1. alive /\ known /\ up = <<>> /\ down = <<>> /\ recv = "loop"
    BY <1>2 DEF ClientQuiet
  <2>2. entering = "in" /\ mover = "idle"
    BY <1>2 DEF ServerQuiet
  <2>3. NoPos /\ ~InUp("move")
    BY <2>1 DEF NoPos, InUp
  <2>4. wrote = "server" => me = said
    BY <2>1, <2>3 DEF ClientInv, LastInv
  <2>5. wrote = "guess" => answer = "refused"
    BY <2>1, <2>2, <2>3 DEF ClientInv, MoveInv, Pending
  <2>6. wrote \in {"server", "guess", "outdated"}
    BY <1>1, <2>1 DEF ClientInv, KnownInv, ClientTypeOK
  <2> QED BY <2>4, <2>5, <2>6
<1> QED BY <1>1, <1>2 DEF ClientFollows

(* Whatever the two threads of the client and the handlers of the server   *)
(* do: once everything has arrived the client shows the last position the  *)
(* server sent, but for a refused move (ProcessMove answers nothing) and a *)
(* position that a thread read before the other changed it (GetMyPlayer    *)
(* then SetMyPlayer).                                                      *)
THEOREM ClientFollowsAlways == ClientSpec => []ClientFollows
  BY ClientInvAlways, Follows, PTL

(* The last position OnLoginDBLoaded, ProcessMove or OnPlayerDied sent is  *)
(* the player's, unless two of them overlapped or OnPlayerDied found no    *)
(* room.                                                                   *)
THEOREM ServerTellsAlways == ClientSpec => []ServerTells
<1>1. ClientInv => ServerTells
  BY DEF ClientInv, ClientTypeOK, TellsInv, ServerTells, ServerQuiet
<1> QED BY <1>1, ClientInvAlways, PTL

(* Whoever is thrown back to the menu (ConsumeLoginFail) was refused on    *)
(* this connection, for the reason the menu shows.                         *)
THEOREM FailReportedAlways == ClientSpec => []FailReported
<1>1. ClientInv => FailReported
  BY DEF ClientInv, FailInv, FailReported
<1> QED BY <1>1, ClientInvAlways, PTL

\* Disconnect joins on a closed connection, on which nothing is left to read.
JoinInv == main = "join" => ~alive /\ down = <<>>

\* What RecvThread still does then: its handler, and to leave its loop.
RecvWork == CASE recv = "none" -> 0 [] recv = "loop" -> 1 [] OTHER -> 2

Winds == main = "join" => /\ RecvWork' <= RecvWork
                          /\ RecvThread => RecvWork' < RecvWork

LEMMA JoinStep == ASSUME ClientTypeOK, JoinInv, [ClientNext]_allVars PROVE JoinInv' /\ Winds
<1> USE DEF JoinInv, Winds, RecvWork
<1>0. RecvThread => recv # recv' \/ main # "join"
  BY DEF RecvThread, OnLoginOk, SetAll, OnStatChange, SetStat, OnMoveObject, OnLoginFail, SetFlag,
         RecvEnds, Receive
<1>1. CASE MainThread \/ Connect \/ Quit
  <2>1. CASE CloseSocket
    BY <1>0, <2>1 DEF CloseSocket, recvVars
  <2>2. CASE JoinRecvThread
    BY <1>0, <2>2 DEF JoinRecvThread, recvVars, netVars
  <2>3. CASE SendLogin \/ ConsumeLoginFail \/ NoMove \/ (\E d \in Steps : ReadMe(d)) \/ SendMove
             \/ Predict \/ Connect \/ Quit
    <3>1. main # "join" /\ main' # "join"
      BY <2>3 DEF SendLogin, ConsumeLoginFail, NoMove, ReadMe, SendMove, Predict, Connect, Quit
    <3> QED BY <3>1
  <2> QED BY <1>1, <2>1, <2>2, <2>3 DEF MainThread
<1>2. CASE RecvThread
  <2>1. main' = main /\ (main = "join" => down' = <<>> /\ alive' = alive)
    BY <1>2 DEF RecvThread, OnLoginOk, SetAll, OnStatChange, SetStat, OnMoveObject, OnLoginFail,
                SetFlag, RecvEnds, Receive, clientVars, netVars
  <2>2. main = "join" => \/ recv \in {"setAll", "setStat", "flag"} /\ recv' = "loop"
                         \/ recv = "loop" /\ recv' = "none"
    BY <1>2 DEF RecvThread, OnLoginOk, SetAll, OnStatChange, SetStat, OnMoveObject, OnLoginFail,
                SetFlag, RecvEnds, Receive
  <2> QED BY <2>1, <2>2
<1>3. CASE Lose \/ Server \/ Die \/ SendStat
  <2>1. recv' = recv /\ main' = main
    BY <1>3 DEF Lose, Server, TakeLogin, LoginFails, EnterWorld, ReadPos, SendLoginOk, RefuseMove,
                ProcessMove, SetPos, SendAck, Revive, NoRoom, SendRevivedStat, SendRevivedPos, Die,
                SendStat, clientVars, recvVars
  <2>2. ~alive => ~alive' /\ down' = down
    BY <1>3 DEF Lose, Server, TakeLogin, LoginFails, EnterWorld, ReadPos, SendLoginOk, RefuseMove,
                ProcessMove, SetPos, SendAck, Revive, NoRoom, SendRevivedStat, SendRevivedPos, Die,
                SendStat, Tell, TellPos, Packet, netVars
  <2> QED BY <1>0, <2>1, <2>2
<1>4. CASE UNCHANGED allVars
  BY <1>0, <1>4 DEF allVars, clientVars, recvVars, netVars
<1> QED BY <1>1, <1>2, <1>3, <1>4 DEF ClientNext

(* Disconnect's join returns: RecvThread finds the connection closed and   *)
(* nothing to read, and each of its steps brings it nearer to its end,     *)
(* whatever the server does meanwhile.                                     *)
THEOREM JoinReturns == ClientSpec => []JoinInv /\ [][Winds]_allVars
<1>1. ClientInit => JoinInv
  BY DEF ClientInit, JoinInv
<1>2. ClientInv => ClientTypeOK
  BY DEF ClientInv
<1> QED BY <1>1, <1>2, ClientInvAlways, JoinStep, PTL DEF ClientSpec
=============================================================================
