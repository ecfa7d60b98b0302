----------------------------- MODULE Persistence -----------------------------
(***************************************************************************)
(* What becomes of one character's progress.  Its row is read by the login *)
(* DB thread and written by the save DB thread, each with a queue of its   *)
(* own; snapshots are taken by SaveAllPlayers (the DB_SAVE timer, and once *)
(* by ShutDown) and by ProcessDisconnect, field by field, and put into the *)
(* save queue later.  The character plays over several sessions, whose     *)
(* ends and beginnings overlap.  Sessions and the DB_SAVE timer go on after*)
(* DBManager::Shutdown: the workers and the timer thread are stopped later.*)
(***************************************************************************)
EXTENDS Integers, Sequences, FiniteSets

CONSTANTS
    Sessions,       \* sessions that log in with this character
    NeedExp,        \* experience for the first level (100)
    MaxLevel,       \* MAX_LEVEL
    Rewards,        \* what a monster is worth
    MaxSaves,       \* bound: DB_SAVE timers that fire
    MaxChanges,     \* bound: rewards and deaths, of all sessions together
    First,          \* the row the first session finds
    Playing,        \* the session that plays already, or Nobody
    Timer, Main,    \* the two callers of SaveAllPlayers
    Nobody          \* no session

\* What the level after l costs, and level l all together.
Need[l \in 1 .. MaxLevel] == IF l = 1 THEN NeedExp ELSE 2 * Need[l - 1]
Total[l \in 1 .. MaxLevel] == IF l = 1 THEN 0 ELSE Total[l - 1] + Need[l - 1]

\* The fields of a PlayerRow that progress is measured in.
Rows == [level : 1 .. MaxLevel, exp : 0 .. Need[MaxLevel]]

\* A level and less experience than the next one takes, none at the last.
Legal(r) == IF r.level = MaxLevel THEN r.exp = 0 ELSE r.exp < Need[r.level]

ASSUME PersistenceAssumption ==
    /\ NeedExp \in Nat \ {0} /\ MaxLevel \in Nat \ {0} /\ MaxSaves \in Nat /\ MaxChanges \in Nat
    /\ Rewards \subseteq Nat \ {0}
    /\ First \in Rows /\ Legal(First)
    /\ Timer # Main /\ Nobody \notin Sessions /\ Playing \in Sessions \cup {Nobody}

Savers == {Timer, Main}

VARIABLES
    row,            \* the row in the database
    mem,            \* Player::m_level, m_exp of each session's player
    pc,             \* where each session is
    copy,           \* its PlayerRow: loaded, then snapshot
    claimed,        \* the dbId is in m_activeDbIds
    spc,            \* where each run of SaveAllPlayers is
    snap,           \* its PlayerRow
    of,             \* the session whose player it saves
    stamps,         \* sessions whose OnLoginDBLoaded has UpdateLastLogin to post
    saveQueue,      \* DBManager::m_saveQueue: its tasks, and whether posted too late
    running,        \* DBManager::m_running
    loader, saver,  \* the login thread and the save thread: "up" or "returned"
    saves,          \* DB_SAVE timers fired (bounded by MaxSaves)
    changes,        \* rewards and deaths so far (bounded by MaxChanges)
    latest,         \* history: its state when it last changed, First once raced
    raced,          \* history: a failed write, or an order that nothing makes up for
    torn            \* history: the level changed between two getters of a snapshot

vars == <<row, mem, pc, copy, claimed, spc, snap, of, stamps, saveQueue, running, loader, saver,
          saves, changes, latest, raced, torn>>

Init ==
    /\ row = First
    /\ mem = [s \in Sessions |-> First]
    /\ pc = [s \in Sessions |-> IF s = Playing THEN "in" ELSE "new"]
    /\ copy = [s \in Sessions |-> First]
    /\ claimed = (Playing # Nobody)
    /\ spc = [v \in Savers |-> "idle"]
    /\ snap = [v \in Savers |-> First]
    /\ of = [v \in Savers |-> Nobody]
    /\ stamps = {} /\ saveQueue = <<>>
    /\ running = TRUE /\ loader = "up" /\ saver = "up" /\ saves = 0 /\ changes = 0
    /\ latest = First /\ raced = FALSE /\ torn = FALSE

Goto(s, from, to) == pc[s] = from /\ pc' = [pc EXCEPT ![s] = to]
GotoV(v, from, to) == spc[v] = from /\ spc' = [spc EXCEPT ![v] = to]

\* In m_players.  SaveAllPlayers holds m_playersMutex while it takes snapshots.
InWorld(s) == pc[s] \in {"in", "snapLevel", "remove"}
Locked     == \E v \in Savers : spc[v] \in {"level", "exp"}

\* The character is now r; bad says whether what became of it is excused.
Record(r, bad) ==
    /\ raced' = (raced \/ bad)
    /\ latest' = IF raced' THEN First ELSE r

\* A row on its way to the database.
Pending ==
    \/ \E i \in 1 .. Len(saveQueue) : saveQueue[i].kind = "save"
    \/ \E v \in Savers : spc[v] # "idle" /\ spc[v] # "done"
    \/ \E s \in Sessions : pc[s] \in {"snapLevel", "remove", "release", "post"}

-----------------------------------------------------------------------------
(* Login: PostLoginTask, the login thread, OnLoginDBLoaded *)

ProcessLogin(s) ==
    /\ Goto(s, "new", "queued")
    /\ UNCHANGED <<row, mem, copy, claimed, spc, snap, of, stamps, saveQueue, running, loader, saver,
                   saves, changes, latest, raced, torn>>

\* The login thread does not look at the save queue.  Like the save thread
\* it goes on after Shutdown until its own queue is empty.
LoadPlayerByName(s) ==
    /\ loader = "up"
    /\ Goto(s, "queued", "loaded")
    /\ copy' = [copy EXCEPT ![s] = row]
    /\ UNCHANGED <<row, mem, claimed, spc, snap, of, stamps, saveQueue, running, loader, saver,
                   saves, changes, latest, raced, torn>>

\* A DB error: SC_LOGIN_FAIL.
LoadFails(s) ==
    /\ loader = "up"
    /\ Goto(s, "queued", "gone")
    /\ UNCHANGED <<row, mem, copy, claimed, spc, snap, of, stamps, saveQueue, running, loader, saver,
                   saves, changes, latest, raced, torn>>

\* What is posted after this stays in the queue.
LoginThreadReturns ==
    /\ loader = "up" /\ ~running
    /\ \A s \in Sessions : pc[s] # "queued"
    /\ loader' = "returned"
    /\ UNCHANGED <<row, mem, pc, copy, claimed, spc, snap, of, stamps, saveQueue, running, saver,
                   saves, changes, latest, raced, torn>>

OnLoginDBLoaded(s) ==
    /\ ~claimed /\ ~Locked
    /\ Goto(s, "loaded", "in")
    /\ claimed' = TRUE
    /\ mem' = [mem EXCEPT ![s] = copy[s]]
    /\ copy' = [copy EXCEPT ![s] = First]
    /\ stamps' = stamps \cup {s}
    /\ Record(copy[s], Pending \/ copy[s] # row)
    /\ UNCHANGED <<row, spc, snap, of, saveQueue, running, loader, saver, saves, changes, torn>>

DuplicateLogin(s) ==
    /\ claimed
    /\ Goto(s, "loaded", "gone")
    /\ copy' = [copy EXCEPT ![s] = First]
    /\ UNCHANGED <<row, mem, claimed, spc, snap, of, stamps, saveQueue, running, loader, saver,
                   saves, changes, latest, raced, torn>>

\* AddPlayer finds no tile: the claim stays behind.
SpawnFull(s) ==
    /\ ~claimed
    /\ Goto(s, "loaded", "gone")
    /\ claimed' = TRUE
    /\ copy' = [copy EXCEPT ![s] = First]
    /\ UNCHANGED <<row, mem, spc, snap, of, stamps, saveQueue, running, loader, saver,
                   saves, changes, latest, raced, torn>>

Posted(kind, r) == Append(saveQueue, [kind |-> kind, row |-> r, late |-> ~running])

\* The end of OnLoginDBLoaded; GetPlayer may find that the player has left.
PostUpdateLastLogin(s) ==
    /\ s \in stamps
    /\ stamps' = stamps \ {s}
    /\ \/ saveQueue' = Posted("lastLogin", First)
       \/ ~InWorld(s) /\ UNCHANGED saveQueue
    /\ UNCHANGED <<row, mem, pc, copy, claimed, spc, snap, of, running, loader, saver,
                   saves, changes, latest, raced, torn>>

-----------------------------------------------------------------------------
(* Play.  A monster may kill the player, and the player's own handler may   *)
(* still be running, while another worker takes a snapshot.                 *)

\* A snapshot of s has read the level and not yet the experience.
HalfRead(s) == pc[s] = "snapLevel" \/ \E v \in Savers : spc[v] = "exp" /\ of[v] = s

Changes(s, r) ==
    /\ InWorld(s) /\ changes < MaxChanges
    /\ changes' = changes + 1
    /\ mem' = [mem EXCEPT ![s] = r]
    /\ Record(r, pc[s] # "in")
    /\ torn' = (torn \/ (HalfRead(s) /\ r.level # mem[s].level))
    /\ UNCHANGED <<row, pc, copy, claimed, spc, snap, of, stamps, saveQueue, running, loader, saver, saves>>

\* Mutant: a reward raises one level at most.
GainedOnce(r, amount) ==
    IF r.level < MaxLevel /\ r.exp + amount >= Need[r.level]
    THEN [level |-> r.level + 1, exp |-> r.exp + amount - Need[r.level]]
    ELSE [r EXCEPT !.exp = IF r.level = MaxLevel THEN 0 ELSE @ + amount]

\* As many levels as the experience pays for; none is left over at the last.
Gained(r, amount) ==
    LET exp     == r.exp + amount
        paid(l) == Total[l] - Total[r.level]
        level   == CHOOSE l \in r.level .. MaxLevel :
                      paid(l) <= exp /\ (l = MaxLevel \/ exp < paid(l + 1))
    IN  [level |-> level, exp |-> IF level = MaxLevel THEN 0 ELSE exp - paid(level)]

GainExp(s) == \E amount \in Rewards : Changes(s, Gained(mem[s], amount))

Die(s) == Changes(s, [mem[s] EXCEPT !.exp = @ \div 2])

-----------------------------------------------------------------------------
(* ProcessDisconnect: snapshot field by field, leave, release, post.  The   *)
(* first getter of a snapshot copies the player; what the second one reads  *)
(* replaces the experience in that copy.                                    *)

SnapshotLevel(s) ==
    /\ Goto(s, "in", "snapLevel")
    /\ copy' = [copy EXCEPT ![s] = mem[s]]
    /\ UNCHANGED <<row, mem, claimed, spc, snap, of, stamps, saveQueue, running, loader, saver,
                   saves, changes, latest, raced, torn>>

SnapshotExp(s) ==
    /\ Goto(s, "snapLevel", "remove")
    /\ copy' = [copy EXCEPT ![s].exp = mem[s].exp]
    /\ UNCHANGED <<row, mem, claimed, spc, snap, of, stamps, saveQueue, running, loader, saver,
                   saves, changes, latest, raced, torn>>

RemovePlayer(s) ==
    /\ ~Locked
    /\ Goto(s, "remove", "release")
    /\ mem' = [mem EXCEPT ![s] = First]
    /\ UNCHANGED <<row, copy, claimed, spc, snap, of, stamps, saveQueue, running, loader, saver,
                   saves, changes, latest, raced, torn>>

ReleaseDbId(s) ==
    /\ Goto(s, "release", "post")
    /\ claimed' = FALSE
    /\ UNCHANGED <<row, mem, copy, spc, snap, of, stamps, saveQueue, running, loader, saver,
                   saves, changes, latest, raced, torn>>

\* Mutant: ProcessDisconnect returns without posting.
ForgetSave(s) ==
    /\ Goto(s, "post", "gone")
    /\ copy' = [copy EXCEPT ![s] = First]
    /\ UNCHANGED <<row, mem, claimed, spc, snap, of, stamps, saveQueue, running, loader, saver,
                   saves, changes, latest, raced, torn>>

PostSaveTask(s) ==
    /\ Goto(s, "post", "gone")
    /\ saveQueue' = Posted("save", copy[s])
    /\ copy' = [copy EXCEPT ![s] = First]
    /\ UNCHANGED <<row, mem, claimed, spc, snap, of, stamps, running, loader, saver,
                   saves, changes, latest, raced, torn>>

-----------------------------------------------------------------------------
(* SaveAllPlayers: every snapshot under the lock, the posts after it.  The  *)
(* DB_SAVE timer fires until TimerManager::Stop, after DBManager::Shutdown. *)

SaveAllPlayers(v) ==
    /\ v = Timer => saves < MaxSaves
    /\ saves' = IF v = Timer THEN saves + 1 ELSE saves
    /\ IF \E s \in Sessions : InWorld(s)
       THEN \E s \in Sessions :
               /\ InWorld(s)
               /\ GotoV(v, "idle", "level")
               /\ of' = [of EXCEPT ![v] = s]
       ELSE /\ GotoV(v, "idle", IF v = Main THEN "done" ELSE "idle")
            /\ UNCHANGED of
    /\ UNCHANGED <<row, mem, pc, copy, claimed, snap, stamps, saveQueue, running, loader, saver,
                   changes, latest, raced, torn>>

SnapLevel(v) ==
    /\ GotoV(v, "level", "exp")
    /\ snap' = [snap EXCEPT ![v] = mem[of[v]]]
    /\ UNCHANGED <<row, mem, pc, copy, claimed, of, stamps, saveQueue, running, loader, saver,
                   saves, changes, latest, raced, torn>>

SnapExp(v) ==
    /\ GotoV(v, "exp", "post")
    /\ snap' = [snap EXCEPT ![v].exp = mem[of[v]].exp]
    /\ UNCHANGED <<row, mem, pc, copy, claimed, of, stamps, saveQueue, running, loader, saver,
                   saves, changes, latest, raced, torn>>

PostSnapshot(v) ==
    /\ GotoV(v, "post", IF v = Main THEN "done" ELSE "idle")
    /\ saveQueue' = Posted("save", snap[v])
    /\ Record(latest, pc[of[v]] # "in")
    /\ snap' = [snap EXCEPT ![v] = First]
    /\ of' = [of EXCEPT ![v] = Nobody]
    /\ UNCHANGED <<row, mem, pc, copy, claimed, stamps, running, loader, saver, saves, changes, torn>>

-----------------------------------------------------------------------------
(* The save thread and DBManager::Shutdown *)

\* The task at the head of the queue is of this kind.
NextTask(kind) == saver = "up" /\ saveQueue # <<>> /\ Head(saveQueue).kind = kind

SavePlayer ==
    /\ NextTask("save")
    /\ row' = Head(saveQueue).row
    /\ saveQueue' = Tail(saveQueue)
    /\ UNCHANGED <<mem, pc, copy, claimed, spc, snap, of, stamps, running, loader, saver,
                   saves, changes, latest, raced, torn>>

\* SavePlayer returned false: logged, the row is not written again.
SaveFails ==
    /\ NextTask("save")
    /\ saveQueue' = Tail(saveQueue)
    /\ Record(latest, TRUE)
    /\ UNCHANGED <<row, mem, pc, copy, claimed, spc, snap, of, stamps, running, loader, saver, saves, changes, torn>>

\* Whether it succeeds or not: no field of the row that is modelled changes.
UpdateLastLogin ==
    /\ NextTask("lastLogin")
    /\ saveQueue' = Tail(saveQueue)
    /\ UNCHANGED <<row, mem, pc, copy, claimed, spc, snap, of, stamps, running, loader, saver,
                   saves, changes, latest, raced, torn>>

\* Mutant: the thread returns as soon as it sees m_running false.
ReturnAtOnce ==
    /\ saver = "up" /\ ~running
    /\ saver' = "returned"
    /\ UNCHANGED <<row, mem, pc, copy, claimed, spc, snap, of, stamps, saveQueue, running,
                   loader, saves, changes, latest, raced, torn>>

\* Mutant: the wait's predicate looks at the queue alone.
NeverReturn == FALSE /\ UNCHANGED vars

SaveThreadReturns ==
    /\ saver = "up" /\ ~running /\ saveQueue = <<>>
    /\ saver' = "returned"
    /\ UNCHANGED <<row, mem, pc, copy, claimed, spc, snap, of, stamps, saveQueue, running,
                   loader, saves, changes, latest, raced, torn>>

\* IOCPServer::ShutDown goes on to this when its SaveAllPlayers has returned;
\* the workers, and with them the sessions, run on for a while.
Shutdown ==
    /\ spc[Main] = "done" /\ running
    /\ running' = FALSE
    /\ UNCHANGED <<row, mem, pc, copy, claimed, spc, snap, of, stamps, saveQueue, loader, saver,
                   saves, changes, latest, raced, torn>>

-----------------------------------------------------------------------------
SessionStep(s) ==
    \/ ProcessLogin(s) \/ LoadPlayerByName(s) \/ LoadFails(s)
    \/ OnLoginDBLoaded(s) \/ DuplicateLogin(s) \/ SpawnFull(s) \/ PostUpdateLastLogin(s)
    \/ GainExp(s) \/ Die(s)
    \/ SnapshotLevel(s) \/ SnapshotExp(s) \/ RemovePlayer(s) \/ ReleaseDbId(s) \/ PostSaveTask(s)

SaverStep(v) == SnapLevel(v) \/ SnapExp(v) \/ PostSnapshot(v)

LoginThread == (\E s \in Sessions : LoadPlayerByName(s) \/ LoadFails(s)) \/ LoginThreadReturns

SaveThread == SavePlayer \/ SaveFails \/ UpdateLastLogin \/ SaveThreadReturns

Next ==
    \/ \E s \in Sessions : SessionStep(s)
    \/ \E v \in Savers : SaveAllPlayers(v) \/ SaverStep(v)
    \/ LoginThreadReturns
    \/ SaveThread
    \/ Shutdown

Spec == Init /\ [][Next]_vars

\* The two DB threads go on.  Nothing else is owed: no player need log in or
\* out, no timer need fire, and SaveAllPlayers may be stuck.
FairSpec == Spec /\ WF_vars(LoginThread) /\ WF_vars(SaveThread)

-----------------------------------------------------------------------------
TypeOK ==
    /\ row \in Rows
    /\ mem \in [Sessions -> Rows] /\ copy \in [Sessions -> Rows]
    /\ pc \in [Sessions -> {"new", "queued", "loaded", "in", "snapLevel", "remove",
                            "release", "post", "gone"}]
    /\ claimed \in BOOLEAN
    /\ spc \in [Savers -> {"idle", "level", "exp", "post", "done"}]
    /\ snap \in [Savers -> Rows] /\ of \in [Savers -> Sessions \cup {Nobody}]
    /\ stamps \subseteq Sessions
    /\ saveQueue \in Seq([kind : {"save", "lastLogin"}, row : Rows, late : BOOLEAN])
    /\ running \in BOOLEAN /\ loader \in {"up", "returned"} /\ saver \in {"up", "returned"}
    /\ saves \in 0 .. MaxSaves /\ changes \in 0 .. MaxChanges
    /\ latest \in Rows /\ raced \in BOOLEAN /\ torn \in BOOLEAN

\* Nobody is in the world and nothing is on its way to the database.
Settled == ~Pending /\ \A s \in Sessions : ~InWorld(s)

(* Without the overlaps raced records (a login answered while a row is on  *)
(* its way or after it changed, a change after the logout's snapshot, an   *)
(* autosave posted after it, a failed save), what the character was when   *)
(* it left is what the next login finds, over sessions and autosaves.      *)
SavedUnlessRaced == Settled /\ ~raced => row = latest

(* DBManager::Shutdown drains: a task posted before it has been executed   *)
(* when the save thread returns, whatever is posted meanwhile.             *)
DrainedWhenReturned ==
    saver = "returned" => \A i \in 1 .. Len(saveQueue) : saveQueue[i].late

(* DBManager::Shutdown does not hang in its joins: once m_running is       *)
(* cleared both DB threads return, although sessions still log in and out, *)
(* autosaves go on and all of them still post.                             *)
ShutdownReturns == ~running ~> loader = "returned" /\ saver = "returned"

(* What is in the database is a level and less experience than the next   *)
(* one takes, none at the last, however many levels a reward is worth;     *)
(* unless a snapshot read the level before and the experience after such   *)
(* a change: one field, one lock.                                          *)
RowLegal ==
    /\ TypeOK
    /\ ~torn => Legal(row)
=============================================================================
