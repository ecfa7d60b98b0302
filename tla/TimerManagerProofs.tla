-------------------------- MODULE TimerManagerProofs --------------------------
(***************************************************************************)
(* Theorems about TimerManager for any number of workers, any capacity of  *)
(* the pool, any delays and any bounds.                                    *)
(*                                                                         *)
(* The second part is about MonsterLife: the AI and respawn timers that    *)
(* the manager fires.                                                      *)
(***************************************************************************)
EXTENDS TimerManager, MonsterLife, FiniteSetTheorems, TLAPS

(* What a thread that stands somewhere has in its hands.                   *)
HandInv ==
    /\ main = "init" => thread = "off"
    /\ notices <= registered
    /\ hand # None <=> thread \in {"post", "queue"}
    /\ tov # None <=> thread = "queue"
    /\ tov # None => content[tov] = hand
    /\ \A w \in Workers : slot[w] # None <=> worker[w] \in {"handle", "release"}

(* Whatever has left the heap was due.                                     *)
DueInv ==
    /\ \A e \in Timers : ran[e] > 0 => e <= registered /\ due[e] <= clock
    /\ hand # None => hand <= registered /\ due[hand] <= clock
    /\ \A s \in Slots : content[s] # None =>
            content[s] <= registered /\ due[content[s]] <= clock
    /\ \A e \in gone : e <= registered

(* Between its look at the heap and the wait the thread holds m_mutex, so   *)
(* nothing is pushed; after a push somebody has yet to notify.             *)
WaitInv ==
    /\ thread = "block" => queue = {}
    /\ thread = "sleep" => \A e \in queue : until <= due[e]
    /\ NoLostWakeup

(* Where a slot can be that is not free; it is in one place.               *)
Has(w, s) == slot[w] = s
InUse(s) == s \in port \/ s \in leaked \/ \E w \in Workers : Has(w, s)
OwnInv ==
    /\ tov # None => ~InUse(tov)
    /\ \A s \in port : s \notin leaked /\ \A w \in Workers : ~Has(w, s)
    /\ \A s \in leaked : \A w \in Workers : ~Has(w, s)
    /\ \A v, w \in Workers : slot[v] # None /\ slot[v] = slot[w] => v = w

(* A new object carries the timer it was made for, and is not made again.  *)
HasRun(e) == e \in Timers /\ ran[e] = 1
NewInv ==
    /\ \A s \in Slots : s > Capacity /\ (s = tov \/ InUse(s)) => content[s] = s - Capacity
    /\ \A s \in leaked : s > Capacity => content[s] \in gone \/ ran[content[s]] = 1
    /\ \A w \in Workers : worker[w] = "release" => HasRun(content[slot[w]])

(* Where a timer can be that has been registered; it is in one place.      *)
Flies(s) == s \in port \/ \E w \in Workers : worker[w] = "handle" /\ slot[w] = s
Finished(e) == ran[e] = 1 \/ e \in gone
CarryInv ==
    /\ \A e \in Timers : ran[e] <= 1
    /\ \A e \in queue : ~Finished(e) /\ e # hand
    /\ hand # None => ~Finished(hand)
    /\ \A s \in Slots : Flies(s) =>
            content[s] # None /\ content[s] \notin queue /\ content[s] # hand /\ ~Finished(content[s])
    /\ \A s, t \in Slots : Flies(s) /\ Flies(t) /\ content[s] = content[t] => s = t
    /\ \A e \in 1 .. registered :
            e \in queue \/ e = hand \/ Finished(e) \/ \E s \in Slots : Flies(s) /\ content[s] = e

IndInv ==
    TypeOK /\ HandInv /\ DueInv /\ WaitInv /\ SlotsReturn /\ OwnInv /\ NewInv /\ CarryInv

(* Every step keeps the types.                                             *)
LEMMA TypeStep == TypeOK /\ HandInv /\ CarryInv /\ [Next]_vars => TypeOK'
<1> SUFFICES ASSUME TypeOK, HandInv, CarryInv, [Next]_vars PROVE TypeOK'
  OBVIOUS
<1>0. Cardinality(Workers) \in Nat
  BY TimerAssumption, FS_CardinalityType
<1> USE TimerAssumption, <1>0 DEF heapVars, thrVars, poolVars, workVars,
        mainVars
<1>1. CASE Tick
  <2>1. clock' \in 0 .. MaxTime
    BY <1>1 DEF TypeOK, Tick
  <2> QED BY <1>1, <2>1 DEF TypeOK, Tick
<1>2. ASSUME NEW d \in Delays, AddTimer(d) PROVE TypeOK'
  <2>1. registered' \in 0 .. MaxTimers /\ queue' \subseteq 1 .. registered'
    BY <1>2 DEF TypeOK, AddTimer, Holding
  <2>2. due' \in [Timers -> 0 .. MaxTime]
    BY <1>2 DEF TypeOK, AddTimer, Holding, Timers
  <2>3. notices' \in 0 .. MaxTimers
    BY <1>2 DEF TypeOK, AddTimer, Holding, HandInv
  <2> QED BY <1>2, <2>1, <2>2, <2>3 DEF TypeOK, AddTimer, Holding
<1>3. CASE NotifyOne
  <2>1. notices' \in 0 .. MaxTimers
    BY <1>3 DEF TypeOK, NotifyOne, Woken
  <2> QED BY <1>3, <2>1 DEF TypeOK, NotifyOne, Woken
<1>4. CASE TestRunning \/ Lock \/ TestPredicate \/ Block \/ Wake
           \/ Spurious \/ Sleep \/ Timeout \/ SpuriousTimed
  BY <1>4 DEF TestRunning, Lock, TestPredicate, Block, Wake, Spurious, Sleep,
     Timeout, SpuriousTimed, GoTo, TypeOK
<1>5. CASE NotDue
  <2>1. until' \in 0 .. MaxTime
    BY <1>5 DEF TypeOK, NotDue, Earliest, Timers
  <2> QED BY <1>5, <2>1 DEF TypeOK, NotDue, Earliest
<1>6. CASE Pop
  <2>1. hand' \in Timers \cup {None} /\ queue' \subseteq 1 .. registered'
    BY <1>6 DEF TypeOK, Pop, Earliest, Timers
  <2> QED BY <1>6, <2>1 DEF TypeOK, Pop, Earliest
<1>7. CASE Acquire
  <2>1. hand \in Timers
    BY <1>7 DEF TypeOK, Acquire, HandInv
  <2>2. tov' \in Slots /\ free' \subseteq Pool
    <3>1. CASE free = {}
      BY <1>7, <2>1, <3>1 DEF TypeOK, Acquire, New, Slots, Timers
    <3>2. CASE free # {}
      <4>1. \E s \in free : tov' = s /\ free' = free \ {s}
        BY <1>7, <3>2 DEF Acquire
      <4>2. QED BY <4>1 DEF TypeOK, Slots, Pool
    <3>3. QED BY <3>1, <3>2
  <2>3. content' \in [Slots -> Timers \cup {None}]
    BY <1>7, <2>1, <2>2 DEF TypeOK, Acquire
  <2> QED BY <1>7, <2>1, <2>2, <2>3 DEF TypeOK, Acquire
<1>8. CASE Post
  BY <1>8 DEF Post, TypeOK, HandInv
<1>9. CASE PostFails
  <2>1. hand \in Timers /\ tov \in Slots
    BY <1>9 DEF TypeOK, PostFails, HandInv
  <2>2. faults' \in 0 .. MaxFaults
    BY <1>9 DEF TypeOK, PostFails
  <2> QED BY <1>9, <2>1, <2>2 DEF TypeOK, PostFails
<1>10. ASSUME NEW w \in Workers, TestUp(w) PROVE TypeOK'
  BY <1>10 DEF TestUp, TypeOK
<1>11. ASSUME NEW w \in Workers, Dequeue(w) PROVE TypeOK'
  <2>1. \A s \in port : content[s] \in Timers
    BY <1>11 DEF TypeOK, Dequeue, CarryInv, Flies
  <2>2. port' \subseteq Slots /\ leaked' \subseteq Slots /\ gone' \subseteq Timers
    BY <1>11, <2>1 DEF TypeOK, Dequeue, Slots
  <2>3. slot' \in [Workers -> Slots \cup {None}]
    BY <1>11 DEF TypeOK, Dequeue
  <2>4. worker' \in [Workers -> {"top", "wait", "handle", "release", "done"}]
    BY <1>11 DEF TypeOK, Dequeue
  <2> QED BY <1>11, <2>1, <2>2, <2>3, <2>4 DEF TypeOK, Dequeue
<1>12. ASSUME NEW w \in Workers, DequeueNull(w) PROVE TypeOK'
  <2>1. nulls' \in 0 .. Cardinality(Workers)
    BY <1>12 DEF TypeOK, DequeueNull
  <2>2. worker' \in [Workers -> {"top", "wait", "handle", "release", "done"}]
    BY <1>12 DEF TypeOK, DequeueNull
  <2> QED BY <1>12, <2>1, <2>2 DEF TypeOK, DequeueNull
<1>13. ASSUME NEW w \in Workers, Handle(w) PROVE TypeOK'
  <2>1. content[slot[w]] \in Timers
    BY <1>13 DEF TypeOK, Handle, HandInv, CarryInv, Flies
  <2>2. ran' \in [Timers -> Nat]
    BY <1>13, <2>1 DEF TypeOK, Handle
  <2>3. worker' \in [Workers -> {"top", "wait", "handle", "release", "done"}]
    BY <1>13 DEF TypeOK, Handle
  <2> QED BY <1>13, <2>2, <2>3 DEF TypeOK, Handle
<1>14. ASSUME NEW w \in Workers, ReleaseSlot(w) PROVE TypeOK'
  <2>1. slot[w] \in Slots
    BY <1>14 DEF TypeOK, ReleaseSlot, HandInv
  <2>2. free' \subseteq Pool
    <3>1. IsFromPool(slot[w]) => slot[w] \in Pool
      BY <2>1 DEF IsFromPool, Slots, Pool
    <3>2. free' = IF IsFromPool(slot[w]) THEN free \cup {slot[w]} ELSE free
      BY <1>14 DEF ReleaseSlot, Release
    <3>3. QED BY <3>1, <3>2 DEF TypeOK
  <2>3. slot' \in [Workers -> Slots \cup {None}]
    BY <1>14 DEF TypeOK, ReleaseSlot
  <2>4. worker' \in [Workers -> {"top", "wait", "handle", "release", "done"}]
    BY <1>14 DEF TypeOK, ReleaseSlot
  <2> QED BY <1>14, <2>2, <2>3, <2>4 DEF TypeOK, ReleaseSlot
<1>15. ASSUME NEW w \in Workers, HandlerThrows(w) PROVE TypeOK'
  <2>1. slot[w] \in Slots
    BY <1>15 DEF TypeOK, HandlerThrows, HandInv
  <2>2. slot' \in [Workers -> Slots \cup {None}]
    BY <1>15 DEF TypeOK, HandlerThrows
  <2>3. faults' \in 0 .. MaxFaults
    BY <1>15 DEF TypeOK, HandlerThrows
  <2>4. worker' \in [Workers -> {"top", "wait", "handle", "release", "done"}]
    BY <1>15 DEF TypeOK, HandlerThrows
  <2> QED BY <1>15, <2>1, <2>2, <2>3, <2>4 DEF TypeOK, HandlerThrows
<1>16. CASE Start
  BY <1>16 DEF Start, TypeOK
<1>17. CASE StopClears
  BY <1>17 DEF StopClears, TypeOK
<1>18. CASE StopNotifies
  BY <1>18 DEF StopNotifies, Woken, TypeOK
<1>19. CASE StopJoins
  BY <1>19 DEF StopJoins, TypeOK
<1>20. CASE WakeWorkers
  <2>1. nulls' \in 0 .. Cardinality(Workers)
    BY <1>20 DEF TypeOK, WakeWorkers
  <2> QED BY <1>20, <2>1 DEF TypeOK, WakeWorkers
<1>21. CASE JoinWorkers
  BY <1>21 DEF JoinWorkers, TypeOK
<1>22. CASE UNCHANGED vars
  BY <1>22 DEF TypeOK, vars, heapVars, thrVars, poolVars, workVars, mainVars
<1>23. QED BY <1>1, <1>2, <1>3, <1>4, <1>5, <1>6, <1>7, <1>8, <1>9, <1>10,
     <1>11, <1>12, <1>13, <1>14, <1>15, <1>16, <1>17, <1>18, <1>19, <1>20,
     <1>21, <1>22 DEF Next, Thread, Worker, ShutDown

(* ... and what a thread has in its hands.                                 *)
LEMMA HandStep == TypeOK /\ HandInv /\ [Next]_vars => HandInv'
<1> SUFFICES ASSUME TypeOK, HandInv, [Next]_vars PROVE HandInv'
  OBVIOUS
<1> USE TimerAssumption DEF TypeOK, HandInv, Timers, Slots, Pool, None,
        heapVars, thrVars, poolVars, workVars, mainVars
<1>1. CASE Tick
  BY <1>1 DEF Tick
<1>2. ASSUME NEW d \in Delays, AddTimer(d) PROVE HandInv'
  BY <1>2 DEF AddTimer, Holding
<1>3. CASE NotifyOne
  BY <1>3 DEF NotifyOne, Woken
<1>4. CASE TestRunning \/ Lock \/ TestPredicate \/ Block \/ Wake
           \/ Spurious \/ Sleep \/ Timeout \/ SpuriousTimed
  BY <1>4 DEF TestRunning, Lock, TestPredicate, Block, Wake, Spurious, Sleep,
     Timeout, SpuriousTimed, GoTo
<1>5. CASE NotDue
  BY <1>5 DEF NotDue, Earliest
<1>6. CASE Pop
  BY <1>6 DEF Pop, Earliest
<1>7. CASE Acquire
  BY <1>7 DEF Acquire, New
<1>8. CASE Post
  BY <1>8 DEF Post
<1>9. CASE PostFails
  BY <1>9 DEF PostFails
<1>10. ASSUME NEW w \in Workers, TestUp(w) PROVE HandInv'
  BY <1>10 DEF TestUp
<1>11. ASSUME NEW w \in Workers, Dequeue(w) PROVE HandInv'
  BY <1>11 DEF Dequeue
<1>12. ASSUME NEW w \in Workers, DequeueNull(w) PROVE HandInv'
  BY <1>12 DEF DequeueNull
<1>13. ASSUME NEW w \in Workers, Handle(w) PROVE HandInv'
  BY <1>13 DEF Handle
<1>14. ASSUME NEW w \in Workers, ReleaseSlot(w) PROVE HandInv'
  BY <1>14 DEF ReleaseSlot, Release, IsFromPool
<1>15. ASSUME NEW w \in Workers, HandlerThrows(w) PROVE HandInv'
  BY <1>15 DEF HandlerThrows
<1>16. CASE Start
  BY <1>16 DEF Start
<1>17. CASE StopClears
  BY <1>17 DEF StopClears
<1>18. CASE StopNotifies
  BY <1>18 DEF StopNotifies, Woken
<1>19. CASE StopJoins
  BY <1>19 DEF StopJoins
<1>20. CASE WakeWorkers
  BY <1>20 DEF WakeWorkers
<1>21. CASE JoinWorkers
  BY <1>21 DEF JoinWorkers
<1>22. CASE UNCHANGED vars
  BY <1>22 DEF vars, heapVars, thrVars, poolVars, workVars, mainVars
<1>23. QED BY <1>1, <1>2, <1>3, <1>4, <1>5, <1>6, <1>7, <1>8, <1>9, <1>10,
     <1>11, <1>12, <1>13, <1>14, <1>15, <1>16, <1>17, <1>18, <1>19, <1>20,
     <1>21, <1>22 DEF Next, Thread, Worker, ShutDown

(* Nothing leaves the heap early, and what has left it stays due.          *)
LEMMA DueStep == TypeOK /\ HandInv /\ DueInv /\ [Next]_vars => DueInv'
<1> SUFFICES ASSUME TypeOK, HandInv, DueInv, [Next]_vars PROVE DueInv'
  OBVIOUS
<1> USE TimerAssumption DEF TypeOK, HandInv, DueInv, Timers, Slots, Pool,
        None, heapVars, thrVars, poolVars, workVars, mainVars
<1>1. CASE Tick
  BY <1>1 DEF Tick
<1>2. ASSUME NEW d \in Delays, AddTimer(d) PROVE DueInv'
  <2>1. /\ registered' = registered + 1 /\ registered \in Nat
        /\ \A e \in Timers : e <= registered => due'[e] = due[e]
    BY <1>2 DEF TypeOK, AddTimer
  <2>2. /\ hand' = hand /\ content' = content /\ ran' = ran /\ gone' = gone /\ clock' = clock
    BY <1>2 DEF AddTimer
  <2> HIDE DEF DueInv, TypeOK, HandInv
  <2>3. \A e \in Timers : e <= registered => e <= registered' /\ due'[e] = due[e]
    BY <2>1
  <2>4. ASSUME NEW e \in Timers, ran'[e] > 0 PROVE e <= registered' /\ due'[e] <= clock'
    BY <2>2, <2>3, <2>4 DEF DueInv
  <2>5. hand' # None => hand' <= registered' /\ due'[hand'] <= clock'
    BY <2>2, <2>3 DEF DueInv, TypeOK
  <2>6. ASSUME NEW s \in Slots, content'[s] # None
        PROVE  content'[s] <= registered' /\ due'[content'[s]] <= clock'
    <3>1. content[s] \in Timers
      BY <2>2, <2>6 DEF TypeOK
    <3>2. QED BY <3>1, <2>2, <2>3, <2>6 DEF DueInv
  <2>7. ASSUME NEW e \in gone' PROVE e <= registered'
    BY <2>2, <2>3, <2>7 DEF DueInv, TypeOK
  <2> QED BY <2>4, <2>5, <2>6, <2>7 DEF DueInv
<1>3. CASE NotifyOne
  BY <1>3 DEF NotifyOne, Woken
<1>4. CASE TestRunning \/ Lock \/ TestPredicate \/ Block \/ Wake
           \/ Spurious \/ Sleep \/ Timeout \/ SpuriousTimed
  BY <1>4 DEF TestRunning, Lock, TestPredicate, Block, Wake, Spurious, Sleep,
     Timeout, SpuriousTimed, GoTo
<1>5. CASE NotDue
  BY <1>5 DEF NotDue, Earliest
<1>6. CASE Pop
  BY <1>6 DEF Pop, Earliest
<1>7. CASE Acquire
  BY <1>7 DEF Acquire, New
<1>8. CASE Post
  BY <1>8 DEF Post
<1>9. CASE PostFails
  BY <1>9 DEF PostFails
<1>10. ASSUME NEW w \in Workers, TestUp(w) PROVE DueInv'
  BY <1>10 DEF TestUp
<1>11. ASSUME NEW w \in Workers, Dequeue(w) PROVE DueInv'
  BY <1>11 DEF Dequeue
<1>12. ASSUME NEW w \in Workers, DequeueNull(w) PROVE DueInv'
  BY <1>12 DEF DequeueNull
<1>13. ASSUME NEW w \in Workers, Handle(w) PROVE DueInv'
  BY <1>13 DEF Handle
<1>14. ASSUME NEW w \in Workers, ReleaseSlot(w) PROVE DueInv'
  BY <1>14 DEF ReleaseSlot, Release, IsFromPool
<1>15. ASSUME NEW w \in Workers, HandlerThrows(w) PROVE DueInv'
  BY <1>15 DEF HandlerThrows
<1>16. CASE Start
  BY <1>16 DEF Start
<1>17. CASE StopClears
  BY <1>17 DEF StopClears
<1>18. CASE StopNotifies
  BY <1>18 DEF StopNotifies, Woken
<1>19. CASE StopJoins
  BY <1>19 DEF StopJoins
<1>20. CASE WakeWorkers
  BY <1>20 DEF WakeWorkers
<1>21. CASE JoinWorkers
  BY <1>21 DEF JoinWorkers
<1>22. CASE UNCHANGED vars
  BY <1>22 DEF vars, heapVars, thrVars, poolVars, workVars, mainVars
<1>23. QED BY <1>1, <1>2, <1>3, <1>4, <1>5, <1>6, <1>7, <1>8, <1>9, <1>10,
     <1>11, <1>12, <1>13, <1>14, <1>15, <1>16, <1>17, <1>18, <1>19, <1>20,
     <1>21, <1>22 DEF Next, Thread, Worker, ShutDown

(* The thread does not block over a push.                                  *)
LEMMA WaitStep == TypeOK /\ WaitInv /\ [Next]_vars => WaitInv'
<1> SUFFICES ASSUME TypeOK, WaitInv, [Next]_vars PROVE WaitInv'
  OBVIOUS
<1> USE TimerAssumption DEF TypeOK, WaitInv, NoLostWakeup, Timers, heapVars,
        thrVars, poolVars, workVars, mainVars
<1>1. CASE Tick
  BY <1>1 DEF Tick
<1>2. ASSUME NEW d \in Delays, AddTimer(d) PROVE WaitInv'
  BY <1>2 DEF AddTimer, Holding
<1>3. CASE NotifyOne
  BY <1>3 DEF NotifyOne, Woken
<1>4. CASE TestRunning \/ Lock \/ TestPredicate \/ Block \/ Wake
           \/ Spurious \/ Sleep \/ Timeout \/ SpuriousTimed
  BY <1>4 DEF TestRunning, Lock, TestPredicate, Block, Wake, Spurious, Sleep,
     Timeout, SpuriousTimed, GoTo
<1>5. CASE NotDue
  BY <1>5 DEF NotDue, Earliest
<1>6. CASE Pop
  BY <1>6 DEF Pop, Earliest
<1>7. CASE Acquire
  BY <1>7 DEF Acquire, New
<1>8. CASE Post
  BY <1>8 DEF Post
<1>9. CASE PostFails
  BY <1>9 DEF PostFails
<1>10. ASSUME NEW w \in Workers, TestUp(w) PROVE WaitInv'
  BY <1>10 DEF TestUp
<1>11. ASSUME NEW w \in Workers, Dequeue(w) PROVE WaitInv'
  BY <1>11 DEF Dequeue
<1>12. ASSUME NEW w \in Workers, DequeueNull(w) PROVE WaitInv'
  BY <1>12 DEF DequeueNull
<1>13. ASSUME NEW w \in Workers, Handle(w) PROVE WaitInv'
  BY <1>13 DEF Handle
<1>14. ASSUME NEW w \in Workers, ReleaseSlot(w) PROVE WaitInv'
  BY <1>14 DEF ReleaseSlot, Release, IsFromPool
<1>15. ASSUME NEW w \in Workers, HandlerThrows(w) PROVE WaitInv'
  BY <1>15 DEF HandlerThrows
<1>16. CASE Start
  BY <1>16 DEF Start
<1>17. CASE StopClears
  BY <1>17 DEF StopClears
<1>18. CASE StopNotifies
  BY <1>18 DEF StopNotifies, Woken
<1>19. CASE StopJoins
  BY <1>19 DEF StopJoins
<1>20. CASE WakeWorkers
  BY <1>20 DEF WakeWorkers
<1>21. CASE JoinWorkers
  BY <1>21 DEF JoinWorkers
<1>22. CASE UNCHANGED vars
  BY <1>22 DEF vars, heapVars, thrVars, poolVars, workVars, mainVars
<1>23. QED BY <1>1, <1>2, <1>3, <1>4, <1>5, <1>6, <1>7, <1>8, <1>9, <1>10,
     <1>11, <1>12, <1>13, <1>14, <1>15, <1>16, <1>17, <1>18, <1>19, <1>20,
     <1>21, <1>22 DEF Next, Thread, Worker, ShutDown

(* What Acquire returns is nowhere else, from the pool or new.             *)
LEMMA AcquiredUnused ==
  ASSUME TypeOK, HandInv, SlotsReturn, NewInv, CarryInv, Acquire
  PROVE  /\ hand \in Timers /\ tov = None /\ tov' \in Slots /\ ~InUse(tov')
         /\ tov' > Capacity => tov' = Capacity + hand
         /\ free' = free \ {tov'}
<1> USE TimerAssumption
<1>1. hand \in Timers /\ tov = None
  BY DEF TypeOK, HandInv, Acquire
<1>2. CASE free = {}
  <2>1. tov' = Capacity + hand /\ free' = free
    BY <1>2 DEF Acquire, New
  <2>2. tov' \in Slots /\ tov' > Capacity /\ tov' \notin free
    BY <1>1, <1>2, <2>1 DEF Slots, Timers
  <2>3. ASSUME InUse(tov') PROVE FALSE
    <3>1. content[tov'] = hand
      BY <1>1, <2>1, <2>2, <2>3 DEF NewInv, Timers
    <3>2. ~Finished(hand)
      BY <1>1 DEF CarryInv, Timers, None
    <3>3. ~Flies(tov')
      BY <2>2, <3>1 DEF CarryInv
    <3>4. CASE tov' \in leaked
      BY <2>2, <3>1, <3>2, <3>4 DEF NewInv, Finished
    <3>5. ASSUME NEW w \in Workers, Has(w, tov') PROVE FALSE
      <4>1. worker[w] \in {"handle", "release"}
        BY <2>2, <3>5 DEF HandInv, Has, Slots, None
      <4>2. QED BY <3>1, <3>2, <3>3, <3>5, <4>1 DEF Flies, Has, NewInv, HasRun, Finished
    <3>6. QED BY <2>3, <3>3, <3>4, <3>5 DEF InUse, Flies
  <2>4. QED BY <1>1, <2>1, <2>2, <2>3
<1>3. CASE free # {}
  <2>1. tov' \in free /\ free' = free \ {tov'}
    BY <1>3 DEF Acquire
  <2>2. tov' \in Slots /\ tov' <= Capacity
    BY <2>1 DEF TypeOK, Slots, Pool
  <2>3. ~InUse(tov')
    BY <2>1 DEF TypeOK, SlotsReturn, InUse, Has
  <2>4. QED BY <1>1, <2>1, <2>2, <2>3 DEF Slots
<1>4. QED BY <1>2, <1>3

OwnVars == <<free, tov, port, leaked, slot>>

(* A slot is free or in one place.                                         *)
LEMMA OwnStep ==
  ASSUME TypeOK, HandInv, SlotsReturn, OwnInv, NewInv, CarryInv, [Next]_vars
  PROVE  SlotsReturn' /\ OwnInv'
<1> USE TimerAssumption
<1> USE DEF heapVars, thrVars, poolVars, workVars, mainVars
<1>1. CASE UNCHANGED OwnVars
  BY <1>1 DEF OwnVars, SlotsReturn, OwnInv, InUse, Has
<1>2. CASE Acquire
  <2>1. /\ tov = None /\ tov' \in Slots /\ ~InUse(tov') /\ free' = free \ {tov'}
        /\ port' = port /\ leaked' = leaked /\ slot' = slot
    BY <1>2, AcquiredUnused DEF Acquire
  <2>2. SlotsReturn'
    BY <2>1 DEF SlotsReturn, InUse, Has, Pool, None
  <2>3. OwnInv'
    BY <2>1 DEF OwnInv, InUse, Has
  <2>4. QED BY <2>2, <2>3
<1>3. CASE Post \/ PostFails
  <2>1. /\ tov \in Slots /\ tov # None /\ tov' = None /\ free' = free /\ slot' = slot
        /\ \/ port' = port \cup {tov} /\ leaked' = leaked
           \/ port' = port /\ leaked' = leaked \cup {tov}
    BY <1>3 DEF Post, PostFails, TypeOK, HandInv
  <2>2. SlotsReturn'
    BY <2>1 DEF SlotsReturn, Pool, None
  <2>3. ~InUse(tov)
    BY <2>1 DEF OwnInv
  <2>4. OwnInv'
    BY <2>1, <2>3 DEF OwnInv, InUse, Has
  <2>5. QED BY <2>2, <2>4
<1>4. ASSUME NEW w \in Workers, Dequeue(w) PROVE SlotsReturn' /\ OwnInv'
  <2>1. PICK s \in port : /\ port' = port \ {s}
                          /\ slot' = [slot EXCEPT ![w] = IF up THEN s ELSE None]
                          /\ leaked' = IF up THEN leaked ELSE leaked \cup {s}
    BY <1>4 DEF Dequeue
  <2>2. slot[w] = None /\ free' = free /\ tov' = tov /\ s \in Slots /\ s # None
    BY <1>4, <2>1 DEF Dequeue, HandInv, TypeOK, Slots, None
  <2>3. CASE up
    <3>1. /\ slot'[w] = s /\ \A v \in Workers \ {w} : slot'[v] = slot[v]
          /\ leaked' = leaked
      BY <2>1, <2>3 DEF TypeOK
    <3>2. SlotsReturn'
      BY <2>1, <2>2, <3>1 DEF SlotsReturn, OwnInv, InUse, Has, Pool, None
    <3>3. OwnInv'
      BY <2>1, <2>2, <3>1 DEF OwnInv, InUse, Has, None
    <3>4. QED BY <3>2, <3>3
  <2>4. CASE ~up
    <3>1. slot' = slot /\ leaked' = leaked \cup {s}
      BY <2>1, <2>2, <2>4 DEF TypeOK
    <3>2. SlotsReturn'
      BY <2>1, <2>2, <3>1 DEF SlotsReturn
    <3>3. OwnInv'
      BY <2>1, <2>2, <3>1 DEF OwnInv, InUse, Has
    <3>4. QED BY <3>2, <3>3
  <2>5. QED BY <2>3, <2>4
<1>5. ASSUME NEW w \in Workers, ReleaseSlot(w) PROVE SlotsReturn' /\ OwnInv'
  <2>1. /\ slot[w] \in Slots /\ slot[w] # None /\ tov' = tov /\ port' = port /\ leaked' = leaked
        /\ slot'[w] = None /\ \A v \in Workers \ {w} : slot'[v] = slot[v]
    BY <1>5 DEF ReleaseSlot, HandInv, TypeOK
  <2>2. \A s \in Pool : s \in free' <=> s \in free \/ s = slot[w]
    BY <1>5 DEF ReleaseSlot, Release, IsFromPool, Pool
  <2>3. SlotsReturn'
    BY <2>1, <2>2 DEF SlotsReturn, OwnInv, InUse, Has, Pool, None
  <2>4. OwnInv'
    <3>1. (tov # None => ~InUse(tov))'
      BY <2>1 DEF OwnInv, InUse, Has, None
    <3>2. \A s \in port' : s \notin leaked' /\ \A v \in Workers : ~Has(v, s)'
      BY <2>1 DEF OwnInv, Has, None, TypeOK, Slots
    <3>3. \A s \in leaked' : \A v \in Workers : ~Has(v, s)'
      BY <2>1 DEF OwnInv, Has, None, TypeOK, Slots
    <3>4. \A u, v \in Workers : slot'[v] # None /\ slot'[v] = slot'[u] => v = u
      BY <2>1 DEF OwnInv
    <3>5. QED BY <3>1, <3>2, <3>3, <3>4 DEF OwnInv
  <2>5. QED BY <2>3, <2>4
<1>6. ASSUME NEW w \in Workers, HandlerThrows(w) PROVE SlotsReturn' /\ OwnInv'
  <2>1. /\ slot[w] \in Slots /\ slot[w] # None /\ tov' = tov /\ port' = port /\ free' = free
        /\ slot'[w] = None /\ \A v \in Workers \ {w} : slot'[v] = slot[v]
        /\ leaked' = leaked \cup {slot[w]}
    BY <1>6 DEF HandlerThrows, HandInv, TypeOK
  <2>2. SlotsReturn'
    BY <2>1 DEF SlotsReturn, OwnInv, InUse, Has, Pool, None
  <2>3. OwnInv'
    <3>1. (tov # None => ~InUse(tov))'
      BY <2>1 DEF OwnInv, InUse, Has, None
    <3>2. \A s \in port' : s \notin leaked' /\ \A v \in Workers : ~Has(v, s)'
      BY <2>1 DEF OwnInv, Has, None, TypeOK, Slots
    <3>3. \A s \in leaked' : \A v \in Workers : ~Has(v, s)'
      BY <2>1 DEF OwnInv, Has, None, TypeOK, Slots
    <3>4. \A u, v \in Workers : slot'[v] # None /\ slot'[v] = slot'[u] => v = u
      BY <2>1 DEF OwnInv
    <3>5. QED BY <3>1, <3>2, <3>3, <3>4 DEF OwnInv
  <2>4. QED BY <2>2, <2>3
<1>7. CASE Thread \/ Spurious \/ SpuriousTimed \/ PostFails
  <2>1. CASE Acquire \/ Post \/ PostFails
    BY <2>1, <1>2, <1>3
  <2>2. CASE ~(Acquire \/ Post \/ PostFails)
    BY <1>1, <1>7, <2>2 DEF Thread, TestRunning, Lock, TestPredicate, Block, Wake, NotDue, Sleep,
       Timeout, Pop, Spurious, SpuriousTimed, GoTo, OwnVars
  <2>3. QED BY <2>1, <2>2
<1>8. ASSUME NEW w \in Workers, TestUp(w) \/ DequeueNull(w) \/ Handle(w)
      PROVE  SlotsReturn' /\ OwnInv'
  BY <1>1, <1>8 DEF TestUp, DequeueNull, Handle, OwnVars
<1>9. CASE Tick \/ (\E d \in Delays : AddTimer(d)) \/ NotifyOne \/ Start \/ StopClears \/ ShutDown
  BY <1>1, <1>9 DEF Tick, AddTimer, NotifyOne, Start, StopClears, ShutDown, StopNotifies,
     StopJoins, WakeWorkers, JoinWorkers, OwnVars
<1>10. CASE UNCHANGED vars
  BY <1>1, <1>10 DEF vars, OwnVars
<1>11. QED BY <1>4, <1>5, <1>6, <1>7, <1>8, <1>9, <1>10 DEF Next, Worker

NewVars == <<tov, port, leaked, slot, content, gone, ran>>

(* New objects keep their timer, and what is left behind is over.          *)
LEMMA NewStep ==
  ASSUME TypeOK, HandInv, SlotsReturn, OwnInv, NewInv, CarryInv, [Next]_vars
  PROVE  NewInv'
<1> USE TimerAssumption
<1> USE DEF heapVars, thrVars, poolVars, workVars, mainVars
<1>1. ASSUME UNCHANGED NewVars, \A w \in Workers : worker'[w] = "release" <=> worker[w] = "release"
      PROVE  NewInv'
  BY <1>1 DEF NewVars, NewInv, InUse, Has, HasRun
<1>2. CASE Acquire
  <2>1. /\ hand \in Timers /\ tov' \in Slots /\ ~InUse(tov')
        /\ tov' > Capacity => tov' = Capacity + hand
    BY <1>2, AcquiredUnused
  <2>2. /\ content'[tov'] = hand /\ \A s \in Slots \ {tov'} : content'[s] = content[s]
        /\ port' = port /\ leaked' = leaked /\ slot' = slot /\ worker' = worker
        /\ ran' = ran /\ gone' = gone
    BY <1>2, <2>1 DEF Acquire, TypeOK
  <2>3. \A s \in Slots : s > Capacity /\ (s = tov' \/ InUse(s)') => content'[s] = s - Capacity
    BY <2>1, <2>2 DEF NewInv, InUse, Has, Slots, Timers
  <2>4. \A s \in leaked' : s > Capacity => content'[s] \in gone' \/ ran'[content'[s]] = 1
    BY <2>1, <2>2 DEF NewInv, InUse, TypeOK
  <2>5. ASSUME NEW w \in Workers, worker'[w] = "release" PROVE HasRun(content[slot[w]])'
    <3>1. slot[w] \in Slots \ {tov'}
      BY <2>1, <2>2, <2>5 DEF HandInv, InUse, Has, TypeOK, Slots, None
    <3>2. QED BY <2>2, <2>5, <3>1 DEF NewInv, HasRun
  <2>6. QED BY <2>3, <2>4, <2>5 DEF NewInv
<1>3. CASE Post \/ PostFails
  <2>1. /\ tov \in Slots /\ tov # None /\ tov' = None /\ content[tov] = hand
        /\ content' = content /\ ran' = ran /\ slot' = slot /\ worker' = worker
        /\ \/ port' = port \cup {tov} /\ leaked' = leaked /\ gone' = gone
           \/ port' = port /\ leaked' = leaked \cup {tov} /\ gone' = gone \cup {hand}
    BY <1>3 DEF Post, PostFails, TypeOK, HandInv
  <2>2. \A s \in Slots : s > Capacity /\ (s = tov' \/ InUse(s)') => content'[s] = s - Capacity
    BY <2>1 DEF NewInv, InUse, Has, Slots, None
  <2>3. \A s \in leaked' : s > Capacity => content'[s] \in gone' \/ ran'[content'[s]] = 1
    BY <2>1 DEF NewInv
  <2>4. \A w \in Workers : worker'[w] = "release" => HasRun(content[slot[w]])'
    BY <2>1 DEF NewInv, HasRun
  <2>5. QED BY <2>2, <2>3, <2>4 DEF NewInv
<1>4. ASSUME NEW w \in Workers, Dequeue(w) PROVE NewInv'
  <2>1. PICK s \in port : /\ port' = port \ {s}
                          /\ slot' = [slot EXCEPT ![w] = IF up THEN s ELSE None]
                          /\ gone' = IF up THEN gone ELSE gone \cup {content[s]}
                          /\ leaked' = IF up THEN leaked ELSE leaked \cup {s}
    BY <1>4 DEF Dequeue
  <2>2. /\ content' = content /\ ran' = ran /\ tov' = tov /\ worker'[w] # "release"
        /\ \A v \in Workers \ {w} : slot'[v] = slot[v] /\ worker'[v] = worker[v]
        /\ slot'[w] = IF up THEN s ELSE None
    BY <1>4, <2>1 DEF Dequeue, TypeOK
  <2>3. ASSUME NEW t \in Slots, t > Capacity, t = tov' \/ InUse(t)' PROVE content'[t] = t - Capacity
    <3>1. t = tov \/ InUse(t)
      BY <2>1, <2>2, <2>3 DEF InUse, Has, Slots, None
    <3>2. QED BY <2>2, <2>3, <3>1 DEF NewInv
  <2>4. \A t \in leaked' : t > Capacity => content'[t] \in gone' \/ ran'[content'[t]] = 1
    BY <2>1, <2>2 DEF NewInv
  <2>5. \A v \in Workers : worker'[v] = "release" => HasRun(content[slot[v]])'
    BY <2>2 DEF NewInv, HasRun
  <2>6. QED BY <2>3, <2>4, <2>5 DEF NewInv
<1>5. ASSUME NEW w \in Workers, Handle(w) PROVE NewInv'
  <2> DEFINE c == content[slot[w]]
  <2>1. c \in Timers /\ ran[c] = 0
    BY <1>5 DEF Handle, HandInv, CarryInv, Flies, Finished, TypeOK
  <2>2. /\ content' = content /\ slot' = slot /\ tov' = tov /\ port' = port /\ leaked' = leaked
        /\ gone' = gone /\ ran'[c] = 1 /\ \A e \in Timers \ {c} : ran'[e] = ran[e]
        /\ \A v \in Workers \ {w} : worker'[v] = worker[v]
    BY <1>5, <2>1 DEF Handle, TypeOK
  <2> HIDE DEF c
  <2>3. \A s \in Slots : s > Capacity /\ (s = tov' \/ InUse(s)') => content'[s] = s - Capacity
    BY <2>2 DEF NewInv, InUse, Has
  <2>4. ASSUME NEW e, e \in Timers \cup {None}, ran[e] = 1, e # None PROVE ran'[e] = 1
    BY <2>1, <2>2, <2>4
  <2>5. ASSUME NEW s \in leaked', s > Capacity PROVE content'[s] \in gone' \/ ran'[content'[s]] = 1
    <3>1. content[s] = s - Capacity /\ s \in Slots
      BY <2>2, <2>5 DEF NewInv, InUse, TypeOK
    <3>2. content[s] \in Timers
      BY <3>1, <2>5 DEF Slots, Timers
    <3>3. QED BY <2>2, <2>4, <2>5, <3>2 DEF NewInv, Timers, None
  <2>6. ASSUME NEW v \in Workers, worker'[v] = "release" PROVE HasRun(content[slot[v]])'
    <3>1. CASE v = w
      BY <2>1, <2>2, <3>1 DEF c, HasRun
    <3>2. CASE v # w
      <4>1. HasRun(content[slot[v]])
        BY <2>2, <2>6, <3>2 DEF NewInv
      <4>2. QED BY <4>1, <2>1, <2>2, <3>2 DEF HasRun
    <3>3. QED BY <3>1, <3>2
  <2>7. QED BY <2>3, <2>5, <2>6 DEF NewInv
<1>6. ASSUME NEW w \in Workers, ReleaseSlot(w) PROVE NewInv'
  <2>1. /\ tov' = tov /\ port' = port /\ leaked' = leaked /\ content' = content /\ ran' = ran
        /\ gone' = gone /\ slot'[w] = None /\ worker'[w] = "top"
        /\ \A v \in Workers \ {w} : slot'[v] = slot[v] /\ worker'[v] = worker[v]
    BY <1>6 DEF ReleaseSlot, TypeOK
  <2>2. \A s \in Slots : InUse(s)' => InUse(s)
    BY <2>1 DEF InUse, Has, Slots, None
  <2>3. QED BY <2>1, <2>2 DEF NewInv, HasRun
<1>7. ASSUME NEW w \in Workers, HandlerThrows(w) PROVE NewInv'
  <2>1. /\ tov' = tov /\ port' = port /\ content' = content /\ ran' = ran /\ gone' = gone
        /\ slot'[w] = None /\ worker'[w] = "top" /\ worker[w] = "release"
        /\ leaked' = leaked \cup {slot[w]}
        /\ \A v \in Workers \ {w} : slot'[v] = slot[v] /\ worker'[v] = worker[v]
    BY <1>7 DEF HandlerThrows, TypeOK
  <2>2. \A s \in Slots : InUse(s)' => InUse(s)
    BY <2>1 DEF InUse, Has, Slots, None
  <2>3. QED BY <2>1, <2>2 DEF NewInv, HasRun
<1>8. CASE Thread \/ Spurious \/ SpuriousTimed \/ PostFails
  <2>1. CASE Acquire \/ Post \/ PostFails
    BY <2>1, <1>2, <1>3
  <2>2. CASE ~(Acquire \/ Post \/ PostFails)
    BY <1>1, <1>8, <2>2 DEF Thread, TestRunning, Lock, TestPredicate, Block, Wake, NotDue, Sleep,
       Timeout, Pop, Spurious, SpuriousTimed, GoTo, NewVars
  <2>3. QED BY <2>1, <2>2
<1>9. ASSUME NEW w \in Workers, TestUp(w) \/ DequeueNull(w) PROVE NewInv'
  <2>1. UNCHANGED NewVars /\ \A v \in Workers : worker'[v] = "release" <=> worker[v] = "release"
    BY <1>9 DEF TestUp, DequeueNull, NewVars, TypeOK
  <2>2. QED BY <2>1, <1>1
<1>10. CASE Tick \/ (\E d \in Delays : AddTimer(d)) \/ NotifyOne \/ Start \/ StopClears \/ ShutDown
  BY <1>1, <1>10 DEF Tick, AddTimer, NotifyOne, Start, StopClears, ShutDown, StopNotifies,
     StopJoins, WakeWorkers, JoinWorkers, NewVars
<1>11. CASE UNCHANGED vars
  BY <1>1, <1>11 DEF vars, NewVars
<1>12. QED BY <1>4, <1>5, <1>6, <1>7, <1>8, <1>9, <1>10, <1>11 DEF Next, Worker

CarryVars == <<registered, queue, hand, ran, gone, content>>

(* A timer is in one place until it is over.                               *)
LEMMA CarryStep ==
  ASSUME TypeOK, HandInv, DueInv, SlotsReturn, OwnInv, NewInv, CarryInv, [Next]_vars
  PROVE  CarryInv'
<1> USE TimerAssumption
<1> USE DEF heapVars, thrVars, poolVars, workVars, mainVars
<1>1. ASSUME UNCHANGED CarryVars, \A s \in Slots : Flies(s)' <=> Flies(s)
      PROVE  CarryInv'
  BY <1>1 DEF CarryVars, CarryInv, Finished
<1>2. ASSUME UNCHANGED CarryVars, UNCHANGED <<port, slot, worker>> PROVE CarryInv'
  BY <1>1, <1>2 DEF Flies
<1>3. ASSUME NEW d \in Delays, AddTimer(d) PROVE CarryInv'
  <2> DEFINE n == registered + 1
  <2>1. /\ registered' = n /\ queue' = queue \cup {n} /\ hand' = hand /\ ran' = ran
        /\ gone' = gone /\ content' = content /\ n \in Timers
        /\ \A s \in Slots : Flies(s)' <=> Flies(s)
    BY <1>3 DEF AddTimer, TypeOK, Flies, Timers
  <2>2. ran[n] = 0 /\ n \notin gone /\ n # hand /\ \A s \in Slots : content[s] # n
    <3>1. registered \in Nat /\ ~(n <= registered) /\ n # None
      BY DEF TypeOK, None
    <3>2. ran[n] \in Nat
      BY <2>1 DEF TypeOK
    <3> HIDE DEF n
    <3>3. QED BY <2>1, <3>1, <3>2 DEF DueInv
  <2>3. \A e \in 1 .. registered' : e \in 1 .. registered \/ e = n
    BY <2>1 DEF TypeOK
  <2> HIDE DEF n
  <2>4. QED BY <2>1, <2>2, <2>3 DEF CarryInv, Finished
<1>4. CASE Pop
  <2>1. /\ hand = None /\ hand' \in queue /\ queue' = queue \ {hand'}
        /\ UNCHANGED <<registered, ran, gone, content>>
        /\ \A s \in Slots : Flies(s)' <=> Flies(s)
    BY <1>4 DEF Pop, HandInv, Flies
  <2>2. queue \subseteq Timers /\ None \notin Timers /\ \A e \in 1 .. registered : e # None
    BY DEF TypeOK, Timers, None
  <2>3. QED BY <2>1, <2>2 DEF CarryInv, Finished
<1>5. CASE Acquire
  <2>1. /\ tov' \in Slots /\ ~InUse(tov') /\ UNCHANGED <<registered, queue, hand, ran, gone>>
        /\ \A s \in Slots \ {tov'} : content'[s] = content[s]
        /\ port' = port /\ slot' = slot /\ worker' = worker
    BY <1>5, AcquiredUnused DEF Acquire, TypeOK
  <2>2. \A s \in Slots : Flies(s) => InUse(s)
    BY DEF Flies, InUse, Has
  <2>3. \A s \in Slots : Flies(s)' <=> Flies(s)
    BY <2>1 DEF Flies
  <2>4. \A s \in Slots : Flies(s) => content'[s] = content[s]
    BY <2>1, <2>2
  <2>5. QED BY <2>1, <2>3, <2>4 DEF CarryInv, Finished
<1>6. CASE Post
  <2>1. /\ hand \in Timers /\ tov \in Slots /\ content[tov] = hand /\ hand' = None
        /\ UNCHANGED <<registered, queue, ran, gone, content>>
        /\ port' = port \cup {tov} /\ slot' = slot /\ worker' = worker
    BY <1>6 DEF Post, HandInv, TypeOK
  <2>2. \A s \in Slots : Flies(s)' <=> Flies(s) \/ s = tov
    BY <2>1 DEF Flies
  <2>3. hand # None /\ queue \subseteq Timers /\ None \notin Timers
    BY <2>1 DEF TypeOK, Timers, None
  <2>4. QED BY <2>1, <2>2, <2>3 DEF CarryInv, Finished
<1>7. CASE PostFails
  <2>1. /\ hand \in Timers /\ hand' = None /\ gone' = gone \cup {hand}
        /\ UNCHANGED <<registered, queue, ran, content>>
        /\ \A s \in Slots : Flies(s)' <=> Flies(s)
    BY <1>7 DEF PostFails, HandInv, TypeOK, Flies
  <2>2. queue \subseteq Timers /\ None \notin Timers
    BY DEF TypeOK, Timers, None
  <2>3. QED BY <2>1, <2>2 DEF CarryInv, Finished
<1>8. ASSUME NEW w \in Workers, Dequeue(w) PROVE CarryInv'
  <2>1. PICK s \in port : /\ port' = port \ {s}
                          /\ slot' = [slot EXCEPT ![w] = IF up THEN s ELSE None]
                          /\ gone' = IF up THEN gone ELSE gone \cup {content[s]}
    BY <1>8 DEF Dequeue
  <2>2. /\ UNCHANGED <<registered, queue, hand, ran, content>>
        /\ worker[w] = "wait" /\ slot[w] = None /\ s \in Slots
        /\ worker'[w] = IF up THEN "handle" ELSE "done"
        /\ slot'[w] = IF up THEN s ELSE None
        /\ \A v \in Workers \ {w} : slot'[v] = slot[v] /\ worker'[v] = worker[v]
    BY <1>8, <2>1 DEF Dequeue, HandInv, TypeOK
  <2>3. CASE up
    <3>1. \A t \in Slots : Flies(t)' <=> Flies(t)
      BY <2>1, <2>2, <2>3 DEF Flies
    <3>2. QED BY <1>1, <2>1, <2>2, <2>3, <3>1 DEF CarryVars
  <2>4. CASE ~up
    <3>1. ASSUME NEW t \in Slots PROVE Flies(t)' <=> Flies(t) /\ t # s
      BY <2>1, <2>2, <2>4 DEF Flies, OwnInv, Has
    <3>2. Flies(s) /\ gone' = gone \cup {content[s]}
      BY <2>1, <2>4 DEF Flies
    <3>3. QED BY <2>1, <2>2, <3>1, <3>2 DEF CarryInv, Finished
  <2>5. QED BY <2>3, <2>4
<1>9. ASSUME NEW w \in Workers, Handle(w) PROVE CarryInv'
  <2> DEFINE s == slot[w]
             c == content[s]
  <2>1. Flies(s) /\ s \in Slots /\ s # None
    BY <1>9 DEF Handle, HandInv, Flies, TypeOK
  <2>2. c \in Timers /\ c \notin queue /\ c # hand /\ ran[c] = 0
    BY <2>1 DEF CarryInv, TypeOK, Finished
  <2>3. /\ UNCHANGED <<registered, queue, hand, content, gone, port, slot>>
        /\ ran'[c] = 1 /\ \A e \in Timers \ {c} : ran'[e] = ran[e]
        /\ worker'[w] = "release" /\ \A v \in Workers \ {w} : worker'[v] = worker[v]
    BY <1>9, <2>2 DEF Handle, TypeOK
  <2>4. ASSUME NEW t \in Slots PROVE Flies(t)' <=> Flies(t) /\ t # s
    BY <2>1, <2>3 DEF Flies, OwnInv, Has
  <2>5. \A t \in Slots : Flies(t) /\ t # s => content[t] \in Timers /\ content[t] # c
    BY <2>1 DEF CarryInv, TypeOK
  <2>6. queue \subseteq Timers /\ hand \in Timers \cup {None} /\ 1 .. registered \subseteq Timers
    BY DEF TypeOK, Timers
  <2> HIDE DEF c, s
  <2>7. \A e \in Timers : e # c => (Finished(e)' <=> Finished(e))
    BY <2>3 DEF Finished
  <2>8. \A e \in Timers : ran'[e] <= 1
    BY <2>2, <2>3 DEF CarryInv
  <2>9. (\A e \in queue' : ~Finished(e)' /\ e # hand') /\ (hand' # None => ~Finished(hand)')
    BY <2>2, <2>3, <2>6, <2>7 DEF CarryInv
  <2>10. \A t \in Slots : Flies(t)' =>
            content'[t] # None /\ content'[t] \notin queue' /\ content'[t] # hand' /\ ~Finished(content[t])'
    BY <2>3, <2>4, <2>5, <2>7 DEF CarryInv, Finished
  <2>11. \A t, u \in Slots : Flies(t)' /\ Flies(u)' /\ content'[t] = content'[u] => t = u
    BY <2>3, <2>4 DEF CarryInv
  <2>12. ASSUME NEW e \in 1 .. registered'
         PROVE  e \in queue' \/ e = hand' \/ Finished(e)' \/ \E t \in Slots : Flies(t)' /\ content'[t] = e
    <3>1. CASE e = c
      BY <2>3, <3>1 DEF Finished
    <3>2. CASE e # c
      <4>1. \A t \in Slots : content[t] = e => t # s
        BY <3>2 DEF c
      <4>2. QED BY <2>3, <2>4, <2>6, <2>7, <3>2, <4>1 DEF CarryInv
    <3>3. QED BY <3>1, <3>2
  <2>13. QED BY <2>8, <2>9, <2>10, <2>11, <2>12 DEF CarryInv
<1>10. ASSUME NEW w \in Workers, ReleaseSlot(w) \/ HandlerThrows(w) \/ TestUp(w) \/ DequeueNull(w)
       PROVE  CarryInv'
  <2>1. /\ UNCHANGED CarryVars /\ port' = port /\ worker[w] # "handle" /\ worker'[w] # "handle"
        /\ \A v \in Workers \ {w} : slot'[v] = slot[v] /\ worker'[v] = worker[v]
    BY <1>10 DEF ReleaseSlot, HandlerThrows, TestUp, DequeueNull, TypeOK, CarryVars
  <2>2. \A s \in Slots : Flies(s)' <=> Flies(s)
    BY <2>1 DEF Flies
  <2>3. QED BY <1>1, <2>1, <2>2
<1>11. CASE Thread \/ Spurious \/ SpuriousTimed
  <2>1. CASE Pop \/ Acquire \/ Post
    BY <2>1, <1>4, <1>5, <1>6
  <2>2. CASE ~(Pop \/ Acquire \/ Post)
    BY <1>2, <1>11, <2>2 DEF Thread, TestRunning, Lock, TestPredicate, Block, Wake, NotDue, Sleep,
       Timeout, Spurious, SpuriousTimed, GoTo, CarryVars
  <2>3. QED BY <2>1, <2>2
<1>12. CASE Tick \/ NotifyOne \/ Start \/ StopClears \/ ShutDown
  BY <1>2, <1>12 DEF Tick, NotifyOne, Start, StopClears, ShutDown, StopNotifies,
     StopJoins, WakeWorkers, JoinWorkers, CarryVars
<1>13. CASE UNCHANGED vars
  BY <1>2, <1>13 DEF vars, CarryVars
<1>14. QED BY <1>3, <1>7, <1>8, <1>9, <1>10, <1>11, <1>12, <1>13 DEF Next, Worker

-----------------------------------------------------------------------------
(* The invariant holds at the start, and every step keeps it.              *)
LEMMA IndInit == Init => IndInv
<1> SUFFICES ASSUME Init PROVE IndInv
  OBVIOUS
<1> USE TimerAssumption DEF Init
<1>1. TypeOK
  <2>1. Cardinality(Workers) \in Nat
    BY FS_CardinalityType
  <2>2. due \in [Timers -> 0 .. MaxTime] /\ ran \in [Timers -> Nat]
    OBVIOUS
  <2>3. content \in [Slots -> Timers \cup {None}]
    BY DEF None
  <2>4. worker \in [Workers -> {"top", "wait", "handle", "release", "done"}]
        /\ slot \in [Workers -> Slots \cup {None}]
    BY DEF None
  <2>5. /\ clock \in 0 .. MaxTime /\ registered \in 0 .. MaxTimers /\ until \in 0 .. MaxTime
        /\ notices \in 0 .. MaxTimers /\ nulls \in 0 .. Cardinality(Workers)
        /\ faults \in 0 .. MaxFaults
    BY <2>1
  <2>6. QED BY <2>2, <2>3, <2>4, <2>5 DEF TypeOK
<1>2. HandInv
  BY DEF HandInv, None
<1>3. DueInv /\ WaitInv
  BY DEF DueInv, WaitInv, NoLostWakeup, Timers, None
<1>4. SlotsReturn
  BY DEF SlotsReturn, Pool, None
<1>5. \A s \in Slots : ~InUse(s) /\ ~Flies(s)
  BY DEF InUse, Has, Flies, Slots, None
<1>6. OwnInv
  BY DEF OwnInv, None
<1>7. NewInv
  <2>1. \A s \in Slots : s # tov
    BY DEF Slots, None
  <2>2. QED BY <1>5, <2>1 DEF NewInv
<1>8. CarryInv
  BY <1>5 DEF CarryInv, Timers, None
<1>9. QED BY <1>1, <1>2, <1>3, <1>4, <1>6, <1>7, <1>8 DEF IndInv

LEMMA IndStep == IndInv /\ [Next]_vars => IndInv'
BY TypeStep, HandStep, DueStep, WaitStep, OwnStep, NewStep, CarryStep DEF IndInv

LEMMA Always == Spec => []IndInv
BY IndInit, IndStep, PTL DEF Spec

(* All variables of the timer thread, the pool and the workers keep their  *)
(* types: WorkerThread, PostToIOCP and ReleaseTimerOverlapped touch only    *)
(* timers that are registered and slots that exist.                        *)
THEOREM TypeCorrect == Spec => []TypeOK
BY Always, PTL DEF IndInv

LEMMA EarlyNever == IndInv => NeverEarly
BY TimerAssumption DEF IndInv, DueInv, TypeOK, NeverEarly, Timers, None

(* WorkerThread never pops a timer, and no worker runs its handler, before *)
(* fireTime, however early wait_until or wait returns.                     *)
THEOREM NeverEarlyAlways == Spec => []NeverEarly
BY Always, EarlyNever, PTL

(* AddTimer's push and notification are never lost on a WorkerThread that  *)
(* has looked at the heap and not yet blocked.                             *)
THEOREM NoLostWakeupAlways == Spec => []NoLostWakeup
<1>1. IndInv => NoLostWakeup
  BY DEF IndInv, WaitInv
<1>2. QED BY Always, <1>1, PTL

(* TimerOverlappedPool hands no slot out that is still in use, and every   *)
(* slot a worker releases can be handed out again.                         *)
THEOREM SlotsReturnAlways == Spec => []SlotsReturn
<1>1. IndInv => SlotsReturn
  BY DEF IndInv
<1>2. QED BY Always, <1>1, PTL

(* Every timer AddTimer has registered is in one place until its handler   *)
(* has run, which it does once and not early.                              *)
THEOREM OnceEachAlways == Spec => []OnceEach
<1>1. ASSUME IndInv PROVE OnceEach
  <2> SUFFICES ASSUME NEW e \in 1 .. registered
               PROVE  LET carriers == {s \in InFlight : content[s] = e}
                      IN  /\ ran[e] <= 1
                          /\ IF ran[e] = 1 \/ e \in gone
                             THEN e \notin queue /\ e # hand /\ carriers = {}
                             ELSE \/ e \in queue /\ e # hand /\ carriers = {}
                                  \/ e \notin queue /\ e = hand /\ carriers = {}
                                  \/ e \notin queue /\ e # hand /\ Cardinality(carriers) = 1
    BY <1>1, EarlyNever DEF OnceEach
  <2> DEFINE C == {s \in InFlight : content[s] = e}
  <2>1. e \in Timers /\ e # None /\ CarryInv
    BY <1>1, TimerAssumption DEF IndInv, TypeOK, Timers, None
  <2>2. \A s \in InFlight : s \in Slots /\ Flies(s)
    BY <1>1 DEF IndInv, TypeOK, HandInv, InFlight, Handled, Flies
  <2>3. \A s \in Slots : Flies(s) => s \in InFlight
    BY DEF Flies, InFlight, Handled
  <2>4. ran[e] <= 1
    BY <2>1 DEF CarryInv
  <2>5. CASE Finished(e)
    <3>1. e \notin queue /\ e # hand /\ C = {}
      BY <2>1, <2>2, <2>5 DEF CarryInv
    <3>2. QED BY <2>4, <2>5, <3>1 DEF Finished
  <2>6. CASE ~Finished(e) /\ (e \in queue \/ e = hand)
    <3>1. C = {} /\ (e \in queue => e # hand)
      BY <2>1, <2>2, <2>6 DEF CarryInv
    <3>2. QED BY <2>4, <2>6, <3>1 DEF Finished
  <2>7. CASE ~Finished(e) /\ e \notin queue /\ e # hand
    <3>1. PICK s \in Slots : Flies(s) /\ content[s] = e
      BY <2>1, <2>7 DEF CarryInv
    <3>2. C = {s}
      BY <2>1, <2>2, <2>3, <3>1 DEF CarryInv
    <3>3. Cardinality(C) = 1
      BY <3>2, FS_Singleton
    <3>4. QED BY <2>4, <2>7, <3>3 DEF Finished
  <2>8. QED BY <2>5, <2>6, <2>7
<1>2. QED BY Always, <1>1, PTL

-----------------------------------------------------------------------------
(* The lives of one monster and its AI timers (module MonsterLife), for    *)
(* any number of attackers, viewers and workers.                           *)

Bury == {"release", "erase", "addTimer"}
Reborn  == {"claim", "insert", "reset"}
Returned == {"setPos", "look", "try", "addTimer"}

NoRespawn == \A l \in Lives : respawns[l] = 0

\* Nothing belongs to a life that has not begun.
LifeInv ==
    /\ \A l \in Lives : l > life => aiTimers[l] = 0 /\ respawns[l] = 0
    /\ \A p \in Viewers : vlife[p] <= life
    /\ \A b \in Brains : blife[b] <= life

\* Every life ends with one kill and at most one burial.
CountInv ==
    /\ kills = IF IsDead THEN life ELSE life - 1
    /\ rewards \in {life - 1, life} /\ rewards <= kills
    /\ kills > rewards => \E p \in Attackers : apc[p] \in {"ifDead", "reward"}

\* A buried monster is in one place: with its killer, in a timer, or with a
\* worker that brings it back.
BurialInv ==
    /\ rewards = life - 1 =>
        /\ NoRespawn
        /\ \A p \in Attackers : apc[p] \notin Bury
        /\ \A w \in Spawners : rpc[w] \notin Reborn
    /\ rewards = life =>
        /\ \A w \in Spawners : rpc[w] \notin Returned
        /\ \A l \in Lives : l < life => respawns[l] = 0
        /\ respawns[life] <= 1
        /\ \/ respawns[life] = 1
           \/ \E p \in Attackers : apc[p] \in Bury
           \/ \E w \in Spawners : rpc[w] \in Reborn
    /\ \A p \in Attackers : apc[p] \in Bury =>
        /\ NoRespawn
        /\ \A q \in Attackers : apc[q] \in Bury => q = p
        /\ \A w \in Spawners : rpc[w] = "idle"
    /\ \A w \in Spawners : rpc[w] # "idle" =>
        /\ NoRespawn
        /\ \A v \in Spawners : rpc[v] # "idle" => v = w

\* The one chain of AI timers, the handler about to end it included.
BrainHolds(b)   == bpc[b] # "idle"
ViewerHolds(p)  == vpc[p] = "addTimer"
SpawnerHolds(w) == rpc[w] = "addTimer"

ChainInv ==
    /\ \A l \in Lives : l < life => aiTimers[l] = 0
    /\ aiTimers[life] <= 1
    /\ aiTimers[life] = 1 =>
        /\ active = TRUE
        /\ \A b \in Brains : ~BrainHolds(b)
        /\ \A p \in Viewers : ~ViewerHolds(p)
        /\ \A w \in Spawners : ~SpawnerHolds(w)
    /\ \A b \in Brains : BrainHolds(b) =>
        /\ active = TRUE
        /\ \A c \in Brains : BrainHolds(c) => c = b
        /\ \A p \in Viewers : ~ViewerHolds(p)
        /\ \A w \in Spawners : ~SpawnerHolds(w)
    /\ \A p \in Viewers : ViewerHolds(p) =>
        /\ active = TRUE
        /\ \A q \in Viewers : ViewerHolds(q) => q = p
        /\ \A w \in Spawners : ~SpawnerHolds(w)
    /\ \A w \in Spawners : SpawnerHolds(w) => active = TRUE

\* All of the old life's chain is over when the monster is brought back.
RestInv == \A w \in Spawners : rpc[w] \in Reborn =>
    /\ aiTimers[life] = 0
    /\ \A b \in Brains : bpc[b] = "idle"
    /\ \A p \in Viewers : vpc[p] \notin {"try", "addTimer"}

Driven ==
    \/ aiTimers[life] = 1
    \/ \E b \in Brains : bpc[b] \notin {"idle", "deactivate"}
    \/ \E p \in Viewers : ViewerHolds(p)
    \/ \E w \in Spawners : SpawnerHolds(w)
Ending == \E b \in Brains : bpc[b] = "deactivate"

\* An active monster is driven.  A monster in view is: whoever stands near it
\* is not behind the AI handler's scan, and one who came while nobody drove it
\* is ahead of the scan that follows the respawn.
AwaitsScan(p) == \E w \in Spawners :
    \/ rpc[w] \in {"setPos", "try"}
    \/ rpc[w] = "look" /\ p \in unread[w]

SeenInv == ~IsDead =>
    /\ active = TRUE => Driven \/ Ending
    /\ ~overlooked => \A p \in Viewers : vpc[p] = "near" =>
          /\ \A b \in Brains : ~Overlooks(b, p)
          /\ Driven \/ AwaitsScan(p)

\* Where the monster is: while it moves, while it is buried, while it is
\* brought back, and else.
MovingPlace == \A b \in Brains : Moving(b) =>
    /\ \A w \in Spawners : rpc[w] = "idle"
    /\ rewards = life - 1
    /\ indexed = TRUE
    /\ bpc[b] \in {"claim", "release"} => from[b] = pos
    /\ bpc[b] = "claim" => held = {pos}
    /\ bpc[b] = "release" => to[b] # pos /\ held = {pos, to[b]}
    /\ bpc[b] = "setPos" => held = {to[b]}

BuriedPlace ==
    /\ \A p \in Attackers :
        /\ apc[p] = "release" => held = {pos} /\ at[p] = pos
        /\ apc[p] \in {"erase", "addTimer"} => held = {}
        /\ apc[p] = "addTimer" => indexed = FALSE
    /\ respawns[life] > 0 => held = {} /\ indexed = FALSE

SpawnPlace == \A w \in Spawners :
    /\ rpc[w] = "claim" => held = {}
    /\ rpc[w] \in {"insert", "reset", "setPos"} => held = {place[w]}
    /\ rpc[w] \in {"look", "try", "addTimer"} => held = {pos}
    /\ rpc[w] \in {"claim", "insert"} => indexed = FALSE
    /\ rpc[w] \in {"reset", "setPos", "look", "try", "addTimer"} => indexed = TRUE

HomePlace ==
    rewards = life - 1 /\ (\A b \in Brains : ~Moving(b))
        /\ (\A w \in Spawners : rpc[w] = "idle") => held = {pos} /\ indexed = TRUE

PlaceInv == MovingPlace /\ BuriedPlace /\ SpawnPlace /\ HomePlace

Clean == CountInv /\ BurialInv /\ ChainInv /\ RestInv /\ SeenInv /\ PlaceInv
MonsterInv == MonsterTypeOK /\ LifeInv /\ (~raced => Clean)

(* Every step keeps the types.                                             *)
LEMMA MonsterTypeStep ==
    ASSUME MonsterTypeOK, LifeInv, [MonsterNext]_monsterVars
    PROVE  MonsterTypeOK'
<1> USE MonsterAssumption DEF MonsterTypeOK, mapVars, attackVars, viewVars, brainVars, spawnVars
<1>1. ASSUME NEW p \in Attackers, ProcessAttack(p) PROVE MonsterTypeOK'
  BY <1>1 DEF ProcessAttack, GotoA
<1>2. ASSUME NEW p \in Attackers, TakeDamage(p) PROVE MonsterTypeOK'
  <2>1. hp' \in 0 .. MaxHp /\ kills' \in Nat
    BY <1>2 DEF TakeDamage
  <2> QED BY <2>1, <1>2 DEF TakeDamage, GotoA
<1>3. ASSUME NEW p \in Attackers, IfDead(p) PROVE MonsterTypeOK'
  BY <1>3 DEF IfDead, GotoA
<1>4. ASSUME NEW p \in Attackers, OnMonsterDied(p) PROVE MonsterTypeOK'
  <2>1. raced' \in BOOLEAN
    BY <1>4 DEF OnMonsterDied
  <2>2. rewards' \in Nat
    BY <1>4 DEF OnMonsterDied
  <2> QED BY <2>1, <2>2, <1>4 DEF OnMonsterDied, GotoA
<1>5. ASSUME NEW p \in Attackers, ReleaseTile(p) PROVE MonsterTypeOK'
  BY <1>5 DEF ReleaseTile, GotoA
<1>6. ASSUME NEW p \in Attackers, EraseFromSector(p) PROVE MonsterTypeOK'
  BY <1>6 DEF EraseFromSector, GotoA
<1>7. ASSUME NEW p \in Attackers, AddRespawnTimer(p) PROVE MonsterTypeOK'
  <2>1. respawns' \in [Lives -> Nat]
    BY <1>7 DEF AddRespawnTimer, GotoA, TimerAdded
  <2> QED BY <2>1, <1>7 DEF AddRespawnTimer, GotoA, TimerAdded
<1>8. ASSUME NEW p \in Viewers, ComesIntoView(p) PROVE MonsterTypeOK'
  <2>1. views' \in 0 .. MaxViews
    BY <1>8 DEF ComesIntoView
  <2>2. vlife' \in [Viewers -> Lives]
    BY <1>8 DEF ComesIntoView
  <2>3. vpc' \in [Viewers -> {"away", "scan", "try", "addTimer", "near"}]
    BY <1>8 DEF ComesIntoView
  <2> QED BY <2>1, <2>2, <2>3, <1>8 DEF ComesIntoView
<1>9. ASSUME NEW p \in Viewers, ActivateNearbyMonsters(p) PROVE MonsterTypeOK'
  BY <1>9 DEF ActivateNearbyMonsters, GotoV
<1>10. ASSUME NEW p \in Viewers, TryActivate(p) PROVE MonsterTypeOK'
  BY <1>10 DEF TryActivate, GotoV
<1>11. ASSUME NEW p \in Viewers, AddAITimer(p) PROVE MonsterTypeOK'
  <2>1. aiTimers' \in [Lives -> Nat]
    BY <1>11 DEF AddAITimer, GotoV, TimerAdded
  <2> QED BY <2>1, <1>11 DEF AddAITimer, GotoV, TimerAdded
<1>12. ASSUME NEW p \in Viewers, Leaves(p) PROVE MonsterTypeOK'
  <2>1. 1 \in Lives
    BY DEF Lives
  <2> QED BY <2>1, <1>12 DEF Leaves, GotoV
<1>13. ASSUME NEW b \in Brains, NEW l \in Lives, AITimerFires(b, l)
       PROVE  MonsterTypeOK'
  <2>1. aiTimers' \in [Lives -> Nat]
    BY <1>13 DEF AITimerFires, GotoB
  <2> QED BY <2>1, <1>13 DEF AITimerFires, GotoB
<1>14. ASSUME NEW b \in Brains, AIIfDead(b) PROVE MonsterTypeOK'
  BY <1>14 DEF AIIfDead, GotoB, List
<1>15. ASSUME NEW b \in Brains, LookSees(b) PROVE MonsterTypeOK'
  BY <1>15 DEF LookSees, GotoB, Sees
<1>16. ASSUME NEW b \in Brains, NEW p \in Viewers, LookPasses(b, p) PROVE MonsterTypeOK'
  BY <1>16 DEF LookPasses, GotoB, Passes
<1>17. ASSUME NEW b \in Brains, LookSeesNobody(b) PROVE MonsterTypeOK'
  BY <1>17 DEF LookSeesNobody, GotoB, SeesNobody
<1>18. ASSUME NEW b \in Brains, Deactivate(b) PROVE MonsterTypeOK'
  BY <1>18 DEF Deactivate, GotoB
<1>19. ASSUME NEW b \in Brains, AITick(b) PROVE MonsterTypeOK'
  BY <1>19 DEF AITick, GotoB
<1>20. ASSUME NEW b \in Brains, AITickStays(b) PROVE MonsterTypeOK'
  BY <1>20 DEF AITickStays, GotoB
<1>21. ASSUME NEW b \in Brains, NEW t \in Tiles, AITickMoves(b, t) PROVE MonsterTypeOK'
  BY <1>21 DEF AITickMoves, GotoB
<1>22. ASSUME NEW b \in Brains, TryMoveObject(b) PROVE MonsterTypeOK'
  BY <1>22 DEF TryMoveObject, GotoB
<1>23. ASSUME NEW b \in Brains, ReleaseOld(b) PROVE MonsterTypeOK'
  BY <1>23 DEF ReleaseOld, GotoB
<1>24. ASSUME NEW b \in Brains, SetPos(b) PROVE MonsterTypeOK'
  BY <1>24 DEF SetPos, GotoB
<1>25. ASSUME NEW b \in Brains, Rearm(b) PROVE MonsterTypeOK'
  <2>1. aiTimers' \in [Lives -> Nat]
    BY <1>25 DEF Rearm, GotoB, TimerAdded
  <2> QED BY <2>1, <1>25 DEF Rearm, GotoB, TimerAdded
<1>26. ASSUME NEW w \in Spawners, NEW l \in Lives, RespawnTimerFires(w, l)
       PROVE  MonsterTypeOK'
  <2>1. respawns' \in [Lives -> Nat]
    BY <1>26 DEF RespawnTimerFires, GotoR
  <2> QED BY <2>1, <1>26 DEF RespawnTimerFires, GotoR
<1>27. ASSUME NEW w \in Spawners, RespawnMonster(w) PROVE MonsterTypeOK'
  BY <1>27 DEF RespawnMonster, GotoR
<1>28. ASSUME NEW w \in Spawners, NoRoom(w) PROVE MonsterTypeOK'
  <2>1. respawns' \in [Lives -> Nat]
    BY <1>28 DEF NoRoom, TimerAdded
  <2>2. full' \in 0 .. MaxFull
    BY <1>28 DEF NoRoom
  <2> QED BY <2>1, <2>2, <1>28 DEF NoRoom, GotoR
<1>29. ASSUME NEW w \in Spawners, InsertIntoSector(w) PROVE MonsterTypeOK'
  BY <1>29 DEF InsertIntoSector, GotoR
<1>30. ASSUME NEW w \in Spawners, Respawn(w) PROVE MonsterTypeOK'
  <2>1. life' \in Lives
    BY <1>30 DEF Respawn, Lives
  <2>2. hp' \in 0 .. MaxHp
    BY <1>30 DEF Respawn
  <2>3. pos' \in Tiles
    BY <1>30 DEF Respawn
  <2>4. active' = FALSE
    BY <1>30 DEF Respawn
  <2> QED BY <2>1, <2>2, <2>3, <2>4, <1>30 DEF Respawn, GotoR
<1>31. ASSUME NEW w \in Spawners, RespawnSetPos(w) PROVE MonsterTypeOK'
  BY <1>31 DEF RespawnSetPos, GotoR, List
<1>32. ASSUME NEW w \in Spawners, RespawnSees(w) PROVE MonsterTypeOK'
  BY <1>32 DEF RespawnSees, GotoR, Sees
<1>33. ASSUME NEW w \in Spawners, NEW p \in Viewers, RespawnPasses(w, p) PROVE MonsterTypeOK'
  BY <1>33 DEF RespawnPasses, GotoR, Passes
<1>34. ASSUME NEW w \in Spawners, RespawnSeesNobody(w) PROVE MonsterTypeOK'
  BY <1>34 DEF RespawnSeesNobody, GotoR, SeesNobody
<1>35. ASSUME NEW w \in Spawners, RespawnActivates(w) PROVE MonsterTypeOK'
  BY <1>35 DEF RespawnActivates, GotoR
<1>36. ASSUME NEW w \in Spawners, RespawnAddsTimer(w) PROVE MonsterTypeOK'
  <2>1. aiTimers' \in [Lives -> Nat]
    BY <1>36 DEF RespawnAddsTimer, GotoR, TimerAdded
  <2> QED BY <2>1, <1>36 DEF RespawnAddsTimer, GotoR, TimerAdded
<1>37. CASE UNCHANGED monsterVars
  BY <1>37 DEF monsterVars
<1> QED BY <1>1, <1>2, <1>3, <1>4, <1>5, <1>6, <1>7, <1>8, <1>9, <1>10, <1>11, <1>12,
           <1>13, <1>14, <1>15, <1>16, <1>17, <1>18, <1>19, <1>20, <1>21, <1>22, <1>23,
           <1>24, <1>25, <1>26, <1>27, <1>28, <1>29, <1>30, <1>31, <1>32, <1>33, <1>34,
           <1>35, <1>36, <1>37
    DEF MonsterNext, AttackStep, ViewStep, BrainStep, SpawnStep,
        AITimer, RespawnTimer

(* A timer or a reference is never of a life to come.                      *)
LEMMA LifeStep ==
    ASSUME MonsterTypeOK, MonsterTypeOK', LifeInv,
           [MonsterNext]_monsterVars
    PROVE  LifeInv'
<1> USE MonsterAssumption DEF MonsterTypeOK, LifeInv, Lives, mapVars, attackVars, viewVars,
        brainVars, spawnVars
<1>1. ASSUME NEW p \in Attackers, ProcessAttack(p) PROVE LifeInv'
  BY <1>1 DEF ProcessAttack, GotoA
<1>2. ASSUME NEW p \in Attackers, TakeDamage(p) PROVE LifeInv'
  BY <1>2 DEF TakeDamage, GotoA
<1>3. ASSUME NEW p \in Attackers, IfDead(p) PROVE LifeInv'
  BY <1>3 DEF IfDead, GotoA
<1>4. ASSUME NEW p \in Attackers, OnMonsterDied(p) PROVE LifeInv'
  BY <1>4 DEF OnMonsterDied, GotoA
<1>5. ASSUME NEW p \in Attackers, ReleaseTile(p) PROVE LifeInv'
  BY <1>5 DEF ReleaseTile, GotoA
<1>6. ASSUME NEW p \in Attackers, EraseFromSector(p) PROVE LifeInv'
  BY <1>6 DEF EraseFromSector, GotoA
<1>7. ASSUME NEW p \in Attackers, AddRespawnTimer(p) PROVE LifeInv'
  BY <1>7 DEF AddRespawnTimer, GotoA, TimerAdded
<1>8. ASSUME NEW p \in Viewers, ComesIntoView(p) PROVE LifeInv'
  BY <1>8 DEF ComesIntoView, GotoV
<1>9. ASSUME NEW p \in Viewers, ActivateNearbyMonsters(p) PROVE LifeInv'
  BY <1>9 DEF ActivateNearbyMonsters, GotoV
<1>10. ASSUME NEW p \in Viewers, TryActivate(p) PROVE LifeInv'
  BY <1>10 DEF TryActivate, GotoV
<1>11. ASSUME NEW p \in Viewers, AddAITimer(p) PROVE LifeInv'
  BY <1>11 DEF AddAITimer, GotoV, TimerAdded
<1>12. ASSUME NEW p \in Viewers, Leaves(p) PROVE LifeInv'
  BY <1>12 DEF Leaves, GotoV
<1>13. ASSUME NEW b \in Brains, NEW l \in Lives, AITimerFires(b, l) PROVE LifeInv'
  <2>1. l <= life
    BY <1>13 DEF AITimerFires
  <2>2. \A k \in Lives : k > life => aiTimers'[k] = 0
    BY <2>1, <1>13 DEF AITimerFires
  <2>3. \A c \in Brains : blife'[c] <= life
    BY <2>1, <1>13 DEF AITimerFires
  <2> QED BY <2>2, <2>3, <1>13 DEF AITimerFires
<1>14. ASSUME NEW b \in Brains, AIIfDead(b) PROVE LifeInv'
  BY <1>14 DEF AIIfDead, GotoB, List
<1>15. ASSUME NEW b \in Brains, LookSees(b) PROVE LifeInv'
  BY <1>15 DEF LookSees, GotoB, Sees
<1>16. ASSUME NEW b \in Brains, NEW p \in Viewers, LookPasses(b, p) PROVE LifeInv'
  BY <1>16 DEF LookPasses, GotoB, Passes
<1>17. ASSUME NEW b \in Brains, LookSeesNobody(b) PROVE LifeInv'
  BY <1>17 DEF LookSeesNobody, GotoB, SeesNobody
<1>18. ASSUME NEW b \in Brains, Deactivate(b) PROVE LifeInv'
  BY <1>18 DEF Deactivate, GotoB
<1>19. ASSUME NEW b \in Brains, AITick(b) PROVE LifeInv'
  BY <1>19 DEF AITick, GotoB
<1>20. ASSUME NEW b \in Brains, AITickStays(b) PROVE LifeInv'
  BY <1>20 DEF AITickStays, GotoB
<1>21. ASSUME NEW b \in Brains, NEW t \in Tiles, AITickMoves(b, t) PROVE LifeInv'
  BY <1>21 DEF AITickMoves, GotoB
<1>22. ASSUME NEW b \in Brains, TryMoveObject(b) PROVE LifeInv'
  BY <1>22 DEF TryMoveObject, GotoB
<1>23. ASSUME NEW b \in Brains, ReleaseOld(b) PROVE LifeInv'
  BY <1>23 DEF ReleaseOld, GotoB
<1>24. ASSUME NEW b \in Brains, SetPos(b) PROVE LifeInv'
  BY <1>24 DEF SetPos, GotoB
<1>25. ASSUME NEW b \in Brains, Rearm(b) PROVE LifeInv'
  BY <1>25 DEF Rearm, GotoB, TimerAdded
<1>26. ASSUME NEW w \in Spawners, NEW l \in Lives, RespawnTimerFires(w, l)
       PROVE  LifeInv'
  BY <1>26 DEF RespawnTimerFires, GotoR
<1>27. ASSUME NEW w \in Spawners, RespawnMonster(w) PROVE LifeInv'
  BY <1>27 DEF RespawnMonster, GotoR
<1>28. ASSUME NEW w \in Spawners, NoRoom(w) PROVE LifeInv'
  BY <1>28 DEF NoRoom, GotoR, TimerAdded
<1>29. ASSUME NEW w \in Spawners, InsertIntoSector(w) PROVE LifeInv'
  BY <1>29 DEF InsertIntoSector, GotoR
<1>30. ASSUME NEW w \in Spawners, Respawn(w) PROVE LifeInv'
  BY <1>30 DEF Respawn, GotoR
<1>31. ASSUME NEW w \in Spawners, RespawnSetPos(w) PROVE LifeInv'
  BY <1>31 DEF RespawnSetPos, GotoR, List
<1>32. ASSUME NEW w \in Spawners, RespawnSees(w) PROVE LifeInv'
  BY <1>32 DEF RespawnSees, GotoR, Sees
<1>33. ASSUME NEW w \in Spawners, NEW p \in Viewers, RespawnPasses(w, p) PROVE LifeInv'
  BY <1>33 DEF RespawnPasses, GotoR, Passes
<1>34. ASSUME NEW w \in Spawners, RespawnSeesNobody(w) PROVE LifeInv'
  BY <1>34 DEF RespawnSeesNobody, GotoR, SeesNobody
<1>35. ASSUME NEW w \in Spawners, RespawnActivates(w) PROVE LifeInv'
  BY <1>35 DEF RespawnActivates, GotoR
<1>36. ASSUME NEW w \in Spawners, RespawnAddsTimer(w) PROVE LifeInv'
  BY <1>36 DEF RespawnAddsTimer, GotoR, TimerAdded
<1>37. CASE UNCHANGED monsterVars
  BY <1>37 DEF monsterVars
<1> QED BY <1>1, <1>2, <1>3, <1>4, <1>5, <1>6, <1>7, <1>8, <1>9, <1>10, <1>11, <1>12,
           <1>13, <1>14, <1>15, <1>16, <1>17, <1>18, <1>19, <1>20, <1>21, <1>22, <1>23,
           <1>24, <1>25, <1>26, <1>27, <1>28, <1>29, <1>30, <1>31, <1>32, <1>33, <1>34,
           <1>35, <1>36, <1>37
    DEF MonsterNext, AttackStep, ViewStep, BrainStep, SpawnStep,
        AITimer, RespawnTimer

(* Of those who saw it dead, one buries it; the second counts as a race.   *)
LEMMA FirstBurial ==
    ASSUME MonsterTypeOK, NEW p \in Attackers, OnMonsterDied(p), ~raced'
    PROVE  /\ rewards' = rewards + 1 /\ rewards' <= kills
           /\ \A b \in Brains : ~Moving(b)
           /\ \A w \in Spawners : rpc[w] = "idle"
<1>1. raced' = (raced \/ rewards' > kills \/ (\E b \in Brains : Moving(b))
                      \/ \E w \in Spawners : rpc[w] # "idle")
  BY DEF OnMonsterDied
<1>2. /\ ~(rewards' > kills)
      /\ ~(\E b \in Brains : Moving(b))
      /\ ~(\E w \in Spawners : rpc[w] # "idle")
  BY ONLY <1>1, ~raced', Zenon
<1>3. rewards' = rewards + 1 /\ rewards \in Nat /\ kills \in Nat
  BY DEF OnMonsterDied, MonsterTypeOK
<1>4. rewards' <= kills
  BY <1>2, <1>3
<1> QED BY <1>2, <1>3, <1>4

(* A living monster that nobody moves or brings back stands in the index.  *)
LEMMA AliveIndexed ==
    ASSUME MonsterTypeOK, CountInv, BurialInv, PlaceInv, ~IsDead
    PROVE  indexed = TRUE
<1>1. rewards = life - 1
  BY DEF MonsterTypeOK, CountInv, Lives
<1>2. \A w \in Spawners : rpc[w] \in {"idle", "setPos", "look", "try", "addTimer"}
  BY <1>1 DEF MonsterTypeOK, BurialInv, Reborn
<1>3. CASE \E b \in Brains : Moving(b)
  BY <1>3 DEF PlaceInv, MovingPlace
<1>4. CASE \E w \in Spawners : rpc[w] # "idle"
  BY <1>2, <1>4 DEF PlaceInv, SpawnPlace
<1>5. CASE (\A b \in Brains : ~Moving(b)) /\ \A w \in Spawners : rpc[w] = "idle"
  BY <1>1, <1>5 DEF PlaceInv, HomePlace
<1> QED BY <1>3, <1>4, <1>5

(* A move that begins while nobody buries the monster or brings it back.   *)
LEMMA MovesAlone ==
    ASSUME MonsterTypeOK, CountInv, BurialInv, NEW b \in Brains, NEW t \in Tiles,
           AITickMoves(b, t), ~raced'
    PROVE  /\ rewards = life - 1
           /\ \A p \in Attackers : apc[p] \notin Bury
           /\ NoRespawn
           /\ \A w \in Spawners : rpc[w] = "idle"
<1>1. raced' = (raced \/ Buried)
  BY DEF AITickMoves
<1>2. ~Buried
  BY ONLY <1>1, ~raced', Zenon
<1>3. /\ \A p \in Attackers : apc[p] \notin Bury
      /\ \A l \in Lives : ~(respawns[l] > 0)
      /\ \A w \in Spawners : rpc[w] = "idle"
  BY <1>2 DEF Buried, Bury
<1>4. NoRespawn
  BY <1>3 DEF NoRespawn, MonsterTypeOK
<1>5. rewards # life
  BY <1>3, <1>4 DEF BurialInv, NoRespawn, Reborn, MonsterTypeOK
<1> QED BY <1>3, <1>4, <1>5 DEF CountInv

(* What has raced stays so.                                                *)
LEMMA RacedStays ==
    ASSUME MonsterTypeOK, ~raced', [MonsterNext]_monsterVars
    PROVE  ~raced
<1> USE MonsterAssumption DEF mapVars, attackVars, viewVars, brainVars, spawnVars
<1>1. ASSUME NEW p \in Attackers, ProcessAttack(p) PROVE ~raced
  BY <1>1 DEF ProcessAttack, GotoA
<1>2. ASSUME NEW p \in Attackers, TakeDamage(p) PROVE ~raced
  BY <1>2 DEF TakeDamage, GotoA
<1>3. ASSUME NEW p \in Attackers, IfDead(p) PROVE ~raced
  BY <1>3 DEF IfDead, GotoA
<1>4. ASSUME NEW p \in Attackers, OnMonsterDied(p) PROVE ~raced
  BY <1>4, Zenon DEF OnMonsterDied
<1>5. ASSUME NEW p \in Attackers, ReleaseTile(p) PROVE ~raced
  BY <1>5 DEF ReleaseTile, GotoA
<1>6. ASSUME NEW p \in Attackers, EraseFromSector(p) PROVE ~raced
  BY <1>6 DEF EraseFromSector, GotoA
<1>7. ASSUME NEW p \in Attackers, AddRespawnTimer(p) PROVE ~raced
  BY <1>7 DEF AddRespawnTimer, GotoA, TimerAdded
<1>8. ASSUME NEW p \in Viewers, ComesIntoView(p) PROVE ~raced
  BY <1>8 DEF ComesIntoView, GotoV
<1>9. ASSUME NEW p \in Viewers, ActivateNearbyMonsters(p) PROVE ~raced
  BY <1>9 DEF ActivateNearbyMonsters, GotoV
<1>10. ASSUME NEW p \in Viewers, TryActivate(p) PROVE ~raced
  BY <1>10 DEF TryActivate, GotoV
<1>11. ASSUME NEW p \in Viewers, AddAITimer(p) PROVE ~raced
  BY <1>11 DEF AddAITimer, GotoV, TimerAdded
<1>12. ASSUME NEW p \in Viewers, Leaves(p) PROVE ~raced
  BY <1>12 DEF Leaves, GotoV
<1>13. ASSUME NEW b \in Brains, NEW l \in Lives, AITimerFires(b, l) PROVE ~raced
  BY <1>13 DEF AITimerFires, GotoB
<1>14. ASSUME NEW b \in Brains, AIIfDead(b) PROVE ~raced
  BY <1>14 DEF AIIfDead, GotoB, List
<1>15. ASSUME NEW b \in Brains, LookSees(b) PROVE ~raced
  BY <1>15 DEF LookSees, GotoB, Sees
<1>16. ASSUME NEW b \in Brains, NEW p \in Viewers, LookPasses(b, p) PROVE ~raced
  BY <1>16 DEF LookPasses, GotoB, Passes
<1>17. ASSUME NEW b \in Brains, LookSeesNobody(b) PROVE ~raced
  BY <1>17 DEF LookSeesNobody, GotoB, SeesNobody
<1>18. ASSUME NEW b \in Brains, Deactivate(b) PROVE ~raced
  BY <1>18 DEF Deactivate, GotoB
<1>19. ASSUME NEW b \in Brains, AITick(b) PROVE ~raced
  BY <1>19 DEF AITick, GotoB
<1>20. ASSUME NEW b \in Brains, AITickStays(b) PROVE ~raced
  BY <1>20 DEF AITickStays, GotoB
<1>21. ASSUME NEW b \in Brains, NEW t \in Tiles, AITickMoves(b, t) PROVE ~raced
  BY <1>21, Zenon DEF AITickMoves
<1>22. ASSUME NEW b \in Brains, TryMoveObject(b) PROVE ~raced
  BY <1>22 DEF TryMoveObject, GotoB
<1>23. ASSUME NEW b \in Brains, ReleaseOld(b) PROVE ~raced
  BY <1>23 DEF ReleaseOld, GotoB
<1>24. ASSUME NEW b \in Brains, SetPos(b) PROVE ~raced
  BY <1>24 DEF SetPos, GotoB
<1>25. ASSUME NEW b \in Brains, Rearm(b) PROVE ~raced
  BY <1>25 DEF Rearm, GotoB, TimerAdded
<1>26. ASSUME NEW w \in Spawners, NEW l \in Lives, RespawnTimerFires(w, l)
       PROVE  ~raced
  BY <1>26 DEF RespawnTimerFires, GotoR
<1>27. ASSUME NEW w \in Spawners, RespawnMonster(w) PROVE ~raced
  BY <1>27 DEF RespawnMonster, GotoR
<1>28. ASSUME NEW w \in Spawners, NoRoom(w) PROVE ~raced
  BY <1>28 DEF NoRoom, GotoR, TimerAdded
<1>29. ASSUME NEW w \in Spawners, InsertIntoSector(w) PROVE ~raced
  BY <1>29 DEF InsertIntoSector, GotoR
<1>30. ASSUME NEW w \in Spawners, Respawn(w) PROVE ~raced
  BY <1>30 DEF Respawn, GotoR
<1>31. ASSUME NEW w \in Spawners, RespawnSetPos(w) PROVE ~raced
  BY <1>31 DEF RespawnSetPos, GotoR, List
<1>32. ASSUME NEW w \in Spawners, RespawnSees(w) PROVE ~raced
  BY <1>32 DEF RespawnSees, GotoR, Sees
<1>33. ASSUME NEW w \in Spawners, NEW p \in Viewers, RespawnPasses(w, p) PROVE ~raced
  BY <1>33 DEF RespawnPasses, GotoR, Passes
<1>34. ASSUME NEW w \in Spawners, RespawnSeesNobody(w) PROVE ~raced
  BY <1>34 DEF RespawnSeesNobody, GotoR, SeesNobody
<1>35. ASSUME NEW w \in Spawners, RespawnActivates(w) PROVE ~raced
  BY <1>35 DEF RespawnActivates, GotoR
<1>36. ASSUME NEW w \in Spawners, RespawnAddsTimer(w) PROVE ~raced
  BY <1>36 DEF RespawnAddsTimer, GotoR, TimerAdded
<1>37. CASE UNCHANGED monsterVars
  BY <1>37 DEF monsterVars
<1> QED BY <1>1, <1>2, <1>3, <1>4, <1>5, <1>6, <1>7, <1>8, <1>9, <1>10, <1>11, <1>12,
           <1>13, <1>14, <1>15, <1>16, <1>17, <1>18, <1>19, <1>20, <1>21, <1>22, <1>23,
           <1>24, <1>25, <1>26, <1>27, <1>28, <1>29, <1>30, <1>31, <1>32, <1>33, <1>34,
           <1>35, <1>36, <1>37
    DEF MonsterNext, AttackStep, ViewStep, BrainStep, SpawnStep,
        AITimer, RespawnTimer

(* One kill and one reward per life.                                       *)
LEMMA CountStep ==
    ASSUME MonsterTypeOK, LifeInv, CountInv, BurialInv, ~raced',
           [MonsterNext]_monsterVars
    PROVE  CountInv'
<1> USE MonsterAssumption DEF MonsterTypeOK, LifeInv, Lives, CountInv, BurialInv, Bury,
        Reborn, Returned, NoRespawn, IsDead, mapVars, attackVars, viewVars, brainVars,
        spawnVars
<1>1. ASSUME NEW p \in Attackers, ProcessAttack(p) PROVE CountInv'
  BY <1>1 DEF ProcessAttack, GotoA
<1>2. ASSUME NEW p \in Attackers, TakeDamage(p) PROVE CountInv'
  BY <1>2 DEF TakeDamage, GotoA
<1>3. ASSUME NEW p \in Attackers, IfDead(p) PROVE CountInv'
  BY <1>3 DEF IfDead, GotoA
<1>4. ASSUME NEW p \in Attackers, OnMonsterDied(p) PROVE CountInv'
  <2>1. apc[p] = "reward" /\ apc' = [apc EXCEPT ![p] = "release"]
    BY <1>4 DEF OnMonsterDied, GotoA
  <2>2. rewards' = rewards + 1 /\ rewards' <= kills /\ \A w \in Spawners : rpc[w] = "idle"
    BY <1>4, FirstBurial
  <2>3. UNCHANGED <<hp, life, respawns, kills, rpc>>
    BY <1>4 DEF OnMonsterDied
  <2> QED BY <2>1, <2>2, <2>3
<1>5. ASSUME NEW p \in Attackers, ReleaseTile(p) PROVE CountInv'
  BY <1>5 DEF ReleaseTile, GotoA
<1>6. ASSUME NEW p \in Attackers, EraseFromSector(p) PROVE CountInv'
  BY <1>6 DEF EraseFromSector, GotoA
<1>7. ASSUME NEW p \in Attackers, AddRespawnTimer(p) PROVE CountInv'
  BY <1>7 DEF AddRespawnTimer, GotoA, TimerAdded
<1>8. ASSUME NEW p \in Viewers, ComesIntoView(p) PROVE CountInv'
  BY <1>8 DEF ComesIntoView, GotoV
<1>9. ASSUME NEW p \in Viewers, ActivateNearbyMonsters(p) PROVE CountInv'
  BY <1>9 DEF ActivateNearbyMonsters, GotoV
<1>10. ASSUME NEW p \in Viewers, TryActivate(p) PROVE CountInv'
  BY <1>10 DEF TryActivate, GotoV
<1>11. ASSUME NEW p \in Viewers, AddAITimer(p) PROVE CountInv'
  BY <1>11 DEF AddAITimer, GotoV, TimerAdded
<1>12. ASSUME NEW p \in Viewers, Leaves(p) PROVE CountInv'
  BY <1>12 DEF Leaves, GotoV
<1>13. ASSUME NEW b \in Brains, NEW l \in Lives, AITimerFires(b, l)
       PROVE  CountInv'
  BY <1>13 DEF AITimerFires, GotoB
<1>14. ASSUME NEW b \in Brains, AIIfDead(b) PROVE CountInv'
  BY <1>14 DEF AIIfDead, GotoB, List
<1>15. ASSUME NEW b \in Brains, LookSees(b) PROVE CountInv'
  BY <1>15 DEF LookSees, GotoB, Sees
<1>16. ASSUME NEW b \in Brains, NEW p \in Viewers, LookPasses(b, p) PROVE CountInv'
  BY <1>16 DEF LookPasses, GotoB, Passes
<1>17. ASSUME NEW b \in Brains, LookSeesNobody(b) PROVE CountInv'
  BY <1>17 DEF LookSeesNobody, GotoB, SeesNobody
<1>18. ASSUME NEW b \in Brains, Deactivate(b) PROVE CountInv'
  BY <1>18 DEF Deactivate, GotoB
<1>19. ASSUME NEW b \in Brains, AITick(b) PROVE CountInv'
  BY <1>19 DEF AITick, GotoB
<1>20. ASSUME NEW b \in Brains, AITickStays(b) PROVE CountInv'
  BY <1>20 DEF AITickStays, GotoB
<1>21. ASSUME NEW b \in Brains, NEW t \in Tiles, AITickMoves(b, t) PROVE CountInv'
  BY <1>21 DEF AITickMoves, GotoB
<1>22. ASSUME NEW b \in Brains, TryMoveObject(b) PROVE CountInv'
  BY <1>22 DEF TryMoveObject, GotoB
<1>23. ASSUME NEW b \in Brains, ReleaseOld(b) PROVE CountInv'
  BY <1>23 DEF ReleaseOld, GotoB
<1>24. ASSUME NEW b \in Brains, SetPos(b) PROVE CountInv'
  BY <1>24 DEF SetPos, GotoB
<1>25. ASSUME NEW b \in Brains, Rearm(b) PROVE CountInv'
  BY <1>25 DEF Rearm, GotoB, TimerAdded
<1>26. ASSUME NEW w \in Spawners, NEW l \in Lives, RespawnTimerFires(w, l)
       PROVE  CountInv'
  BY <1>26 DEF RespawnTimerFires, GotoR
<1>27. ASSUME NEW w \in Spawners, RespawnMonster(w) PROVE CountInv'
  BY <1>27 DEF RespawnMonster, GotoR
<1>28. ASSUME NEW w \in Spawners, NoRoom(w) PROVE CountInv'
  BY <1>28 DEF NoRoom, GotoR, TimerAdded
<1>29. ASSUME NEW w \in Spawners, InsertIntoSector(w) PROVE CountInv'
  BY <1>29 DEF InsertIntoSector, GotoR
<1>30. ASSUME NEW w \in Spawners, Respawn(w) PROVE CountInv'
  BY <1>30 DEF Respawn, GotoR
<1>31. ASSUME NEW w \in Spawners, RespawnSetPos(w) PROVE CountInv'
  BY <1>31 DEF RespawnSetPos, GotoR, List
<1>32. ASSUME NEW w \in Spawners, RespawnSees(w) PROVE CountInv'
  BY <1>32 DEF RespawnSees, GotoR, Sees
<1>33. ASSUME NEW w \in Spawners, NEW p \in Viewers, RespawnPasses(w, p) PROVE CountInv'
  BY <1>33 DEF RespawnPasses, GotoR, Passes
<1>34. ASSUME NEW w \in Spawners, RespawnSeesNobody(w) PROVE CountInv'
  BY <1>34 DEF RespawnSeesNobody, GotoR, SeesNobody
<1>35. ASSUME NEW w \in Spawners, RespawnActivates(w) PROVE CountInv'
  BY <1>35 DEF RespawnActivates, GotoR
<1>36. ASSUME NEW w \in Spawners, RespawnAddsTimer(w) PROVE CountInv'
  BY <1>36 DEF RespawnAddsTimer, GotoR, TimerAdded
<1>37. CASE UNCHANGED monsterVars
  BY <1>37 DEF monsterVars
<1> QED BY <1>1, <1>2, <1>3, <1>4, <1>5, <1>6, <1>7, <1>8, <1>9, <1>10, <1>11, <1>12,
           <1>13, <1>14, <1>15, <1>16, <1>17, <1>18, <1>19, <1>20, <1>21, <1>22, <1>23,
           <1>24, <1>25, <1>26, <1>27, <1>28, <1>29, <1>30, <1>31, <1>32, <1>33, <1>34,
           <1>35, <1>36, <1>37
    DEF MonsterNext, AttackStep, ViewStep, BrainStep, SpawnStep,
        AITimer, RespawnTimer

(* Between its death and its return the monster is in one place.           *)
LEMMA BurialStep ==
    ASSUME MonsterTypeOK, LifeInv, CountInv, BurialInv, ~raced',
           [MonsterNext]_monsterVars
    PROVE  BurialInv'
<1> USE MonsterAssumption DEF MonsterTypeOK, LifeInv, Lives, CountInv, BurialInv, Bury,
        Reborn, Returned, NoRespawn, IsDead, mapVars, attackVars, viewVars, brainVars,
        spawnVars
<1>1. ASSUME NEW p \in Attackers, ProcessAttack(p) PROVE BurialInv'
  BY <1>1 DEF ProcessAttack, GotoA
<1>2. ASSUME NEW p \in Attackers, TakeDamage(p) PROVE BurialInv'
  BY <1>2 DEF TakeDamage, GotoA
<1>3. ASSUME NEW p \in Attackers, IfDead(p) PROVE BurialInv'
  BY <1>3 DEF IfDead, GotoA
<1>4. ASSUME NEW p \in Attackers, OnMonsterDied(p) PROVE BurialInv'
  <2>1. apc[p] = "reward" /\ apc' = [apc EXCEPT ![p] = "release"]
    BY <1>4 DEF OnMonsterDied, GotoA
  <2>2. rewards' = rewards + 1 /\ rewards' <= kills /\ \A w \in Spawners : rpc[w] = "idle"
    BY <1>4, FirstBurial
  <2>3. UNCHANGED <<hp, life, respawns, kills, rpc>>
    BY <1>4 DEF OnMonsterDied
  <2> QED BY <2>1, <2>2, <2>3
<1>5. ASSUME NEW p \in Attackers, ReleaseTile(p) PROVE BurialInv'
  BY <1>5 DEF ReleaseTile, GotoA
<1>6. ASSUME NEW p \in Attackers, EraseFromSector(p) PROVE BurialInv'
  BY <1>6 DEF EraseFromSector, GotoA
<1>7. ASSUME NEW p \in Attackers, AddRespawnTimer(p) PROVE BurialInv'
  BY <1>7 DEF AddRespawnTimer, GotoA, TimerAdded
<1>8. ASSUME NEW p \in Viewers, ComesIntoView(p) PROVE BurialInv'
  BY <1>8 DEF ComesIntoView, GotoV
<1>9. ASSUME NEW p \in Viewers, ActivateNearbyMonsters(p) PROVE BurialInv'
  BY <1>9 DEF ActivateNearbyMonsters, GotoV
<1>10. ASSUME NEW p \in Viewers, TryActivate(p) PROVE BurialInv'
  BY <1>10 DEF TryActivate, GotoV
<1>11. ASSUME NEW p \in Viewers, AddAITimer(p) PROVE BurialInv'
  BY <1>11 DEF AddAITimer, GotoV, TimerAdded
<1>12. ASSUME NEW p \in Viewers, Leaves(p) PROVE BurialInv'
  BY <1>12 DEF Leaves, GotoV
<1>13. ASSUME NEW b \in Brains, NEW l \in Lives, AITimerFires(b, l)
       PROVE  BurialInv'
  BY <1>13 DEF AITimerFires, GotoB
<1>14. ASSUME NEW b \in Brains, AIIfDead(b) PROVE BurialInv'
  BY <1>14 DEF AIIfDead, GotoB, List
<1>15. ASSUME NEW b \in Brains, LookSees(b) PROVE BurialInv'
  BY <1>15 DEF LookSees, GotoB, Sees
<1>16. ASSUME NEW b \in Brains, NEW p \in Viewers, LookPasses(b, p) PROVE BurialInv'
  BY <1>16 DEF LookPasses, GotoB, Passes
<1>17. ASSUME NEW b \in Brains, LookSeesNobody(b) PROVE BurialInv'
  BY <1>17 DEF LookSeesNobody, GotoB, SeesNobody
<1>18. ASSUME NEW b \in Brains, Deactivate(b) PROVE BurialInv'
  BY <1>18 DEF Deactivate, GotoB
<1>19. ASSUME NEW b \in Brains, AITick(b) PROVE BurialInv'
  BY <1>19 DEF AITick, GotoB
<1>20. ASSUME NEW b \in Brains, AITickStays(b) PROVE BurialInv'
  BY <1>20 DEF AITickStays, GotoB
<1>21. ASSUME NEW b \in Brains, NEW t \in Tiles, AITickMoves(b, t) PROVE BurialInv'
  BY <1>21 DEF AITickMoves, GotoB
<1>22. ASSUME NEW b \in Brains, TryMoveObject(b) PROVE BurialInv'
  BY <1>22 DEF TryMoveObject, GotoB
<1>23. ASSUME NEW b \in Brains, ReleaseOld(b) PROVE BurialInv'
  BY <1>23 DEF ReleaseOld, GotoB
<1>24. ASSUME NEW b \in Brains, SetPos(b) PROVE BurialInv'
  BY <1>24 DEF SetPos, GotoB
<1>25. ASSUME NEW b \in Brains, Rearm(b) PROVE BurialInv'
  BY <1>25 DEF Rearm, GotoB, TimerAdded
<1>26. ASSUME NEW w \in Spawners, NEW l \in Lives, RespawnTimerFires(w, l)
       PROVE  BurialInv'
  BY <1>26 DEF RespawnTimerFires, GotoR
<1>27. ASSUME NEW w \in Spawners, RespawnMonster(w) PROVE BurialInv'
  BY <1>27 DEF RespawnMonster, GotoR
<1>28. ASSUME NEW w \in Spawners, NoRoom(w) PROVE BurialInv'
  BY <1>28 DEF NoRoom, GotoR, TimerAdded
<1>29. ASSUME NEW w \in Spawners, InsertIntoSector(w) PROVE BurialInv'
  BY <1>29 DEF InsertIntoSector, GotoR
<1>30. ASSUME NEW w \in Spawners, Respawn(w) PROVE BurialInv'
  BY <1>30 DEF Respawn, GotoR
<1>31. ASSUME NEW w \in Spawners, RespawnSetPos(w) PROVE BurialInv'
  BY <1>31 DEF RespawnSetPos, GotoR, List
<1>32. ASSUME NEW w \in Spawners, RespawnSees(w) PROVE BurialInv'
  BY <1>32 DEF RespawnSees, GotoR, Sees
<1>33. ASSUME NEW w \in Spawners, NEW p \in Viewers, RespawnPasses(w, p) PROVE BurialInv'
  BY <1>33 DEF RespawnPasses, GotoR, Passes
<1>34. ASSUME NEW w \in Spawners, RespawnSeesNobody(w) PROVE BurialInv'
  BY <1>34 DEF RespawnSeesNobody, GotoR, SeesNobody
<1>35. ASSUME NEW w \in Spawners, RespawnActivates(w) PROVE BurialInv'
  BY <1>35 DEF RespawnActivates, GotoR
<1>36. ASSUME NEW w \in Spawners, RespawnAddsTimer(w) PROVE BurialInv'
  BY <1>36 DEF RespawnAddsTimer, GotoR, TimerAdded
<1>37. CASE UNCHANGED monsterVars
  BY <1>37 DEF monsterVars
<1> QED BY <1>1, <1>2, <1>3, <1>4, <1>5, <1>6, <1>7, <1>8, <1>9, <1>10, <1>11, <1>12,
           <1>13, <1>14, <1>15, <1>16, <1>17, <1>18, <1>19, <1>20, <1>21, <1>22, <1>23,
           <1>24, <1>25, <1>26, <1>27, <1>28, <1>29, <1>30, <1>31, <1>32, <1>33, <1>34,
           <1>35, <1>36, <1>37
    DEF MonsterNext, AttackStep, ViewStep, BrainStep, SpawnStep,
        AITimer, RespawnTimer

(* The chain of AI timers stays one.                                       *)
LEMMA ChainStep ==
    ASSUME MonsterTypeOK, LifeInv, CountInv, BurialInv, ChainInv,
           RestInv, ~raced', [MonsterNext]_monsterVars
    PROVE  ChainInv'
<1> USE MonsterAssumption DEF MonsterTypeOK, LifeInv, Lives, CountInv, BurialInv, Bury,
        Reborn, Returned, NoRespawn, IsDead, ChainInv, RestInv, BrainHolds, ViewerHolds,
        SpawnerHolds, mapVars, attackVars, viewVars, brainVars, spawnVars
<1>1. ASSUME NEW p \in Attackers, ProcessAttack(p) PROVE ChainInv'
  BY <1>1 DEF ProcessAttack, GotoA
<1>2. ASSUME NEW p \in Attackers, TakeDamage(p) PROVE ChainInv'
  BY <1>2 DEF TakeDamage, GotoA
<1>3. ASSUME NEW p \in Attackers, IfDead(p) PROVE ChainInv'
  BY <1>3 DEF IfDead, GotoA
<1>4. ASSUME NEW p \in Attackers, OnMonsterDied(p) PROVE ChainInv'
  BY <1>4 DEF OnMonsterDied, GotoA
<1>5. ASSUME NEW p \in Attackers, ReleaseTile(p) PROVE ChainInv'
  BY <1>5 DEF ReleaseTile, GotoA
<1>6. ASSUME NEW p \in Attackers, EraseFromSector(p) PROVE ChainInv'
  BY <1>6 DEF EraseFromSector, GotoA
<1>7. ASSUME NEW p \in Attackers, AddRespawnTimer(p) PROVE ChainInv'
  BY <1>7 DEF AddRespawnTimer, GotoA, TimerAdded
<1>8. ASSUME NEW p \in Viewers, ComesIntoView(p) PROVE ChainInv'
  BY <1>8 DEF ComesIntoView, GotoV
<1>9. ASSUME NEW p \in Viewers, ActivateNearbyMonsters(p) PROVE ChainInv'
  BY <1>9 DEF ActivateNearbyMonsters, GotoV
<1>10. ASSUME NEW p \in Viewers, TryActivate(p) PROVE ChainInv'
  BY <1>10 DEF TryActivate, GotoV
<1>11. ASSUME NEW p \in Viewers, AddAITimer(p) PROVE ChainInv'
  BY <1>11 DEF AddAITimer, GotoV, TimerAdded
<1>12. ASSUME NEW p \in Viewers, Leaves(p) PROVE ChainInv'
  BY <1>12 DEF Leaves, GotoV
<1>13. ASSUME NEW b \in Brains, NEW l \in Lives, AITimerFires(b, l)
       PROVE  ChainInv'
  <2>1. l = life /\ aiTimers[life] = 1
    BY <1>13 DEF AITimerFires
  <2>2. /\ bpc' = [bpc EXCEPT ![b] = "ifDead"] /\ aiTimers' = [aiTimers EXCEPT ![l] = @ - 1]
        /\ UNCHANGED <<active, life, vpc, rpc>>
    BY <1>13 DEF AITimerFires, GotoB
  <2> QED BY <2>1, <2>2
<1>14. ASSUME NEW b \in Brains, AIIfDead(b) PROVE ChainInv'
  BY <1>14 DEF AIIfDead, GotoB, List
<1>15. ASSUME NEW b \in Brains, LookSees(b) PROVE ChainInv'
  BY <1>15 DEF LookSees, GotoB, Sees
<1>16. ASSUME NEW b \in Brains, NEW p \in Viewers, LookPasses(b, p) PROVE ChainInv'
  BY <1>16 DEF LookPasses, GotoB, Passes
<1>17. ASSUME NEW b \in Brains, LookSeesNobody(b) PROVE ChainInv'
  BY <1>17 DEF LookSeesNobody, GotoB, SeesNobody
<1>18. ASSUME NEW b \in Brains, Deactivate(b) PROVE ChainInv'
  BY <1>18 DEF Deactivate, GotoB
<1>19. ASSUME NEW b \in Brains, AITick(b) PROVE ChainInv'
  BY <1>19 DEF AITick, GotoB
<1>20. ASSUME NEW b \in Brains, AITickStays(b) PROVE ChainInv'
  BY <1>20 DEF AITickStays, GotoB
<1>21. ASSUME NEW b \in Brains, NEW t \in Tiles, AITickMoves(b, t) PROVE ChainInv'
  BY <1>21 DEF AITickMoves, GotoB
<1>22. ASSUME NEW b \in Brains, TryMoveObject(b) PROVE ChainInv'
  BY <1>22 DEF TryMoveObject, GotoB
<1>23. ASSUME NEW b \in Brains, ReleaseOld(b) PROVE ChainInv'
  BY <1>23 DEF ReleaseOld, GotoB
<1>24. ASSUME NEW b \in Brains, SetPos(b) PROVE ChainInv'
  BY <1>24 DEF SetPos, GotoB
<1>25. ASSUME NEW b \in Brains, Rearm(b) PROVE ChainInv'
  BY <1>25 DEF Rearm, GotoB, TimerAdded
<1>26. ASSUME NEW w \in Spawners, NEW l \in Lives, RespawnTimerFires(w, l)
       PROVE  ChainInv'
  BY <1>26 DEF RespawnTimerFires, GotoR
<1>27. ASSUME NEW w \in Spawners, RespawnMonster(w) PROVE ChainInv'
  BY <1>27 DEF RespawnMonster, GotoR
<1>28. ASSUME NEW w \in Spawners, NoRoom(w) PROVE ChainInv'
  BY <1>28 DEF NoRoom, GotoR, TimerAdded
<1>29. ASSUME NEW w \in Spawners, InsertIntoSector(w) PROVE ChainInv'
  BY <1>29 DEF InsertIntoSector, GotoR
<1>30. ASSUME NEW w \in Spawners, Respawn(w) PROVE ChainInv'
  BY <1>30 DEF Respawn, GotoR
<1>31. ASSUME NEW w \in Spawners, RespawnSetPos(w) PROVE ChainInv'
  BY <1>31 DEF RespawnSetPos, GotoR, List
<1>32. ASSUME NEW w \in Spawners, RespawnSees(w) PROVE ChainInv'
  BY <1>32 DEF RespawnSees, GotoR, Sees
<1>33. ASSUME NEW w \in Spawners, NEW p \in Viewers, RespawnPasses(w, p) PROVE ChainInv'
  BY <1>33 DEF RespawnPasses, GotoR, Passes
<1>34. ASSUME NEW w \in Spawners, RespawnSeesNobody(w) PROVE ChainInv'
  BY <1>34 DEF RespawnSeesNobody, GotoR, SeesNobody
<1>35. ASSUME NEW w \in Spawners, RespawnActivates(w) PROVE ChainInv'
  BY <1>35 DEF RespawnActivates, GotoR
<1>36. ASSUME NEW w \in Spawners, RespawnAddsTimer(w) PROVE ChainInv'
  <2>1. /\ rpc[w] = "addTimer" /\ rpc' = [rpc EXCEPT ![w] = "idle"]
        /\ aiTimers' = [aiTimers EXCEPT ![life] = @ + 1]
        /\ UNCHANGED <<active, life, vpc, bpc>>
    BY <1>36 DEF RespawnAddsTimer, GotoR, TimerAdded
  <2>2. /\ aiTimers[life] = 0 /\ \A b \in Brains : bpc[b] = "idle"
        /\ \A p \in Viewers : vpc[p] # "addTimer"
    BY <2>1
  <2>3. \A v \in Spawners : rpc[v] = "addTimer" => v = w
    BY <2>1
  <2> QED BY <2>1, <2>2, <2>3
<1>37. CASE UNCHANGED monsterVars
  BY <1>37 DEF monsterVars
<1> QED BY <1>1, <1>2, <1>3, <1>4, <1>5, <1>6, <1>7, <1>8, <1>9, <1>10, <1>11, <1>12,
           <1>13, <1>14, <1>15, <1>16, <1>17, <1>18, <1>19, <1>20, <1>21, <1>22, <1>23,
           <1>24, <1>25, <1>26, <1>27, <1>28, <1>29, <1>30, <1>31, <1>32, <1>33, <1>34,
           <1>35, <1>36, <1>37
    DEF MonsterNext, AttackStep, ViewStep, BrainStep, SpawnStep,
        AITimer, RespawnTimer

(* The chain of the old life has ended when Respawn runs.                  *)
LEMMA RestStep ==
    ASSUME MonsterTypeOK, LifeInv, CountInv, BurialInv, ChainInv,
           RestInv, ~raced', [MonsterNext]_monsterVars
    PROVE  RestInv'
<1> USE MonsterAssumption DEF MonsterTypeOK, LifeInv, Lives, CountInv, BurialInv, Bury,
        Reborn, Returned, NoRespawn, IsDead, ChainInv, RestInv, BrainHolds, ViewerHolds,
        SpawnerHolds, mapVars, attackVars, viewVars, brainVars, spawnVars
<1>1. ASSUME NEW p \in Attackers, ProcessAttack(p) PROVE RestInv'
  BY <1>1 DEF ProcessAttack, GotoA
<1>2. ASSUME NEW p \in Attackers, TakeDamage(p) PROVE RestInv'
  BY <1>2 DEF TakeDamage, GotoA
<1>3. ASSUME NEW p \in Attackers, IfDead(p) PROVE RestInv'
  BY <1>3 DEF IfDead, GotoA
<1>4. ASSUME NEW p \in Attackers, OnMonsterDied(p) PROVE RestInv'
  BY <1>4 DEF OnMonsterDied, GotoA
<1>5. ASSUME NEW p \in Attackers, ReleaseTile(p) PROVE RestInv'
  BY <1>5 DEF ReleaseTile, GotoA
<1>6. ASSUME NEW p \in Attackers, EraseFromSector(p) PROVE RestInv'
  BY <1>6 DEF EraseFromSector, GotoA
<1>7. ASSUME NEW p \in Attackers, AddRespawnTimer(p) PROVE RestInv'
  BY <1>7 DEF AddRespawnTimer, GotoA, TimerAdded
<1>8. ASSUME NEW p \in Viewers, ComesIntoView(p) PROVE RestInv'
  BY <1>8 DEF ComesIntoView, GotoV
<1>9. ASSUME NEW p \in Viewers, ActivateNearbyMonsters(p) PROVE RestInv'
  BY <1>9 DEF ActivateNearbyMonsters, GotoV
<1>10. ASSUME NEW p \in Viewers, TryActivate(p) PROVE RestInv'
  BY <1>10 DEF TryActivate, GotoV
<1>11. ASSUME NEW p \in Viewers, AddAITimer(p) PROVE RestInv'
  BY <1>11 DEF AddAITimer, GotoV, TimerAdded
<1>12. ASSUME NEW p \in Viewers, Leaves(p) PROVE RestInv'
  BY <1>12 DEF Leaves, GotoV
<1>13. ASSUME NEW b \in Brains, NEW l \in Lives, AITimerFires(b, l) PROVE RestInv'
  BY <1>13 DEF AITimerFires, GotoB
<1>14. ASSUME NEW b \in Brains, AIIfDead(b) PROVE RestInv'
  BY <1>14 DEF AIIfDead, GotoB, List
<1>15. ASSUME NEW b \in Brains, LookSees(b) PROVE RestInv'
  BY <1>15 DEF LookSees, GotoB, Sees
<1>16. ASSUME NEW b \in Brains, NEW p \in Viewers, LookPasses(b, p) PROVE RestInv'
  BY <1>16 DEF LookPasses, GotoB, Passes
<1>17. ASSUME NEW b \in Brains, LookSeesNobody(b) PROVE RestInv'
  BY <1>17 DEF LookSeesNobody, GotoB, SeesNobody
<1>18. ASSUME NEW b \in Brains, Deactivate(b) PROVE RestInv'
  BY <1>18 DEF Deactivate, GotoB
<1>19. ASSUME NEW b \in Brains, AITick(b) PROVE RestInv'
  BY <1>19 DEF AITick, GotoB
<1>20. ASSUME NEW b \in Brains, AITickStays(b) PROVE RestInv'
  BY <1>20 DEF AITickStays, GotoB
<1>21. ASSUME NEW b \in Brains, NEW t \in Tiles, AITickMoves(b, t) PROVE RestInv'
  BY <1>21 DEF AITickMoves, GotoB
<1>22. ASSUME NEW b \in Brains, TryMoveObject(b) PROVE RestInv'
  BY <1>22 DEF TryMoveObject, GotoB
<1>23. ASSUME NEW b \in Brains, ReleaseOld(b) PROVE RestInv'
  BY <1>23 DEF ReleaseOld, GotoB
<1>24. ASSUME NEW b \in Brains, SetPos(b) PROVE RestInv'
  BY <1>24 DEF SetPos, GotoB
<1>25. ASSUME NEW b \in Brains, Rearm(b) PROVE RestInv'
  BY <1>25 DEF Rearm, GotoB, TimerAdded
<1>26. ASSUME NEW w \in Spawners, NEW l \in Lives, RespawnTimerFires(w, l)
       PROVE  RestInv'
  <2>1. l = life
    BY <1>26 DEF RespawnTimerFires
  <2>2. Over(life)
    BY <2>1, <1>26 DEF RespawnTimerFires
  <2> QED BY <2>2, <1>26 DEF RespawnTimerFires, GotoR, Over
<1>27. ASSUME NEW w \in Spawners, RespawnMonster(w) PROVE RestInv'
  BY <1>27 DEF RespawnMonster, GotoR
<1>28. ASSUME NEW w \in Spawners, NoRoom(w) PROVE RestInv'
  BY <1>28 DEF NoRoom, GotoR, TimerAdded
<1>29. ASSUME NEW w \in Spawners, InsertIntoSector(w) PROVE RestInv'
  BY <1>29 DEF InsertIntoSector, GotoR
<1>30. ASSUME NEW w \in Spawners, Respawn(w) PROVE RestInv'
  BY <1>30 DEF Respawn, GotoR
<1>31. ASSUME NEW w \in Spawners, RespawnSetPos(w) PROVE RestInv'
  BY <1>31 DEF RespawnSetPos, GotoR, List
<1>32. ASSUME NEW w \in Spawners, RespawnSees(w) PROVE RestInv'
  BY <1>32 DEF RespawnSees, GotoR, Sees
<1>33. ASSUME NEW w \in Spawners, NEW p \in Viewers, RespawnPasses(w, p) PROVE RestInv'
  BY <1>33 DEF RespawnPasses, GotoR, Passes
<1>34. ASSUME NEW w \in Spawners, RespawnSeesNobody(w) PROVE RestInv'
  BY <1>34 DEF RespawnSeesNobody, GotoR, SeesNobody
<1>35. ASSUME NEW w \in Spawners, RespawnActivates(w) PROVE RestInv'
  BY <1>35 DEF RespawnActivates, GotoR
<1>36. ASSUME NEW w \in Spawners, RespawnAddsTimer(w) PROVE RestInv'
  BY <1>36 DEF RespawnAddsTimer, GotoR, TimerAdded
<1>37. CASE UNCHANGED monsterVars
  BY <1>37 DEF monsterVars
<1> QED BY <1>1, <1>2, <1>3, <1>4, <1>5, <1>6, <1>7, <1>8, <1>9, <1>10, <1>11, <1>12,
           <1>13, <1>14, <1>15, <1>16, <1>17, <1>18, <1>19, <1>20, <1>21, <1>22, <1>23,
           <1>24, <1>25, <1>26, <1>27, <1>28, <1>29, <1>30, <1>31, <1>32, <1>33, <1>34,
           <1>35, <1>36, <1>37
    DEF MonsterNext, AttackStep, ViewStep, BrainStep, SpawnStep,
        AITimer, RespawnTimer

(* A monster that is active is driven, and so is one in view.              *)
LEMMA SeenStep ==
    ASSUME MonsterTypeOK, LifeInv, CountInv, BurialInv, ChainInv,
           RestInv, SeenInv, PlaceInv, ~raced', [MonsterNext]_monsterVars
    PROVE  SeenInv'
<1> USE MonsterAssumption DEF MonsterTypeOK, LifeInv, Lives, IsDead, CountInv, BurialInv,
        ChainInv, RestInv, SeenInv, Driven, Ending, Reborn, BrainHolds, ViewerHolds,
        SpawnerHolds, Overlooks, AwaitsScan, Lookers, mapVars, attackVars, viewVars, brainVars, spawnVars
<1>0. ASSUME UNCHANGED <<active, life, aiTimers, vpc, unread, overlooked, bpc, rpc>>,
             IsDead => IsDead'
      PROVE  SeenInv'
  BY <1>0
<1>1. ASSUME NEW p \in Attackers, ProcessAttack(p) PROVE SeenInv'
  BY <1>0, <1>1 DEF ProcessAttack
<1>2. ASSUME NEW p \in Attackers, TakeDamage(p) PROVE SeenInv'
  <2>1. IsDead => IsDead'
    BY <1>2 DEF TakeDamage
  <2> QED BY <1>0, <1>2, <2>1 DEF TakeDamage
<1>3. ASSUME NEW p \in Attackers, IfDead(p) PROVE SeenInv'
  BY <1>0, <1>3 DEF IfDead
<1>4. ASSUME NEW p \in Attackers, OnMonsterDied(p) PROVE SeenInv'
  BY <1>0, <1>4 DEF OnMonsterDied
<1>5. ASSUME NEW p \in Attackers, ReleaseTile(p) PROVE SeenInv'
  BY <1>0, <1>5 DEF ReleaseTile
<1>6. ASSUME NEW p \in Attackers, EraseFromSector(p) PROVE SeenInv'
  BY <1>0, <1>6 DEF EraseFromSector
<1>7. ASSUME NEW p \in Attackers, AddRespawnTimer(p) PROVE SeenInv'
  BY <1>0, <1>7 DEF AddRespawnTimer
<1>8. ASSUME NEW p \in Viewers, ComesIntoView(p) PROVE SeenInv'
  BY <1>8 DEF ComesIntoView, GotoV
<1>9. ASSUME NEW p \in Viewers, ActivateNearbyMonsters(p) PROVE SeenInv'
  <2>1. IsDead \/ indexed = TRUE
    BY AliveIndexed
  <2> QED BY <2>1, <1>9 DEF ActivateNearbyMonsters, GotoV
<1>10. ASSUME NEW p \in Viewers, TryActivate(p) PROVE SeenInv'
  <2>1. /\ vpc[p] = "try" /\ active' = TRUE
        /\ UNCHANGED <<hp, life, aiTimers, unread, bpc, rpc>>
        /\ \A q \in Viewers : q # p => vpc'[q] = vpc[q]
    BY <1>10 DEF TryActivate, GotoV
  <2>2. CASE active = TRUE
    <3>1. vpc'[p] = "near"
          /\ overlooked' = (overlooked \/ \E b \in Brains : Overlooks(b, p))
      BY <1>10, <2>2 DEF TryActivate, GotoV
    <3>2. ~overlooked' => ~overlooked /\ \A b \in Brains : ~Overlooks(b, p)
      BY ONLY <3>1, Zenon
    <3>3. Driven' <=> Driven
      BY <2>1, <3>1
    <3>4. ~IsDead /\ ~overlooked' => Driven
      BY <2>2, <3>2
    <3>5. \A b \in Brains : \A q \in Viewers : Overlooks(b, q)' <=> Overlooks(b, q)
      BY <2>1
    <3>6. (IsDead' <=> IsDead) /\ (Ending' <=> Ending)
      BY <2>1
    <3>7. ~IsDead => Driven \/ Ending
      BY <2>2
    <3>8. ~IsDead /\ ~overlooked' => \A q \in Viewers : vpc'[q] = "near" =>
                                       \A b \in Brains : ~Overlooks(b, q)
      <4>1. ~IsDead /\ ~overlooked => \A q \in Viewers : vpc[q] = "near" =>
                                         \A b \in Brains : ~Overlooks(b, q)
        BY DEF SeenInv
      <4> HIDE DEF Overlooks, IsDead
      <4> QED BY ONLY <2>1, <3>2, <4>1
    <3> HIDE DEF Driven, Ending, Overlooks, IsDead
    <3> QED BY ONLY <3>3, <3>4, <3>5, <3>6, <3>7, <3>8 DEF SeenInv
  <2>3. CASE active = FALSE
    <3>1. vpc'[p] = "addTimer" /\ \A b \in Brains : bpc[b] = "idle"
      BY <1>10, <2>3 DEF TryActivate, GotoV
    <3>2. Driven' /\ \A q \in Viewers : \A b \in Brains : ~Overlooks(b, q)'
      BY <2>1, <3>1
    <3> QED BY <3>2
  <2> QED BY <2>2, <2>3
<1>11. ASSUME NEW p \in Viewers, AddAITimer(p) PROVE SeenInv'
  BY <1>11 DEF AddAITimer, GotoV, TimerAdded
<1>12. ASSUME NEW p \in Viewers, Leaves(p) PROVE SeenInv'
  <2>1. /\ vpc[p] = "near" /\ vpc' = [vpc EXCEPT ![p] = "away"]
        /\ UNCHANGED <<hp, active, life, aiTimers, unread, overlooked, bpc, rpc>>
    BY <1>12 DEF Leaves, GotoV
  <2>2. (Driven' <=> Driven) /\ (Ending' <=> Ending)
        /\ (IsDead' <=> IsDead) /\ active' = active /\ overlooked' = overlooked
    BY <2>1
  <2>3. \A q \in Viewers : /\ vpc'[q] = "near" => vpc[q] = "near"
                           /\ AwaitsScan(q)' <=> AwaitsScan(q)
                           /\ \A b \in Brains : Overlooks(b, q)' <=> Overlooks(b, q)
    BY <2>1
  <2> HIDE DEF Driven, Ending, Overlooks, AwaitsScan, IsDead
  <2> QED BY ONLY <2>2, <2>3, SeenInv DEF SeenInv
<1>13. ASSUME NEW b \in Brains, NEW l \in Lives, AITimerFires(b, l) PROVE SeenInv'
  <2>1. l = life
    BY <1>13 DEF AITimerFires
  <2>2. bpc'[b] = "ifDead" /\ UNCHANGED <<hp, vpc, overlooked>>
    BY <1>13 DEF AITimerFires, GotoB
  <2>3. Driven'
    BY <2>2
  <2> QED BY <2>1, <2>2, <2>3, <1>13 DEF AITimerFires, GotoB
<1>14. ASSUME NEW b \in Brains, AIIfDead(b) PROVE SeenInv'
  BY <1>14 DEF AIIfDead, GotoB, List
<1>15. ASSUME NEW b \in Brains, LookSees(b) PROVE SeenInv'
  <2>1. /\ bpc[b] = "look" /\ bpc' = [bpc EXCEPT ![b] = "tick"]
    BY <1>15 DEF LookSees, GotoB
  <2>2. Driven' /\ \A c \in Brains : bpc'[c] \in {"idle", "tick"}
    BY <2>1
  <2> QED BY <2>2
<1>16. ASSUME NEW b \in Brains, NEW p \in Viewers, LookPasses(b, p) PROVE SeenInv'
  <2>1. /\ bpc[b] = "look" /\ bpc' = bpc /\ vpc[p] = "away"
        /\ unread' = [unread EXCEPT ![b] = @ \ {p}]
        /\ UNCHANGED <<hp, active, life, aiTimers, vpc, overlooked, rpc>>
    BY <1>16 DEF LookPasses, GotoB, Passes, InView
  <2>2. Driven'
    BY <2>1
  <2>3. \A q \in Viewers : vpc[q] = "near" => \A c \in Brains : Overlooks(c, q)' => Overlooks(c, q)
    BY <2>1
  <2> QED BY <2>1, <2>2, <2>3
<1>17. ASSUME NEW b \in Brains, LookSeesNobody(b) PROVE SeenInv'
  BY <1>17 DEF LookSeesNobody, GotoB, SeesNobody
<1>18. ASSUME NEW b \in Brains, Deactivate(b) PROVE SeenInv'
  BY <1>18 DEF Deactivate, GotoB
<1>19. ASSUME NEW b \in Brains, AITick(b) PROVE SeenInv'
  BY <1>19 DEF AITick, GotoB
<1>20. ASSUME NEW b \in Brains, AITickStays(b) PROVE SeenInv'
  BY <1>20 DEF AITickStays, GotoB
<1>21. ASSUME NEW b \in Brains, NEW t \in Tiles, AITickMoves(b, t) PROVE SeenInv'
  BY <1>21 DEF AITickMoves, GotoB
<1>22. ASSUME NEW b \in Brains, TryMoveObject(b) PROVE SeenInv'
  BY <1>22 DEF TryMoveObject, GotoB
<1>23. ASSUME NEW b \in Brains, ReleaseOld(b) PROVE SeenInv'
  BY <1>23 DEF ReleaseOld, GotoB
<1>24. ASSUME NEW b \in Brains, SetPos(b) PROVE SeenInv'
  BY <1>24 DEF SetPos, GotoB
<1>25. ASSUME NEW b \in Brains, Rearm(b) PROVE SeenInv'
  BY <1>25 DEF Rearm, GotoB, TimerAdded
<1>26. ASSUME NEW w \in Spawners, NEW l \in Lives, RespawnTimerFires(w, l)
       PROVE  SeenInv'
  <2>1. respawns[l] > 0 /\ UNCHANGED <<hp, kills, rewards>>
    BY <1>26 DEF RespawnTimerFires, attackVars
  <2>2. rewards # life - 1
    BY <2>1 DEF NoRespawn
  <2>3. IsDead'
    BY <2>1, <2>2
  <2> QED BY <2>3
<1>27. ASSUME NEW w \in Spawners, RespawnMonster(w) PROVE SeenInv'
  BY <1>27 DEF RespawnMonster, GotoR
<1>28. ASSUME NEW w \in Spawners, NoRoom(w) PROVE SeenInv'
  BY <1>28 DEF NoRoom, GotoR, TimerAdded
<1>29. ASSUME NEW w \in Spawners, InsertIntoSector(w) PROVE SeenInv'
  BY <1>29 DEF InsertIntoSector, GotoR
<1>30. ASSUME NEW w \in Spawners, Respawn(w) PROVE SeenInv'
  BY <1>30 DEF Respawn, GotoR
<1>31. ASSUME NEW w \in Spawners, RespawnSetPos(w) PROVE SeenInv'
  BY <1>31 DEF RespawnSetPos, GotoR, List
<1>32. ASSUME NEW w \in Spawners, RespawnSees(w) PROVE SeenInv'
  BY <1>32 DEF RespawnSees, GotoR, Sees
<1>33. ASSUME NEW w \in Spawners, NEW p \in Viewers, RespawnPasses(w, p) PROVE SeenInv'
  <2>1. /\ rpc[w] = "look" /\ rpc' = rpc /\ vpc[p] = "away" /\ w \notin Brains
        /\ unread' = [unread EXCEPT ![w] = @ \ {p}]
        /\ UNCHANGED <<hp, active, life, aiTimers, vpc, overlooked, bpc>>
    BY <1>33 DEF RespawnPasses, GotoR, Passes, InView
  <2>2. (Driven' <=> Driven) /\ (Ending' <=> Ending)
    BY <2>1
  <2>3. \A q \in Viewers : vpc[q] = "near" =>
            /\ AwaitsScan(q) => AwaitsScan(q)'
            /\ \A c \in Brains : Overlooks(c, q)' => Overlooks(c, q)
    BY <2>1
  <2> QED BY <2>1, <2>2, <2>3
<1>34. ASSUME NEW w \in Spawners, RespawnSeesNobody(w) PROVE SeenInv'
  BY <1>34 DEF RespawnSeesNobody, GotoR, SeesNobody
<1>35. ASSUME NEW w \in Spawners, RespawnActivates(w) PROVE SeenInv'
  BY <1>35 DEF RespawnActivates, GotoR
<1>36. ASSUME NEW w \in Spawners, RespawnAddsTimer(w) PROVE SeenInv'
  BY <1>36 DEF RespawnAddsTimer, GotoR, TimerAdded
<1>37. CASE UNCHANGED monsterVars
  BY <1>37 DEF monsterVars
<1> QED BY <1>1, <1>2, <1>3, <1>4, <1>5, <1>6, <1>7, <1>8, <1>9, <1>10, <1>11, <1>12,
           <1>13, <1>14, <1>15, <1>16, <1>17, <1>18, <1>19, <1>20, <1>21, <1>22, <1>23,
           <1>24, <1>25, <1>26, <1>27, <1>28, <1>29, <1>30, <1>31, <1>32, <1>33, <1>34,
           <1>35, <1>36, <1>37
    DEF MonsterNext, AttackStep, ViewStep, BrainStep, SpawnStep,
        AITimer, RespawnTimer

(* The tile the monster occupies is known at each point of its handlers.   *)
LEMMA PlaceStep ==
    ASSUME MonsterTypeOK, LifeInv, CountInv, BurialInv, ChainInv,
           RestInv, PlaceInv, ~raced', [MonsterNext]_monsterVars
    PROVE  PlaceInv'
<1> USE MonsterAssumption DEF MonsterTypeOK, LifeInv, Lives, IsDead, CountInv, BurialInv,
        NoRespawn, ChainInv, RestInv, PlaceInv, MovingPlace, BuriedPlace, SpawnPlace,
        HomePlace, Bury, Reborn, Returned, Moving, BrainHolds, mapVars, attackVars,
        viewVars, brainVars, spawnVars
<1>1. ASSUME NEW p \in Attackers, ProcessAttack(p) PROVE PlaceInv'
  BY <1>1 DEF ProcessAttack, GotoA
<1>2. ASSUME NEW p \in Attackers, TakeDamage(p) PROVE PlaceInv'
  BY <1>2 DEF TakeDamage, GotoA
<1>3. ASSUME NEW p \in Attackers, IfDead(p) PROVE PlaceInv'
  BY <1>3 DEF IfDead, GotoA
<1>4. ASSUME NEW p \in Attackers, OnMonsterDied(p) PROVE PlaceInv'
  <2>1. /\ rewards' = rewards + 1 /\ rewards' <= kills
        /\ \A b \in Brains : ~Moving(b)
        /\ \A w \in Spawners : rpc[w] = "idle"
    BY <1>4, FirstBurial
  <2>2. rewards = life - 1 /\ held = {pos} /\ indexed = TRUE
    BY <2>1
  <2>3. /\ apc[p] = "reward" /\ apc' = [apc EXCEPT ![p] = "release"]
        /\ at' = [at EXCEPT ![p] = pos]
        /\ UNCHANGED <<pos, life, respawns, held, indexed, bpc, rpc>>
    BY <1>4 DEF OnMonsterDied, GotoA
  <2>4. MovingPlace' /\ SpawnPlace' /\ HomePlace'
    BY <2>1, <2>2, <2>3
  <2>5. BuriedPlace'
    BY <2>1, <2>2, <2>3
  <2> QED BY <2>4, <2>5
<1>5. ASSUME NEW p \in Attackers, ReleaseTile(p) PROVE PlaceInv'
  BY <1>5 DEF ReleaseTile, GotoA
<1>6. ASSUME NEW p \in Attackers, EraseFromSector(p) PROVE PlaceInv'
  BY <1>6 DEF EraseFromSector, GotoA
<1>7. ASSUME NEW p \in Attackers, AddRespawnTimer(p) PROVE PlaceInv'
  BY <1>7 DEF AddRespawnTimer, GotoA, TimerAdded
<1>8. ASSUME NEW p \in Viewers, ComesIntoView(p) PROVE PlaceInv'
  BY <1>8 DEF ComesIntoView, GotoV
<1>9. ASSUME NEW p \in Viewers, ActivateNearbyMonsters(p) PROVE PlaceInv'
  BY <1>9 DEF ActivateNearbyMonsters, GotoV
<1>10. ASSUME NEW p \in Viewers, TryActivate(p) PROVE PlaceInv'
  BY <1>10 DEF TryActivate, GotoV
<1>11. ASSUME NEW p \in Viewers, AddAITimer(p) PROVE PlaceInv'
  BY <1>11 DEF AddAITimer, GotoV, TimerAdded
<1>12. ASSUME NEW p \in Viewers, Leaves(p) PROVE PlaceInv'
  BY <1>12 DEF Leaves, GotoV
<1>13. ASSUME NEW b \in Brains, NEW l \in Lives, AITimerFires(b, l)
       PROVE  PlaceInv'
  <2>1. /\ bpc[b] = "idle" /\ bpc' = [bpc EXCEPT ![b] = "ifDead"]
        /\ UNCHANGED <<pos, life, rewards, respawns, held, indexed, apc, at, rpc, place,
                       from, to>>
    BY <1>13 DEF AITimerFires, GotoB
  <2>2. \A c \in Brains : Moving(c)' <=> Moving(c)
    BY <2>1
  <2>3. MovingPlace' /\ HomePlace'
    BY <2>1, <2>2
  <2> QED BY <2>1, <2>3
<1>14. ASSUME NEW b \in Brains, AIIfDead(b) PROVE PlaceInv'
  BY <1>14 DEF AIIfDead, GotoB, List
<1>15. ASSUME NEW b \in Brains, LookSees(b) PROVE PlaceInv'
  BY <1>15 DEF LookSees, GotoB, Sees
<1>16. ASSUME NEW b \in Brains, NEW p \in Viewers, LookPasses(b, p) PROVE PlaceInv'
  BY <1>16 DEF LookPasses, GotoB, Passes
<1>17. ASSUME NEW b \in Brains, LookSeesNobody(b) PROVE PlaceInv'
  BY <1>17 DEF LookSeesNobody, GotoB, SeesNobody
<1>18. ASSUME NEW b \in Brains, Deactivate(b) PROVE PlaceInv'
  BY <1>18 DEF Deactivate, GotoB
<1>19. ASSUME NEW b \in Brains, AITick(b) PROVE PlaceInv'
  BY <1>19 DEF AITick, GotoB
<1>20. ASSUME NEW b \in Brains, AITickStays(b) PROVE PlaceInv'
  BY <1>20 DEF AITickStays, GotoB
<1>21. ASSUME NEW b \in Brains, NEW t \in Tiles, AITickMoves(b, t) PROVE PlaceInv'
  <2>1. /\ rewards = life - 1
        /\ \A p \in Attackers : apc[p] \notin Bury
        /\ NoRespawn
        /\ \A w \in Spawners : rpc[w] = "idle"
    BY <1>21, MovesAlone
  <2>2. /\ bpc[b] = "decide" /\ bpc' = [bpc EXCEPT ![b] = "claim"]
        /\ from' = [from EXCEPT ![b] = pos]
        /\ UNCHANGED <<pos, life, rewards, respawns, held, indexed, apc, at, rpc, place>>
    BY <1>21 DEF AITickMoves, GotoB
  <2>3. \A c \in Brains : c # b => bpc[c] = "idle"
    BY <2>2
  <2>4. held = {pos} /\ indexed = TRUE
    BY <2>1, <2>2, <2>3
  <2> HIDE DEF MonsterTypeOK, LifeInv, ChainInv, RestInv, CountInv, BurialInv
  <2>5. MovingPlace'
    BY <2>1, <2>2, <2>3, <2>4 DEF MonsterTypeOK
  <2>6. BuriedPlace' /\ SpawnPlace' /\ HomePlace'
    BY <2>1, <2>2, <2>4 DEF MonsterTypeOK
  <2> QED BY <2>5, <2>6
<1>22. ASSUME NEW b \in Brains, TryMoveObject(b) PROVE PlaceInv'
  BY <1>22 DEF TryMoveObject, GotoB
<1>23. ASSUME NEW b \in Brains, ReleaseOld(b) PROVE PlaceInv'
  BY <1>23 DEF ReleaseOld, GotoB
<1>24. ASSUME NEW b \in Brains, SetPos(b) PROVE PlaceInv'
  BY <1>24 DEF SetPos, GotoB
<1>25. ASSUME NEW b \in Brains, Rearm(b) PROVE PlaceInv'
  <2>1. /\ bpc[b] = "rearm" /\ bpc' = [bpc EXCEPT ![b] = "idle"]
        /\ UNCHANGED <<pos, life, rewards, respawns, held, indexed, apc, at, rpc, place,
                       from, to>>
    BY <1>25 DEF Rearm, GotoB
  <2>2. \A c \in Brains : Moving(c)' <=> Moving(c)
    BY <2>1
  <2>3. MovingPlace' /\ HomePlace'
    BY <2>1, <2>2
  <2> QED BY <2>1, <2>3
<1>26. ASSUME NEW w \in Spawners, NEW l \in Lives, RespawnTimerFires(w, l)
       PROVE  PlaceInv'
  BY <1>26 DEF RespawnTimerFires, GotoR
<1>27. ASSUME NEW w \in Spawners, RespawnMonster(w) PROVE PlaceInv'
  BY <1>27 DEF RespawnMonster, GotoR
<1>28. ASSUME NEW w \in Spawners, NoRoom(w) PROVE PlaceInv'
  BY <1>28 DEF NoRoom, GotoR, TimerAdded
<1>29. ASSUME NEW w \in Spawners, InsertIntoSector(w) PROVE PlaceInv'
  BY <1>29 DEF InsertIntoSector, GotoR
<1>30. ASSUME NEW w \in Spawners, Respawn(w) PROVE PlaceInv'
  BY <1>30 DEF Respawn, GotoR
<1>31. ASSUME NEW w \in Spawners, RespawnSetPos(w) PROVE PlaceInv'
  BY <1>31 DEF RespawnSetPos, GotoR, List
<1>32. ASSUME NEW w \in Spawners, RespawnSees(w) PROVE PlaceInv'
  BY <1>32 DEF RespawnSees, GotoR, Sees
<1>33. ASSUME NEW w \in Spawners, NEW p \in Viewers, RespawnPasses(w, p) PROVE PlaceInv'
  BY <1>33 DEF RespawnPasses, GotoR, Passes
<1>34. ASSUME NEW w \in Spawners, RespawnSeesNobody(w) PROVE PlaceInv'
  BY <1>34 DEF RespawnSeesNobody, GotoR, SeesNobody
<1>35. ASSUME NEW w \in Spawners, RespawnActivates(w) PROVE PlaceInv'
  BY <1>35 DEF RespawnActivates, GotoR
<1>36. ASSUME NEW w \in Spawners, RespawnAddsTimer(w) PROVE PlaceInv'
  BY <1>36 DEF RespawnAddsTimer, GotoR, TimerAdded
<1>37. CASE UNCHANGED monsterVars
  BY <1>37 DEF monsterVars
<1> QED BY <1>1, <1>2, <1>3, <1>4, <1>5, <1>6, <1>7, <1>8, <1>9, <1>10, <1>11, <1>12,
           <1>13, <1>14, <1>15, <1>16, <1>17, <1>18, <1>19, <1>20, <1>21, <1>22, <1>23,
           <1>24, <1>25, <1>26, <1>27, <1>28, <1>29, <1>30, <1>31, <1>32, <1>33, <1>34,
           <1>35, <1>36, <1>37
    DEF MonsterNext, AttackStep, ViewStep, BrainStep, SpawnStep,
        AITimer, RespawnTimer

(* The invariant holds at the start,                                       *)
LEMMA MonsterInvStart ==
    ASSUME MonsterInit PROVE MonsterInv
<1> USE MonsterAssumption
<1>0. 1 \in Lives /\ life = 1 /\ \A l \in Lives : l >= 1
  BY DEF Lives, MonsterInit
<1>1. MonsterTypeOK
  <2>1. hp \in 0 .. MaxHp /\ views \in 0 .. MaxViews /\ full \in 0 .. MaxFull
    BY DEF MonsterInit
  <2>2. apc \in [Attackers -> {"idle", "damage", "ifDead", "reward", "release", "erase",
                               "addTimer"}]
        /\ vpc \in [Viewers -> {"away", "scan", "try", "addTimer", "near"}]
    BY DEF MonsterInit
  <2>3. bpc \in [Brains -> {"idle", "ifDead", "look", "deactivate", "tick", "decide", "claim",
                           "release", "setPos", "rearm"}]
      /\ unread \in [Lookers -> SUBSET Viewers]
    BY DEF MonsterInit
  <2>4. rpc \in [Spawners -> {"idle", "claim", "insert", "reset", "setPos", "look", "try",
                             "addTimer"}]
    BY DEF MonsterInit
  <2>5. at \in [Attackers -> Tiles] /\ from \in [Brains -> Tiles] /\ to \in [Brains -> Tiles]
        /\ place \in [Spawners -> Tiles] /\ pos \in Tiles /\ held \subseteq Tiles
    BY DEF MonsterInit
  <2>6. vlife \in [Viewers -> Lives] /\ blife \in [Brains -> Lives]
        /\ aiTimers \in [Lives -> Nat] /\ respawns \in [Lives -> Nat]
    BY <1>0 DEF MonsterInit
  <2> QED BY <1>0, <2>1, <2>2, <2>3, <2>4, <2>5, <2>6 DEF MonsterInit, MonsterTypeOK
<1>2. LifeInv
  BY <1>0 DEF MonsterInit, LifeInv
<1>3. CountInv /\ BurialInv
  BY <1>0 DEF MonsterInit, CountInv, BurialInv, IsDead, NoRespawn, Bury, Reborn, Returned
<1>4. ChainInv /\ RestInv
  BY <1>0 DEF MonsterInit, ChainInv, RestInv, BrainHolds, ViewerHolds, SpawnerHolds, Reborn
<1>5. SeenInv
  BY <1>0 DEF MonsterInit, SeenInv, Ending
<1>6. PlaceInv
  BY <1>0 DEF MonsterInit, PlaceInv, MovingPlace, BuriedPlace, SpawnPlace, HomePlace,
     Moving
<1> QED BY <1>1, <1>2, <1>3, <1>4, <1>5, <1>6 DEF MonsterInv, Clean

(* and always.                                                             *)
LEMMA MonsterInvAlways == MonsterSpec => []MonsterInv
<1>1. MonsterInit => MonsterInv
  BY MonsterInvStart
<1>2. ASSUME MonsterInv, [MonsterNext]_monsterVars PROVE MonsterInv'
  <2>1. MonsterTypeOK' /\ LifeInv'
    BY <1>2, MonsterTypeStep, LifeStep DEF MonsterInv
  <2>2. ASSUME ~raced' PROVE Clean'
    <3>1. MonsterTypeOK /\ LifeInv /\ Clean
      BY <1>2, <2>2, RacedStays DEF MonsterInv
    <3>2. CountInv' /\ BurialInv' /\ ChainInv' /\ RestInv'
      BY <1>2, <2>2, <3>1, CountStep, BurialStep, ChainStep, RestStep DEF Clean
    <3>3. SeenInv' /\ PlaceInv'
      BY <1>2, <2>2, <3>1, SeenStep, PlaceStep DEF Clean
    <3> QED BY <3>2, <3>3 DEF Clean
  <2> QED BY <2>1, <2>2 DEF MonsterInv
<1> QED BY <1>1, <1>2, PTL DEF MonsterSpec

LEMMA OneChain ==
    ASSUME MonsterTypeOK, LifeInv, BurialInv, ChainInv
    PROVE  \E n \in {0, 1} : Chains(n)
<1> DEFINE ai == {l \in Lives : aiTimers[l] > 0}
           bs == {b \in Brains : bpc[b] \notin {"idle", "deactivate"}}
           ps == {p \in Viewers : vpc[p] = "addTimer"}
           ws == {w \in Spawners : rpc[w] = "addTimer"}
<1>0. life \in Lives /\ Lives \subseteq Nat
  BY DEF MonsterTypeOK, Lives
<1>1. ai = {} \/ (ai = {life} /\ bs = {} /\ ps = {} /\ ws = {})
  <2>1. \A l \in Lives : l # life => aiTimers[l] = 0
    BY <1>0 DEF LifeInv, ChainInv
  <2>2. aiTimers[life] \in {0, 1}
    BY <1>0 DEF MonsterTypeOK, ChainInv
  <2>3. CASE aiTimers[life] = 0
    <3>1. \A l \in Lives : ~(aiTimers[l] > 0)
      BY <1>0, <2>1, <2>3
    <3>2. ai = {}
      BY <3>1
    <3> QED BY <3>2
  <2>4. CASE aiTimers[life] = 1
    <3>1. \A l \in Lives : aiTimers[l] > 0 <=> l = life
      BY <1>0, <2>1, <2>4
    <3>3. ai = {life}
      BY <1>0, <3>1
    <3>2. bs = {} /\ ps = {} /\ ws = {}
      BY <2>4 DEF ChainInv, BrainHolds, ViewerHolds, SpawnerHolds
    <3> QED BY <3>2, <3>3
  <2> QED BY <2>2, <2>3, <2>4
<1>2. bs = {} \/ \E b \in Brains : bs = {b} /\ ps = {} /\ ws = {}
  BY DEF ChainInv, BrainHolds, ViewerHolds, SpawnerHolds
<1>3. ps = {} \/ \E p \in Viewers : ps = {p} /\ ws = {}
  BY DEF ChainInv, ViewerHolds, SpawnerHolds
<1>4. ws = {} \/ \E w \in Spawners : ws = {w}
  BY DEF BurialInv, SpawnerHolds
<1>5. Cardinality({}) = 0 /\ Cardinality({life}) = 1
      /\ (\A b \in Brains : Cardinality({b}) = 1) /\ (\A p \in Viewers : Cardinality({p}) = 1)
      /\ (\A w \in Spawners : Cardinality({w}) = 1)
  BY FS_EmptySet, FS_Singleton
<1>6. Cardinality(ai) + Cardinality(bs) + Cardinality(ps) + Cardinality(ws) \in {0, 1}
  <2>1. CASE ai # {}
    BY <1>1, <1>5, <2>1
  <2>2. CASE ai = {} /\ bs # {}
    BY <1>2, <1>5, <2>2
  <2>3. CASE ai = {} /\ bs = {} /\ ps # {}
    <3>1. PICK p \in Viewers : ps = {p} /\ ws = {}
      BY <1>3, <2>3
    <3>2. Cardinality(ps) = 1 /\ Cardinality(ws) = 0
      BY <3>1, <1>5
    <3>3. Cardinality(ai) = 0 /\ Cardinality(bs) = 0
      BY <2>3, <1>5
    <3> HIDE DEF ai, bs, ps, ws
    <3> QED BY <3>2, <3>3
  <2>4. CASE ai = {} /\ bs = {} /\ ps = {}
    BY <1>4, <1>5, <2>4
  <2> QED BY <2>1, <2>2, <2>3, <2>4
<1> QED BY <1>6 DEF Chains

(* A monster never has two chains of AI timers at a time (TryActivate,     *)
(* RespawnMonster, the AI timer), unless handlers overlapped its death.    *)
THEOREM OneChainAlways == MonsterSpec => []OneChainUnlessRaced
<1>1. MonsterInv => OneChainUnlessRaced
  <2> SUFFICES ASSUME MonsterInv, ~raced PROVE OneChainUnlessRaced
    BY DEF OneChainUnlessRaced
  <2>1. MonsterTypeOK /\ LifeInv /\ BurialInv /\ ChainInv
    BY DEF MonsterInv, Clean
  <2>2. \A l \in Lives : aiTimers[l] <= 1
    BY <2>1 DEF MonsterTypeOK, LifeInv, ChainInv, Lives
  <2> QED BY <2>1, <2>2, OneChain DEF OneChainUnlessRaced
<1> QED BY <1>1, MonsterInvAlways, PTL

(* With nothing under way a dead monster holds no tile and waits for       *)
(* exactly one respawn, and a living one holds exactly the tile it stands  *)
(* on (OnMonsterDied, RespawnMonster, MoveMonster), unless they            *)
(* overlapped.                                                             *)
THEOREM MonsterExactAlways == MonsterSpec => []ExactUnlessRaced
<1>1. MonsterInv => ExactUnlessRaced
  <2>0. MonsterInv => MonsterTypeOK
    BY DEF MonsterInv
  <2> SUFFICES ASSUME MonsterInv, ~raced, Quiet
               PROVE  IF IsDead
                      THEN held = {} /\ ~indexed /\
                           \E l \in Lives :
                               respawns = [k \in Lives |-> IF k = l THEN 1 ELSE 0]
                      ELSE held = {pos} /\ indexed /\ respawns = [k \in Lives |-> 0]
    BY <2>0 DEF ExactUnlessRaced
  <2>1. MonsterTypeOK /\ LifeInv /\ CountInv /\ BurialInv /\ PlaceInv
    BY DEF MonsterInv, Clean
  <2>2. life \in Lives /\ Lives \subseteq Nat /\ respawns \in [Lives -> Nat]
    BY <2>1 DEF MonsterTypeOK, Lives
  <2>3. CASE IsDead
    <3>1. rewards = life
      BY <2>1, <2>2, <2>3 DEF CountInv, Quiet
    <3>2. respawns[life] = 1
      BY <2>1, <3>1 DEF BurialInv, Quiet, Bury, Reborn
    <3>3. \A k \in Lives : k # life => respawns[k] = 0
      BY <2>1, <2>2, <3>1 DEF BurialInv, LifeInv
    <3>4. respawns = [k \in Lives |-> IF k = life THEN 1 ELSE 0]
      BY <2>2, <3>2, <3>3
    <3>5. held = {} /\ indexed = FALSE
      BY <2>1, <3>2 DEF PlaceInv, BuriedPlace
    <3> QED BY <2>2, <2>3, <3>4, <3>5
  <2>4. CASE ~IsDead
    <3>1. rewards = life - 1
      BY <2>1, <2>2, <2>4 DEF CountInv
    <3>2. respawns = [k \in Lives |-> 0]
      BY <2>1, <2>2, <3>1 DEF BurialInv, NoRespawn
    <3>3. held = {pos} /\ indexed = TRUE
      BY <2>1, <3>1 DEF PlaceInv, HomePlace, Quiet, Moving
    <3> QED BY <2>4, <3>2, <3>3
  <2> QED BY <2>3, <2>4
<1> QED BY <1>1, MonsterInvAlways, PTL

(* A living monster in some player's view has an AI timer, once nothing is *)
(* under way (TryActivate, HasObserverNearby, RespawnMonster), unless the  *)
(* last to come found m_isActive set by a handler that had looked past it, *)
(* or a death was overlapped.                                              *)
THEOREM SeenAlways == MonsterSpec => []SeenIsActive
<1>1. MonsterInv => SeenIsActive
  <2> SUFFICES ASSUME MonsterInv, Quiet, ~IsDead, NEW p \in Viewers, InView(p),
                      ~overlooked, ~raced
               PROVE  \E l \in Lives : aiTimers[l] > 0
    BY DEF SeenIsActive
  <2>1. vpc[p] = "near"
    BY DEF Quiet, InView
  <2>2. SeenInv /\ MonsterTypeOK
    BY DEF MonsterInv, Clean
  <2>3. Driven
    BY <2>1, <2>2 DEF SeenInv, AwaitsScan, Quiet
  <2>4. aiTimers[life] = 1 /\ life \in Lives
    BY <2>2, <2>3 DEF Driven, Quiet, ViewerHolds, SpawnerHolds, MonsterTypeOK
  <2> QED BY <2>4
<1> QED BY <1>1, MonsterInvAlways, PTL

\* Somebody will bring the dead monster back: who has hit it and not looked
\* yet or buries it, a respawn timer, or a worker with one in its hands.
Remembered == IsDead =>
    \/ \E p \in Attackers : apc[p] \in {"ifDead", "reward"} \cup Bury
    \/ \E l \in Lives : respawns[l] > 0
    \/ \E w \in Spawners : rpc[w] \in Reborn

LEMMA RememberedStep ==
    ASSUME MonsterTypeOK, Remembered, [MonsterNext]_monsterVars
    PROVE  Remembered'
<1> USE MonsterAssumption DEF MonsterTypeOK, Bury, Reborn, IsDead
<1>1. ASSUME NEW p \in Attackers, ProcessAttack(p) \/ AttackStep(p) PROVE Remembered'
  <2>1. CASE ProcessAttack(p)
    BY <2>1 DEF ProcessAttack, GotoA, Remembered
  <2>2. CASE TakeDamage(p)
    <3>1. apc'[p] = "ifDead"
      BY <2>2 DEF TakeDamage, GotoA
    <3> QED BY <3>1 DEF Remembered
  <2>3. CASE IfDead(p)
    <3>1. IsDead => apc'[p] = "reward"
      BY <2>3 DEF IfDead, GotoA
    <3>2. hp' = hp
      BY <2>3 DEF IfDead
    <3> QED BY <3>1, <3>2 DEF Remembered
  <2>4. CASE OnMonsterDied(p) \/ ReleaseTile(p) \/ EraseFromSector(p)
    <3>1. apc'[p] \in Bury
      BY <2>4 DEF OnMonsterDied, ReleaseTile, EraseFromSector, GotoA
    <3> QED BY <3>1 DEF Remembered
  <2>5. CASE AddRespawnTimer(p)
    <3>1. respawns'[life] = respawns[life] + 1 /\ respawns[life] \in Nat /\ life \in Lives
      BY <2>5 DEF AddRespawnTimer, TimerAdded
    <3> QED BY <3>1 DEF Remembered
  <2> QED BY <1>1, <2>1, <2>2, <2>3, <2>4, <2>5 DEF AttackStep
<1>2. ASSUME NEW w \in Spawners, RespawnTimer(w) \/ SpawnStep(w) PROVE Remembered'
  <2>1. CASE RespawnTimer(w)
    <3>1. rpc'[w] = "claim"
      BY <2>1 DEF RespawnTimer, RespawnTimerFires, GotoR
    <3> QED BY <3>1 DEF Remembered
  <2>2. CASE RespawnMonster(w) \/ InsertIntoSector(w)
    <3>1. rpc'[w] \in Reborn
      BY <2>2 DEF RespawnMonster, InsertIntoSector, GotoR
    <3> QED BY <3>1 DEF Remembered
  <2>3. CASE NoRoom(w)
    <3>1. respawns'[life] = respawns[life] + 1 /\ respawns[life] \in Nat /\ life \in Lives
      BY <2>3 DEF NoRoom, TimerAdded
    <3> QED BY <3>1 DEF Remembered
  <2>4. CASE Respawn(w)
    <3>1. ~IsDead'
      BY <2>4 DEF Respawn
    <3> QED BY <3>1 DEF Remembered
  <2>5. CASE \/ RespawnSetPos(w) \/ RespawnSees(w) \/ RespawnSeesNobody(w)
             \/ \E p \in Viewers : RespawnPasses(w, p)
             \/ RespawnActivates(w) \/ RespawnAddsTimer(w)
    <3>1. /\ rpc[w] \notin Reborn /\ \A v \in Spawners : v # w => rpc'[v] = rpc[v]
          /\ UNCHANGED <<hp, apc, respawns>>
      BY <2>5 DEF RespawnSetPos, RespawnSees, RespawnSeesNobody, RespawnPasses,
                  RespawnActivates, RespawnAddsTimer, GotoR, attackVars
    <3> QED BY <3>1 DEF Remembered
  <2> QED BY <1>2, <2>1, <2>2, <2>3, <2>4, <2>5 DEF SpawnStep
<1>3. ASSUME UNCHANGED <<hp, apc, respawns, rpc>> PROVE Remembered'
  BY <1>3 DEF Remembered
<1>4. ASSUME NEW p \in Viewers, ComesIntoView(p) \/ ViewStep(p) \/ Leaves(p) PROVE Remembered'
  BY <1>3, <1>4 DEF ComesIntoView, ViewStep, ActivateNearbyMonsters, TryActivate, AddAITimer, Leaves,
                    attackVars, spawnVars
<1>5. ASSUME NEW b \in Brains, AITimer(b) \/ BrainStep(b) PROVE Remembered'
  BY <1>3, <1>5 DEF AITimer, AITimerFires, BrainStep, AIIfDead, LookSees, LookPasses,
                    LookSeesNobody, Deactivate, AITick, AITickStays, AITickMoves,
                    TryMoveObject, ReleaseOld, SetPos, Rearm, attackVars, spawnVars
<1>6. CASE UNCHANGED monsterVars
  BY <1>3, <1>6 DEF monsterVars, attackVars, spawnVars
<1> QED BY <1>1, <1>2, <1>4, <1>5, <1>6 DEF MonsterNext

(* No monster stays dead for good, whatever overlaps its death: two        *)
(* killers, a move, a respawn without room.  Somebody is always on the way *)
(* to bring it back (OnMonsterDied, RespawnMonster).                       *)
THEOREM NeverForgotten == MonsterSpec => []Remembered
<1>1. MonsterInit => Remembered
  BY MonsterAssumption DEF MonsterInit, Remembered, IsDead
<1>2. MonsterInv => MonsterTypeOK
  BY DEF MonsterInv
<1> QED BY <1>1, <1>2, MonsterInvAlways, RememberedStep, PTL DEF MonsterSpec
=============================================================================
