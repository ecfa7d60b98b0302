---------------------------- MODULE TimerManager ----------------------------
(***************************************************************************)
(* Server/Timer: the timer thread, its heap of due times and the pool of   *)
(* overlapped structures in which it posts what is due to the workers; and *)
(* the end of IOCPServer::ShutDown, which stops first this thread and then *)
(* the workers.                                                            *)
(*                                                                         *)
(* What matters is where the locks are.  AddTimer pushes under m_mutex and *)
(* notifies after it; Stop clears m_running and notifies without taking it *)
(* at all.  So testing the predicate and blocking on the condition         *)
(* variable are two actions of the timer thread, with m_mutex held in      *)
(* between: a push cannot fall between them, a notification can.           *)
(***************************************************************************)
EXTENDS Integers, FiniteSets

CONSTANTS
    Workers,        \* IOCPServer's worker threads
    Capacity,       \* slots of the TimerOverlappedPool (65536)
    Delays,         \* delays AddTimer is called with; 0 is one that was used up
                    \* while the caller waited for m_mutex
    MaxTimers,      \* bound: calls of AddTimer
    MaxTime,        \* bound: the clock
    MaxFaults       \* bound: failing posts and throwing handlers

ASSUME TimerAssumption ==
    /\ IsFiniteSet(Workers)
    /\ Capacity \in Nat /\ MaxTimers \in Nat /\ MaxTime \in Nat /\ MaxFaults \in Nat
    /\ Delays \subseteq Nat

Timers  == 1 .. MaxTimers
Pool    == 1 .. Capacity
\* What Acquire returns when the pool is empty: a new object for each timer.
New(e)  == Capacity + e
Slots   == 1 .. (Capacity + MaxTimers)
IsFromPool(s) == s <= Capacity
None    == 0

VARIABLES
    clock,
    registered,     \* AddTimer calls so far; timers are numbered in this order
    due,            \* TimerEvent::fireTime
    queue,          \* m_queue
    running,        \* m_running of TimerManager
    thread,         \* where WorkerThread stands
    until,          \* the time it sleeps until in wait_until
    hand,           \* the event it has popped
    tov,            \* the TimerOverlapped it has acquired for it
    notices,        \* AddTimer calls that have pushed and not yet notified
    free,           \* the pool's m_free
    content,        \* type and targetId in each TimerOverlapped
    port,           \* timer completions at the port (in flight)
    nulls,          \* wake-up completions posted by ShutDown
    worker,         \* where each worker stands
    slot,           \* the TimerOverlapped it was handed
    up,             \* m_running of IOCPServer
    main,           \* where the main thread stands
    missed,         \* history: Stop's notification fell between test and block
    ran,            \* history: how often the handler ran for each timer
    gone,           \* history: timers whose post failed or came after the end
    leaked,         \* history: slots nobody will release
    faults          \* faults so far (bounded by MaxFaults)

heapVars == <<registered, due, queue, notices>>
thrVars  == <<running, thread, until, hand, tov, missed>>
poolVars == <<free, content, port, leaked>>
workVars == <<worker, slot, ran>>
mainVars == <<up, main, nulls>>
vars == <<clock, heapVars, thrVars, poolVars, workVars, mainVars, gone, faults>>

Init ==
    /\ clock = 0
    /\ registered = 0
    /\ due = [e \in Timers |-> 0]
    /\ queue = {}
    /\ running = FALSE
    /\ thread = "off"
    /\ until = 0
    /\ hand = None
    /\ tov = None
    /\ notices = 0
    /\ free = Pool
    /\ content = [s \in Slots |-> None]
    /\ port = {}
    /\ nulls = 0
    /\ worker = [w \in Workers |-> "top"]
    /\ slot = [w \in Workers |-> None]
    /\ up = TRUE
    /\ main = "init"
    /\ missed = FALSE
    /\ ran = [e \in Timers |-> 0]
    /\ gone = {}
    /\ leaked = {}
    /\ faults = 0

Tick ==
    /\ clock < MaxTime
    /\ clock' = clock + 1
    /\ UNCHANGED <<heapVars, thrVars, poolVars, workVars, mainVars, gone, faults>>

-----------------------------------------------------------------------------
(* AddTimer, called by main and by handlers *)

\* The timer thread has m_mutex.
Holding == thread \in {"pred", "block", "peek", "sleep"}

AddTimer(d) ==
    /\ registered < MaxTimers /\ clock + d <= MaxTime
    /\ main # "ended" /\ ~Holding
    /\ registered' = registered + 1
    /\ due' = [due EXCEPT ![registered'] = clock + d]
    /\ queue' = queue \cup {registered'}
    /\ notices' = notices + 1
    /\ UNCHANGED <<clock, thrVars, poolVars, workVars, mainVars, gone, faults>>

\* The thread is blocked on m_cv: a notification lets it run, else it is lost.
Woken == CASE thread = "wait"  -> "wake"
           [] thread = "timed" -> "top"
           [] OTHER            -> thread

\* Mutant: notify_one reaches nobody, as when it is called before the push.
ForgetNotify ==
    /\ notices > 0
    /\ notices' = notices - 1
    /\ UNCHANGED <<clock, registered, due, queue, thrVars, poolVars, workVars, mainVars,
                   gone, faults>>

NotifyOne ==
    /\ notices > 0
    /\ notices' = notices - 1
    /\ thread' = Woken
    /\ UNCHANGED <<clock, registered, due, queue, running, until, hand, tov, missed, poolVars,
                   workVars, mainVars, gone, faults>>

-----------------------------------------------------------------------------
(* WorkerThread of TimerManager *)

\* Its steps that touch the thread's own place only.
GoTo(from, to) ==
    /\ thread = from
    /\ thread' = to
    /\ UNCHANGED <<clock, heapVars, running, until, hand, tov, missed, poolVars, workVars,
                   mainVars, gone, faults>>

TestRunning == GoTo("top", IF running THEN "lock" ELSE "done")

\* Locks m_mutex and asks whether the queue is empty.
Lock == GoTo("lock", IF queue = {} THEN "pred" ELSE "peek")

\* The predicate of m_cv.wait, m_mutex held, on entry and after each wake-up.
TestPredicate ==
    GoTo("pred", CASE ~running    -> "done"
                   [] queue # {}  -> "peek"
                   [] OTHER       -> "block")

\* m_mutex is released and the thread blocks, in one step for who takes m_mutex.
Block == GoTo("block", "wait")

\* It has been notified, or wakes spuriously, and takes m_mutex again.
Wake == GoTo("wake", "pred")
Spurious == GoTo("wait", "wake")

Earliest(e) == e \in queue /\ \A f \in queue : due[e] <= due[f]

\* Mutant: it waits for a notification, without a time.
WaitForever ==
    /\ thread = "peek"
    /\ \E e \in queue : Earliest(e) /\ due[e] > clock
    /\ thread' = "block"
    /\ UNCHANGED <<clock, heapVars, running, until, hand, tov, missed, poolVars, workVars,
                   mainVars, gone, faults>>

\* The top is not due: wait_until its time.
NotDue ==
    /\ thread = "peek"
    /\ \E e \in queue : Earliest(e) /\ due[e] > clock /\ until' = due[e]
    /\ thread' = "sleep"
    /\ UNCHANGED <<clock, heapVars, running, hand, tov, missed, poolVars, workVars, mainVars,
                   gone, faults>>

Sleep == GoTo("sleep", "timed")

\* wait_until returns at its time, when notified (NotifyOne) or spuriously.
Timeout == until <= clock /\ GoTo("timed", "top")
SpuriousTimed == GoTo("timed", "top")

Pop ==
    /\ thread = "peek"
    /\ \E e \in queue :
          /\ Earliest(e) /\ due[e] <= clock
          /\ hand' = e
          /\ queue' = queue \ {e}
    /\ thread' = "post"
    /\ UNCHANGED <<clock, registered, due, notices, running, until, tov, missed, poolVars,
                   workVars, mainVars, gone, faults>>

-----------------------------------------------------------------------------
(* PostToIOCP *)

\* Mutant: the front of m_free is taken and not popped.
AcquireShared ==
    /\ thread = "post"
    /\ \/ \E s \in free : tov' = s
       \/ free = {} /\ tov' = New(hand)
    /\ content' = [content EXCEPT ![tov'] = hand]
    /\ thread' = "queue"
    /\ UNCHANGED <<clock, heapVars, running, until, hand, missed, free, port, leaked, workVars,
                   mainVars, gone, faults>>

\* Acquire, and filling in what it returned.
Acquire ==
    /\ thread = "post"
    /\ \/ \E s \in free : tov' = s /\ free' = free \ {s}
       \/ free = {} /\ tov' = New(hand) /\ UNCHANGED free
    /\ content' = [content EXCEPT ![tov'] = hand]
    /\ thread' = "queue"
    /\ UNCHANGED <<clock, heapVars, running, until, hand, missed, port, leaked, workVars,
                   mainVars, gone, faults>>

Post ==
    /\ thread = "queue"
    /\ port' = port \cup {tov}
    /\ thread' = "top"
    /\ hand' = None /\ tov' = None
    /\ UNCHANGED <<clock, heapVars, running, until, missed, free, content, leaked, workVars,
                   mainVars, gone, faults>>

\* PostQueuedCompletionStatus returns FALSE; nobody looks.
PostFails ==
    /\ thread = "queue" /\ faults < MaxFaults
    /\ faults' = faults + 1
    /\ leaked' = leaked \cup {tov}
    /\ gone' = gone \cup {hand}
    /\ thread' = "top"
    /\ hand' = None /\ tov' = None
    /\ UNCHANGED <<clock, heapVars, running, until, missed, free, content, port, workVars,
                   mainVars>>

-----------------------------------------------------------------------------
(* IOCPServer::WorkerThread, as far as timers go *)

TestUp(w) ==
    /\ worker[w] = "top"
    /\ worker' = [worker EXCEPT ![w] = IF up THEN "wait" ELSE "done"]
    /\ UNCHANGED <<clock, heapVars, thrVars, poolVars, slot, ran, mainVars, gone, faults>>

\* GetQueuedCompletionStatus returns a timer; at the end it is not handled.
Dequeue(w) ==
    /\ worker[w] = "wait"
    /\ \E s \in port :
          /\ port' = port \ {s}
          /\ slot' = [slot EXCEPT ![w] = IF up THEN s ELSE None]
          /\ gone' = IF up THEN gone ELSE gone \cup {content[s]}
          /\ leaked' = IF up THEN leaked ELSE leaked \cup {s}
    /\ worker' = [worker EXCEPT ![w] = IF up THEN "handle" ELSE "done"]
    /\ UNCHANGED <<clock, heapVars, thrVars, free, content, ran, mainVars, faults>>

\* It returns ShutDown's completion without an overlapped structure.
DequeueNull(w) ==
    /\ worker[w] = "wait" /\ nulls > 0
    /\ nulls' = nulls - 1
    /\ worker' = [worker EXCEPT ![w] = "done"]
    /\ UNCHANGED <<clock, heapVars, thrVars, poolVars, slot, ran, up, main, gone, faults>>

\* Mutant: what is from the pool is not pushed.
ReleaseNone(s) == UNCHANGED free

\* ReleaseTimerOverlapped: back to the pool, or deleted.
Release(s) == free' = IF IsFromPool(s) THEN free \cup {s} ELSE free

\* HandleTimerEvent(tov->type, tov->targetId); it may call AddTimer meanwhile.
Handle(w) ==
    /\ worker[w] = "handle"
    /\ ran' = [ran EXCEPT ![content[slot[w]]] = @ + 1]
    /\ worker' = [worker EXCEPT ![w] = "release"]
    /\ UNCHANGED <<clock, heapVars, thrVars, poolVars, slot, mainVars, gone, faults>>

ReleaseSlot(w) ==
    /\ worker[w] = "release"
    /\ Release(slot[w])
    /\ slot' = [slot EXCEPT ![w] = None]
    /\ worker' = [worker EXCEPT ![w] = "top"]
    /\ UNCHANGED <<clock, heapVars, thrVars, content, port, leaked, ran, mainVars, gone, faults>>

\* The handler throws; WorkerThread's catch goes on, past the release.
HandlerThrows(w) ==
    /\ worker[w] = "release" /\ faults < MaxFaults
    /\ faults' = faults + 1
    /\ leaked' = leaked \cup {slot[w]}
    /\ slot' = [slot EXCEPT ![w] = None]
    /\ worker' = [worker EXCEPT ![w] = "top"]
    /\ UNCHANGED <<clock, heapVars, thrVars, free, content, port, ran, mainVars, gone>>

-----------------------------------------------------------------------------
(* The main thread: Start, IOCPServer::ShutDown with TimerManager::Stop *)

Start ==
    /\ main = "init"
    /\ main' = "serve"
    /\ running' = TRUE
    /\ thread' = "top"
    /\ UNCHANGED <<clock, heapVars, until, hand, tov, missed, poolVars, workVars, up, nulls,
                   gone, faults>>

\* Stop clears m_running; before Start there is nothing to stop.
StopClears ==
    /\ main \in {"init", "serve"}
    /\ main' = IF running THEN "notify" ELSE "stopped"
    /\ running' = FALSE
    /\ UNCHANGED <<clock, heapVars, thread, until, hand, tov, missed, poolVars, workVars, up,
                   nulls, gone, faults>>

StopNotifies ==
    /\ main = "notify"
    /\ main' = "join"
    /\ thread' = Woken
    /\ missed' = (thread = "block")
    /\ UNCHANGED <<clock, heapVars, running, until, hand, tov, poolVars, workVars, up, nulls,
                   gone, faults>>

StopJoins ==
    /\ main = "join" /\ thread = "done"
    /\ main' = "stopped"
    /\ UNCHANGED <<clock, heapVars, thrVars, poolVars, workVars, up, nulls, gone, faults>>

\* Mutant: a wake-up is posted for all workers but one.
WakeAllButOne ==
    /\ main = "stopped"
    /\ main' = "wait"
    /\ up' = FALSE
    /\ nulls' = Cardinality(Workers) - 1
    /\ UNCHANGED <<clock, heapVars, thrVars, poolVars, workVars, gone, faults>>

WakeWorkers ==
    /\ main = "stopped"
    /\ main' = "wait"
    /\ up' = FALSE
    /\ nulls' = Cardinality(Workers)
    /\ UNCHANGED <<clock, heapVars, thrVars, poolVars, workVars, gone, faults>>

JoinWorkers ==
    /\ main = "wait" /\ \A w \in Workers : worker[w] = "done"
    /\ main' = "ended"
    /\ UNCHANGED <<clock, heapVars, thrVars, poolVars, workVars, up, nulls, gone, faults>>

-----------------------------------------------------------------------------
Thread ==
    \/ TestRunning \/ Lock \/ TestPredicate \/ Block \/ Wake \/ NotDue \/ Sleep \/ Timeout
    \/ Pop \/ Acquire \/ Post

Worker(w) ==
    TestUp(w) \/ Dequeue(w) \/ DequeueNull(w) \/ Handle(w) \/ ReleaseSlot(w)

ShutDown == StopNotifies \/ StopJoins \/ WakeWorkers \/ JoinWorkers

Next ==
    \/ Tick
    \/ \E d \in Delays : AddTimer(d)
    \/ NotifyOne
    \/ Thread \/ Spurious \/ SpuriousTimed \/ PostFails
    \/ \E w \in Workers : Worker(w) \/ HandlerThrows(w)
    \/ Start \/ StopClears \/ ShutDown

\* Time passes, and every thread that can go on does: who waits for a lock,
\* a due time or a completion gets it.  Nobody need start, stop or add.
Fairness ==
    /\ WF_vars(Tick) /\ WF_vars(NotifyOne) /\ WF_vars(Thread) /\ WF_vars(ShutDown)
    /\ \A w \in Workers : WF_vars(Worker(w))

Spec == Init /\ [][Next]_vars /\ Fairness

-----------------------------------------------------------------------------
TypeOK ==
    /\ clock \in 0 .. MaxTime
    /\ registered \in 0 .. MaxTimers
    /\ due \in [Timers -> 0 .. MaxTime]
    /\ queue \subseteq 1 .. registered
    /\ running \in BOOLEAN
    /\ thread \in {"off", "top", "lock", "pred", "block", "wait", "wake", "peek", "sleep",
                   "timed", "post", "queue", "done"}
    /\ until \in 0 .. MaxTime
    /\ hand \in Timers \cup {None}
    /\ tov \in Slots \cup {None}
    /\ notices \in 0 .. MaxTimers
    /\ free \subseteq Pool
    /\ content \in [Slots -> Timers \cup {None}]
    /\ port \subseteq Slots
    /\ nulls \in 0 .. Cardinality(Workers)
    /\ worker \in [Workers -> {"top", "wait", "handle", "release", "done"}]
    /\ slot \in [Workers -> Slots \cup {None}]
    /\ up \in BOOLEAN
    /\ main \in {"init", "serve", "notify", "join", "stopped", "wait", "ended"}
    /\ missed \in BOOLEAN
    /\ ran \in [Timers -> Nat]
    /\ gone \subseteq Timers
    /\ leaked \subseteq Slots
    /\ faults \in 0 .. MaxFaults

\* The slots on their way from the timer thread to a handler.
Handled == {w \in Workers : worker[w] = "handle"}
InFlight == port \cup {slot[w] : w \in Handled}

(* No timer fires early, whatever has woken the thread.                    *)
NeverEarly == \A e \in 1 .. registered : ran[e] > 0 \/ e = hand => due[e] <= clock

(* AddTimer promises one call of the handler, not early.  A registered     *)
(* timer whose handler has not run is in exactly one place, the heap, the  *)
(* thread's hand or a slot in flight, unless its post failed or the server *)
(* ended; one whose handler has run has run once and is nowhere.           *)
OnceEach ==
    /\ NeverEarly
    /\ \A e \in 1 .. registered :
        LET carriers == {s \in InFlight : content[s] = e}
        IN  /\ ran[e] <= 1
            /\ IF ran[e] = 1 \/ e \in gone
               THEN e \notin queue /\ e # hand /\ carriers = {}
               ELSE \/ e \in queue /\ e # hand /\ carriers = {}
                    \/ e \notin queue /\ e = hand /\ carriers = {}
                    \/ e \notin queue /\ e # hand /\ Cardinality(carriers) = 1

(* No wake-up of AddTimer is lost: a thread that is blocked, with nobody   *)
(* about to notify it, has nothing to do before its time.  The queue is    *)
(* empty if it waits without a time, else no timer is due before it.       *)
NoLostWakeup ==
    notices = 0 =>
        /\ thread = "wait" => queue = {}
        /\ thread = "timed" => \A e \in queue : until <= due[e]

(* The pool neither loses a slot nor hands it out twice: a slot is free    *)
(* exactly when nobody is to release it, or was and cannot any more.       *)
SlotsReturn ==
    \A s \in Pool :
        s \in free <=> /\ s # tov /\ s \notin port \cup leaked
                      /\ \A w \in Workers : slot[w] # s

(* A timer's handler runs, unless its post failed or Stop was called.      *)
Fires == \A e \in Timers : e \in queue /\ running ~> ran[e] = 1 \/ e \in gone \/ ~running

(* ShutDown comes to its end, unless its one notification was missed; the  *)
(* workers all see a wake-up, however many timers are queued before it.    *)
ShutDownReturns == main = "notify" ~> main = "ended" \/ missed
=============================================================================
