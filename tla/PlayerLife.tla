----------------------------- MODULE PlayerLife -----------------------------
(***************************************************************************)
(* One player's hit points under fire: GameWorld::MonsterAttackPlayer and  *)
(* OnPlayerDied run by the workers that execute the monsters' AI timers,   *)
(* the HP_REGEN timer handled by whichever worker dequeues it, and the     *)
(* level-up that Player::GainExp grants on the player's own worker.  Each  *)
(* call that takes Player::m_lock, and each access to m_regenActive, is    *)
(* one action; between any two of them the other workers run.              *)
(***************************************************************************)
EXTENDS Integers, FiniteSets

CONSTANTS
    Monsters,       \* attackers, each attacking from its own AI timer
    Workers,        \* workers that may be handling an HP_REGEN timer
    MaxHp,          \* Player::m_maxHp
    Damages,        \* what one hit takes (attacker level * 5)
    Regen,          \* what one tick gives (10 % of m_maxHp)
    MaxHits         \* bound: attacks started in a behaviour

ASSUME LifeAssumption ==
    /\ MaxHp \in Nat \ {0}
    /\ Damages \subseteq Nat \ {0}
    /\ Regen \in 1 .. MaxHp
    /\ MaxHits \in Nat

VARIABLES
    hp,             \* m_hp
    regenActive,    \* m_regenActive
    timers,         \* HP_REGEN entries for this id, in the heap or posted
    mpc,            \* where MonsterAttackPlayer / OnPlayerDied stands
    wpc,            \* where the HP_REGEN handler stands
    started,        \* attacks started (bounded by MaxHits)
    wasHit,         \* history: some hit has landed
    kills           \* history: how often a hit took hp to 0

vars == <<hp, regenActive, timers, mpc, wpc, started, wasHit, kills>>

history == <<started, wasHit, kills>>

IsDead == hp = 0

\* A player is loaded from its row with the hp it left with.
Init ==
    /\ hp \in 1 .. MaxHp
    /\ regenActive = FALSE
    /\ timers = 0
    /\ mpc = [m \in Monsters |-> "idle"]
    /\ wpc = [w \in Workers |-> "idle"]
    /\ started = 0 /\ wasHit = FALSE /\ kills = 0

GotoM(m, from, to) == mpc[m] = from /\ mpc' = [mpc EXCEPT ![m] = to]
GotoW(w, from, to) == wpc[w] = from /\ wpc' = [wpc EXCEPT ![w] = to]

-----------------------------------------------------------------------------
(* MonsterAttackPlayer *)

\* The first IsDead(): a dead victim is left alone.
MonsterAttackPlayer(m) ==
    /\ ~IsDead
    /\ started < MaxHits
    /\ started' = started + 1
    /\ GotoM(m, "idle", "damage")
    /\ UNCHANGED <<hp, regenActive, timers, wpc, wasHit, kills>>

TakeDamage(m) ==
    /\ GotoM(m, "damage", "ifAlive")
    /\ \E d \in Damages : hp' = IF d >= hp THEN 0 ELSE hp - d
    /\ wasHit' = TRUE
    /\ kills' = IF hp > 0 /\ hp' = 0 THEN kills + 1 ELSE kills
    /\ UNCHANGED <<regenActive, timers, wpc, started>>

\* Mutant: one test of IsDead() for both questions, a death seen here returns.
IfAliveElseReturn(m) ==
    /\ GotoM(m, "ifAlive", IF IsDead THEN "idle" ELSE "tryStart")
    /\ UNCHANGED <<hp, regenActive, timers, wpc, history>>

\* if (!victim->IsDead() && victim->TryStartRegen()) AddTimer(HP_REGEN)
IfAlive(m) ==
    /\ GotoM(m, "ifAlive", IF IsDead THEN "ifDead" ELSE "tryStart")
    /\ UNCHANGED <<hp, regenActive, timers, wpc, history>>

\* Mutant: the flag is set, not compared and swapped.
StartRegenAlways(m) ==
    /\ GotoM(m, "tryStart", "addTimer")
    /\ regenActive' = TRUE
    /\ UNCHANGED <<hp, timers, wpc, history>>

TryStartRegen(m) ==
    /\ GotoM(m, "tryStart", IF regenActive THEN "ifDead" ELSE "addTimer")
    /\ regenActive' = TRUE
    /\ UNCHANGED <<hp, timers, wpc, history>>

AddRegenTimer(m) ==
    /\ GotoM(m, "addTimer", "ifDead")
    /\ timers' = timers + 1
    /\ UNCHANGED <<hp, regenActive, wpc, history>>

\* The second IsDead(): whoever finds the victim dead runs OnPlayerDied.
IfDead(m) ==
    /\ GotoM(m, "ifDead", IF IsDead THEN "die" ELSE "idle")
    /\ UNCHANGED <<hp, regenActive, timers, wpc, history>>

\* OnPlayerDied: Player::Die (its tile moves are in module PlayerDeath, the
\* halved experience in Persistence) ...
Die(m) ==
    /\ GotoM(m, "die", "stopRegen")
    /\ hp' = MaxHp
    /\ UNCHANGED <<regenActive, timers, wpc, history>>

\* ... then StopRegen, which leaves a pending timer pending.
StopRegen(m) ==
    /\ GotoM(m, "stopRegen", "idle")
    /\ regenActive' = FALSE
    /\ UNCHANGED <<hp, timers, wpc, history>>

-----------------------------------------------------------------------------
(* HandleTimerEvent(HP_REGEN) and StopRegenAndMaybeRestart *)

TimerFires(w) ==
    /\ timers > 0
    /\ timers' = timers - 1
    /\ GotoW(w, "idle", "ifDead")
    /\ UNCHANGED <<hp, regenActive, mpc, history>>

RegenIfDead(w) ==
    /\ GotoW(w, "ifDead", IF IsDead THEN "stopDead" ELSE "ifFull")
    /\ UNCHANGED <<hp, regenActive, timers, mpc, history>>

StopDead(w) ==
    /\ GotoW(w, "stopDead", "idle")
    /\ regenActive' = FALSE
    /\ UNCHANGED <<hp, timers, mpc, history>>

IfFull(w) ==
    /\ GotoW(w, "ifFull", IF hp >= MaxHp THEN "stop" ELSE "regen")
    /\ UNCHANGED <<hp, regenActive, timers, mpc, history>>

RegenHP(w) ==
    /\ GotoW(w, "regen", "recheck")
    /\ hp' = IF hp + Regen < MaxHp THEN hp + Regen ELSE MaxHp
    /\ UNCHANGED <<regenActive, timers, mpc, history>>

RecheckFull(w) ==
    /\ GotoW(w, "recheck", IF hp >= MaxHp THEN "stop" ELSE "addTimer")
    /\ UNCHANGED <<hp, regenActive, timers, mpc, history>>

StopForNow(w) ==
    /\ GotoW(w, "stop", "ifHurt")
    /\ regenActive' = FALSE
    /\ UNCHANGED <<hp, timers, mpc, history>>

\* Mutant: StopRegenAndMaybeRestart without the second look at hp.
NeverRestart(w) ==
    /\ GotoW(w, "ifHurt", "idle")
    /\ UNCHANGED <<hp, regenActive, timers, mpc, history>>

\* The player was hit between the test for full hp and StopRegen.
IfHurt(w) ==
    /\ GotoW(w, "ifHurt", IF hp < MaxHp THEN "restart" ELSE "idle")
    /\ UNCHANGED <<hp, regenActive, timers, mpc, history>>

Restart(w) ==
    /\ GotoW(w, "restart", IF regenActive THEN "idle" ELSE "addTimer")
    /\ regenActive' = TRUE
    /\ UNCHANGED <<hp, timers, mpc, history>>

Rearm(w) ==
    /\ GotoW(w, "addTimer", "idle")
    /\ timers' = timers + 1
    /\ UNCHANGED <<hp, regenActive, mpc, history>>

-----------------------------------------------------------------------------
\* GainExp crosses a level: hp is full again.  ProcessAttack does not ask
\* whether the attacking player is dead.
LevelUp ==
    /\ hp < MaxHp
    /\ hp' = MaxHp
    /\ UNCHANGED <<regenActive, timers, mpc, wpc, history>>

AttackStep(m) ==
    \/ TakeDamage(m) \/ IfAlive(m) \/ TryStartRegen(m) \/ AddRegenTimer(m)
    \/ IfDead(m) \/ Die(m) \/ StopRegen(m)

HandlerStep(w) ==
    \/ RegenIfDead(w) \/ StopDead(w) \/ IfFull(w) \/ RegenHP(w) \/ RecheckFull(w)
    \/ StopForNow(w) \/ IfHurt(w) \/ Restart(w) \/ Rearm(w)

Next ==
    \/ \E m \in Monsters : MonsterAttackPlayer(m) \/ AttackStep(m)
    \/ \E w \in Workers : TimerFires(w) \/ HandlerStep(w)
    \/ LevelUp

Spec == Init /\ [][Next]_vars

\* Threads that are inside a handler go on, and a due timer is dequeued by
\* some idle worker.  Nothing makes a monster attack or a player level up.
Fairness ==
    /\ \A m \in Monsters : WF_vars(AttackStep(m))
    /\ \A w \in Workers : WF_vars(HandlerStep(w))
    /\ WF_vars(\E w \in Workers : TimerFires(w))

FairSpec == Spec /\ Fairness

-----------------------------------------------------------------------------
TypeOK ==
    /\ hp \in 0 .. MaxHp
    /\ regenActive \in BOOLEAN
    /\ timers \in Nat
    /\ mpc \in [Monsters -> {"idle", "damage", "ifAlive", "tryStart", "addTimer",
                             "ifDead", "die", "stopRegen"}]
    /\ wpc \in [Workers -> {"idle", "ifDead", "stopDead", "ifFull", "regen", "recheck",
                            "stop", "ifHurt", "restart", "addTimer"}]
    /\ started \in 0 .. MaxHits
    /\ wasHit \in BOOLEAN
    /\ kills \in Nat

Quiet == (\A m \in Monsters : mpc[m] = "idle") /\ (\A w \in Workers : wpc[w] = "idle")

(* A player at 0 hp is never abandoned: some worker still has its second   *)
(* IsDead() or its Die() before it.  (Afterwards nobody would help: dead   *)
(* victims are not attacked and the regen handler stops at them.)          *)
NoStuckDead ==
    IsDead => \E m \in Monsters :
                 mpc[m] \in {"ifAlive", "tryStart", "addTimer", "ifDead", "die"}

(* Until the first death, the CAS on m_regenActive and the second look in  *)
(* StopRegenAndMaybeRestart do what they are for: once hit, a player below *)
(* full hp has exactly one HP_REGEN timer whenever no handler is running,  *)
(* however hits, ticks and level-ups interleave.                           *)
OneTimerUntilDeath ==
    kills = 0 /\ Quiet =>
        /\ timers <= 1
        /\ wasHit /\ hp < MaxHp => timers = 1

(* Once hit, a player gets back to full hp when the attacks stop (MaxHits  *)
(* bounds them), by regeneration or a level-up, as long as it is not       *)
(* killed: the chain of timers neither breaks off nor stalls.              *)
Heals == wasHit /\ hp < MaxHp ~> hp = MaxHp \/ kills > 0
=============================================================================
