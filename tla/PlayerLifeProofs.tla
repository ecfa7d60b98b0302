-------------------------- MODULE PlayerLifeProofs --------------------------
(***************************************************************************)
(* Theorems about PlayerLife for any number of attackers, any number of    *)
(* workers and any damage.                                                 *)
(*                                                                         *)
(* The second part is about PlayerDeath: where the player that dies and    *)
(* revives stands.                                                         *)
(***************************************************************************)
EXTENDS PlayerLife, PlayerDeath, TLAPS

(* The worker that holds the one regeneration chain of the player.         *)
HoldsW(w) ==
    wpc[w] \in {"ifDead", "stopDead", "ifFull", "regen", "recheck", "stop", "addTimer"}
HoldsM(m) == mpc[m] = "addTimer"

(* Before the first death nobody is in a branch for the dead.              *)
AliveInv ==
    kills = 0 =>
        /\ hp > 0
        /\ \A m \in Monsters : mpc[m] \notin {"die", "stopRegen"}
        /\ \A w \in Workers : wpc[w] # "stopDead"

(* Before the first death m_regenActive says that there is a chain, and    *)
(* the chain is in one place: a timer, a handler or an attacker.           *)
OneHolder ==
    /\ timers \in {0, 1}
    /\ timers = 1 => /\ regenActive = TRUE
                     /\ \A w \in Workers : ~HoldsW(w)
                     /\ \A m \in Monsters : ~HoldsM(m)
    /\ \A w \in Workers : HoldsW(w) =>
            /\ regenActive = TRUE
            /\ \A v \in Workers : HoldsW(v) => v = w
            /\ \A m \in Monsters : ~HoldsM(m)
    /\ \A m \in Monsters : HoldsM(m) =>
            /\ regenActive = TRUE
            /\ \A n \in Monsters : HoldsM(n) => n = m

ChainInv ==
    kills = 0 =>
        /\ OneHolder
        /\ regenActive = TRUE => \/ timers = 1
                                 \/ \E w \in Workers : HoldsW(w)
                                 \/ \E m \in Monsters : HoldsM(m)

(* Before the first death, whoever is hurt has a chain or somebody who is  *)
(* about to see to it.                                                     *)
HurtInv ==
    kills = 0 /\ wasHit = TRUE /\ hp < MaxHp =>
        \/ regenActive = TRUE
        \/ \E m \in Monsters : mpc[m] \in {"ifAlive", "tryStart"}
        \/ \E w \in Workers : wpc[w] \in {"ifHurt", "restart"}

IndInv == TypeOK /\ NoStuckDead /\ AliveInv /\ ChainInv /\ HurtInv

(* Every step keeps the types.                                             *)
LEMMA TypeStep == TypeOK /\ [Next]_vars => TypeOK'
<1> SUFFICES ASSUME TypeOK, [Next]_vars PROVE TypeOK'
  OBVIOUS
<1> USE LifeAssumption DEF TypeOK, history
<1>1. ASSUME NEW m \in Monsters, MonsterAttackPlayer(m) PROVE TypeOK'
  BY <1>1 DEF MonsterAttackPlayer, GotoM
<1>2. ASSUME NEW m \in Monsters, TakeDamage(m) PROVE TypeOK'
  BY <1>2 DEF TakeDamage, GotoM
<1>3. ASSUME NEW m \in Monsters, IfAlive(m) PROVE TypeOK'
  BY <1>3 DEF IfAlive, GotoM
<1>4. ASSUME NEW m \in Monsters, TryStartRegen(m) PROVE TypeOK'
  BY <1>4 DEF TryStartRegen, GotoM
<1>5. ASSUME NEW m \in Monsters, AddRegenTimer(m) PROVE TypeOK'
  BY <1>5 DEF AddRegenTimer, GotoM
<1>6. ASSUME NEW m \in Monsters, IfDead(m) PROVE TypeOK'
  BY <1>6 DEF IfDead, GotoM
<1>7. ASSUME NEW m \in Monsters, Die(m) PROVE TypeOK'
  BY <1>7 DEF Die, GotoM
<1>8. ASSUME NEW m \in Monsters, StopRegen(m) PROVE TypeOK'
  BY <1>8 DEF StopRegen, GotoM
<1>9. ASSUME NEW w \in Workers, TimerFires(w) PROVE TypeOK'
  BY <1>9 DEF TimerFires, GotoW
<1>10. ASSUME NEW w \in Workers, RegenIfDead(w) PROVE TypeOK'
  BY <1>10 DEF RegenIfDead, GotoW
<1>11. ASSUME NEW w \in Workers, StopDead(w) PROVE TypeOK'
  BY <1>11 DEF StopDead, GotoW
<1>12. ASSUME NEW w \in Workers, IfFull(w) PROVE TypeOK'
  BY <1>12 DEF IfFull, GotoW
<1>13. ASSUME NEW w \in Workers, RegenHP(w) PROVE TypeOK'
  BY <1>13 DEF RegenHP, GotoW
<1>14. ASSUME NEW w \in Workers, RecheckFull(w) PROVE TypeOK'
  BY <1>14 DEF RecheckFull, GotoW
<1>15. ASSUME NEW w \in Workers, StopForNow(w) PROVE TypeOK'
  BY <1>15 DEF StopForNow, GotoW
<1>16. ASSUME NEW w \in Workers, IfHurt(w) PROVE TypeOK'
  BY <1>16 DEF IfHurt, GotoW
<1>17. ASSUME NEW w \in Workers, Restart(w) PROVE TypeOK'
  BY <1>17 DEF Restart, GotoW
<1>18. ASSUME NEW w \in Workers, Rearm(w) PROVE TypeOK'
  BY <1>18 DEF Rearm, GotoW
<1>19. ASSUME LevelUp PROVE TypeOK'
  BY <1>19 DEF LevelUp
<1>20. CASE UNCHANGED vars
  BY <1>20 DEF vars
<1> QED
  BY <1>1, <1>2, <1>3, <1>4, <1>5, <1>6, <1>7, <1>8, <1>9, <1>10, <1>11,
     <1>12, <1>13, <1>14, <1>15, <1>16, <1>17, <1>18, <1>19, <1>20 DEF Next,
     AttackStep, HandlerStep

(* Every step leaves somebody with a dead player.                          *)
LEMMA StuckStep == TypeOK /\ NoStuckDead /\ [Next]_vars => NoStuckDead'
<1> SUFFICES ASSUME TypeOK, NoStuckDead, [Next]_vars PROVE NoStuckDead'
  OBVIOUS
<1> USE LifeAssumption DEF TypeOK, NoStuckDead, IsDead, history
<1>1. ASSUME NEW m \in Monsters, MonsterAttackPlayer(m) PROVE NoStuckDead'
  BY <1>1 DEF MonsterAttackPlayer, GotoM
<1>2. ASSUME NEW m \in Monsters, TakeDamage(m) PROVE NoStuckDead'
  BY <1>2 DEF TakeDamage, GotoM
<1>3. ASSUME NEW m \in Monsters, IfAlive(m) PROVE NoStuckDead'
  BY <1>3 DEF IfAlive, GotoM
<1>4. ASSUME NEW m \in Monsters, TryStartRegen(m) PROVE NoStuckDead'
  BY <1>4 DEF TryStartRegen, GotoM
<1>5. ASSUME NEW m \in Monsters, AddRegenTimer(m) PROVE NoStuckDead'
  BY <1>5 DEF AddRegenTimer, GotoM
<1>6. ASSUME NEW m \in Monsters, IfDead(m) PROVE NoStuckDead'
  BY <1>6 DEF IfDead, GotoM
<1>7. ASSUME NEW m \in Monsters, Die(m) PROVE NoStuckDead'
  BY <1>7 DEF Die, GotoM
<1>8. ASSUME NEW m \in Monsters, StopRegen(m) PROVE NoStuckDead'
  BY <1>8 DEF StopRegen, GotoM
<1>9. ASSUME NEW w \in Workers, TimerFires(w) PROVE NoStuckDead'
  BY <1>9 DEF TimerFires, GotoW
<1>10. ASSUME NEW w \in Workers, RegenIfDead(w) PROVE NoStuckDead'
  BY <1>10 DEF RegenIfDead, GotoW
<1>11. ASSUME NEW w \in Workers, StopDead(w) PROVE NoStuckDead'
  BY <1>11 DEF StopDead, GotoW
<1>12. ASSUME NEW w \in Workers, IfFull(w) PROVE NoStuckDead'
  BY <1>12 DEF IfFull, GotoW
<1>13. ASSUME NEW w \in Workers, RegenHP(w) PROVE NoStuckDead'
  BY <1>13 DEF RegenHP, GotoW
<1>14. ASSUME NEW w \in Workers, RecheckFull(w) PROVE NoStuckDead'
  BY <1>14 DEF RecheckFull, GotoW
<1>15. ASSUME NEW w \in Workers, StopForNow(w) PROVE NoStuckDead'
  BY <1>15 DEF StopForNow, GotoW
<1>16. ASSUME NEW w \in Workers, IfHurt(w) PROVE NoStuckDead'
  BY <1>16 DEF IfHurt, GotoW
<1>17. ASSUME NEW w \in Workers, Restart(w) PROVE NoStuckDead'
  BY <1>17 DEF Restart, GotoW
<1>18. ASSUME NEW w \in Workers, Rearm(w) PROVE NoStuckDead'
  BY <1>18 DEF Rearm, GotoW
<1>19. ASSUME LevelUp PROVE NoStuckDead'
  BY <1>19 DEF LevelUp
<1>20. CASE UNCHANGED vars
  BY <1>20 DEF vars
<1> QED
  BY <1>1, <1>2, <1>3, <1>4, <1>5, <1>6, <1>7, <1>8, <1>9, <1>10, <1>11,
     <1>12, <1>13, <1>14, <1>15, <1>16, <1>17, <1>18, <1>19, <1>20 DEF Next,
     AttackStep, HandlerStep

(* No step enters a branch for the dead before a death.                    *)
LEMMA AliveStep == TypeOK /\ AliveInv /\ [Next]_vars => AliveInv'
<1> SUFFICES ASSUME TypeOK, AliveInv, [Next]_vars PROVE AliveInv'
  OBVIOUS
<1> USE LifeAssumption DEF TypeOK, AliveInv, IsDead, history
<1>1. ASSUME NEW m \in Monsters, MonsterAttackPlayer(m) PROVE AliveInv'
  BY <1>1 DEF MonsterAttackPlayer, GotoM
<1>2. ASSUME NEW m \in Monsters, TakeDamage(m) PROVE AliveInv'
  BY <1>2 DEF TakeDamage, GotoM
<1>3. ASSUME NEW m \in Monsters, IfAlive(m) PROVE AliveInv'
  BY <1>3 DEF IfAlive, GotoM
<1>4. ASSUME NEW m \in Monsters, TryStartRegen(m) PROVE AliveInv'
  BY <1>4 DEF TryStartRegen, GotoM
<1>5. ASSUME NEW m \in Monsters, AddRegenTimer(m) PROVE AliveInv'
  BY <1>5 DEF AddRegenTimer, GotoM
<1>6. ASSUME NEW m \in Monsters, IfDead(m) PROVE AliveInv'
  BY <1>6 DEF IfDead, GotoM
<1>7. ASSUME NEW m \in Monsters, Die(m) PROVE AliveInv'
  BY <1>7 DEF Die, GotoM
<1>8. ASSUME NEW m \in Monsters, StopRegen(m) PROVE AliveInv'
  BY <1>8 DEF StopRegen, GotoM
<1>9. ASSUME NEW w \in Workers, TimerFires(w) PROVE AliveInv'
  BY <1>9 DEF TimerFires, GotoW
<1>10. ASSUME NEW w \in Workers, RegenIfDead(w) PROVE AliveInv'
  BY <1>10 DEF RegenIfDead, GotoW
<1>11. ASSUME NEW w \in Workers, StopDead(w) PROVE AliveInv'
  BY <1>11 DEF StopDead, GotoW
<1>12. ASSUME NEW w \in Workers, IfFull(w) PROVE AliveInv'
  BY <1>12 DEF IfFull, GotoW
<1>13. ASSUME NEW w \in Workers, RegenHP(w) PROVE AliveInv'
  BY <1>13 DEF RegenHP, GotoW
<1>14. ASSUME NEW w \in Workers, RecheckFull(w) PROVE AliveInv'
  BY <1>14 DEF RecheckFull, GotoW
<1>15. ASSUME NEW w \in Workers, StopForNow(w) PROVE AliveInv'
  BY <1>15 DEF StopForNow, GotoW
<1>16. ASSUME NEW w \in Workers, IfHurt(w) PROVE AliveInv'
  BY <1>16 DEF IfHurt, GotoW
<1>17. ASSUME NEW w \in Workers, Restart(w) PROVE AliveInv'
  BY <1>17 DEF Restart, GotoW
<1>18. ASSUME NEW w \in Workers, Rearm(w) PROVE AliveInv'
  BY <1>18 DEF Rearm, GotoW
<1>19. ASSUME LevelUp PROVE AliveInv'
  BY <1>19 DEF LevelUp
<1>20. CASE UNCHANGED vars
  BY <1>20 DEF vars
<1> QED
  BY <1>1, <1>2, <1>3, <1>4, <1>5, <1>6, <1>7, <1>8, <1>9, <1>10, <1>11,
     <1>12, <1>13, <1>14, <1>15, <1>16, <1>17, <1>18, <1>19, <1>20 DEF Next,
     AttackStep, HandlerStep

(* No step makes a second chain, or loses the one, before a death.         *)
LEMMA ChainStep == TypeOK /\ AliveInv /\ ChainInv /\ [Next]_vars => ChainInv'
<1> SUFFICES ASSUME TypeOK, AliveInv, ChainInv, [Next]_vars PROVE ChainInv'
  OBVIOUS
<1> USE LifeAssumption DEF TypeOK, AliveInv, ChainInv, OneHolder, HoldsW, HoldsM, IsDead, history
<1>1. ASSUME NEW m \in Monsters, MonsterAttackPlayer(m) PROVE ChainInv'
  BY <1>1 DEF MonsterAttackPlayer, GotoM
<1>2. ASSUME NEW m \in Monsters, TakeDamage(m) PROVE ChainInv'
  BY <1>2 DEF TakeDamage, GotoM
<1>3. ASSUME NEW m \in Monsters, IfAlive(m) PROVE ChainInv'
  BY <1>3 DEF IfAlive, GotoM
<1>4. ASSUME NEW m \in Monsters, TryStartRegen(m) PROVE ChainInv'
  BY <1>4 DEF TryStartRegen, GotoM
<1>5. ASSUME NEW m \in Monsters, AddRegenTimer(m) PROVE ChainInv'
  BY <1>5 DEF AddRegenTimer, GotoM
<1>6. ASSUME NEW m \in Monsters, IfDead(m) PROVE ChainInv'
  BY <1>6 DEF IfDead, GotoM
<1>7. ASSUME NEW m \in Monsters, Die(m) PROVE ChainInv'
  BY <1>7 DEF Die, GotoM
<1>8. ASSUME NEW m \in Monsters, StopRegen(m) PROVE ChainInv'
  BY <1>8 DEF StopRegen, GotoM
<1>9. ASSUME NEW w \in Workers, TimerFires(w) PROVE ChainInv'
  BY <1>9 DEF TimerFires, GotoW
<1>10. ASSUME NEW w \in Workers, RegenIfDead(w) PROVE ChainInv'
  BY <1>10 DEF RegenIfDead, GotoW
<1>11. ASSUME NEW w \in Workers, StopDead(w) PROVE ChainInv'
  BY <1>11 DEF StopDead, GotoW
<1>12. ASSUME NEW w \in Workers, IfFull(w) PROVE ChainInv'
  BY <1>12 DEF IfFull, GotoW
<1>13. ASSUME NEW w \in Workers, RegenHP(w) PROVE ChainInv'
  BY <1>13 DEF RegenHP, GotoW
<1>14. ASSUME NEW w \in Workers, RecheckFull(w) PROVE ChainInv'
  BY <1>14 DEF RecheckFull, GotoW
<1>15. ASSUME NEW w \in Workers, StopForNow(w) PROVE ChainInv'
  BY <1>15 DEF StopForNow, GotoW
<1>16. ASSUME NEW w \in Workers, IfHurt(w) PROVE ChainInv'
  BY <1>16 DEF IfHurt, GotoW
<1>17. ASSUME NEW w \in Workers, Restart(w) PROVE ChainInv'
  BY <1>17 DEF Restart, GotoW
<1>18. ASSUME NEW w \in Workers, Rearm(w) PROVE ChainInv'
  BY <1>18 DEF Rearm, GotoW
<1>19. ASSUME LevelUp PROVE ChainInv'
  BY <1>19 DEF LevelUp
<1>20. CASE UNCHANGED vars
  BY <1>20 DEF vars
<1> QED
  BY <1>1, <1>2, <1>3, <1>4, <1>5, <1>6, <1>7, <1>8, <1>9, <1>10, <1>11,
     <1>12, <1>13, <1>14, <1>15, <1>16, <1>17, <1>18, <1>19, <1>20 DEF Next,
     AttackStep, HandlerStep

(* No step leaves a hurt player alone before a death.                      *)
LEMMA HurtStep == TypeOK /\ AliveInv /\ HurtInv /\ [Next]_vars => HurtInv'
<1> SUFFICES ASSUME TypeOK, AliveInv, HurtInv, [Next]_vars PROVE HurtInv'
  OBVIOUS
<1> USE LifeAssumption DEF TypeOK, AliveInv, HurtInv, IsDead, history
<1>1. ASSUME NEW m \in Monsters, MonsterAttackPlayer(m) PROVE HurtInv'
  BY <1>1 DEF MonsterAttackPlayer, GotoM
<1>2. ASSUME NEW m \in Monsters, TakeDamage(m) PROVE HurtInv'
  BY <1>2 DEF TakeDamage, GotoM
<1>3. ASSUME NEW m \in Monsters, IfAlive(m) PROVE HurtInv'
  BY <1>3 DEF IfAlive, GotoM
<1>4. ASSUME NEW m \in Monsters, TryStartRegen(m) PROVE HurtInv'
  BY <1>4 DEF TryStartRegen, GotoM
<1>5. ASSUME NEW m \in Monsters, AddRegenTimer(m) PROVE HurtInv'
  BY <1>5 DEF AddRegenTimer, GotoM
<1>6. ASSUME NEW m \in Monsters, IfDead(m) PROVE HurtInv'
  BY <1>6 DEF IfDead, GotoM
<1>7. ASSUME NEW m \in Monsters, Die(m) PROVE HurtInv'
  BY <1>7 DEF Die, GotoM
<1>8. ASSUME NEW m \in Monsters, StopRegen(m) PROVE HurtInv'
  BY <1>8 DEF StopRegen, GotoM
<1>9. ASSUME NEW w \in Workers, TimerFires(w) PROVE HurtInv'
  BY <1>9 DEF TimerFires, GotoW
<1>10. ASSUME NEW w \in Workers, RegenIfDead(w) PROVE HurtInv'
  BY <1>10 DEF RegenIfDead, GotoW
<1>11. ASSUME NEW w \in Workers, StopDead(w) PROVE HurtInv'
  BY <1>11 DEF StopDead, GotoW
<1>12. ASSUME NEW w \in Workers, IfFull(w) PROVE HurtInv'
  BY <1>12 DEF IfFull, GotoW
<1>13. ASSUME NEW w \in Workers, RegenHP(w) PROVE HurtInv'
  BY <1>13 DEF RegenHP, GotoW
<1>14. ASSUME NEW w \in Workers, RecheckFull(w) PROVE HurtInv'
  BY <1>14 DEF RecheckFull, GotoW
<1>15. ASSUME NEW w \in Workers, StopForNow(w) PROVE HurtInv'
  BY <1>15 DEF StopForNow, GotoW
<1>16. ASSUME NEW w \in Workers, IfHurt(w) PROVE HurtInv'
  BY <1>16 DEF IfHurt, GotoW
<1>17. ASSUME NEW w \in Workers, Restart(w) PROVE HurtInv'
  BY <1>17 DEF Restart, GotoW
<1>18. ASSUME NEW w \in Workers, Rearm(w) PROVE HurtInv'
  BY <1>18 DEF Rearm, GotoW
<1>19. ASSUME LevelUp PROVE HurtInv'
  BY <1>19 DEF LevelUp
<1>20. CASE UNCHANGED vars
  BY <1>20 DEF vars
<1> QED
  BY <1>1, <1>2, <1>3, <1>4, <1>5, <1>6, <1>7, <1>8, <1>9, <1>10, <1>11,
     <1>12, <1>13, <1>14, <1>15, <1>16, <1>17, <1>18, <1>19, <1>20 DEF Next,
     AttackStep, HandlerStep

(* The invariant the theorems below follow from.                           *)
THEOREM Inductive == Spec => []IndInv
<1>1. Init => IndInv
  <2> SUFFICES ASSUME Init PROVE IndInv
    OBVIOUS
  <2> USE LifeAssumption DEF Init
  <2>1. TypeOK
    <3>1. hp \in 0 .. MaxHp /\ timers \in Nat /\ started \in 0 .. MaxHits
      OBVIOUS
    <3>2. kills \in Nat
      OBVIOUS
    <3>3. regenActive \in BOOLEAN /\ wasHit \in BOOLEAN
      OBVIOUS
    <3> QED
      BY <3>1, <3>2, <3>3 DEF TypeOK
  <2>2. NoStuckDead
    BY DEF NoStuckDead, IsDead
  <2>3. AliveInv
    BY DEF AliveInv
  <2>4. ChainInv
    BY DEF ChainInv, OneHolder, HoldsW, HoldsM
  <2>5. HurtInv
    BY DEF HurtInv
  <2> QED
    BY <2>1, <2>2, <2>3, <2>4, <2>5 DEF IndInv
<1>2. IndInv /\ [Next]_vars => IndInv'
  BY TypeStep, StuckStep, AliveStep, ChainStep, HurtStep DEF IndInv
<1> QED
  BY <1>1, <1>2, PTL DEF Spec

(* Every variable keeps its type; hp stays within 0 .. MaxHp.              *)
THEOREM TypeCorrect == Spec => []TypeOK
<1>1. IndInv => TypeOK
  BY DEF IndInv
<1> QED
  BY Inductive, <1>1, PTL

(* A player at 0 hp always has a worker that will still find it dead or    *)
(* bring it back.                                                          *)
THEOREM NeverStuckDead == Spec => []NoStuckDead
<1>1. IndInv => NoStuckDead
  BY DEF IndInv
<1> QED
  BY Inductive, <1>1, PTL

(* Until its first death, a player that was hit and is below full hp has   *)
(* exactly one regeneration timer when no handler is running.              *)
THEOREM OneTimer == Spec => []OneTimerUntilDeath
<1>1. IndInv => OneTimerUntilDeath
  BY DEF IndInv, TypeOK, ChainInv, OneHolder, HoldsW, HoldsM, HurtInv, OneTimerUntilDeath, Quiet
<1> QED
  BY Inductive, <1>1, PTL

-----------------------------------------------------------------------------
(* The place of one player under concurrent handlers (module PlayerDeath), *)
(* for any map, any number of attackers and any number of operations.      *)

\* Where a handler of each kind stands.
Stands ==
    [move       |-> {"claimTarget", "release", "moveSector", "setPos"},
     teleport   |-> {"release", "erase", "claim", "insert", "setPos"},
     return     |-> {"claim", "insert", "setPos"},
     disconnect |-> {"release", "erase", "remove"},
     die        |-> {"release", "erase", "revive", "claim", "insert", "setPos"}]

Kinds(a) == IF a = Session THEN {"move", "teleport", "return"}
            ELSE IF a = Closer THEN {"disconnect"} ELSE {"die"}

OpInv == \A a \in Actors :
    Busy(a) => op[a] \in Kinds(a) /\ pc[a] \in Stands[op[a]]

\* Past the last point at which the handler may give up without a trace.
Committed(a) == pc[a] \notin {"idle", "found", "claimTarget"}
NoneCommitted == \A a \in Actors : ~Committed(a)
Alone(a) == Committed(a) /\ \A b \in Actors \ {a} : ~Committed(b)

\* One handler alone: what it has done to the map so far.
At(a) ==
    /\ pc[a] \in {"release", "moveSector", "erase"} =>
            old[a] = pos /\ inSectors = {SectorOf[pos]}
    /\ pc[a] = "release" /\ op[a] = "move" => held = {pos, new[a]} /\ new[a] # pos
    /\ pc[a] = "release" /\ op[a] # "move" => held = {pos}
    /\ pc[a] \in {"moveSector", "insert", "setPos"} => held = {new[a]}
    /\ pc[a] \in {"erase", "remove", "revive", "claim"} => held = {}
    /\ pc[a] \in {"remove", "revive", "claim", "insert"} => inSectors = {}
    /\ pc[a] = "setPos" => inSectors = {SectorOf[new[a]]}

GoneInv  == gone => held = {} /\ inSectors = {} /\ \A a \in Actors : pc[a] = "idle"
ClaimInv == \A a \in Actors : pc[a] = "claimTarget" => old[a] = pos
RestInv  == ~gone /\ NoneCommitted => held = {pos} /\ inSectors = {SectorOf[pos]}
AloneInv == \A a \in Actors : Alone(a) => At(a)

Sound == ~stale /\ ~limbo
PlaceInv == Sound => GoneInv /\ ClaimInv /\ RestInv /\ AloneInv

DeathInv == DeathTypeOK /\ OpInv /\ PlaceInv

(* The invariant holds at the start;                                       *)
LEMMA DeathInvStart ==
    ASSUME DeathInit PROVE DeathInv
<1>0. Origin \in Tiles
  BY DeathAssumption
<1>1. DeathTypeOK
  <2>1. inSectors \subseteq {SectorOf[t] : t \in Tiles} /\ held \subseteq Tiles
    BY DEF DeathInit
  <2>2. pc \in [Actors -> {"idle", "found", "claimTarget", "release", "moveSector", "erase",
                           "remove", "revive", "claim", "insert", "setPos"}]
    BY DEF DeathInit
  <2>3. op \in [Actors -> {"none", "move", "teleport", "return", "disconnect", "die"}]
    BY DEF DeathInit
  <2>4. old \in [Actors -> Tiles] /\ new \in [Actors -> Tiles]
    BY <1>0 DEF DeathInit
  <2>5. ops \in 0 .. MaxOps
    BY DeathAssumption DEF DeathInit
  <2> QED BY <2>1, <2>2, <2>3, <2>4, <2>5 DEF DeathInit, DeathTypeOK
<1>2. OpInv
  BY DEF DeathInit, OpInv, Busy
<1>3. PlaceInv
  BY DEF DeathInit, PlaceInv, Sound, GoneInv, ClaimInv, RestInv, AloneInv, Alone, Committed
<1> QED BY <1>1, <1>2, <1>3 DEF DeathInv

(* every step keeps the types,                                             *)
LEMMA DeathTypeStep ==
    ASSUME DeathTypeOK, OpInv, [DeathNext]_deathVars
    PROVE  DeathTypeOK'
<1>0. /\ Origin \in Tiles /\ Session \in Actors /\ Closer \in Actors
      /\ Killers \subseteq Actors /\ Spawn \subseteq Tiles /\ MaxOps \in Nat
  BY DeathAssumption DEF Actors
<1> USE <1>0 DEF DeathTypeOK
<1>1. ASSUME NEW t \in {pos - 1, pos + 1}, ProcessMove(t) PROVE DeathTypeOK'
  BY <1>1 DEF ProcessMove, Steps, Begin, Goto, mapVars
<1>2. CASE ProcessTeleport
  BY <1>2 DEF ProcessTeleport, Begin, Goto, mapVars
<1>3. CASE ProcessDisconnect
  BY <1>3 DEF ProcessDisconnect, Begin, Goto, mapVars
<1>4. CASE ClaimTarget
  BY <1>4 DEF ClaimTarget, Goto
<1>5. CASE MoveRefused
  BY <1>5 DEF MoveRefused, Goto, mapVars
<1>6. CASE MoveSector
  BY <1>6 DEF MoveSector, Goto
<1>7. CASE RemovePlayer
  BY <1>7 DEF RemovePlayer, Goto, mapVars
<1>8. CASE ReturnToOrigin
  BY <1>8 DEF ReturnToOrigin, mapVars
<1>9. ASSUME NEW a \in Actors, GetPlayer(a) PROVE DeathTypeOK'
  BY <1>9 DEF GetPlayer, Goto, mapVars
<1>10. ASSUME NEW a \in Actors, GiveUp(a) PROVE DeathTypeOK'
  BY <1>10 DEF GiveUp, Goto, mapVars
<1>11. ASSUME NEW k \in Killers, OnPlayerDied(k) PROVE DeathTypeOK'
  BY <1>11 DEF OnPlayerDied, Begin, Goto, mapVars
<1>12. ASSUME NEW k \in Killers, Revive(k) PROVE DeathTypeOK'
  BY <1>12 DEF Revive, Goto
<1>13. ASSUME NEW a \in Actors, Release(a) PROVE DeathTypeOK'
  BY <1>13 DEF Release, Goto
<1>14. ASSUME NEW a \in Actors, Erase(a) PROVE DeathTypeOK'
  <2>1. op[a] \in {"teleport", "disconnect", "die"}
    BY <1>14 DEF Erase, Goto, OpInv, Busy, Kinds, Stands
  <2>2. AfterErase[op[a]] \in {"claim", "remove", "revive"}
    BY <2>1 DEF AfterErase
  <2> QED BY <2>2, <1>14 DEF Erase, Goto
<1>15. ASSUME NEW a \in Actors, Claim(a) PROVE DeathTypeOK'
  BY <1>15 DEF Claim, Goto, Around
<1>16. ASSUME NEW a \in Actors, NoTile(a) PROVE DeathTypeOK'
  BY <1>16 DEF NoTile, Goto, mapVars
<1>17. ASSUME NEW a \in Actors, Insert(a) PROVE DeathTypeOK'
  BY <1>17 DEF Insert, Goto
<1>18. ASSUME NEW a \in Actors, SetPos(a) PROVE DeathTypeOK'
  BY <1>18 DEF SetPos, Goto
<1>19. CASE UNCHANGED deathVars
  BY <1>19 DEF deathVars
<1> QED BY <1>1, <1>2, <1>3, <1>4, <1>5, <1>6, <1>7, <1>8, <1>9, <1>10, <1>11, <1>12, <1>13,
            <1>14, <1>15, <1>16, <1>17, <1>18, <1>19 DEF DeathNext

(* where each handler may stand,                                           *)
LEMMA OpStep ==
    ASSUME DeathTypeOK, OpInv, [DeathNext]_deathVars
    PROVE  OpInv'
<1>0. Session \in Actors /\ Closer \in Actors /\ Killers \subseteq Actors
      /\ Session # Closer /\ Session \notin Killers /\ Closer \notin Killers
  BY DeathAssumption DEF Actors
<1> USE <1>0 DEF OpInv, Busy, Kinds, Stands, DeathTypeOK
<1>1. ASSUME NEW t \in {pos - 1, pos + 1}, ProcessMove(t) PROVE OpInv'
  BY <1>1 DEF ProcessMove, Begin, Goto, Steps, mapVars
<1>2. CASE ProcessTeleport
  BY <1>2 DEF ProcessTeleport, Begin, Goto, mapVars
<1>3. CASE ProcessDisconnect
  BY <1>3 DEF ProcessDisconnect, Begin, Goto, mapVars
<1>4. CASE ClaimTarget
  BY <1>4 DEF ClaimTarget, Goto
<1>5. CASE MoveRefused
  BY <1>5 DEF MoveRefused, Goto, mapVars
<1>6. CASE MoveSector
  BY <1>6 DEF MoveSector, Goto
<1>7. CASE RemovePlayer
  BY <1>7 DEF RemovePlayer, Goto, mapVars
<1>8. CASE ReturnToOrigin
  BY <1>8 DEF ReturnToOrigin, mapVars
<1>9. ASSUME NEW a \in Actors, GetPlayer(a) PROVE OpInv'
  BY <1>9 DEF GetPlayer, Goto, mapVars
<1>10. ASSUME NEW a \in Actors, GiveUp(a) PROVE OpInv'
  BY <1>10 DEF GiveUp, Goto, mapVars
<1>11. ASSUME NEW k \in Killers, OnPlayerDied(k) PROVE OpInv'
  BY <1>11 DEF OnPlayerDied, Begin, Goto, mapVars
<1>12. ASSUME NEW k \in Killers, Revive(k) PROVE OpInv'
  BY <1>12 DEF Revive, Goto
<1>13. ASSUME NEW a \in Actors, Release(a) PROVE OpInv'
  BY <1>13 DEF Release, Goto
<1>14. ASSUME NEW a \in Actors, Erase(a) PROVE OpInv'
  BY <1>14 DEF Erase, Goto, AfterErase
<1>15. ASSUME NEW a \in Actors, Claim(a) PROVE OpInv'
  BY <1>15 DEF Claim, Goto
<1>16. ASSUME NEW a \in Actors, NoTile(a) PROVE OpInv'
  BY <1>16 DEF NoTile, Goto, mapVars
<1>17. ASSUME NEW a \in Actors, Insert(a) PROVE OpInv'
  BY <1>17 DEF Insert, Goto
<1>18. ASSUME NEW a \in Actors, SetPos(a) PROVE OpInv'
  BY <1>18 DEF SetPos, Goto
<1>19. CASE UNCHANGED deathVars
  BY <1>19 DEF deathVars, mapVars
<1> QED BY <1>1, <1>2, <1>3, <1>4, <1>5, <1>6, <1>7, <1>8, <1>9, <1>10, <1>11, <1>12, <1>13,
           <1>14, <1>15, <1>16, <1>17, <1>18, <1>19 DEF DeathNext

(* and what a handler that runs alone has done to the map so far.          *)
LEMMA PlaceStep ==
    ASSUME DeathTypeOK, OpInv, PlaceInv, DeathTypeOK', OpInv',
           [DeathNext]_deathVars
    PROVE  PlaceInv'
<1>0. Session \in Actors /\ Closer \in Actors /\ Killers \subseteq Actors
      /\ Session # Closer /\ Session \notin Killers /\ Closer \notin Killers
  BY DeathAssumption DEF Actors
<1> USE <1>0 DEF DeathTypeOK, OpInv, Busy, Kinds, Stands, PlaceInv, Sound, GoneInv,
        ClaimInv, RestInv, NoneCommitted, AloneInv, Alone, Committed, At
<1>1. ASSUME NEW t \in {pos - 1, pos + 1}, ProcessMove(t) PROVE PlaceInv'
  BY <1>1 DEF ProcessMove, Begin, Goto, Steps, mapVars
<1>2. CASE ProcessTeleport
  BY <1>2 DEF ProcessTeleport, Begin, Goto, mapVars
<1>3. CASE ProcessDisconnect
  BY <1>3 DEF ProcessDisconnect, Begin, Goto, mapVars
<1>4. CASE ClaimTarget
  BY <1>4 DEF ClaimTarget, Goto
<1>5. CASE MoveRefused
  BY <1>5 DEF MoveRefused, Goto, mapVars
<1>6. CASE MoveSector
  BY <1>6 DEF MoveSector, Goto
<1>7. CASE RemovePlayer
  <2>1. SUFFICES ASSUME Sound' PROVE (GoneInv /\ ClaimInv /\ RestInv /\ AloneInv)'
    BY DEF PlaceInv
  <2>2. pc[Closer] = "remove" /\ \A b \in Actors \ {Closer} : pc[b] = "idle"
    BY <1>7, <2>1 DEF RemovePlayer, Goto, Sound
  <2>3. At(Closer)
    BY <1>7, <2>1, <2>2 DEF RemovePlayer
  <2>4. held = {} /\ inSectors = {}
    BY <2>2, <2>3
  <2>5. \A a \in Actors : pc'[a] = "idle"
    BY <1>7, <2>2 DEF RemovePlayer, Goto
  <2> QED BY <1>7, <2>4, <2>5 DEF RemovePlayer, mapVars
<1>8. CASE ReturnToOrigin
  BY <1>8 DEF ReturnToOrigin, mapVars
<1>9. ASSUME NEW a \in Actors, GetPlayer(a) PROVE PlaceInv'
  BY <1>9 DEF GetPlayer, Goto, mapVars
<1>10. ASSUME NEW a \in Actors, GiveUp(a) PROVE PlaceInv'
  BY <1>10 DEF GiveUp, Goto, mapVars
<1>11. ASSUME NEW k \in Killers, OnPlayerDied(k) PROVE PlaceInv'
  BY <1>11 DEF OnPlayerDied, Begin, Goto, mapVars
<1>12. ASSUME NEW k \in Killers, Revive(k) PROVE PlaceInv'
  <2>1. SUFFICES ASSUME Sound' PROVE (GoneInv /\ ClaimInv /\ RestInv /\ AloneInv)'
    BY DEF PlaceInv
  <2>2. pc[k] = "revive" /\ \A b \in Actors \ {k} : pc[b] \in {"idle", "found"}
    BY <1>12, <2>1 DEF Revive, Goto, Sound
  <2>3. At(k) /\ ~gone
    BY <1>12, <2>1, <2>2 DEF Revive
  <2>4. held = {} /\ inSectors = {}
    BY <2>2, <2>3
  <2>5. pc'[k] = "claim" /\ \A b \in Actors \ {k} : pc'[b] = pc[b]
    BY <1>12 DEF Revive, Goto
  <2>6. ~gone' /\ held' = {} /\ inSectors' = {}
    BY <1>12, <2>3, <2>4 DEF Revive
  <2> QED BY <2>2, <2>5, <2>6
<1>13. ASSUME NEW a \in Actors, Release(a) PROVE PlaceInv'
  BY <1>13 DEF Release, Goto
<1>14. ASSUME NEW a \in Actors, Erase(a) PROVE PlaceInv'
  BY <1>14 DEF Erase, Goto, AfterErase
<1>15. ASSUME NEW a \in Actors, Claim(a) PROVE PlaceInv'
  BY <1>15 DEF Claim, Goto
<1>16. ASSUME NEW a \in Actors, NoTile(a) PROVE PlaceInv'
  BY <1>16 DEF NoTile, Goto, mapVars
<1>17. ASSUME NEW a \in Actors, Insert(a) PROVE PlaceInv'
  BY <1>17 DEF Insert, Goto
<1>18. ASSUME NEW a \in Actors, SetPos(a) PROVE PlaceInv'
  <2>1. SUFFICES ASSUME Sound' PROVE (GoneInv /\ ClaimInv /\ RestInv /\ AloneInv)'
    BY DEF PlaceInv
  <2>2. pc[a] = "setPos" /\ \A b \in Actors \ {a} : pc[b] \in {"idle", "found"}
    BY <1>18, <2>1 DEF SetPos, Goto, Sound
  <2>3. At(a) /\ ~gone
    BY <1>18, <2>1, <2>2 DEF SetPos
  <2>4. held = {new[a]} /\ inSectors = {SectorOf[new[a]]}
    BY <2>2, <2>3
  <2>5. pc'[a] = "idle" /\ \A b \in Actors \ {a} : pc'[b] = pc[b]
    BY <1>18 DEF SetPos, Goto
  <2>6. ~gone' /\ pos' = new[a] /\ held' = {pos'} /\ inSectors' = {SectorOf[pos']}
    BY <1>18, <2>3, <2>4 DEF SetPos
  <2> QED BY <2>2, <2>5, <2>6
<1>19. CASE UNCHANGED deathVars
  BY <1>19 DEF deathVars, mapVars
<1> QED BY <1>1, <1>2, <1>3, <1>4, <1>5, <1>6, <1>7, <1>8, <1>9, <1>10, <1>11, <1>12, <1>13,
           <1>14, <1>15, <1>16, <1>17, <1>18, <1>19 DEF DeathNext

(* So it always holds.                                                     *)
LEMMA DeathInvAlways == DeathSpec => []DeathInv
<1>1. DeathInit => DeathInv
  BY DeathInvStart
<1>2. ASSUME DeathInv, [DeathNext]_deathVars PROVE DeathInv'
  <2>1. DeathTypeOK' /\ OpInv'
    BY <1>2, DeathTypeStep, OpStep DEF DeathInv
  <2> QED BY <1>2, <2>1, PlaceStep DEF DeathInv
<1> QED BY <1>1, <1>2, PTL DEF DeathSpec

(* Whatever order ProcessMove, ProcessTeleport, ProcessDisconnect and      *)
(* OnPlayerDied run in: when none of them is under way a player in the     *)
(* world holds exactly the tile it stands on and is in that tile's sector  *)
(* only, and one that is gone holds nothing, unless a handler worked with  *)
(* a position another had changed, or with a player the disconnect had     *)
(* taken out since GetPlayer (stale), or a revival found no free tile      *)
(* (limbo).                                                                *)
THEOREM ExactAlways == DeathSpec => []ExactUnlessStale
<1>1. DeathInv => ExactUnlessStale
  BY DEF DeathInv, ExactUnlessStale, NobodyBusy, PlaceInv, Sound, GoneInv, RestInv,
         NoneCommitted, Committed
<1> QED BY <1>1, DeathInvAlways, PTL
=============================================================================
