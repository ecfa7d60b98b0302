-------------------------- MODULE PersistenceProofs --------------------------
(***************************************************************************)
(* Theorems about Persistence for any number of sessions and autosaves and *)
(* any rewards, and about the level table for any number of levels.        *)
(***************************************************************************)
EXTENDS Persistence, FiniteSetTheorems, WellFoundedInduction, SequenceTheorems, TLAPS

-----------------------------------------------------------------------------
(* The level table.  What holds of every level is proved by induction: a   *)
(* set that has 0, and with a number the next one, has all of them.        *)

LEMMA SetInduction ==
  ASSUME NEW S, 0 \in S, \A n \in Nat : n \in S => n + 1 \in S
  PROVE  Nat \subseteq S
<1> DEFINE R == OpToRel(<, Nat)
           T == Nat \ S
<1>1. IsWellFoundedOn(R, Nat)
  BY NatLessThanWellFounded, Zenon
<1>2. ASSUME NEW x \in Nat, NEW y \in Nat, y < x PROVE <<y, x>> \in R
  BY <1>2 DEF OpToRel
<1>3. SUFFICES ASSUME T # {} PROVE FALSE
  OBVIOUS
<1>4. T \subseteq Nat
  OBVIOUS
<1> HIDE DEF R
<1>5. PICK x \in T : \A y \in T : ~(<<y, x>> \in R)
  <2> HIDE DEF T
  <2> QED BY ONLY <1>1, <1>3, <1>4, WFMin
<1>6. x # 0 /\ x - 1 \in Nat /\ x - 1 < x
  OBVIOUS
<1>7. x - 1 \in T
  BY <1>6
<1>8. QED BY <1>2, <1>5, <1>6, <1>7

Table(f, n)  == f = [l \in 1 .. n |-> IF l = 1 THEN NeedExp ELSE 2 * f[l - 1]]
Sums(f, n)   == f = [l \in 1 .. n |-> IF l = 1 THEN 0 ELSE f[l - 1] + Need[l - 1]]

(* There is a table, and a table of sums, of any length.                   *)
LEMMA NeedTable == Table(Need, MaxLevel)
<1> DEFINE S == {n \in Nat : \E f : Table(f, n)}
<1>1. 0 \in S
  <2> DEFINE f == [l \in 1 .. 0 |-> 0]
  <2>1. Table(f, 0)
    BY DEF Table
  <2>2. QED BY <2>1
<1>2. ASSUME NEW n \in Nat, n \in S PROVE n + 1 \in S
  <2>1. PICK f : Table(f, n)
    BY <1>2
  <2> DEFINE g == [l \in 1 .. n + 1 |-> IF l = 1 THEN NeedExp ELSE 2 * f[l - 1]]
  <2>2. \A l \in 1 .. n : g[l] = f[l]
    BY <2>1 DEF Table
  <2>3. \A l \in 1 .. n + 1 : l = 1 \/ l - 1 \in 1 .. n
    OBVIOUS
  <2>4. Table(g, n + 1)
    BY <2>2, <2>3 DEF Table
  <2>5. QED BY <2>4
<1>3. Nat \subseteq S
  <2> HIDE DEF S
  <2> QED BY <1>1, <1>2, SetInduction
<1>4. \E f : Table(f, MaxLevel)
  BY <1>3, PersistenceAssumption
<1>5. QED BY <1>4 DEF Need, Table

LEMMA TotalTable == Sums(Total, MaxLevel)
<1> DEFINE S == {n \in Nat : \E f : Sums(f, n)}
<1>1. 0 \in S
  <2> DEFINE f == [l \in 1 .. 0 |-> 0]
  <2>1. Sums(f, 0)
    BY DEF Sums
  <2>2. QED BY <2>1
<1>2. ASSUME NEW n \in Nat, n \in S PROVE n + 1 \in S
  <2>1. PICK f : Sums(f, n)
    BY <1>2
  <2> DEFINE g == [l \in 1 .. n + 1 |-> IF l = 1 THEN 0 ELSE f[l - 1] + Need[l - 1]]
  <2>2. \A l \in 1 .. n : g[l] = f[l]
    BY <2>1 DEF Sums
  <2>3. \A l \in 1 .. n + 1 : l = 1 \/ l - 1 \in 1 .. n
    OBVIOUS
  <2>4. Sums(g, n + 1)
    BY <2>2, <2>3 DEF Sums
  <2>5. QED BY <2>4
<1>3. Nat \subseteq S
  <2> HIDE DEF S
  <2> QED BY <1>1, <1>2, SetInduction
<1>4. \E f : Sums(f, MaxLevel)
  BY <1>3, PersistenceAssumption
<1>5. QED BY <1>4 DEF Total, Sums

(* Every level costs something, twice what the one before it costs.        *)
LEMMA NeedGrows ==
  /\ \A l \in 1 .. MaxLevel : Need[l] \in Nat \ {0}
  /\ \A l \in 1 .. MaxLevel : l < MaxLevel => Need[l + 1] = 2 * Need[l]
  /\ \A l \in 1 .. MaxLevel : Need[l] <= Need[MaxLevel]
<1> USE PersistenceAssumption
<1>1. /\ 1 \in 1 .. MaxLevel /\ Need[1] = NeedExp
      /\ \A l \in 1 .. MaxLevel : l < MaxLevel => Need[l + 1] = 2 * Need[l]
  BY NeedTable DEF Table
<1>2. \A l \in 1 .. MaxLevel : Need[l] \in Nat \ {0}
  <2> DEFINE S == {n \in Nat : \A l \in 1 .. MaxLevel : l <= n => Need[l] \in Nat \ {0}}
  <2>1. 0 \in S
    OBVIOUS
  <2>2. ASSUME NEW n \in Nat, n \in S PROVE n + 1 \in S
    <3>1. ASSUME NEW l \in 1 .. MaxLevel, l = n + 1 PROVE Need[l] \in Nat \ {0}
      <4>1. CASE l = 1
        BY <1>1, <4>1
      <4>2. CASE l # 1
        <5>1. l - 1 \in 1 .. MaxLevel /\ l - 1 <= n /\ l - 1 < MaxLevel /\ (l - 1) + 1 = l
          BY <3>1, <4>2
        <5>2. Need[l] = 2 * Need[l - 1] /\ Need[l - 1] \in Nat \ {0}
          BY <1>1, <2>2, <5>1
        <5>3. QED BY <5>2
      <4>3. QED BY <4>1, <4>2
    <3>2. \A l \in 1 .. MaxLevel : l <= n + 1 => l <= n \/ l = n + 1
      OBVIOUS
    <3>3. QED BY <2>2, <3>1, <3>2
  <2>3. Nat \subseteq S
    <3> HIDE DEF S
    <3> QED BY <2>1, <2>2, SetInduction
  <2>4. QED BY <2>3
<1>3. \A l \in 1 .. MaxLevel : Need[l] <= Need[MaxLevel]
  <2> DEFINE S == {n \in Nat : \A l \in 1 .. MaxLevel : l + n = MaxLevel => Need[l] <= Need[MaxLevel]}
  <2>1. 0 \in S
    <3>1. MaxLevel \in 1 .. MaxLevel
      OBVIOUS
    <3>2. Need[MaxLevel] \in Nat
      BY <1>2, <3>1
    <3>3. QED BY <3>2
  <2>2. ASSUME NEW n \in Nat, n \in S PROVE n + 1 \in S
    <3>1. ASSUME NEW l \in 1 .. MaxLevel, l + (n + 1) = MaxLevel PROVE Need[l] <= Need[MaxLevel]
      <4>1. l < MaxLevel /\ l + 1 \in 1 .. MaxLevel /\ (l + 1) + n = MaxLevel
        BY <3>1
      <4>2. Need[l] \in Nat /\ Need[l + 1] = 2 * Need[l] /\ Need[l + 1] <= Need[MaxLevel]
            /\ Need[MaxLevel] \in Nat
        BY <1>1, <1>2, <2>2, <4>1
      <4>3. QED BY <4>2
    <3>2. QED BY <3>1
  <2>3. Nat \subseteq S
    <3> HIDE DEF S
    <3> QED BY <2>1, <2>2, SetInduction
  <2>4. \A l \in 1 .. MaxLevel : MaxLevel - l \in S /\ l + (MaxLevel - l) = MaxLevel
    <3> HIDE DEF S
    <3> QED BY <2>3
  <2>5. QED BY <2>4
<1>4. QED BY <1>1, <1>2, <1>3

LEMMA TotalGrows ==
  /\ \A l \in 1 .. MaxLevel : Total[l] \in Nat
  /\ \A l \in 1 .. MaxLevel : l < MaxLevel => Total[l + 1] = Total[l] + Need[l]
<1> USE PersistenceAssumption
<1>1. /\ 1 \in 1 .. MaxLevel /\ Total[1] = 0
      /\ \A l \in 1 .. MaxLevel : l < MaxLevel => Total[l + 1] = Total[l] + Need[l]
  BY TotalTable DEF Sums
<1>2. \A l \in 1 .. MaxLevel : Total[l] \in Nat
  <2> DEFINE S == {n \in Nat : \A l \in 1 .. MaxLevel : l <= n => Total[l] \in Nat}
  <2>1. 0 \in S
    OBVIOUS
  <2>2. ASSUME NEW n \in Nat, n \in S PROVE n + 1 \in S
    <3>1. ASSUME NEW l \in 1 .. MaxLevel, l = n + 1 PROVE Total[l] \in Nat
      <4>1. CASE l = 1
        BY <1>1, <4>1
      <4>2. CASE l # 1
        <5>1. l - 1 \in 1 .. MaxLevel /\ l - 1 <= n /\ l - 1 < MaxLevel /\ (l - 1) + 1 = l
          BY <3>1, <4>2
        <5>2. /\ Total[l] = Total[l - 1] + Need[l - 1]
              /\ Total[l - 1] \in Nat /\ Need[l - 1] \in Nat
          BY <1>1, <2>2, <5>1, NeedGrows
        <5>3. QED BY <5>2
      <4>3. QED BY <4>1, <4>2
    <3>2. \A l \in 1 .. MaxLevel : l <= n + 1 => l <= n \/ l = n + 1
      OBVIOUS
    <3>3. QED BY <2>2, <3>1, <3>2
  <2>3. Nat \subseteq S
    <3> HIDE DEF S
    <3> QED BY <2>1, <2>2, SetInduction
  <2>4. QED BY <2>3
<1>3. QED BY <1>1, <1>2

(* Some level takes the experience: the first that costs more, or the last.*)
LEMMA SomeLevel ==
  ASSUME NEW first \in 1 .. MaxLevel, NEW exp \in Nat
  PROVE  \E l \in first .. MaxLevel :
            /\ Total[l] - Total[first] <= exp
            /\ l = MaxLevel \/ exp < Total[l + 1] - Total[first]
<1> USE PersistenceAssumption
<1> DEFINE paid(l) == Total[l] - Total[first]
           Takes(k) == paid(k) <= exp /\ (k = MaxLevel \/ exp < paid(k + 1))
           S == {n \in Nat : \A l \in first .. MaxLevel : l + n = MaxLevel /\ paid(l) <= exp =>
                                \E k \in l .. MaxLevel : Takes(k)}
<1>1. 0 \in S
  OBVIOUS
<1>2. ASSUME NEW n \in Nat, n \in S PROVE n + 1 \in S
  <2>1. ASSUME NEW l \in first .. MaxLevel, l + (n + 1) = MaxLevel, paid(l) <= exp
        PROVE  \E k \in l .. MaxLevel : Takes(k)
    <3>1. l < MaxLevel /\ l + 1 \in first .. MaxLevel /\ (l + 1) + n = MaxLevel
          /\ l \in 1 .. MaxLevel /\ l + 1 \in 1 .. MaxLevel
      BY <2>1
    <3>2. Total[l] \in Nat /\ Total[l + 1] \in Nat /\ Total[first] \in Nat
      BY <3>1, TotalGrows
    <3>3. CASE exp < paid(l + 1)
      BY <2>1, <3>1, <3>3
    <3>4. CASE ~(exp < paid(l + 1))
      <4>1. paid(l + 1) <= exp
        BY <3>2, <3>4
      <4>2. PICK k \in l + 1 .. MaxLevel : Takes(k)
        BY <1>2, <3>1, <4>1
      <4>3. k \in l .. MaxLevel
        BY <3>1
      <4>4. QED BY <4>2, <4>3
    <3>5. QED BY <3>3, <3>4
  <2> HIDE DEF Takes, paid
  <2>2. QED BY <2>1
<1>3. Nat \subseteq S
  <2> HIDE DEF S
  <2> QED BY <1>1, <1>2, SetInduction
<1>4. MaxLevel - first \in Nat /\ first + (MaxLevel - first) = MaxLevel /\ first \in first .. MaxLevel
  OBVIOUS
<1>5. paid(first) <= exp
  BY TotalGrows
<1>6. \E k \in first .. MaxLevel : Takes(k)
  <2>1. MaxLevel - first \in S
    BY <1>3, <1>4
  <2> HIDE DEF Takes, paid
  <2>2. QED BY <2>1, <1>4, <1>5
<1>7. QED BY <1>6

(* GainExp's loop ends on a legal level and experience, from whatever row  *)
(* it starts; no experience is lost below the last level.                  *)
LEMMA GainedIsLegal ==
  ASSUME NEW r \in Rows, NEW amount \in Nat
  PROVE  /\ Gained(r, amount) \in Rows /\ Legal(Gained(r, amount))
         /\ Gained(r, amount).level # MaxLevel =>
               Total[Gained(r, amount).level] + Gained(r, amount).exp
                  = Total[r.level] + r.exp + amount
<1> USE PersistenceAssumption
<1> DEFINE exp == r.exp + amount
           paid(l) == Total[l] - Total[r.level]
           Takes(l) == paid(l) <= exp /\ (l = MaxLevel \/ exp < paid(l + 1))
           level == CHOOSE l \in r.level .. MaxLevel : Takes(l)
<1>1. r.level \in 1 .. MaxLevel /\ r.exp \in Nat /\ exp \in Nat
  <2>1. Need[MaxLevel] \in Nat
    BY NeedGrows
  <2>2. QED BY <2>1 DEF Rows
<1>2. \E l \in r.level .. MaxLevel : Takes(l)
  <2> HIDE DEF exp
  <2>1. QED BY <1>1, SomeLevel
<1>3. level \in r.level .. MaxLevel /\ Takes(level)
  <2> HIDE DEF Takes
  <2>1. QED BY <1>2
<1>4. Gained(r, amount) = [level |-> level, exp |-> IF level = MaxLevel THEN 0 ELSE exp - paid(level)]
  BY DEF Gained
<1> HIDE DEF level
<1>5. level \in 1 .. MaxLevel /\ Need[level] \in Nat /\ Need[MaxLevel] \in Nat
      /\ Need[level] <= Need[MaxLevel] /\ Total[level] \in Nat /\ Total[r.level] \in Nat
  <2>1. level \in 1 .. MaxLevel
    BY <1>1, <1>3
  <2>2. QED BY <1>1, <2>1, NeedGrows, TotalGrows
<1>6. CASE level = MaxLevel
  BY <1>4, <1>5, <1>6 DEF Rows, Legal
<1>7. CASE level # MaxLevel
  <2>1. /\ Total[level + 1] = Total[level] + Need[level]
        /\ paid(level) <= exp /\ exp < paid(level + 1)
    BY <1>3, <1>5, <1>7, TotalGrows
  <2>2. exp - paid(level) \in Nat /\ exp - paid(level) < Need[level]
    BY <1>1, <1>5, <2>1
  <2>3. exp - paid(level) \in 0 .. Need[MaxLevel]
    BY <1>5, <2>2
  <2>4. Total[level] + (exp - paid(level)) = Total[r.level] + r.exp + amount
    BY <1>1, <1>5
  <2> DEFINE rest == exp - paid(level)
  <2> HIDE DEF rest, exp, paid
  <2>5. Gained(r, amount) = [level |-> level, exp |-> rest]
    BY <1>4, <1>7 DEF rest
  <2>6. QED BY <1>5, <1>7, <2>2, <2>3, <2>4, <2>5 DEF Rows, Legal, rest
<1>8. QED BY <1>6, <1>7

-----------------------------------------------------------------------------
(* The invariant *)

\* From OnLoginDBLoaded to ReleaseDbId the session has the dbId.
Holds(s)  == pc[s] \in {"in", "snapLevel", "remove", "release"}
Active(s) == Holds(s) \/ pc[s] = "post"

HoldInv ==
    /\ \A s \in Sessions : Holds(s) => claimed
    /\ \A s, t \in Sessions : Holds(s) /\ Holds(t) => s = t

\* A run of SaveAllPlayers that has something to post has it from a session.
OfInv == \A v \in Savers : spc[v] \in {"level", "exp", "post"} => of[v] \in Sessions

\* Without a torn snapshot every row, wherever it is, is legal; half of a
\* snapshot has the level of its player.
LegalInv ==
    ~torn =>
        /\ Legal(row)
        /\ \A s \in Sessions : Legal(mem[s])
        /\ \A s \in Sessions :
              IF pc[s] = "snapLevel" THEN copy[s].level = mem[s].level ELSE Legal(copy[s])
        /\ \A v \in Savers :
              IF spc[v] = "exp" THEN snap[v].level = mem[of[v]].level ELSE Legal(snap[v])
        /\ \A i \in 1 .. Len(saveQueue) : Legal(saveQueue[i].row)

DrainInv == saver = "returned" => ~running /\ DrainedWhenReturned

\* Where the character's last state is: with its player, then in the
\* snapshot of its logout, then in the queue's last save, then in the row.
ToSave   == {i \in 1 .. Len(saveQueue) : saveQueue[i].kind = "save"}
Final(r) ==
    /\ ToSave = {} => row = r
    /\ \A i \in ToSave : (\A j \in ToSave : j <= i) => saveQueue[i].row = r

LatestInv ==
    ~raced =>
        /\ \A s, t \in Sessions : Active(s) /\ Active(t) => s = t
        /\ \A s \in Sessions : pc[s] \in {"in", "snapLevel"} => mem[s] = latest
        /\ \A s \in Sessions : Active(s) /\ pc[s] # "in" => copy[s] = latest
        /\ (\A s \in Sessions : ~Active(s)) => Final(latest)

SaveInv == TypeOK /\ HoldInv /\ OfInv /\ LegalInv /\ DrainInv /\ LatestInv

-----------------------------------------------------------------------------
(* Rows *)

(* A snapshot whose two getters saw different states is a row all the same,*)
(* and that of a player whose level stayed is the player's.                *)
LEMMA MixedIsRow ==
  ASSUME NEW r \in Rows, NEW q \in Rows
  PROVE  /\ [r EXCEPT !.exp = q.exp] \in Rows
         /\ r.level = q.level => [r EXCEPT !.exp = q.exp] = q
BY DEF Rows

LEMMA HalvedIsRow ==
  ASSUME NEW r \in Rows
  PROVE  /\ [r EXCEPT !.exp = @ \div 2] \in Rows
         /\ Legal(r) => Legal([r EXCEPT !.exp = @ \div 2])
<1>1. r.level \in 1 .. MaxLevel /\ r.exp \in 0 .. Need[MaxLevel]
      /\ Need[MaxLevel] \in Nat /\ Need[r.level] \in Nat
  BY PersistenceAssumption, NeedGrows DEF Rows
<1> DEFINE half == r.exp \div 2
<1>2. half \in 0 .. Need[MaxLevel] /\ half <= r.exp
  BY <1>1
<1> HIDE DEF half
<1>3. [r EXCEPT !.exp = @ \div 2] = [level |-> r.level, exp |-> half]
  BY DEF Rows, half
<1>4. r.exp = 0 => half = 0
  BY <1>1, <1>2
<1>5. QED BY <1>1, <1>2, <1>3, <1>4 DEF Rows, Legal

(* What play makes of a character is a row, and a legal one of a legal one.*)
LEMMA PlayIsRow ==
  ASSUME TypeOK, NEW s \in Sessions, GainExp(s) \/ Die(s)
  PROVE  \E r \in Rows : Changes(s, r) /\ (Legal(mem[s]) => Legal(r))
<1>1. mem[s] \in Rows
  BY DEF TypeOK
<1>2. CASE GainExp(s)
  <2>1. PICK amount \in Rewards : Changes(s, Gained(mem[s], amount))
    BY <1>2 DEF GainExp
  <2>2. amount \in Nat
    BY PersistenceAssumption
  <2>3. QED BY <1>1, <2>1, <2>2, GainedIsLegal
<1>3. CASE Die(s)
  BY <1>1, <1>3, HalvedIsRow DEF Die
<1>4. QED BY <1>2, <1>3

LEMMA Posts ==
  ASSUME TypeOK, NEW r \in Rows, NEW kind \in {"save", "lastLogin"}
  PROVE  /\ Posted(kind, r) \in Seq([kind : {"save", "lastLogin"}, row : Rows, late : BOOLEAN])
         /\ Posted(kind, r) # <<>> /\ Len(Posted(kind, r)) = Len(saveQueue) + 1
         /\ Posted(kind, r)[Len(saveQueue) + 1] = [kind |-> kind, row |-> r, late |-> ~running]
         /\ \A i \in 1 .. Len(saveQueue) : Posted(kind, r)[i] = saveQueue[i]
         /\ \A i \in 1 .. Len(saveQueue) + 1 : i \in 1 .. Len(saveQueue) \/ i = Len(saveQueue) + 1
         /\ Len(saveQueue) \in Nat
<1> DEFINE T == [kind : {"save", "lastLogin"}, row : Rows, late : BOOLEAN]
<1>1. saveQueue \in Seq(T) /\ running \in BOOLEAN
  BY DEF TypeOK
<1> DEFINE e == [kind |-> kind, row |-> r, late |-> ~running]
<1>2. e \in T
  BY <1>1
<1> HIDE DEF e, T
<1>3. Posted(kind, r) = Append(saveQueue, e)
  BY DEF Posted, e
<1>4. Len(saveQueue) \in Nat
  BY <1>1
<1>5. \A i \in 1 .. Len(saveQueue) + 1 : i \in 1 .. Len(saveQueue) \/ i = Len(saveQueue) + 1
  BY <1>4
<1>6. /\ Posted(kind, r) \in Seq(T) /\ Posted(kind, r) # <<>>
      /\ Len(Posted(kind, r)) = Len(saveQueue) + 1 /\ Posted(kind, r)[Len(saveQueue) + 1] = e
      /\ \A i \in 1 .. Len(saveQueue) : Posted(kind, r)[i] = saveQueue[i]
  BY <1>1, <1>2, <1>3
<1>7. QED BY <1>4, <1>5, <1>6 DEF e, T

(* UpdateLastLogin leaves the last save where it is.                       *)
LEMMA PostsFinal ==
  ASSUME TypeOK, NEW r \in Rows, NEW kind \in {"save", "lastLogin"}, saveQueue' = Posted(kind, r),
         UNCHANGED <<row, latest>>,
         \/ kind = "lastLogin" /\ Final(latest)
         \/ kind = "save" /\ r = latest
  PROVE  Final(latest)'
<1> DEFINE n == Len(saveQueue) + 1
<1>1. /\ n \in Nat /\ Len(saveQueue') = n
      /\ saveQueue'[n].kind = kind /\ saveQueue'[n].row = r
      /\ \A i \in 1 .. Len(saveQueue) : saveQueue'[i] = saveQueue[i] /\ i < n
      /\ \A i \in 1 .. n : i \in 1 .. Len(saveQueue) \/ i = n
  <2>1. saveQueue'[n] = [kind |-> kind, row |-> r, late |-> ~running]
    BY Posts
  <2>2. saveQueue'[n].kind = kind /\ saveQueue'[n].row = r
    BY <2>1
  <2>3. /\ Len(Posted(kind, r)) = n /\ Len(saveQueue) \in Nat
        /\ \A i \in 1 .. Len(saveQueue) : Posted(kind, r)[i] = saveQueue[i]
        /\ \A i \in 1 .. n : i \in 1 .. Len(saveQueue) \/ i = n
    BY ONLY TypeOK, r \in Rows, kind \in {"save", "lastLogin"}, Posts
  <2>4. n \in Nat /\ \A i \in 1 .. Len(saveQueue) : i < n
    BY ONLY <2>3
  <2>5. Len(saveQueue') = n /\ \A i \in 1 .. Len(saveQueue) : saveQueue'[i] = saveQueue[i]
    BY ONLY <2>3, saveQueue' = Posted(kind, r)
  <2>6. QED BY ONLY <2>2, <2>3, <2>4, <2>5
<1>2. \A i : i \in ToSave' <=> i \in ToSave \/ (i = n /\ kind = "save")
  BY <1>1 DEF ToSave
<1>3. \A i \in ToSave : saveQueue'[i] = saveQueue[i] /\ i < n /\ i \in Nat
  BY <1>1 DEF ToSave
<1> HIDE DEF n
<1>4. CASE kind = "lastLogin" /\ Final(latest)
  <2>1. ToSave' = ToSave
    BY <1>2, <1>4
  <2>2. QED BY <1>3, <1>4, <2>1 DEF Final
<1>5. CASE kind = "save" /\ r = latest
  <2>1. n \in ToSave' /\ saveQueue'[n].row = latest'
    BY <1>1, <1>2, <1>5
  <2>2. ASSUME NEW i \in ToSave', \A j \in ToSave' : j <= i PROVE i = n
    BY <1>1, <1>2, <1>3, <2>1, <2>2
  <2>3. QED BY <2>1, <2>2 DEF Final
<1>6. QED BY <1>4, <1>5

LEMMA Takes ==
  ASSUME TypeOK, saveQueue # <<>>
  PROVE  /\ Head(saveQueue) = saveQueue[1] /\ Head(saveQueue).row \in Rows
         /\ Head(saveQueue).kind \in {"save", "lastLogin"}
         /\ Tail(saveQueue) \in Seq([kind : {"save", "lastLogin"}, row : Rows, late : BOOLEAN])
         /\ Len(Tail(saveQueue)) = Len(saveQueue) - 1 /\ Len(saveQueue) \in Nat \ {0}
         /\ \A i \in 1 .. Len(saveQueue) - 1 : Tail(saveQueue)[i] = saveQueue[i + 1]
<1> DEFINE R == [kind : {"save", "lastLogin"}, row : Rows, late : BOOLEAN]
<1>1. saveQueue \in Seq(R)
  BY DEF TypeOK
<1>2. \A e \in R : e.row \in Rows /\ e.kind \in {"save", "lastLogin"}
  OBVIOUS
<1> HIDE DEF R
<1>3. Len(saveQueue) \in Nat \ {0} /\ Head(saveQueue) = saveQueue[1] /\ saveQueue[1] \in R
  BY <1>1
<1>4. /\ Tail(saveQueue) \in Seq(R) /\ Len(Tail(saveQueue)) = Len(saveQueue) - 1
      /\ \A i \in 1 .. Len(saveQueue) - 1 : Tail(saveQueue)[i] = saveQueue[i + 1]
  BY <1>1, <1>3
<1>5. QED BY <1>2, <1>3, <1>4 DEF R

LEMMA TakesFinal ==
  ASSUME TypeOK, saveQueue # <<>>, saveQueue' = Tail(saveQueue), latest' = latest, Final(latest),
         row' = IF Head(saveQueue).kind = "save" THEN Head(saveQueue).row ELSE row
  PROVE  Final(latest)'
<1> DEFINE n == Len(saveQueue)
<1>1. /\ n \in Nat \ {0} /\ Len(saveQueue') = n - 1 /\ Head(saveQueue) = saveQueue[1]
      /\ \A i \in 1 .. n - 1 : saveQueue'[i] = saveQueue[i + 1]
  BY Takes
<1>2. \A i \in Int : i \in ToSave' <=> i >= 1 /\ i + 1 \in ToSave
  BY <1>1 DEF ToSave
<1>3. ToSave \subseteq 1 .. n /\ ToSave' \subseteq 1 .. n - 1
      /\ (1 \in ToSave <=> saveQueue[1].kind = "save")
  BY <1>1 DEF ToSave
<1> HIDE DEF n
<1>4. ASSUME ToSave' = {} PROVE row' = latest
  <2>1. \A i \in ToSave : i = 1
    <3>1. ASSUME NEW i \in ToSave, i # 1 PROVE FALSE
      <4>1. i - 1 \in Int /\ i - 1 >= 1 /\ (i - 1) + 1 = i
        BY <1>1, <1>3, <3>1
      <4>2. QED BY <1>2, <1>4, <3>1, <4>1
    <3>2. QED BY <3>1
  <2>2. CASE 1 \in ToSave
    <3>1. \A j \in ToSave : j <= 1
      BY <2>1
    <3>2. saveQueue[1].row = latest
      BY <2>2, <3>1 DEF Final
    <3>3. QED BY <1>1, <1>3, <2>2, <3>2
  <2>3. CASE 1 \notin ToSave
    <3>1. ToSave = {}
      BY <2>1, <2>3
    <3>2. QED BY <1>1, <1>3, <2>3, <3>1 DEF Final
  <2>4. QED BY <2>2, <2>3
<1>5. ASSUME NEW i \in ToSave', \A j \in ToSave' : j <= i PROVE saveQueue'[i].row = latest
  <2>1. i \in 1 .. n - 1 /\ i \in Int /\ i + 1 \in ToSave /\ saveQueue'[i] = saveQueue[i + 1]
    BY <1>1, <1>2, <1>3
  <2>2. ASSUME NEW j \in ToSave PROVE j <= i + 1
    <3>1. CASE j = 1
      BY <2>1, <3>1
    <3>2. CASE j # 1
      <4>1. j - 1 \in Int /\ j - 1 >= 1 /\ (j - 1) + 1 = j
        BY <1>1, <1>3, <3>2
      <4>2. j - 1 \in ToSave'
        BY <1>2, <4>1
      <4>3. QED BY <1>5, <2>1, <4>1, <4>2
    <3>3. QED BY <3>1, <3>2
  <2>3. QED BY <2>1, <2>2 DEF Final
<1>6. QED BY <1>4, <1>5 DEF Final

-----------------------------------------------------------------------------
(* One lemma per conjunct of the invariant *)

LEMMA TypeStep == TypeOK /\ OfInv /\ Next => TypeOK'
<1> SUFFICES ASSUME TypeOK, OfInv, Next PROVE TypeOK'
  OBVIOUS
<1> USE DEF TypeOK, Goto, GotoV
<1>1. First \in Rows
  BY PersistenceAssumption
<1>2. ASSUME NEW s \in Sessions, SessionStep(s) PROVE TypeOK'
  <2>1. mem[s] \in Rows /\ copy[s] \in Rows
    OBVIOUS
  <2>2. CASE ProcessLogin(s)
    BY <2>2 DEF ProcessLogin
  <2>3. CASE LoadPlayerByName(s)
    BY <2>3 DEF LoadPlayerByName
  <2>4. CASE LoadFails(s)
    BY <2>4 DEF LoadFails
  <2>5. CASE OnLoginDBLoaded(s)
    BY <1>1, <2>1, <2>5 DEF OnLoginDBLoaded, Record, Pending
  <2>6. CASE DuplicateLogin(s)
    BY <1>1, <2>6 DEF DuplicateLogin
  <2>7. ASSUME NEW r \in Rows, Changes(s, r) PROVE TypeOK'
    BY <1>1, <2>7, PersistenceAssumption DEF Changes, Record, HalfRead
  <2>8. CASE SnapshotLevel(s)
    BY <2>1, <2>8 DEF SnapshotLevel
  <2>9. CASE SnapshotExp(s)
    BY <2>1, <2>9, MixedIsRow DEF SnapshotExp
  <2>10. CASE RemovePlayer(s)
    BY <1>1, <2>10 DEF RemovePlayer
  <2>11. CASE ReleaseDbId(s)
    BY <2>11 DEF ReleaseDbId
  <2>12. CASE PostSaveTask(s)
    BY <1>1, <2>1, <2>12, Posts DEF PostSaveTask
  <2>13. CASE SpawnFull(s)
    BY <1>1, <2>13 DEF SpawnFull
  <2>14. CASE PostUpdateLastLogin(s)
    BY <1>1, <2>14, Posts DEF PostUpdateLastLogin
  <2>15. QED BY <1>2, <2>13, <2>14, <2>2, <2>3, <2>4, <2>5, <2>6, <2>7, <2>8, <2>9, <2>10, <2>11, <2>12,
               PlayIsRow DEF SessionStep
<1>3. ASSUME NEW v \in Savers, SaveAllPlayers(v) PROVE TypeOK'
  BY <1>3, PersistenceAssumption DEF SaveAllPlayers, Savers
<1>4. ASSUME NEW v \in Savers, SaverStep(v) PROVE TypeOK'
  <2>1. snap[v] \in Rows /\ spc[v] \in {"level", "exp", "post"} /\ mem[of[v]] \in Rows
    BY <1>4 DEF OfInv, SaverStep, SnapLevel, SnapExp, PostSnapshot
  <2>2. CASE SnapLevel(v)
    BY <2>1, <2>2 DEF SnapLevel
  <2>3. CASE SnapExp(v)
    BY <2>1, <2>3, MixedIsRow DEF SnapExp
  <2>4. CASE PostSnapshot(v)
    BY <1>1, <2>1, <2>4, Posts DEF PostSnapshot, Record
  <2>5. QED BY <1>4, <2>2, <2>3, <2>4 DEF SaverStep
<1>5. CASE SaveThread
  <2>1. CASE SavePlayer
    BY <2>1, Takes DEF SavePlayer, NextTask
  <2>2. CASE SaveFails
    BY <1>1, <2>2, Takes DEF SaveFails, Record, NextTask
  <2>3. CASE UpdateLastLogin
    BY <2>3, Takes DEF UpdateLastLogin, NextTask
  <2>4. CASE SaveThreadReturns
    BY <2>4 DEF SaveThreadReturns
  <2>5. QED BY <1>5, <2>1, <2>2, <2>3, <2>4 DEF SaveThread
<1>6. CASE Shutdown \/ LoginThreadReturns
  BY <1>6 DEF Shutdown, LoginThreadReturns
<1>7. QED BY <1>2, <1>3, <1>4, <1>5, <1>6 DEF Next

LEMMA OfStep == TypeOK /\ OfInv /\ Next => OfInv'
<1> SUFFICES ASSUME TypeOK, OfInv, Next PROVE OfInv'
  OBVIOUS
<1> USE DEF TypeOK, OfInv, GotoV
<1>1. ASSUME NEW s \in Sessions, SessionStep(s) PROVE OfInv'
  BY <1>1 DEF SessionStep, ProcessLogin, LoadPlayerByName, LoadFails, OnLoginDBLoaded,
              DuplicateLogin, SpawnFull, PostUpdateLastLogin, GainExp, Die, Changes, SnapshotLevel, SnapshotExp, RemovePlayer,
              ReleaseDbId, PostSaveTask
<1>2. ASSUME NEW v \in Savers, SaveAllPlayers(v) PROVE OfInv'
  BY <1>2 DEF SaveAllPlayers
<1>3. ASSUME NEW v \in Savers, SaverStep(v) PROVE OfInv'
  BY <1>3 DEF SaverStep, SnapLevel, SnapExp, PostSnapshot
<1>4. CASE SaveThread \/ LoginThreadReturns \/ Shutdown
  BY <1>4 DEF SaveThread, SavePlayer, SaveFails, UpdateLastLogin, NextTask,
         SaveThreadReturns, LoginThreadReturns, Shutdown
<1>5. QED BY <1>1, <1>2, <1>3, <1>4 DEF Next

LEMMA HoldStep == TypeOK /\ HoldInv /\ Next => HoldInv'
<1> SUFFICES ASSUME TypeOK, HoldInv, Next PROVE HoldInv'
  OBVIOUS
<1> USE DEF TypeOK, HoldInv, Holds, Goto
<1>1. ASSUME NEW s \in Sessions, SessionStep(s) PROVE HoldInv'
  <2>1. CASE ProcessLogin(s) \/ LoadPlayerByName(s) \/ LoadFails(s) \/ DuplicateLogin(s)
          \/ SpawnFull(s) \/ PostUpdateLastLogin(s)
    BY <2>1 DEF ProcessLogin, LoadPlayerByName, LoadFails, DuplicateLogin, SpawnFull,
                PostUpdateLastLogin
  <2>2. CASE OnLoginDBLoaded(s)
    BY <2>2 DEF OnLoginDBLoaded
  <2>3. CASE GainExp(s) \/ Die(s)
    BY <2>3 DEF GainExp, Die, Changes
  <2>4. CASE SnapshotLevel(s) \/ SnapshotExp(s) \/ RemovePlayer(s) \/ PostSaveTask(s)
    BY <2>4 DEF SnapshotLevel, SnapshotExp, RemovePlayer, PostSaveTask
  <2>5. CASE ReleaseDbId(s)
    BY <2>5 DEF ReleaseDbId
  <2>6. QED BY <1>1, <2>1, <2>2, <2>3, <2>4, <2>5 DEF SessionStep
<1>2. ASSUME UNCHANGED <<pc, claimed>> PROVE HoldInv'
  BY <1>2
<1>3. QED BY <1>1, <1>2 DEF Next, SaveAllPlayers, SaverStep, SnapLevel, SnapExp, PostSnapshot,
                            SaveThread, SavePlayer, SaveFails, UpdateLastLogin, NextTask,
         SaveThreadReturns, LoginThreadReturns, Shutdown

LEMMA FirstIsLegal == First \in Rows /\ Legal(First)
BY PersistenceAssumption

LEMMA DrainStep == TypeOK /\ OfInv /\ DrainInv /\ Next => DrainInv'
<1> SUFFICES ASSUME TypeOK, OfInv, DrainInv, Next PROVE DrainInv'
  OBVIOUS
<1> USE DEF DrainInv, DrainedWhenReturned
<1>1. ASSUME NEW r \in Rows, NEW kind \in {"save", "lastLogin"}, saveQueue' = Posted(kind, r),
             UNCHANGED <<running, saver>>
      PROVE  DrainInv'
  <2>1. SUFFICES ASSUME saver = "returned", NEW i \in 1 .. Len(saveQueue) + 1
                 PROVE  Posted(kind, r)[i].late
    BY <1>1, Posts
  <2>2. CASE i \in 1 .. Len(saveQueue)
    BY <2>1, <2>2, Posts
  <2>3. CASE i = Len(saveQueue) + 1
    <3>1. ~running /\ Posted(kind, r)[i] = [kind |-> kind, row |-> r, late |-> ~running]
      BY <2>1, <2>3, Posts
    <3>2. Posted(kind, r)[i].late = ~running
      BY <3>1
    <3>3. QED BY <3>1, <3>2
  <2>4. QED BY <2>1, <2>2, <2>3, Posts
<1>2. ASSUME UNCHANGED <<saveQueue, running, saver>> PROVE DrainInv'
  BY <1>2
<1>3. ASSUME NEW s \in Sessions, SessionStep(s) PROVE DrainInv'
  <2>1. copy[s] \in Rows
    BY DEF TypeOK
  <2>2. CASE PostSaveTask(s)
    BY <1>1, <2>1, <2>2 DEF PostSaveTask
  <2>5. CASE PostUpdateLastLogin(s)
    BY <1>1, <1>2, <2>5, FirstIsLegal DEF PostUpdateLastLogin
  <2>3. CASE ~PostSaveTask(s) /\ ~PostUpdateLastLogin(s)
    BY <1>2, <1>3, <2>3 DEF SessionStep, ProcessLogin, LoadPlayerByName, LoadFails,
          OnLoginDBLoaded, DuplicateLogin, SpawnFull, GainExp, Die, Changes, SnapshotLevel, SnapshotExp,
          RemovePlayer, ReleaseDbId
  <2>4. QED BY <2>2, <2>3, <2>5
<1>4. ASSUME NEW v \in Savers, PostSnapshot(v) PROVE DrainInv'
  BY <1>1, <1>4 DEF PostSnapshot, TypeOK
<1>5. CASE SaveThread
  <2>1. CASE SavePlayer \/ SaveFails \/ UpdateLastLogin
    BY <2>1 DEF SavePlayer, SaveFails, UpdateLastLogin, NextTask
  <2>2. CASE SaveThreadReturns
    BY <2>2 DEF SaveThreadReturns
  <2>3. QED BY <1>5, <2>1, <2>2 DEF SaveThread
<1>6. CASE Shutdown \/ LoginThreadReturns
  BY <1>6 DEF Shutdown, LoginThreadReturns
<1>7. QED BY <1>2, <1>3, <1>4, <1>5, <1>6 DEF Next, SaveAllPlayers, SaverStep, SnapLevel, SnapExp

LEMMA LegalStep == TypeOK /\ OfInv /\ LegalInv /\ Next => LegalInv'
<1> SUFFICES ASSUME TypeOK, OfInv, LegalInv, Next, ~torn' PROVE LegalInv'
  BY DEF LegalInv
<1> USE DEF Goto, GotoV
<1>1. ~torn
  BY DEF Next, SessionStep, ProcessLogin, LoadPlayerByName, LoadFails, OnLoginDBLoaded,
         DuplicateLogin, SpawnFull, PostUpdateLastLogin, GainExp, Die, Changes, SnapshotLevel, SnapshotExp, RemovePlayer,
         ReleaseDbId, PostSaveTask, SaveAllPlayers, SaverStep, SnapLevel, SnapExp,
         PostSnapshot, SaveThread, SavePlayer, SaveFails, UpdateLastLogin, NextTask,
         SaveThreadReturns, LoginThreadReturns, Shutdown
<1>2. /\ Legal(row) /\ \A s \in Sessions : Legal(mem[s]) /\ mem[s] \in Rows /\ copy[s] \in Rows
      /\ \A s \in Sessions : pc[s] = "snapLevel" => copy[s].level = mem[s].level
      /\ \A s \in Sessions : pc[s] # "snapLevel" => Legal(copy[s])
      /\ \A v \in Savers : spc[v] = "exp" => snap[v].level = mem[of[v]].level
      /\ \A v \in Savers : spc[v] # "exp" => Legal(snap[v])
      /\ \A i \in 1 .. Len(saveQueue) : Legal(saveQueue[i].row)
  BY <1>1 DEF LegalInv, TypeOK
<1>3. ASSUME NEW r \in Rows, Legal(r), NEW kind \in {"save", "lastLogin"},
             saveQueue' = Posted(kind, r)
      PROVE  \A i \in 1 .. Len(saveQueue') : Legal(saveQueue'[i].row)
  <2>1. Posted(kind, r)[Len(saveQueue) + 1].row = r
    <3>1. Posted(kind, r)[Len(saveQueue) + 1] = [kind |-> kind, row |-> r, late |-> ~running]
      BY Posts
    <3>2. QED BY <3>1
  <2>2. /\ Len(saveQueue') = Len(saveQueue) + 1
        /\ \A i \in 1 .. Len(saveQueue) : saveQueue'[i] = saveQueue[i]
        /\ \A i \in 1 .. Len(saveQueue) + 1 : i \in 1 .. Len(saveQueue) \/ i = Len(saveQueue) + 1
    BY <1>3, Posts
  <2>3. saveQueue'[Len(saveQueue) + 1].row = r
    BY <1>3, <2>1
  <2>4. QED BY <1>2, <1>3, <2>2, <2>3
<1>4. ASSUME NEW s \in Sessions, SessionStep(s) PROVE LegalInv'
  <2> USE DEF LegalInv, TypeOK
  <2>1. CASE ProcessLogin(s) \/ LoadFails(s) \/ ReleaseDbId(s)
    BY <1>2, <2>1 DEF ProcessLogin, LoadFails, ReleaseDbId
  <2>2. CASE LoadPlayerByName(s)
    BY <1>2, <2>2 DEF LoadPlayerByName
  <2>3. CASE OnLoginDBLoaded(s)
    BY <1>2, <2>3, FirstIsLegal DEF OnLoginDBLoaded, Locked
  <2>4. CASE DuplicateLogin(s) \/ SpawnFull(s)
    BY <1>2, <2>4, FirstIsLegal DEF DuplicateLogin, SpawnFull
  <2>5. ASSUME NEW r \in Rows, Changes(s, r), Legal(r) PROVE LegalInv'
    <3>1. HalfRead(s) => r.level = mem[s].level
      BY <2>5 DEF Changes
    <3>2. \A t \in Sessions : Legal(mem'[t])
      BY <1>2, <2>5 DEF Changes
    <3>3. \A t \in Sessions : pc[t] = "snapLevel" => copy[t].level = mem'[t].level
      BY <1>2, <2>5, <3>1 DEF Changes, HalfRead
    <3>4. \A v \in Savers : spc[v] = "exp" => snap[v].level = mem'[of[v]].level
      BY <1>2, <2>5, <3>1 DEF Changes, HalfRead, OfInv
    <3>5. QED BY <1>2, <2>5, <3>2, <3>3, <3>4 DEF Changes
  <2>6. CASE SnapshotLevel(s)
    BY <1>2, <2>6 DEF SnapshotLevel
  <2>7. CASE SnapshotExp(s)
    <3>1. [copy[s] EXCEPT !.exp = mem[s].exp] = mem[s]
      BY <1>2, <2>7, MixedIsRow DEF SnapshotExp
    <3>2. copy' = [copy EXCEPT ![s] = [copy[s] EXCEPT !.exp = mem[s].exp]]
      BY <2>7 DEF SnapshotExp
    <3>3. QED BY <1>2, <2>7, <3>1, <3>2 DEF SnapshotExp
  <2>8. CASE RemovePlayer(s)
    BY <1>2, <2>8, FirstIsLegal DEF RemovePlayer, Locked
  <2>9. CASE PostSaveTask(s)
    <3>1. Legal(copy[s]) /\ saveQueue' = Posted("save", copy[s])
      BY <1>2, <2>9 DEF PostSaveTask
    <3>2. \A i \in 1 .. Len(saveQueue') : Legal(saveQueue'[i].row)
      BY <1>2, <1>3, <3>1
    <3>3. QED BY <1>2, <2>9, <3>2, FirstIsLegal DEF PostSaveTask
  <2>10. CASE PostUpdateLastLogin(s)
    <3>1. \A i \in 1 .. Len(saveQueue') : Legal(saveQueue'[i].row)
      BY <1>2, <1>3, <2>10, FirstIsLegal DEF PostUpdateLastLogin
    <3>2. QED BY <1>2, <2>10, <3>1 DEF PostUpdateLastLogin
  <2>11. QED BY <1>2, <1>4, <2>10, <2>1, <2>2, <2>3, <2>4, <2>5, <2>6, <2>7, <2>8, <2>9, PlayIsRow
             DEF SessionStep
<1>5. ASSUME NEW v \in Savers, SaveAllPlayers(v) PROVE LegalInv'
  BY <1>2, <1>5 DEF SaveAllPlayers, LegalInv, TypeOK
<1>6. ASSUME NEW v \in Savers, SaverStep(v) PROVE LegalInv'
  <2> USE DEF LegalInv, TypeOK
  <2>1. snap[v] \in Rows /\ mem[of[v]] \in Rows /\ Legal(mem[of[v]])
    BY <1>2, <1>6 DEF SaverStep, SnapLevel, SnapExp, PostSnapshot, OfInv
  <2>2. CASE SnapLevel(v)
    BY <1>2, <2>1, <2>2 DEF SnapLevel
  <2>3. CASE SnapExp(v)
    <3>1. [snap[v] EXCEPT !.exp = mem[of[v]].exp] = mem[of[v]]
      <4>1. snap[v].level = mem[of[v]].level
        BY <1>2, <2>3 DEF SnapExp
      <4>2. QED BY ONLY <2>1, <4>1, MixedIsRow
    <3>2. snap' = [snap EXCEPT ![v] = [snap[v] EXCEPT !.exp = mem[of[v]].exp]]
      BY <2>3 DEF SnapExp
    <3>3. QED BY <1>2, <2>1, <2>3, <3>1, <3>2 DEF SnapExp
  <2>4. CASE PostSnapshot(v)
    <3>1. Legal(snap[v]) /\ saveQueue' = Posted("save", snap[v])
      BY <1>2, <2>4 DEF PostSnapshot
    <3>2. \A i \in 1 .. Len(saveQueue') : Legal(saveQueue'[i].row)
      BY <1>3, <2>1, <3>1
    <3>3. QED BY <1>2, <2>4, <3>2, FirstIsLegal DEF PostSnapshot
  <2>5. QED BY <1>6, <2>2, <2>3, <2>4 DEF SaverStep
<1>7. CASE SaveThread
  <2>1. CASE SavePlayer \/ SaveFails \/ UpdateLastLogin
    <3>1. /\ saveQueue # <<>> /\ saveQueue' = Tail(saveQueue)
          /\ row' = row \/ row' = Head(saveQueue).row
          /\ UNCHANGED <<mem, pc, copy, spc, snap, of>>
      BY <2>1 DEF SavePlayer, SaveFails, UpdateLastLogin, NextTask
    <3>2. Legal(row')
      BY <1>2, <3>1, Takes
    <3>3. \A i \in 1 .. Len(saveQueue') : Legal(saveQueue'[i].row)
      <4>1. \A i \in 1 .. Len(saveQueue) - 1 : i + 1 \in 1 .. Len(saveQueue)
        BY <3>1, Takes
      <4>2. QED BY <1>2, <3>1, <4>1, Takes
    <3>4. QED BY <1>2, <3>1, <3>2, <3>3 DEF LegalInv
  <2>2. CASE SaveThreadReturns
    BY <1>2, <2>2 DEF SaveThreadReturns, LegalInv
  <2>3. QED BY <1>7, <2>1, <2>2 DEF SaveThread
<1>8. CASE Shutdown \/ LoginThreadReturns
  BY <1>2, <1>8 DEF Shutdown, LoginThreadReturns, LegalInv
<1>9. QED BY <1>4, <1>5, <1>6, <1>7, <1>8 DEF Next

LEMMA Recorded ==
  ASSUME NEW r, NEW bad \in BOOLEAN, Record(r, bad), ~raced'
  PROVE  ~raced /\ ~bad /\ latest' = r
BY DEF Record

LEMMA LatestStep == TypeOK /\ HoldInv /\ OfInv /\ LatestInv /\ Next => LatestInv'
<1> SUFFICES ASSUME TypeOK, HoldInv, OfInv, LatestInv, Next, ~raced' PROVE LatestInv'
  BY DEF LatestInv
<1> USE DEF Goto, GotoV, Active, Holds
<1>1. ~raced
  BY DEF Next, SessionStep, ProcessLogin, LoadPlayerByName, LoadFails, OnLoginDBLoaded,
         DuplicateLogin, SpawnFull, PostUpdateLastLogin, GainExp, Die, Changes, SnapshotLevel, SnapshotExp, RemovePlayer,
         ReleaseDbId, PostSaveTask, SaveAllPlayers, SaverStep, SnapLevel, SnapExp,
         PostSnapshot, SaveThread, SavePlayer, SaveFails, UpdateLastLogin, NextTask,
         SaveThreadReturns, LoginThreadReturns, Shutdown, Record
<1>2. /\ \A s, t \in Sessions : Active(s) /\ Active(t) => s = t
      /\ \A s \in Sessions : pc[s] \in {"in", "snapLevel"} => mem[s] = latest
      /\ \A s \in Sessions : Active(s) /\ pc[s] # "in" => copy[s] = latest
      /\ (\A s \in Sessions : ~Active(s)) => Final(latest)
  BY <1>1 DEF LatestInv
<1>3. ASSUME NEW s \in Sessions, SessionStep(s) PROVE LatestInv'
  <2> USE DEF LatestInv, TypeOK
  <2>0. UNCHANGED <<row, saveQueue, latest>> => (Final(latest)' <=> Final(latest))
    BY DEF Final, ToSave
  <2>1. CASE ProcessLogin(s) \/ LoadPlayerByName(s) \/ LoadFails(s) \/ DuplicateLogin(s)
          \/ SpawnFull(s)
    BY <1>2, <2>0, <2>1 DEF ProcessLogin, LoadPlayerByName, LoadFails, DuplicateLogin, SpawnFull
  <2>2. CASE OnLoginDBLoaded(s)
    <3>1. ~Pending /\ latest' = copy[s]
      BY <2>2, Recorded DEF OnLoginDBLoaded, Pending
    <3>2. \A t \in Sessions : ~Active(t)
      BY <2>2, <3>1 DEF OnLoginDBLoaded, Pending, HoldInv
    <3>3. QED BY <1>2, <2>2, <3>1, <3>2 DEF OnLoginDBLoaded
  <2>3. ASSUME NEW r \in Rows, Changes(s, r) PROVE LatestInv'
    <3>1. pc[s] = "in" /\ latest' = r
      BY <2>3, Recorded DEF Changes
    <3>2. QED BY <1>2, <2>3, <3>1 DEF Changes
  <2>4. CASE SnapshotLevel(s)
    BY <1>2, <2>4 DEF SnapshotLevel
  <2>5. CASE SnapshotExp(s)
    <3>1. mem[s] = latest /\ copy[s] = latest /\ latest \in Rows
      BY <1>2, <2>5 DEF SnapshotExp
    <3>2. [copy[s] EXCEPT !.exp = mem[s].exp] = latest
      BY ONLY <3>1, MixedIsRow
    <3>3. copy' = [copy EXCEPT ![s] = [copy[s] EXCEPT !.exp = mem[s].exp]]
      BY <2>5 DEF SnapshotExp
    <3>4. QED BY <1>2, <2>5, <3>2, <3>3 DEF SnapshotExp
  <2>6. CASE RemovePlayer(s) \/ ReleaseDbId(s)
    BY <1>2, <2>6 DEF RemovePlayer, ReleaseDbId
  <2>7. CASE PostSaveTask(s)
    <3>1. copy[s] = latest /\ copy[s] \in Rows /\ saveQueue' = Posted("save", copy[s])
      BY <1>2, <2>7 DEF PostSaveTask
    <3>2. Final(latest)'
      BY <2>7, <3>1, PostsFinal DEF PostSaveTask
    <3>3. QED BY <1>2, <2>7, <3>2 DEF PostSaveTask
  <2>8. CASE PostUpdateLastLogin(s)
    <3>1. (\A t \in Sessions : ~Active(t)) => Final(latest)'
      <4>1. CASE UNCHANGED saveQueue
        BY <1>2, <2>0, <2>8, <4>1 DEF PostUpdateLastLogin
      <4>2. CASE saveQueue' = Posted("lastLogin", First)
        BY <1>2, <2>8, <4>2, PostsFinal, FirstIsLegal DEF PostUpdateLastLogin
      <4>3. QED BY <2>8, <4>1, <4>2 DEF PostUpdateLastLogin
    <3>2. QED BY <1>2, <2>8, <3>1 DEF PostUpdateLastLogin
  <2>9. QED BY <1>3, <2>1, <2>2, <2>3, <2>4, <2>5, <2>6, <2>7, <2>8, PlayIsRow DEF SessionStep
<1>4. ASSUME UNCHANGED <<row, mem, pc, copy, saveQueue, latest>> PROVE LatestInv'
  BY <1>2, <1>4 DEF LatestInv, Final, ToSave
<1>5. ASSUME NEW v \in Savers, PostSnapshot(v) PROVE LatestInv'
  <2>1. pc[of[v]] = "in" /\ latest' = latest /\ of[v] \in Sessions
    BY <1>5, Recorded DEF PostSnapshot, OfInv
  <2>2. QED BY <1>2, <1>5, <2>1 DEF PostSnapshot, LatestInv
<1>6. CASE SaveThread
  <2>1. CASE SavePlayer \/ UpdateLastLogin
    <3>1. /\ saveQueue # <<>> /\ saveQueue' = Tail(saveQueue) /\ latest' = latest
          /\ row' = IF Head(saveQueue).kind = "save" THEN Head(saveQueue).row ELSE row
          /\ UNCHANGED <<mem, pc, copy>>
      BY <2>1 DEF SavePlayer, UpdateLastLogin, NextTask
    <3>2. Final(latest) => Final(latest)'
      BY <3>1, TakesFinal
    <3>3. QED BY <1>2, <3>1, <3>2 DEF LatestInv
  <2>2. CASE SaveFails
    BY <2>2, Recorded DEF SaveFails
  <2>3. CASE SaveThreadReturns
    BY <1>4, <2>3 DEF SaveThreadReturns
  <2>4. QED BY <1>6, <2>1, <2>2, <2>3 DEF SaveThread
<1>7. QED BY <1>3, <1>4, <1>5, <1>6 DEF Next, SaveAllPlayers, SaverStep, SnapLevel, SnapExp, Shutdown,
                                        LoginThreadReturns

-----------------------------------------------------------------------------
LEMMA SaveInvInit == Init => SaveInv
<1> SUFFICES ASSUME Init PROVE SaveInv
  OBVIOUS
<1> USE PersistenceAssumption DEF Init
<1>1. <<>> \in Seq([kind : {"save", "lastLogin"}, row : Rows, late : BOOLEAN]) /\ Len(<<>>) = 0
  OBVIOUS
<1>2. TypeOK
  <2>1. saveQueue \in Seq([kind : {"save", "lastLogin"}, row : Rows, late : BOOLEAN])
    BY <1>1
  <2>2. saves \in 0 .. MaxSaves /\ changes \in 0 .. MaxChanges
    OBVIOUS
  <2>3. of \in [Savers -> Sessions \cup {Nobody}]
    OBVIOUS
  <2>4. First \in Rows
    OBVIOUS
  <2>5. QED BY ONLY Init, <2>1, <2>2, <2>3, <2>4 DEF TypeOK
<1>3. HoldInv /\ OfInv /\ DrainInv
  BY <1>1 DEF HoldInv, Holds, OfInv, DrainInv, DrainedWhenReturned
<1>4. LegalInv
  BY <1>1 DEF LegalInv
<1>5. LatestInv
  BY <1>1 DEF LatestInv, Active, Holds, Final, ToSave
<1>6. QED BY <1>2, <1>3, <1>4, <1>5 DEF SaveInv

LEMMA SaveInvStep == SaveInv /\ [Next]_vars => SaveInv'
<1>1. SaveInv /\ Next => SaveInv'
  BY TypeStep, HoldStep, OfStep, LegalStep, DrainStep, LatestStep DEF SaveInv
<1>2. SaveInv /\ UNCHANGED vars => SaveInv'
  BY DEF vars, SaveInv, TypeOK, HoldInv, Holds, OfInv, LegalInv, DrainInv,
         DrainedWhenReturned, LatestInv, Active, Final, ToSave
<1>3. QED BY <1>1, <1>2

LEMMA SaveInvAlways == Spec => []SaveInv
BY SaveInvInit, SaveInvStep, PTL DEF Spec

(* The progress a character left with is what its next login finds: over   *)
(* any number of its sessions and autosaves, without the overlaps that     *)
(* raced names, nothing that is saved later is older.                      *)
THEOREM SavedUnlessRacedAlways == Spec => []SavedUnlessRaced
<1>1. SaveInv => SavedUnlessRaced
  <2> SUFFICES ASSUME SaveInv, Settled, ~raced PROVE row = latest
    BY DEF SavedUnlessRaced
  <2>1. ToSave = {} /\ \A s \in Sessions : ~Active(s)
    BY DEF Settled, Pending, InWorld, Active, Holds, ToSave
  <2>2. QED BY <2>1 DEF SaveInv, LatestInv, Final
<1>2. QED BY SaveInvAlways, <1>1, PTL

(* DBManager::Shutdown drains the save queue: what was posted before it    *)
(* has been executed when the save thread returns.                         *)
THEOREM DrainedWhenReturnedAlways == Spec => []DrainedWhenReturned
<1>1. SaveInv => DrainedWhenReturned
  BY DEF SaveInv, DrainInv, DrainedWhenReturned
<1>2. QED BY SaveInvAlways, <1>1, PTL

(* Whatever rewards and deaths, autosaves and logouts, the row has a level *)
(* and less experience than its next one takes, unless a snapshot has read *)
(* the level before and the experience after a level-up.                   *)
THEOREM RowLegalAlways == Spec => []RowLegal
<1>1. SaveInv => RowLegal
  BY DEF SaveInv, LegalInv, RowLegal
<1>2. QED BY SaveInvAlways, <1>1, PTL

-----------------------------------------------------------------------------
(* ShutDown's wait for the save thread ends: sessions still log in and out, *)
(* DB_SAVE still fires, and all of them still post, but each of them only   *)
(* so often.                                                                *)

\* Sessions with a login to come or to finish, or a logout to come.
Stamping == {s \in Sessions : pc[s] \in {"new", "queued", "loaded"} \/ s \in stamps}
Leaving  == {s \in Sessions : pc[s] # "gone"}
Saving   == {v \in Savers : spc[v] \notin {"idle", "done"}}

Return == IF saver = "up" THEN 1 ELSE 0

\* What the save thread has to do at most, its return included: the queue,
\* UpdateLastLogin of every login, the save of every logout, the snapshots
\* being taken and those of the timers that have not fired.
ToWrite == Len(saveQueue) + Cardinality(Stamping) + Cardinality(Leaving)
           + Cardinality(Saving) + (MaxSaves - saves) + Return

MainInv ==
    /\ ~running => spc[Main] = "done"
    /\ \A s \in stamps : pc[s] \notin {"new", "queued", "loaded"}

\* A step after ShutDown has cleared m_running.
Drains ==
    ~running => /\ ToWrite' <= ToWrite
                /\ SaveThread => ToWrite' < ToWrite

LEMMA Fewer ==
  ASSUME NEW S, IsFiniteSet(S), NEW T, T \subseteq S
  PROVE  /\ IsFiniteSet(T) /\ Cardinality(S) \in Nat /\ Cardinality(T) \in Nat
         /\ Cardinality(T) <= Cardinality(S)
         /\ T # S => Cardinality(T) <= Cardinality(S) - 1
<1>1. /\ IsFiniteSet(T) /\ Cardinality(T) <= Cardinality(S)
      /\ Cardinality(S) = Cardinality(T) => S = T
  BY FS_Subset
<1>2. Cardinality(S) \in Nat /\ Cardinality(T) \in Nat
  BY <1>1, FS_CardinalityType
<1>3. QED BY <1>1, <1>2

LEMMA SaversFinite == IsFiniteSet(Savers) /\ IsFiniteSet(Saving)
<1>1. IsFiniteSet({Timer})
  BY FS_Singleton, Zenon
<1>2. IsFiniteSet({Timer} \cup {Main})
  BY <1>1, FS_AddElement
<1>3. Savers = {Timer} \cup {Main} /\ Saving \subseteq Savers
  BY DEF Saving, Savers
<1>4. QED BY <1>2, <1>3, Fewer

LEMMA MainStep == TypeOK /\ MainInv /\ [Next]_vars => MainInv'
<1> SUFFICES ASSUME TypeOK, MainInv, [Next]_vars PROVE MainInv'
  OBVIOUS
<1> USE DEF MainInv, TypeOK
<1>1. ASSUME NEW s \in Sessions, SessionStep(s) PROVE MainInv'
  <2>1. running' = running /\ spc' = spc
    BY <1>1 DEF SessionStep, ProcessLogin, LoadPlayerByName, LoadFails, OnLoginDBLoaded,
                DuplicateLogin, SpawnFull, PostUpdateLastLogin, GainExp, Die, Changes,
                SnapshotLevel, SnapshotExp, RemovePlayer, ReleaseDbId, PostSaveTask
  <2>2. \A t \in Sessions : pc'[t] \in {"new", "queued", "loaded"} => pc[t] \in {"new", "queued", "loaded"}
    BY <1>1 DEF SessionStep, ProcessLogin, LoadPlayerByName, LoadFails, OnLoginDBLoaded,
                DuplicateLogin, SpawnFull, PostUpdateLastLogin, GainExp, Die, Changes,
                SnapshotLevel, SnapshotExp, RemovePlayer, ReleaseDbId, PostSaveTask, Goto
  <2>3. \A t \in stamps' : t \in stamps \/ (t = s /\ pc'[t] = "in")
    BY <1>1 DEF SessionStep, ProcessLogin, LoadPlayerByName, LoadFails, OnLoginDBLoaded,
                DuplicateLogin, SpawnFull, PostUpdateLastLogin, GainExp, Die, Changes,
                SnapshotLevel, SnapshotExp, RemovePlayer, ReleaseDbId, PostSaveTask, Goto
  <2>4. \A t \in stamps' : pc'[t] \notin {"new", "queued", "loaded"}
    BY <2>2, <2>3
  <2>5. QED BY ONLY MainInv, <2>1, <2>4 DEF MainInv
<1>2. ASSUME NEW v \in Savers, SaveAllPlayers(v) \/ SaverStep(v) PROVE MainInv'
  BY <1>2 DEF SaveAllPlayers, SaverStep, SnapLevel, SnapExp, PostSnapshot, GotoV, Savers
<1>3. CASE SaveThread \/ LoginThreadReturns
  BY <1>3 DEF SaveThread, SavePlayer, SaveFails, UpdateLastLogin, NextTask,
         SaveThreadReturns, LoginThreadReturns
<1>4. CASE Shutdown
  BY <1>4 DEF Shutdown
<1>5. CASE UNCHANGED vars
  BY <1>5 DEF vars
<1>6. QED BY <1>1, <1>2, <1>3, <1>4, <1>5 DEF Next

\* Nobody who may still post comes new.
NobodyNew == Stamping' \subseteq Stamping /\ Leaving' \subseteq Leaving

\* A step of a session or of a saver leaves the save thread's work as it is,
\* or posts one task that was still to come.
Posting(fewer) ==
    /\ saver' = saver
    /\ \/ saveQueue' = saveQueue
       \/ Len(saveQueue') = Len(saveQueue) + 1 /\ fewer

(* A session posts twice at most: its UpdateLastLogin, and its logout.      *)
LEMMA SessionWork ==
  ASSUME TypeOK, MainInv, NEW s \in Sessions, SessionStep(s)
  PROVE  /\ NobodyNew /\ Saving' = Saving /\ saves' = saves
         /\ Posting(Stamping' # Stamping \/ Leaving' # Leaving)
<1> DEFINE P == {"new", "queued", "loaded", "in", "snapLevel", "remove", "release", "post", "gone"}
<1>1. pc \in [Sessions -> P] /\ stamps \subseteq Sessions /\ First \in Rows /\ copy[s] \in Rows
  BY PersistenceAssumption DEF TypeOK
<1>2. spc' = spc /\ saves' = saves /\ saver' = saver
  BY DEF SessionStep, ProcessLogin, LoadPlayerByName, LoadFails, OnLoginDBLoaded,
         DuplicateLogin, SpawnFull, PostUpdateLastLogin, GainExp, Die, Changes,
         SnapshotLevel, SnapshotExp, RemovePlayer, ReleaseDbId, PostSaveTask
<1>3. Saving' = Saving
  BY <1>2 DEF Saving
<1>4. CASE PostUpdateLastLogin(s)
  <2>1. s \in stamps /\ stamps' = stamps \ {s} /\ pc' = pc
    BY <1>4 DEF PostUpdateLastLogin
  <2>2. CASE saveQueue' = saveQueue
    BY <1>1, <1>2, <1>3, <2>1, <2>2 DEF NobodyNew, Stamping, Leaving, Posting
  <2>3. CASE saveQueue' = Posted("lastLogin", First) /\ pc[s] \notin {"new", "queued", "loaded"}
    <3>1. s \in Stamping /\ s \notin Stamping'
      BY <1>1, <2>1, <2>3 DEF Stamping
    <3>2. Len(saveQueue') = Len(saveQueue) + 1
      BY <1>1, <2>3, Posts
    <3>3. NobodyNew
      BY <1>1, <2>1 DEF NobodyNew, Stamping, Leaving
    <3>4. QED BY <1>2, <1>3, <3>1, <3>2, <3>3 DEF Posting
  <2>4. QED BY <1>4, <2>2, <2>3 DEF PostUpdateLastLogin, MainInv
<1>5. CASE PostSaveTask(s)
  <2>1. pc[s] = "post" /\ pc' = [pc EXCEPT ![s] = "gone"] /\ stamps' = stamps
        /\ saveQueue' = Posted("save", copy[s])
    BY <1>5 DEF PostSaveTask, Goto
  <2>2. Len(saveQueue') = Len(saveQueue) + 1
    BY <1>1, <2>1, Posts
  <2>3. s \in Leaving /\ s \notin Leaving' /\ NobodyNew
    BY <1>1, <2>1 DEF NobodyNew, Stamping, Leaving
  <2>4. QED BY <1>2, <1>3, <2>2, <2>3 DEF Posting
<1>6. CASE OnLoginDBLoaded(s)
  BY <1>1, <1>2, <1>3, <1>6 DEF OnLoginDBLoaded, Goto, NobodyNew, Stamping, Leaving, Posting
<1>7. CASE ProcessLogin(s) \/ LoadPlayerByName(s) \/ LoadFails(s) \/ DuplicateLogin(s) \/ SpawnFull(s)
  <2>1. stamps' = stamps /\ saveQueue' = saveQueue
    BY <1>7 DEF ProcessLogin, LoadPlayerByName, LoadFails, DuplicateLogin, SpawnFull
  <2>2. /\ pc[s] \in {"new", "queued", "loaded"}
        /\ \E to : pc' = [pc EXCEPT ![s] = to]
    BY <1>7 DEF ProcessLogin, LoadPlayerByName, LoadFails, DuplicateLogin, SpawnFull, Goto
  <2>3. QED BY <1>1, <1>2, <1>3, <2>1, <2>2 DEF NobodyNew, Stamping, Leaving, Posting
<1>8. CASE \/ GainExp(s) \/ Die(s) \/ SnapshotLevel(s) \/ SnapshotExp(s)
           \/ RemovePlayer(s) \/ ReleaseDbId(s)
  <2>1. stamps' = stamps /\ saveQueue' = saveQueue
    BY <1>8 DEF GainExp, Die, Changes, SnapshotLevel, SnapshotExp, RemovePlayer, ReleaseDbId
  <2>2. \/ pc' = pc
        \/ /\ pc[s] \in {"in", "snapLevel", "remove", "release"}
           /\ \E to \in {"snapLevel", "remove", "release", "post"} : pc' = [pc EXCEPT ![s] = to]
    BY <1>8 DEF GainExp, Die, Changes, SnapshotLevel, SnapshotExp, RemovePlayer, ReleaseDbId, Goto
  <2>3. QED BY <1>1, <1>2, <1>3, <2>1, <2>2 DEF NobodyNew, Stamping, Leaving, Posting
<1>9. QED BY <1>4, <1>5, <1>6, <1>7, <1>8 DEF SessionStep

(* A run of SaveAllPlayers posts once, and DB_SAVE's takes a timer.         *)
LEMMA SaverWork ==
  ASSUME TypeOK, MainInv, ~running, NEW v \in Savers, SaveAllPlayers(v) \/ SaverStep(v)
  PROVE  /\ Stamping' = Stamping /\ Leaving' = Leaving
         /\ \/ Saving' \subseteq Saving /\ saves' = saves /\ Posting(Saving' # Saving)
            \/ /\ saveQueue' = saveQueue /\ saver' = saver
               /\ saves < MaxSaves /\ saves' = saves + 1
               /\ Saving' = Saving \/ (v \notin Saving /\ Saving' = Saving \cup {v})
<1>1. spc \in [Savers -> {"idle", "level", "exp", "post", "done"}] /\ snap[v] \in Rows
  BY DEF TypeOK
<1>2. pc' = pc /\ stamps' = stamps /\ saver' = saver
  BY DEF SaveAllPlayers, SaverStep, SnapLevel, SnapExp, PostSnapshot
<1>3. Stamping' = Stamping /\ Leaving' = Leaving
  BY <1>2 DEF Stamping, Leaving
<1>4. CASE SaveAllPlayers(v)
  <2>1. /\ spc[v] = "idle" /\ saveQueue' = saveQueue
        /\ \E to \in {"level", "idle", "done"} : spc' = [spc EXCEPT ![v] = to]
    BY <1>4 DEF SaveAllPlayers, GotoV
  <2>2. v = Timer
    BY <2>1 DEF MainInv, Savers
  <2>3. saves < MaxSaves /\ saves' = saves + 1
    BY <1>4, <2>2 DEF SaveAllPlayers
  <2>4. Saving' = Saving \/ (v \notin Saving /\ Saving' = Saving \cup {v})
    BY <1>1, <2>1 DEF Saving
  <2>5. QED BY <1>2, <1>3, <2>1, <2>3, <2>4
<1>5. CASE SnapLevel(v) \/ SnapExp(v)
  <2>1. /\ spc[v] \in {"level", "exp"} /\ saveQueue' = saveQueue /\ saves' = saves
        /\ \E to \in {"exp", "post"} : spc' = [spc EXCEPT ![v] = to]
    BY <1>5 DEF SnapLevel, SnapExp, GotoV
  <2>2. Saving' \subseteq Saving
    BY <1>1, <2>1 DEF Saving
  <2>3. QED BY <1>2, <1>3, <2>1, <2>2 DEF Posting
<1>6. CASE PostSnapshot(v)
  <2>1. /\ saveQueue' = Posted("save", snap[v]) /\ spc[v] = "post" /\ saves' = saves
        /\ \E to \in {"done", "idle"} : spc' = [spc EXCEPT ![v] = to]
    BY <1>6 DEF PostSnapshot, GotoV
  <2>2. Len(saveQueue') = Len(saveQueue) + 1
    BY <1>1, <2>1, Posts
  <2>3. v \in Saving /\ v \notin Saving' /\ Saving' \subseteq Saving
    BY <1>1, <2>1 DEF Saving
  <2>4. QED BY <1>2, <1>3, <2>1, <2>2, <2>3 DEF Posting
<1>7. QED BY <1>4, <1>5, <1>6 DEF SaverStep

(* The save thread takes a task or returns.                                 *)
LEMMA ThreadWork ==
  ASSUME TypeOK, SaveThread
  PROVE  /\ Stamping' = Stamping /\ Leaving' = Leaving /\ Saving' = Saving /\ saves' = saves
         /\ \/ Len(saveQueue') = Len(saveQueue) - 1 /\ saver' = saver
            \/ saveQueue' = saveQueue /\ saver = "up" /\ saver' # "up"
<1>1. pc' = pc /\ stamps' = stamps /\ spc' = spc /\ saves' = saves
  BY DEF SaveThread, SavePlayer, SaveFails, UpdateLastLogin, SaveThreadReturns
<1>2. Stamping' = Stamping /\ Leaving' = Leaving /\ Saving' = Saving
  BY <1>1 DEF Stamping, Leaving, Saving
<1>3. CASE SavePlayer \/ SaveFails \/ UpdateLastLogin
  <2>1. saveQueue # <<>> /\ saveQueue' = Tail(saveQueue) /\ saver' = saver
    BY <1>3 DEF SavePlayer, SaveFails, UpdateLastLogin, NextTask
  <2>2. QED BY <1>1, <1>2, <2>1, Takes
<1>4. CASE SaveThreadReturns
  BY <1>1, <1>2, <1>4 DEF SaveThreadReturns
<1>5. QED BY <1>3, <1>4 DEF SaveThread

LEMMA WorkIsNat ==
  ASSUME IsFiniteSet(Sessions), TypeOK
  PROVE  /\ IsFiniteSet(Stamping) /\ IsFiniteSet(Leaving) /\ IsFiniteSet(Saving)
         /\ Cardinality(Stamping) \in Nat /\ Cardinality(Leaving) \in Nat
         /\ Cardinality(Saving) \in Nat /\ Len(saveQueue) \in Nat
         /\ MaxSaves - saves \in Nat /\ MaxSaves \in Nat /\ saves \in Nat
<1>1. Stamping \subseteq Sessions /\ Leaving \subseteq Sessions
  BY DEF Stamping, Leaving
<1>2. IsFiniteSet(Stamping) /\ IsFiniteSet(Leaving) /\ IsFiniteSet(Saving)
  BY <1>1, Fewer, SaversFinite
<1>3. Len(saveQueue) \in Nat /\ saves \in 0 .. MaxSaves /\ MaxSaves \in Nat
  BY PersistenceAssumption DEF TypeOK
<1>4. QED BY <1>2, <1>3, FS_CardinalityType

LEMMA DrainsStep ==
  ASSUME IsFiniteSet(Sessions), TypeOK, MainInv, Next
  PROVE  Drains
<1> SUFFICES ASSUME ~running PROVE ToWrite' <= ToWrite /\ (SaveThread => ToWrite' < ToWrite)
  BY DEF Drains
<1>1. /\ IsFiniteSet(Stamping) /\ IsFiniteSet(Leaving) /\ IsFiniteSet(Saving)
      /\ Cardinality(Stamping) \in Nat /\ Cardinality(Leaving) \in Nat
      /\ Cardinality(Saving) \in Nat /\ Len(saveQueue) \in Nat
      /\ MaxSaves - saves \in Nat /\ MaxSaves \in Nat /\ saves \in Nat
  BY WorkIsNat
<1> HIDE DEF Stamping, Leaving, Saving
<1>0. Return \in 0 .. 1 /\ (saver' = saver => Return' = Return)
      /\ (saver = "up" /\ saver' # "up" => Return = 1 /\ Return' = 0)
  BY DEF Return
<1> DEFINE q == Len(saveQueue)
           a == Cardinality(Stamping)
           b == Cardinality(Leaving)
           c == Cardinality(Saving)
<1>9. ToWrite = q + a + b + c + (MaxSaves - saves) + Return
  BY DEF ToWrite
<1>10. ToWrite' = q' + a' + b' + c' + (MaxSaves - saves') + Return'
  BY DEF ToWrite
<1>11. q \in Nat /\ a \in Nat /\ b \in Nat /\ c \in Nat /\ MaxSaves \in Nat /\ saves \in Nat
  BY <1>1
<1>2. CASE SaveThread
  <2>1. /\ Stamping' = Stamping /\ Leaving' = Leaving /\ Saving' = Saving /\ saves' = saves
        /\ \/ Len(saveQueue') = Len(saveQueue) - 1 /\ saver' = saver
           \/ saveQueue' = saveQueue /\ saver = "up" /\ saver' # "up"
    BY <1>2, ThreadWork
  <2>2. /\ a' = a /\ b' = b /\ c' = c /\ saves' = saves
        /\ (q' = q - 1 /\ Return' = Return) \/ (q' = q /\ Return = 1 /\ Return' = 0)
    BY <1>0, <2>1
  <2> HIDE DEF q, a, b, c
  <2>3. QED BY ONLY <1>0, <1>9, <1>10, <1>11, <2>2
<1>3. ASSUME NEW s \in Sessions, SessionStep(s) PROVE ToWrite' <= ToWrite
  <2>1. /\ Stamping' \subseteq Stamping /\ Leaving' \subseteq Leaving
        /\ Saving' = Saving /\ saves' = saves /\ saver' = saver
        /\ \/ saveQueue' = saveQueue
           \/ /\ Len(saveQueue') = Len(saveQueue) + 1
              /\ Stamping' # Stamping \/ Leaving' # Leaving
    BY <1>3, SessionWork DEF NobodyNew, Posting
  <2>2. /\ Cardinality(Stamping') \in Nat /\ Cardinality(Stamping') <= Cardinality(Stamping)
        /\ Stamping' # Stamping => Cardinality(Stamping') <= Cardinality(Stamping) - 1
    BY <1>1, <2>1, Fewer
  <2>3. /\ Cardinality(Leaving') \in Nat /\ Cardinality(Leaving') <= Cardinality(Leaving)
        /\ Leaving' # Leaving => Cardinality(Leaving') <= Cardinality(Leaving) - 1
    BY <1>1, <2>1, Fewer
  <2>4. Cardinality(Saving') = Cardinality(Saving)
    BY <2>1
  <2>5. /\ a' \in Nat /\ a' <= a /\ b' \in Nat /\ b' <= b /\ c' = c
        /\ saves' = saves /\ Return' = Return
        /\ q' = q \/ (q' = q + 1 /\ (a' <= a - 1 \/ b' <= b - 1))
    BY <1>0, <2>1, <2>2, <2>3, <2>4
  <2> HIDE DEF q, a, b, c
  <2>6. QED BY ONLY <1>0, <1>9, <1>10, <1>11, <2>5
<1>4. ASSUME NEW v \in Savers, SaveAllPlayers(v) \/ SaverStep(v) PROVE ToWrite' <= ToWrite
  <2>1. /\ Stamping' = Stamping /\ Leaving' = Leaving /\ saver' = saver
        /\ \/ /\ Saving' \subseteq Saving /\ saves' = saves
              /\ saveQueue' = saveQueue \/ (Len(saveQueue') = Len(saveQueue) + 1 /\ Saving' # Saving)
           \/ /\ saveQueue' = saveQueue /\ saves < MaxSaves /\ saves' = saves + 1
              /\ Saving' = Saving \/ (v \notin Saving /\ Saving' = Saving \cup {v})
    BY <1>4, SaverWork DEF Posting
  <2>2. Saving' \subseteq Saving =>
          /\ Cardinality(Saving') \in Nat /\ Cardinality(Saving') <= Cardinality(Saving)
          /\ Saving' # Saving => Cardinality(Saving') <= Cardinality(Saving) - 1
    BY <1>1, Fewer
  <2>3. v \notin Saving => Cardinality(Saving \cup {v}) = Cardinality(Saving) + 1
    BY <1>1, FS_AddElement
  <2>4. CASE Saving' \subseteq Saving /\ saves' = saves
    <3>1. /\ a' = a /\ b' = b /\ c' \in Nat /\ saves' = saves /\ Return' = Return
          /\ (q' = q /\ c' <= c) \/ (q' = q + 1 /\ c' <= c - 1)
      BY <1>0, <1>1, <2>1, <2>2, <2>4
    <3> HIDE DEF q, a, b, c
    <3>2. QED BY ONLY <1>0, <1>9, <1>10, <1>11, <3>1
  <2>5. CASE saves' = saves + 1 /\ saveQueue' = saveQueue /\ Saving' = Saving
    BY <1>0, <1>1, <2>1, <2>5 DEF ToWrite
  <2>6. CASE /\ saves' = saves + 1 /\ saveQueue' = saveQueue
             /\ v \notin Saving /\ Saving' = Saving \cup {v}
    <3>1. Cardinality(Saving') = Cardinality(Saving) + 1
      BY <2>3, <2>6
    <3>2. QED BY <1>0, <1>1, <2>1, <2>6, <3>1 DEF ToWrite
  <2>7. QED BY <2>1, <2>4, <2>5, <2>6
<1>5. ASSUME LoginThreadReturns PROVE ToWrite' <= ToWrite
  <2>1. UNCHANGED <<pc, stamps, spc, saveQueue, saver, saves>>
    BY <1>5 DEF LoginThreadReturns
  <2>2. ToWrite' = ToWrite
    BY <2>1 DEF ToWrite, Return, Stamping, Leaving, Saving
  <2>3. ToWrite \in Nat
    BY <1>0, <1>1 DEF ToWrite
  <2>4. QED BY <2>2, <2>3
<1>6. CASE ~SaveThread
  BY <1>3, <1>4, <1>5, <1>6 DEF Next, Shutdown
<1>7. QED BY <1>2, <1>6

(* DBManager::Shutdown's join ends, however many players still log in and   *)
(* out and whatever autosaves fire: no step after m_running is cleared adds *)
(* to what the save thread has to do at most, a post included, and each of  *)
(* the thread's own steps, a failed save too, takes from it.  The sessions  *)
(* and the timers are finitely many; without that bound on them nothing in  *)
(* the code keeps the queue from being fed for ever.                        *)
THEOREM ShutdownDrains ==
  ASSUME IsFiniteSet(Sessions)
  PROVE  Spec => [](ToWrite \in Nat) /\ [][Drains]_vars
<1>1. Init => MainInv
  BY DEF Init, MainInv
<1>2. SaveInv /\ MainInv /\ [Next]_vars => MainInv'
  BY MainStep DEF SaveInv
<1>3. SaveInv => ToWrite \in Nat
  BY WorkIsNat DEF SaveInv, ToWrite, Return
<1>4. SaveInv /\ MainInv /\ [Next]_vars => [Drains]_vars
  BY DrainsStep DEF SaveInv
<1>5. QED BY SaveInvAlways, <1>1, <1>2, <1>3, <1>4, PTL DEF Spec

-----------------------------------------------------------------------------
(* GainExp conserves: below the last level, what the levels have cost and  *)
(* the experience add up to what was gained.                               *)
THEOREM GainConserves ==
  \A r \in Rows, amount \in Nat :
     LET g == Gained(r, amount)
     IN  /\ g \in Rows /\ Legal(g)
         /\ g.level # MaxLevel => Total[g.level] + g.exp = Total[r.level] + r.exp + amount
BY GainedIsLegal
=============================================================================
