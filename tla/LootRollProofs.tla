--------------------------- MODULE LootRollProofs ---------------------------
(* Theorems about LootRoll, for any finite group, any number of rolls and   *)
(* any of the outside events.                                               *)
EXTENDS LootRoll, FiniteSetTheorems, TLAPS

(* The inductive invariant: what the place of an actor says about the locks *)
(* it holds and about what it has in its hands.                             *)

\* A starter between its two locks holds lootMu and has seen no roll.
LockInv ==
  \A p \in Players : at[p] = "locked" => /\ lootMu = p
                                         /\ active = NoRoll
                                         /\ used < MaxRolls

\* Rolls in hands exist, and so does the member a leaver withdraws.
HandsInv ==
  /\ active <= used
  /\ \A a \in Actors :
       /\ mine[a] <= used
       /\ at[a] \in {"seeding", "arming"} \cup Settling => mine[a] # NoRoll
       /\ at[a] \in {"seeding", "arming"} => a \in Players
  /\ \A p \in Players : at[p] = "withdrawing" => who[p] # Nobody

\* Only the timer of a roll that was made runs.
TimerInv == \A r \in RollIds : roll[r].timer = "running" => r <= used

IInv == TypeOK /\ LockInv /\ HandsInv /\ TimerInv

LEMMA Sets ==
  /\ Players \subseteq Actors /\ RollIds \subseteq Actors
  /\ RollIds \subseteq Nat /\ NoRoll \notin RollIds /\ NoRoll \in Nat
  /\ RollIds \subseteq 0..MaxRolls
BY BoundAssumption DEF Actors, RollIds, NoRoll

LEMMA NewRollType == NewRoll \in RollType
BY DEF NewRoll, RollType, Ballots

LEMMA WithoutType ==
  ASSUME NEW r \in RollType, NEW m \in Players
  PROVE  Without(r, m) \in RollType
<1>1. r.eligible \ {m} \in SUBSET Players
  BY DEF RollType
<1>2. [r.votes EXCEPT ![m] = "none"] \in [Players -> Ballots]
  BY DEF RollType, Ballots
<1>3. /\ r.pass - (IF r.votes[m] = "pass" THEN 1 ELSE 0) \in Int
      /\ r.need - (IF r.votes[m] = "need" THEN 1 ELSE 0) \in Int
      /\ r.greed - (IF r.votes[m] = "greed" THEN 1 ELSE 0) \in Int
      /\ r.rolling - 1 \in Int
  BY DEF RollType
<1> QED  BY <1>1, <1>2, <1>3 DEF Without, RollType

LEMMA StopTimerType ==
  ASSUME NEW r \in RollType
  PROVE  StopTimer(r) \in RollType
BY DEF StopTimer, RollType

LEMMA InitIInv == Init => IInv
<1> SUFFICES ASSUME Init PROVE IInv
  OBVIOUS
<1>1. roll \in [RollIds -> RollType]
  BY NewRollType DEF Init
<1>2. TypeOK
  <2>1. 0 \in 0..MaxRolls /\ 0 \in Nat
    BY BoundAssumption
  <2>2. "idle" \in Places
    BY DEF Places
  <2> QED  BY <1>1, <2>1, <2>2 DEF Init, TypeOK, RowType, NoRoll
<1>3. LockInv /\ HandsInv /\ TimerInv
  BY NamesAssumption
  DEF Init, LockInv, HandsInv, TimerInv, NewRoll, Actors, NoRoll, Settling
<1> QED  BY <1>2, <1>3 DEF IInv

LEMMA SeededType ==
  ASSUME NEW r \in RollType, NEW A, NEW E \in SUBSET Players
  PROVE  Seeded(r, A, E) \in RollType
<1>1. [m \in Players |-> IF m \in A THEN "pass" ELSE r.votes[m]] \in [Players -> Ballots]
  BY DEF RollType, Ballots
<1> QED  BY <1>1 DEF Seeded, RollType

LEMMA CountedType ==
  ASSUME NEW r \in RollType, NEW p \in Players, NEW b \in Ballots
  PROVE  Counted(r, p, b) \in RollType
<1>1. (IF b = "none" THEN r.votes ELSE [r.votes EXCEPT ![p] = b]) \in [Players -> Ballots]
  BY DEF RollType
<1>2. /\ r.pass + (IF b = "pass" THEN 1 ELSE 0) \in Int
      /\ r.need + (IF b = "need" THEN 1 ELSE 0) \in Int
      /\ r.greed + (IF b = "greed" THEN 1 ELSE 0) \in Int
  BY DEF RollType
<1> QED  BY <1>1, <1>2 DEF Counted, RollType

LEMMA RowUpdates ==
  ASSUME row \in RowType
  PROVE  /\ [row EXCEPT !.blocked = TRUE] \in RowType
         /\ [row EXCEPT !.blocked = FALSE] \in RowType
         /\ [row EXCEPT !.present = FALSE] \in RowType
         /\ \A w \in Players \cup {Nobody} :
              [row EXCEPT !.blocked = FALSE, !.claim = w] \in RowType
BY DEF RowType

LEMMA TimerUpdates ==
  ASSUME roll \in [RollIds -> RollType], NEW r \in RollIds
  PROVE  /\ [roll EXCEPT ![r].timer = "running"] \in [RollIds -> RollType]
         /\ [roll EXCEPT ![r].timer = "fired"] \in [RollIds -> RollType]
         /\ [roll EXCEPT ![r] = StopTimer(@)] \in [RollIds -> RollType]
<1>1. roll[r] \in RollType
  OBVIOUS
<1>2. /\ [roll[r] EXCEPT !.timer = "running"] \in RollType
      /\ [roll[r] EXCEPT !.timer = "fired"] \in RollType
  BY <1>1 DEF RollType
<1>3. StopTimer(roll[r]) \in RollType
  BY <1>1, StopTimerType
<1> QED  BY <1>2, <1>3

\* What registering a roll leaves behind.
NewActiveFacts(p) ==
  /\ used' \in 0..MaxRolls /\ used' = used + 1
  /\ active' = used' /\ active' \in RollIds
  /\ roll' \in [RollIds -> RollType]
  /\ \A r \in RollIds : roll'[r].timer = "running" => roll[r].timer = "running"
  /\ mine' \in [Actors -> RollIds \cup {NoRoll}]
  /\ \A a \in Actors : mine'[a] = IF a = p THEN used' ELSE mine[a]
  /\ \A a \in Actors : mine[a] <= used => mine'[a] <= used' /\ mine[a] # used'
  /\ \A r \in RollIds : r # used' => roll'[r] = roll[r]
  /\ roll'[used'].asked = {} /\ \A m \in Players : roll'[used'].votes[m] = "none"
  /\ mine'[p] # NoRoll
  /\ row' \in RowType
  /\ sealed' = FALSE

LEMMA NewActiveType ==
  ASSUME TypeOK, NEW p \in Players, used < MaxRolls, NewActive(p)
  PROVE  NewActiveFacts(p)
<1> DEFINE E == list[p]
           R == [NewRoll EXCEPT !.eligible = E, !.rolling = Cardinality(E),
                                !.pass = Cardinality(E \cap CannotRoll)]
<1>1. used + 1 \in RollIds /\ used + 1 \in 0..MaxRolls
  BY BoundAssumption DEF TypeOK, RollIds
<1>2. E \in SUBSET Players
  BY DEF TypeOK
<1>3. IsFiniteSet(E) /\ IsFiniteSet(E \cap CannotRoll)
  BY <1>2, FiniteAssumption, FS_Subset
<1>4. Cardinality(E) \in Int /\ Cardinality(E \cap CannotRoll) \in Int
  BY <1>3, FS_CardinalityType
<1>5. R \in RollType
  BY <1>2, <1>4, NewRollType DEF RollType
<1>6. roll' = [roll EXCEPT ![used + 1] = R]
  BY DEF NewActive
<1>7. roll' \in [RollIds -> RollType]
  BY <1>1, <1>5, <1>6 DEF TypeOK
<1>8. R.timer = "unarmed"
  BY DEF NewRoll
<1>9. \A r \in RollIds : roll'[r].timer = "running" => roll[r].timer = "running"
  BY <1>6, <1>8 DEF TypeOK
<1>10. /\ mine' \in [Actors -> RollIds \cup {NoRoll}]
       /\ \A a \in Actors : mine'[a] = IF a = p THEN used' ELSE mine[a]
  BY <1>1, Sets DEF NewActive, TypeOK
<1>11. used' = used + 1 /\ active' = used + 1 /\ sealed' = FALSE
  BY DEF NewActive
<1>12. mine'[p] \in RollIds /\ used \in Nat
  BY <1>1, Sets DEF NewActive, TypeOK
<1>13. \A a \in Actors : mine[a] <= used => mine'[a] <= used + 1 /\ mine[a] # used + 1
  <2>1. \A a \in Actors : mine[a] \in Nat
    BY Sets DEF TypeOK
  <2> QED  BY <1>10, <1>11, <1>12, <2>1
<1>14. R.asked = {} /\ \A m \in Players : R.votes[m] = "none"
  BY DEF NewRoll
<1>15. /\ \A r \in RollIds : r # used + 1 => roll'[r] = roll[r]
       /\ roll'[used + 1] = R
  BY <1>1, <1>6 DEF TypeOK
<1>16. row' \in RowType
  BY RowUpdates DEF NewActive, TypeOK
<1> HIDE DEF E, R
<1> QED  BY <1>1, <1>7, <1>9, <1>10, <1>16, <1>11, <1>12, <1>13, <1>14, <1>15, Sets DEF NewActiveFacts

-----------------------------------------------------------------------------
LEMMA NextIInv == IInv /\ [Next]_vars => IInv'
<1> SUFFICES ASSUME IInv, [Next]_vars
             PROVE  IInv'
  OBVIOUS
<1> USE Sets, NamesAssumption, BoundAssumption
    DEF TypeOK, NoRoll, Places, Starting, Settling, Go, LootFree, GroupsFree, Forget,
        RowThere, shared, people, locks, history, locals
<1>0. TypeOK /\ LockInv /\ HandsInv /\ TimerInv
  BY DEF IInv
<1>1. CASE UNCHANGED vars
  BY <1>0, <1>1 DEF vars, IInv, LockInv, HandsInv, TimerInv
<1>2. CASE ClearLoot
  <2>0. roll' \in [RollIds -> RollType]
    BY <1>0, <1>2, TimerUpdates DEF ClearLoot
  <2>1. TypeOK'
    BY <1>0, <1>2, <2>0 DEF ClearLoot
  <2>2. LockInv'
    BY <1>0, <1>2, <2>0, <2>1 DEF ClearLoot, LockInv
  <2>3. HandsInv'
    BY <1>0, <1>2, <2>0, <2>1 DEF ClearLoot, HandsInv
  <2>4. TimerInv'
    BY <1>0, <1>2, <2>0, <2>1 DEF ClearLoot, TimerInv, StopTimer
  <2> QED  BY <2>1, <2>2, <2>3, <2>4 DEF IInv
<1>3. ASSUME NEW p \in Players, ClientStep(p) PROVE IInv'
  <2>1. CASE Open(p)
    <3>1. TypeOK'
      BY <1>0, <2>1 DEF Open
    <3>2. LockInv'
      BY <1>0, <2>1, <3>1 DEF Open, LockInv
    <3>3. HandsInv'
      BY <1>0, <2>1, <3>1 DEF Open, HandsInv
    <3>4. TimerInv'
      BY <1>0, <2>1, <3>1 DEF Open, TimerInv
    <3> QED  BY <3>1, <3>2, <3>3, <3>4 DEF IInv
  <2>2. CASE TakeRow(p)
    <3>1. TypeOK'
      BY <1>0, <2>2 DEF TakeRow
    <3>2. LockInv'
      BY <1>0, <2>2, <3>1 DEF TakeRow, LockInv
    <3>3. HandsInv'
      BY <1>0, <2>2, <3>1 DEF TakeRow, HandsInv
    <3>4. TimerInv'
      BY <1>0, <2>2, <3>1 DEF TakeRow, TimerInv
    <3> QED  BY <3>1, <3>2, <3>3, <3>4 DEF IInv
  <2>3. CASE Travel(p)
    <3>1. TypeOK'
      BY <1>0, <2>3 DEF Travel
    <3>2. LockInv'
      BY <1>0, <2>3, <3>1 DEF Travel, LockInv
    <3>3. HandsInv'
      BY <1>0, <2>3, <3>1 DEF Travel, HandsInv
    <3>4. TimerInv'
      BY <1>0, <2>3, <3>1 DEF Travel, TimerInv
    <3> QED  BY <3>1, <3>2, <3>3, <3>4 DEF IInv
  <2>4. ASSUME NEW b \in Ballots, NEW o \in BOOLEAN, Vote(p, b, o) PROVE IInv'
    <3>0. roll' \in [RollIds -> RollType]
      <4>1. active \in RollIds /\ roll[active] \in RollType
        BY <1>0, <2>4 DEF Vote
      <4> QED  BY <1>0, <2>4, <4>1, CountedType DEF Vote
    <3>1. TypeOK'
      BY <1>0, <2>4, <3>0 DEF Vote
    <3>2. LockInv'
      BY <1>0, <2>4, <3>0, <3>1 DEF Vote, LockInv
    <3>3. HandsInv'
      BY <1>0, <2>4, <3>0, <3>1 DEF Vote, HandsInv
    <3>4. TimerInv'
      BY <1>0, <2>4, <3>0, <3>1 DEF Vote, Counted, TimerInv
    <3> QED  BY <3>1, <3>2, <3>3, <3>4 DEF IInv
  <2>5. ASSUME NEW m \in Players, Remove(p, m) PROVE IInv'
    <3>1. TypeOK'
      BY <1>0, <2>5 DEF Remove
    <3>2. LockInv'
      BY <1>0, <2>5, <3>1 DEF Remove, LockInv
    <3>3. HandsInv'
      BY <1>0, <2>5, <3>1 DEF Remove, HandsInv
    <3>4. TimerInv'
      BY <1>0, <2>5, <3>1 DEF Remove, TimerInv
    <3> QED  BY <3>1, <3>2, <3>3, <3>4 DEF IInv
  <2> QED  BY <1>3, <2>1, <2>2, <2>3, <2>4, <2>5 DEF ClientStep
<1>4. ASSUME NEW p \in Players, StartStep(p) \/ TakeStep(p) \/ Withdraw(p) PROVE IInv'
  <2>1. CASE ListEligible(p)
    <3>1. TypeOK'
      BY <1>0, <2>1 DEF ListEligible
    <3>2. LockInv'
      BY <1>0, <2>1, <3>1 DEF ListEligible, LockInv
    <3>3. HandsInv'
      BY <1>0, <2>1, <3>1 DEF ListEligible, HandsInv
    <3>4. TimerInv'
      BY <1>0, <2>1, <3>1 DEF ListEligible, TimerInv
    <3> QED  BY <3>1, <3>2, <3>3, <3>4 DEF IInv
  <2>2. CASE LockLoot(p)
    <3>1. TypeOK'
      BY <1>0, <2>2 DEF LockLoot
    <3>2. LockInv'
      BY <1>0, <2>2, <3>1 DEF LockLoot, LockInv
    <3>3. HandsInv'
      BY <1>0, <2>2, <3>1 DEF LockLoot, HandsInv
    <3>4. TimerInv'
      BY <1>0, <2>2, <3>1 DEF LockLoot, TimerInv
    <3> QED  BY <3>1, <3>2, <3>3, <3>4 DEF IInv
  <2>3. CASE Register(p)
    <3>0. NewActive(p) => NewActiveFacts(p)
      <4>1. NewActive(p) => used < MaxRolls
        BY <1>0, <2>3 DEF Register, LockInv
      <4> QED  BY <1>0, <4>1, NewActiveType
    <3>1. TypeOK'
      BY <1>0, <2>3, <3>0 DEF Register, NewActiveFacts
    <3>2. LockInv'
      BY <1>0, <2>3, <3>0, <3>1 DEF Register, NewActiveFacts, LockInv
    <3>3. HandsInv'
      BY <1>0, <2>3, <3>0, <3>1 DEF Register, NewActiveFacts, HandsInv
    <3>4. TimerInv'
      BY <1>0, <2>3, <3>0, <3>1 DEF Register, NewActiveFacts, TimerInv
    <3> QED  BY <3>1, <3>2, <3>3, <3>4 DEF IInv
  <2>4. CASE BlockOnly(p)
    <3>1. TypeOK'
      BY <1>0, <2>4, RowUpdates DEF BlockOnly
    <3>2. LockInv'
      BY <1>0, <2>4, <3>1 DEF BlockOnly, LockInv
    <3>3. HandsInv'
      BY <1>0, <2>4, <3>1 DEF BlockOnly, HandsInv
    <3>4. TimerInv'
      BY <1>0, <2>4, <3>1 DEF BlockOnly, TimerInv
    <3> QED  BY <3>1, <3>2, <3>3, <3>4 DEF IInv
  <2>5. CASE RegisterQuest(p)
    <3>1. CASE active # NoRoll \/ used = MaxRolls
      <4>1. TypeOK'
        BY <1>0, <2>5, <3>1 DEF RegisterQuest
      <4>2. LockInv'
        BY <1>0, <2>5, <3>1, <4>1 DEF RegisterQuest, LockInv
      <4>3. HandsInv'
        BY <1>0, <2>5, <3>1, <4>1 DEF RegisterQuest, HandsInv
      <4>4. TimerInv'
        BY <1>0, <2>5, <3>1, <4>1 DEF RegisterQuest, TimerInv
      <4> QED  BY <4>1, <4>2, <4>3, <4>4 DEF IInv
    <3>2. CASE ~(active # NoRoll \/ used = MaxRolls)
      <4>0. NewActiveFacts(p) /\ Go(p, "listed", "seeding")
        <5>1. NewActive(p) /\ used < MaxRolls
          BY <1>0, <2>5, <3>2 DEF RegisterQuest
        <5> QED  BY <1>0, <2>5, <3>2, <5>1, NewActiveType DEF RegisterQuest
      <4>1. TypeOK'
        BY <1>0, <2>5, <3>2, <4>0 DEF RegisterQuest, NewActiveFacts
      <4>2. LockInv'
        BY <1>0, <2>5, <3>2, <4>0, <4>1 DEF RegisterQuest, NewActiveFacts, LockInv
      <4>3. HandsInv'
        BY <1>0, <2>5, <3>2, <4>0, <4>1 DEF RegisterQuest, NewActiveFacts, HandsInv
      <4>4. TimerInv'
        BY <1>0, <2>5, <3>2, <4>0, <4>1 DEF RegisterQuest, NewActiveFacts, TimerInv
      <4> QED  BY <4>1, <4>2, <4>3, <4>4 DEF IInv
    <3> QED  BY <3>1, <3>2
  <2>6. CASE Seed(p)
    <3>0. roll' \in [RollIds -> RollType]
      <4>1. mine[p] \in RollIds
        BY <1>0, <2>6 DEF Seed, HandsInv
      <4>2. list[p] \in SUBSET Players /\ roll[mine[p]] \in RollType
        BY <1>0, <4>1
      <4> QED  BY <1>0, <2>6, <4>1, <4>2, SeededType DEF Seed
    <3>1. TypeOK'
      BY <1>0, <2>6, <3>0 DEF Seed
    <3>2. LockInv'
      BY <1>0, <2>6, <3>0, <3>1 DEF Seed, LockInv
    <3>3. HandsInv'
      BY <1>0, <2>6, <3>0, <3>1 DEF Seed, HandsInv
    <3>4. TimerInv'
      BY <1>0, <2>6, <3>0, <3>1 DEF Seed, Seeded, TimerInv
    <3> QED  BY <3>1, <3>2, <3>3, <3>4 DEF IInv
  <2>7. CASE Arm(p)
    <3>0. roll' \in [RollIds -> RollType]
      <4>1. mine[p] \in RollIds
        BY <1>0, <2>7 DEF Arm, HandsInv
      <4> QED  BY <1>0, <2>7, <4>1, TimerUpdates DEF Arm
    <3>1. TypeOK'
      BY <1>0, <2>7, <3>0 DEF Arm
    <3>2. LockInv'
      BY <1>0, <2>7, <3>0, <3>1 DEF Arm, LockInv
    <3>3. HandsInv'
      BY <1>0, <2>7, <3>0, <3>1 DEF Arm, HandsInv
    <3>4. TimerInv'
      BY <1>0, <2>7, <3>0, <3>1 DEF Arm, HandsInv, TimerInv
    <3> QED  BY <3>1, <3>2, <3>3, <3>4 DEF IInv
  <2>8. CASE TakeGate(p)
    <3>1. TypeOK'
      BY <1>0, <2>8 DEF TakeGate
    <3>2. LockInv'
      BY <1>0, <2>8, <3>1 DEF TakeGate, LockInv
    <3>3. HandsInv'
      BY <1>0, <2>8, <3>1 DEF TakeGate, HandsInv
    <3>4. TimerInv'
      BY <1>0, <2>8, <3>1 DEF TakeGate, TimerInv
    <3> QED  BY <3>1, <3>2, <3>3, <3>4 DEF IInv
  <2>9. CASE TakeStore(p)
    <3>1. TypeOK'
      BY <1>0, <2>9 DEF TakeStore
    <3>2. LockInv'
      BY <1>0, <2>9, <3>1 DEF TakeStore, LockInv
    <3>3. HandsInv'
      BY <1>0, <2>9, <3>1 DEF TakeStore, HandsInv
    <3>4. TimerInv'
      BY <1>0, <2>9, <3>1 DEF TakeStore, TimerInv
    <3> QED  BY <3>1, <3>2, <3>3, <3>4 DEF IInv
  <2>10. CASE TakeDelete(p)
    <3>1. TypeOK'
      BY <1>0, <2>10, RowUpdates DEF TakeDelete
    <3>2. LockInv'
      BY <1>0, <2>10, <3>1 DEF TakeDelete, LockInv
    <3>3. HandsInv'
      BY <1>0, <2>10, <3>1 DEF TakeDelete, HandsInv
    <3>4. TimerInv'
      BY <1>0, <2>10, <3>1 DEF TakeDelete, TimerInv
    <3> QED  BY <3>1, <3>2, <3>3, <3>4 DEF IInv
  <2>11. CASE Withdraw(p)
    <3>0. roll' \in [RollIds -> RollType]
      <4>1. who[p] \in Players
        BY <1>0, <2>11 DEF Withdraw, HandsInv
      <4>2. active # NoRoll => Without(roll[active], who[p]) \in RollType
        BY <1>0, <4>1, WithoutType
      <4> QED  BY <1>0, <2>11, <4>2 DEF Withdraw
    <3>1. TypeOK'
      BY <1>0, <2>11, <3>0 DEF Withdraw
    <3>2. LockInv'
      BY <1>0, <2>11, <3>0, <3>1 DEF Withdraw, LockInv
    <3>3. HandsInv'
      BY <1>0, <2>11, <3>0, <3>1 DEF Withdraw, HandsInv
    <3>4. TimerInv'
      BY <1>0, <2>11, <3>0, <3>1 DEF Withdraw, Without, TimerInv
    <3> QED  BY <3>1, <3>2, <3>3, <3>4 DEF IInv
  <2> QED  BY <1>4, <2>1, <2>2, <2>3, <2>4, <2>5, <2>6, <2>7, <2>8, <2>9, <2>10, <2>11 DEF StartStep, TakeStep
<1>5. ASSUME NEW r \in RollIds, Fire(r) PROVE IInv'
  <2>0. r <= used /\ roll' \in [RollIds -> RollType]
    BY <1>0, <1>5, TimerUpdates DEF Fire, TimerInv
  <2>1. TypeOK'
    BY <1>0, <1>5, <2>0 DEF Fire
  <2>2. LockInv'
    BY <1>0, <1>5, <2>0, <2>1 DEF Fire, LockInv
  <2>3. HandsInv'
    BY <1>0, <1>5, <2>0, <2>1 DEF Fire, HandsInv
  <2>4. TimerInv'
    BY <1>0, <1>5, <2>0, <2>1 DEF Fire, TimerInv
  <2> QED  BY <2>1, <2>2, <2>3, <2>4 DEF IInv
<1>6. ASSUME NEW a \in Actors, ResolveStep(a) PROVE IInv'
  <2>1. CASE Close(a)
    <3>0. roll' \in [RollIds -> RollType]
      <4>1. active # NoRoll => active \in RollIds
        BY <1>0
      <4>2. active # NoRoll => [roll EXCEPT ![active] = StopTimer(@)] \in [RollIds -> RollType]
        BY <1>0, <4>1, TimerUpdates
      <4> QED  BY <1>0, <2>1, <4>2 DEF Close
    <3>1. TypeOK'
      BY <1>0, <2>1, <3>0 DEF Close
    <3>2. LockInv'
      BY <1>0, <2>1, <3>0, <3>1 DEF Close, LockInv
    <3>3. HandsInv'
      BY <1>0, <2>1, <3>0, <3>1 DEF Close, HandsInv
    <3>4. TimerInv'
      <4>1. \A x \in RollType : StopTimer(x).timer = "running" => x.timer = "running"
        BY DEF StopTimer, RollType
      <4>2. \A r \in RollIds : roll'[r].timer = "running" => roll[r].timer = "running"
        BY <1>0, <2>1, <4>1 DEF Close
      <4>3. used' = used
        BY <2>1 DEF Close
      <4> QED  BY <1>0, <4>2, <4>3 DEF TimerInv
    <3> QED  BY <3>1, <3>2, <3>3, <3>4 DEF IInv
  <2>2. CASE Tally(a)
    <3>1. TypeOK'
      BY <1>0, <2>2 DEF Tally, Winners, Tier, Present
    <3>2. LockInv'
      BY <1>0, <2>2, <3>1 DEF Tally, LockInv
    <3>3. HandsInv'
      BY <1>0, <2>2, <3>1 DEF Tally, HandsInv
    <3>4. TimerInv'
      BY <1>0, <2>2, <3>1 DEF Tally, TimerInv
    <3> QED  BY <3>1, <3>2, <3>3, <3>4 DEF IInv
  <2>3. CASE AllPassed(a)
    <3>1. TypeOK'
      BY <1>0, <2>3, RowUpdates DEF AllPassed, Unblock
    <3>2. LockInv'
      BY <1>0, <2>3, <3>1 DEF AllPassed, Unblock, LockInv
    <3>3. HandsInv'
      BY <1>0, <2>3, <3>1 DEF AllPassed, Unblock, HandsInv
    <3>4. TimerInv'
      BY <1>0, <2>3, <3>1 DEF AllPassed, Unblock, TimerInv
    <3> QED  BY <3>1, <3>2, <3>3, <3>4 DEF IInv
  <2>4. CASE Deliver(a)
    <3>1. TypeOK'
      BY <1>0, <2>4 DEF Deliver
    <3>2. LockInv'
      BY <1>0, <2>4, <3>1 DEF Deliver, LockInv
    <3>3. HandsInv'
      BY <1>0, <2>4, <3>1 DEF Deliver, HandsInv
    <3>4. TimerInv'
      BY <1>0, <2>4, <3>1 DEF Deliver, TimerInv
    <3> QED  BY <3>1, <3>2, <3>3, <3>4 DEF IInv
  <2>5. CASE DropRow(a)
    <3>1. TypeOK'
      BY <1>0, <2>5, RowUpdates DEF DropRow
    <3>2. LockInv'
      BY <1>0, <2>5, <3>1 DEF DropRow, LockInv
    <3>3. HandsInv'
      BY <1>0, <2>5, <3>1 DEF DropRow, HandsInv
    <3>4. TimerInv'
      BY <1>0, <2>5, <3>1 DEF DropRow, TimerInv
    <3> QED  BY <3>1, <3>2, <3>3, <3>4 DEF IInv
  <2>6. CASE KeepForWinner(a)
    <3>1. TypeOK'
      BY <1>0, <2>6, RowUpdates DEF KeepForWinner
    <3>2. LockInv'
      BY <1>0, <2>6, <3>1 DEF KeepForWinner, LockInv
    <3>3. HandsInv'
      BY <1>0, <2>6, <3>1 DEF KeepForWinner, HandsInv
    <3>4. TimerInv'
      BY <1>0, <2>6, <3>1 DEF KeepForWinner, TimerInv
    <3> QED  BY <3>1, <3>2, <3>3, <3>4 DEF IInv
  <2> QED  BY <1>6, <2>1, <2>2, <2>3, <2>4, <2>5, <2>6 DEF ResolveStep
<1> QED  BY <1>1, <1>2, <1>3, <1>4, <1>5, <1>6 DEF Next

\* Type correctness: the row, the table, every roll, the locks and the locals of
\* every goroutine keep their types, for any finite group (engine/world/loot.go).
THEOREM LootTypeCorrect == Spec => []TypeOK
<1>1. IInv => TypeOK
  BY DEF IInv
<1> QED  BY <1>1, InitIInv, NextIInv, PTL DEF Spec

-----------------------------------------------------------------------------
(* Blocked rows have a keeper.  The roll of a blocked row leaves the table   *)
(* only in the hands of a resolver, and a resolver puts the row in order     *)
(* before it is done with it.                                                *)

LEMMA NextKeeper == IInv /\ BlockedHasKeeper /\ [Next]_vars => BlockedHasKeeper'
<1> SUFFICES ASSUME IInv /\ BlockedHasKeeper, [Next]_vars
             PROVE  BlockedHasKeeper'
  OBVIOUS
<1> USE Sets
    DEF IInv, TypeOK, BlockedHasKeeper, RowBlocked, RowThere, Settling, NoRoll, Go,
        shared, people, locks, history, locals
<1>1. CASE UNCHANGED vars
  BY <1>1 DEF vars
<1>2. CASE ClearLoot
  BY <1>2 DEF ClearLoot
<1>3. ASSUME NEW p \in Players, ClientStep(p) PROVE BlockedHasKeeper'
  <2>1. CASE Open(p)
    BY <2>1 DEF Open
  <2>2. CASE TakeRow(p)
    BY <2>2 DEF TakeRow
  <2>3. CASE Travel(p)
    BY <2>3 DEF Travel
  <2>4. ASSUME NEW b \in Ballots, NEW o \in BOOLEAN, Vote(p, b, o) PROVE BlockedHasKeeper'
    BY <2>4 DEF Vote
  <2>5. ASSUME NEW m \in Players, Remove(p, m) PROVE BlockedHasKeeper'
    BY <2>5 DEF Remove
  <2> QED  BY <1>3, <2>1, <2>2, <2>3, <2>4, <2>5 DEF ClientStep
<1>4. ASSUME NEW p \in Players, StartStep(p) \/ TakeStep(p) \/ Withdraw(p) PROVE BlockedHasKeeper'
  <2>1. CASE ListEligible(p)
    BY <2>1 DEF ListEligible
  <2>2. CASE LockLoot(p)
    BY <2>2 DEF LockLoot
  <2>3. CASE Register(p)
    BY <2>3 DEF Register, NewActive
  <2>4. CASE BlockOnly(p)
    BY <2>4 DEF BlockOnly
  <2>5. CASE RegisterQuest(p)
    BY <2>5 DEF RegisterQuest, NewActive
  <2>6. CASE Seed(p)
    BY <2>6 DEF Seed
  <2>7. CASE Arm(p)
    BY <2>7 DEF Arm
  <2>8. CASE TakeGate(p)
    BY <2>8 DEF TakeGate
  <2>9. CASE TakeStore(p)
    BY <2>9 DEF TakeStore
  <2>10. CASE TakeDelete(p)
    BY <2>10 DEF TakeDelete
  <2>11. CASE Withdraw(p)
    BY <2>11 DEF Withdraw
  <2> QED  BY <1>4, <2>1, <2>2, <2>3, <2>4, <2>5, <2>6, <2>7, <2>8, <2>9, <2>10, <2>11 DEF StartStep, TakeStep
<1>5. ASSUME NEW r \in RollIds, Fire(r) PROVE BlockedHasKeeper'
  BY <1>5 DEF Fire
<1>6. ASSUME NEW a \in Actors, ResolveStep(a) PROVE BlockedHasKeeper'
  <2>1. CASE Close(a)
    BY <2>1 DEF Close
  <2>2. CASE Tally(a)
    BY <2>2 DEF Tally
  <2>3. CASE AllPassed(a)
    BY <2>3 DEF AllPassed, Unblock
  <2>4. CASE Deliver(a)
    BY <2>4 DEF Deliver
  <2>5. CASE DropRow(a)
    BY <2>5 DEF DropRow
  <2>6. CASE KeepForWinner(a)
    BY <2>6 DEF KeepForWinner
  <2> QED  BY <1>6, <2>1, <2>2, <2>3, <2>4, <2>5, <2>6 DEF ResolveStep
<1> QED  BY <1>1, <1>2, <1>3, <1>4, <1>5, <1>6 DEF Next

\* A blocked row has a roll, or a resolver, or nobody who may roll
\* (startGroupLootRoll, resolveGroupLootRoll, deliverGroupLootItem).
THEOREM BlockedRowsKept == Spec => []BlockedHasKeeper
<1>1. Init => BlockedHasKeeper
  BY DEF Init, BlockedHasKeeper, RowBlocked
<1> QED  BY <1>1, InitIInv, NextIInv, NextKeeper, PTL DEF Spec

-----------------------------------------------------------------------------
(* Only voters win.  The votes of a closed roll do not change any more: the  *)
(* roll of a resolver is never the one in the table, and the starter that    *)
(* still writes automatic passes into it has not asked anybody.              *)

\* A vote for the item comes from an asked member that is still in the roll.
VoterInv ==
  \A r \in RollIds, m \in Players :
    roll[r].votes[m] \in {"need", "greed"} => m \in roll[r].eligible \cap roll[r].asked

\* A roll is seeded by one starter, before anybody is asked.
SeedInv ==
  /\ \A p \in Players : at[p] = "seeding" => roll[mine[p]].asked = {}
  /\ \A p, q \in Players :
       at[p] = "seeding" /\ at[q] = "seeding" /\ mine[p] = mine[q] => p = q

\* A resolver works on a roll that left the table, and draws into empty hands.
SettleInv ==
  \A a \in Actors :
    /\ at[a] \in Settling => mine[a] # active
    /\ at[a] \notin {"withdrawing", "decided", "awarded", "refused"} => who[a] = Nobody

WInv == VoterInv /\ SeedInv /\ SettleInv /\ WinnerEntitled

LEMMA RollFields ==
  ASSUME NEW x \in RollType
  PROVE  /\ StopTimer(x).votes = x.votes
         /\ StopTimer(x).eligible = x.eligible
         /\ StopTimer(x).asked = x.asked
BY DEF RollType, StopTimer

LEMMA WithoutFields ==
  ASSUME NEW x \in RollType, NEW m \in Players
  PROVE  /\ Without(x, m).eligible = x.eligible \ {m}
         /\ Without(x, m).votes = [x.votes EXCEPT ![m] = "none"]
         /\ Without(x, m).asked = x.asked
BY DEF RollType, Without

LEMMA RegisterFacts ==
  ASSUME IInv, NEW p \in Players, Register(p) \/ RegisterQuest(p), active' # active
  PROVE  NewActiveFacts(p) /\ at' = [at EXCEPT ![p] = "seeding"] /\ UNCHANGED who
<1>1. NewActive(p) /\ at' = [at EXCEPT ![p] = "seeding"] /\ UNCHANGED who
  BY DEF Register, RegisterQuest, Go
<1>2. used < MaxRolls
  BY BoundAssumption
  DEF Register, RegisterQuest, IInv, TypeOK, LockInv, Go
<1> QED  BY <1>1, <1>2, NewActiveType DEF IInv

LEMMA RegisterWInv ==
  ASSUME IInv, WInv, NEW p \in Players, NewActiveFacts(p),
         at' = [at EXCEPT ![p] = "seeding"], at[p] \in {"listed", "locked"}, UNCHANGED who
  PROVE  WInv'
<1>1. /\ \A x \in RollIds : x # used' => roll'[x] = roll[x]
      /\ roll'[used'].asked = {}
      /\ \A m \in Players : roll'[used'].votes[m] = "none"
      /\ active' = used' /\ active' # NoRoll
  BY Sets DEF NewActiveFacts
<1>2. \A a \in Actors : /\ mine'[a] = IF a = p THEN used' ELSE mine[a]
                        /\ mine[a] # used'
  BY DEF NewActiveFacts, IInv, HandsInv
<1>3. \A a \in Actors : at[a] \in {"seeding"} \cup Settling => mine[a] \in RollIds
  BY DEF IInv, TypeOK, HandsInv
<1>4. \A a \in Actors : at'[a] = IF a = p THEN "seeding" ELSE at[a]
  BY DEF IInv, TypeOK
<1>5. Players \subseteq Actors /\ used' \in RollIds
  BY Sets DEF NewActiveFacts
<1>6. \A a \in Actors : a # p /\ at[a] \in {"seeding"} \cup Settling =>
        roll'[mine'[a]] = roll[mine[a]]
  BY <1>1, <1>2, <1>3
<1>7. VoterInv'
  BY <1>1, <1>5 DEF WInv, VoterInv
<1>8. SeedInv'
  <2>1. \A q \in Players : at'[q] = "seeding" => roll'[mine'[q]].asked = {}
    <3>1. SUFFICES ASSUME NEW q \in Players, at'[q] = "seeding"
                   PROVE  roll'[mine'[q]].asked = {}
      OBVIOUS
    <3>2. CASE q = p
      BY <1>1, <1>2, <1>5, <3>2
    <3>3. CASE q # p
      BY <1>4, <1>5, <1>6, <3>1, <3>3 DEF WInv, SeedInv
    <3> QED  BY <3>2, <3>3
  <2>2. \A q, o \in Players : at'[q] = "seeding" /\ at'[o] = "seeding" /\ mine'[q] = mine'[o] => q = o
    BY <1>2, <1>4, <1>5 DEF WInv, SeedInv
  <2> QED  BY <2>1, <2>2 DEF SeedInv
<1>9. SettleInv'
  BY <1>1, <1>2, <1>4 DEF WInv, SettleInv, Settling
<1>10. WinnerEntitled'
  <2>1. \A a \in Actors : at'[a] \in Settling => at[a] \in Settling /\ a # p
    BY <1>4 DEF Settling
  <2> QED  BY <1>6, <2>1 DEF WInv, WinnerEntitled
<1> QED  BY <1>7, <1>8, <1>9, <1>10 DEF WInv

LEMMA NextWinner == IInv /\ WInv /\ [Next]_vars => WInv'
<1> SUFFICES ASSUME IInv /\ WInv, [Next]_vars
             PROVE  WInv'
  OBVIOUS
<1> USE Sets, NamesAssumption
    DEF TypeOK, RowThere, Settling, NoRoll, Go, Forget, LootFree,
        shared, people, locks, history, locals
<1>0. TypeOK /\ LockInv /\ HandsInv /\ VoterInv /\ SeedInv /\ SettleInv /\ WinnerEntitled
  BY DEF IInv, WInv
<1>1. CASE UNCHANGED vars
  BY <1>1 DEF vars, VoterInv, SeedInv, SettleInv, WinnerEntitled, WInv
<1>2. CASE ClearLoot
  <2>0. \A x \in RollIds : /\ roll'[x].votes = roll[x].votes
                            /\ roll'[x].eligible = roll[x].eligible
                            /\ roll'[x].asked = roll[x].asked
    BY <1>0, <1>2, RollFields DEF ClearLoot
  <2>1. VoterInv'
    BY <1>0, <1>2, <2>0 DEF ClearLoot, VoterInv
  <2>2. SeedInv'
    <3>1. at' = at /\ mine' = mine
      BY <1>2 DEF ClearLoot
    <3>2. \A p \in Players : at[p] = "seeding" => mine[p] \in RollIds
      BY <1>0 DEF HandsInv
    <3>3. \A p \in Players : at[p] = "seeding" => roll'[mine[p]].asked = {}
      BY <1>0, <2>0, <3>2 DEF SeedInv
    <3> QED  BY <1>0, <3>1, <3>3 DEF SeedInv
  <2>3. SettleInv'
    BY <1>0, <1>2, <2>0 DEF ClearLoot, SettleInv, HandsInv
  <2>4. WinnerEntitled'
    BY <1>0, <1>2, <2>0 DEF ClearLoot, WinnerEntitled, SettleInv, HandsInv
  <2> QED  BY <2>1, <2>2, <2>3, <2>4 DEF WInv
<1>3. ASSUME NEW p \in Players, ClientStep(p) PROVE WInv'
  <2>1. CASE Open(p)
    <3>1. VoterInv'
      BY <1>0, <2>1 DEF Open, VoterInv
    <3>2. SeedInv'
      BY <1>0, <2>1 DEF Open, SeedInv, HandsInv
    <3>3. SettleInv'
      BY <1>0, <2>1 DEF Open, SettleInv
    <3>4. WinnerEntitled'
      BY <1>0, <2>1 DEF Open, WinnerEntitled, SettleInv
    <3> QED  BY <3>1, <3>2, <3>3, <3>4 DEF WInv
  <2>2. CASE TakeRow(p)
    <3>1. VoterInv'
      BY <1>0, <2>2 DEF TakeRow, VoterInv
    <3>2. SeedInv'
      BY <1>0, <2>2 DEF TakeRow, SeedInv, HandsInv
    <3>3. SettleInv'
      BY <1>0, <2>2 DEF TakeRow, SettleInv
    <3>4. WinnerEntitled'
      BY <1>0, <2>2 DEF TakeRow, WinnerEntitled, SettleInv
    <3> QED  BY <3>1, <3>2, <3>3, <3>4 DEF WInv
  <2>3. CASE Travel(p)
    <3>1. VoterInv'
      BY <1>0, <2>3 DEF Travel, VoterInv
    <3>2. SeedInv'
      BY <1>0, <2>3 DEF Travel, SeedInv, HandsInv
    <3>3. SettleInv'
      BY <1>0, <2>3 DEF Travel, SettleInv
    <3>4. WinnerEntitled'
      BY <1>0, <2>3 DEF Travel, WinnerEntitled, SettleInv
    <3> QED  BY <3>1, <3>2, <3>3, <3>4 DEF WInv
  <2>4. ASSUME NEW b \in Ballots, NEW o \in BOOLEAN, Vote(p, b, o) PROVE WInv'
    <3>1. VoterInv'
      BY <1>0, <2>4 DEF Vote, Counted, VoterInv
    <3>2. SeedInv'
      BY <1>0, <2>4 DEF Vote, Counted, SeedInv, HandsInv
    <3>3. SettleInv'
      BY <1>0, <2>4 DEF Vote, Counted, SettleInv
    <3>4. WinnerEntitled'
      BY <1>0, <2>4 DEF Vote, Counted, WinnerEntitled, VoterInv, SettleInv, HandsInv
    <3> QED  BY <3>1, <3>2, <3>3, <3>4 DEF WInv
  <2>5. ASSUME NEW m \in Players, Remove(p, m) PROVE WInv'
    <3>1. VoterInv'
      BY <1>0, <2>5 DEF Remove, VoterInv
    <3>2. SeedInv'
      BY <1>0, <2>5 DEF Remove, SeedInv, HandsInv
    <3>3. SettleInv'
      BY <1>0, <2>5 DEF Remove, SettleInv
    <3>4. WinnerEntitled'
      BY <1>0, <2>5 DEF Remove, WinnerEntitled, SettleInv
    <3> QED  BY <3>1, <3>2, <3>3, <3>4 DEF WInv
  <2> QED  BY <1>3, <2>1, <2>2, <2>3, <2>4, <2>5 DEF ClientStep
<1>4. ASSUME NEW p \in Players, StartStep(p) \/ TakeStep(p) \/ Withdraw(p) PROVE WInv'
  <2>1. CASE ListEligible(p)
    <3>1. VoterInv'
      BY <1>0, <2>1 DEF ListEligible, VoterInv
    <3>2. SeedInv'
      <4>1. \A q \in Players : at'[q] = "seeding" =>
              at[q] = "seeding" /\ mine'[q] = mine[q] /\ mine[q] \in RollIds
        BY <1>0, <2>1 DEF ListEligible, HandsInv
      <4>2. \A x \in RollIds : roll'[x].asked = roll[x].asked
        BY <2>1 DEF ListEligible
      <4> QED  BY <1>0, <4>1, <4>2 DEF SeedInv
    <3>3. SettleInv'
      BY <1>0, <2>1 DEF ListEligible, SettleInv
    <3>4. WinnerEntitled'
      BY <1>0, <2>1 DEF ListEligible, WinnerEntitled, SettleInv
    <3> QED  BY <3>1, <3>2, <3>3, <3>4 DEF WInv
  <2>2. CASE LockLoot(p)
    <3>1. VoterInv'
      BY <1>0, <2>2 DEF LockLoot, VoterInv
    <3>2. SeedInv'
      BY <1>0, <2>2 DEF LockLoot, SeedInv, HandsInv
    <3>3. SettleInv'
      BY <1>0, <2>2 DEF LockLoot, SettleInv
    <3>4. WinnerEntitled'
      BY <1>0, <2>2 DEF LockLoot, WinnerEntitled, SettleInv
    <3> QED  BY <3>1, <3>2, <3>3, <3>4 DEF WInv
  <2>3. CASE Register(p)
    <3>1. active' # active
      BY <1>0, <2>3 DEF Register, NewActive, LockInv
    <3> QED  BY <2>3, <3>1, RegisterFacts, RegisterWInv DEF Register
  <2>4. CASE BlockOnly(p)
    <3>1. VoterInv'
      BY <1>0, <2>4 DEF BlockOnly, VoterInv
    <3>2. SeedInv'
      BY <1>0, <2>4 DEF BlockOnly, SeedInv, HandsInv
    <3>3. SettleInv'
      BY <1>0, <2>4 DEF BlockOnly, SettleInv
    <3>4. WinnerEntitled'
      BY <1>0, <2>4 DEF BlockOnly, WinnerEntitled, SettleInv
    <3> QED  BY <3>1, <3>2, <3>3, <3>4 DEF WInv
  <2>5. CASE RegisterQuest(p)
    <3>1. CASE active' # active
      BY <2>5, <3>1, RegisterFacts, RegisterWInv DEF RegisterQuest
    <3>2. CASE active' = active
      <4>1. UNCHANGED <<roll, active, mine, who>> /\ at' = [at EXCEPT ![p] = "idle"] /\ at[p] = "listed"
        BY <1>0, <2>5, <3>2 DEF RegisterQuest, NewActive
      <4>2. VoterInv'
        BY <1>0, <4>1 DEF VoterInv
      <4>3. SeedInv'
        BY <1>0, <4>1 DEF SeedInv
      <4>4. SettleInv'
        BY <1>0, <4>1 DEF SettleInv
      <4>5. WinnerEntitled'
        BY <1>0, <4>1 DEF WinnerEntitled
      <4> QED  BY <4>2, <4>3, <4>4, <4>5 DEF WInv
    <3> QED  BY <3>1, <3>2
  <2>6. CASE Seed(p)
    <3>1. VoterInv'
      BY <1>0, <2>6 DEF Seed, Seeded, VoterInv, SeedInv, HandsInv
    <3>2. SeedInv'
      BY <1>0, <2>6 DEF Seed, Seeded, SeedInv, HandsInv
    <3>3. SettleInv'
      BY <1>0, <2>6 DEF Seed, Seeded, SettleInv
    <3>4. WinnerEntitled'
      BY <1>0, <2>6 DEF Seed, Seeded, WinnerEntitled, VoterInv, SeedInv, HandsInv, SettleInv
    <3> QED  BY <3>1, <3>2, <3>3, <3>4 DEF WInv
  <2>7. CASE Arm(p)
    <3>1. VoterInv'
      BY <1>0, <2>7 DEF Arm, VoterInv
    <3>2. SeedInv'
      BY <1>0, <2>7 DEF Arm, SeedInv, HandsInv
    <3>3. SettleInv'
      BY <1>0, <2>7 DEF Arm, SettleInv
    <3>4. WinnerEntitled'
      BY <1>0, <2>7 DEF Arm, WinnerEntitled, SettleInv
    <3> QED  BY <3>1, <3>2, <3>3, <3>4 DEF WInv
  <2>8. CASE TakeGate(p)
    <3>1. VoterInv'
      BY <1>0, <2>8 DEF TakeGate, VoterInv
    <3>2. SeedInv'
      BY <1>0, <2>8 DEF TakeGate, SeedInv, HandsInv
    <3>3. SettleInv'
      BY <1>0, <2>8 DEF TakeGate, SettleInv
    <3>4. WinnerEntitled'
      BY <1>0, <2>8 DEF TakeGate, WinnerEntitled, SettleInv
    <3> QED  BY <3>1, <3>2, <3>3, <3>4 DEF WInv
  <2>9. CASE TakeStore(p)
    <3>1. VoterInv'
      BY <1>0, <2>9 DEF TakeStore, VoterInv
    <3>2. SeedInv'
      BY <1>0, <2>9 DEF TakeStore, SeedInv, HandsInv
    <3>3. SettleInv'
      BY <1>0, <2>9 DEF TakeStore, SettleInv
    <3>4. WinnerEntitled'
      BY <1>0, <2>9 DEF TakeStore, WinnerEntitled, SettleInv
    <3> QED  BY <3>1, <3>2, <3>3, <3>4 DEF WInv
  <2>10. CASE TakeDelete(p)
    <3>1. VoterInv'
      BY <1>0, <2>10 DEF TakeDelete, VoterInv
    <3>2. SeedInv'
      BY <1>0, <2>10 DEF TakeDelete, SeedInv, HandsInv
    <3>3. SettleInv'
      BY <1>0, <2>10 DEF TakeDelete, SettleInv
    <3>4. WinnerEntitled'
      BY <1>0, <2>10 DEF TakeDelete, WinnerEntitled, SettleInv
    <3> QED  BY <3>1, <3>2, <3>3, <3>4 DEF WInv
  <2>11. CASE Withdraw(p)
    <3>0. \A x \in RollIds :
           /\ roll'[x].asked = roll[x].asked
           /\ x # active => roll'[x] = roll[x]
           /\ \A m \in Players : roll'[x].votes[m] \in {"need", "greed"} =>
                /\ roll'[x].votes[m] = roll[x].votes[m]
                /\ m \in roll[x].eligible => m \in roll'[x].eligible
      <4>1. CASE roll' = roll
        BY <4>1
      <4>2. CASE roll' # roll
        <5>1. /\ active \in RollIds /\ roll[active] \in RollType /\ who[p] \in Players
              /\ roll' = [roll EXCEPT ![active] = Without(@, who[p])]
          BY <1>0, <2>11, <4>2 DEF Withdraw, HandsInv
        <5>2. \A x \in RollIds : x # active => roll'[x] = roll[x]
          BY <1>0, <5>1
        <5>3. roll'[active] = Without(roll[active], who[p])
          BY <1>0, <5>1
        <5>4. /\ roll'[active].asked = roll[active].asked
              /\ roll'[active].eligible = roll[active].eligible \ {who[p]}
              /\ roll'[active].votes = [roll[active].votes EXCEPT ![who[p]] = "none"]
          <6>1. /\ Without(roll[active], who[p]).asked = roll[active].asked
                /\ Without(roll[active], who[p]).eligible = roll[active].eligible \ {who[p]}
                /\ Without(roll[active], who[p]).votes = [roll[active].votes EXCEPT ![who[p]] = "none"]
            BY <5>1, WithoutFields
          <6> QED  BY <5>3, <6>1
        <5>5. roll[active].votes \in [Players -> Ballots]
          BY <5>1 DEF RollType
        <5> QED  BY <5>2, <5>4, <5>5
      <4> QED  BY <4>1, <4>2
    <3>1. VoterInv'
      BY <1>0, <2>11, <3>0 DEF Withdraw, VoterInv
    <3>2. SeedInv'
      BY <1>0, <2>11, <3>0 DEF Withdraw, SeedInv, HandsInv
    <3>3. SettleInv'
      BY <1>0, <2>11, <3>0 DEF Withdraw, SettleInv
    <3>4. WinnerEntitled'
      BY <1>0, <2>11, <3>0 DEF Withdraw, WinnerEntitled, VoterInv, SettleInv, HandsInv
    <3> QED  BY <3>1, <3>2, <3>3, <3>4 DEF WInv
  <2> QED  BY <1>4, <2>1, <2>2, <2>3, <2>4, <2>5, <2>6, <2>7, <2>8, <2>9, <2>10, <2>11 DEF StartStep, TakeStep
<1>5. ASSUME NEW r \in RollIds, Fire(r) PROVE WInv'
  <2>0. \A x \in RollIds : /\ roll'[x].votes = roll[x].votes
                            /\ roll'[x].eligible = roll[x].eligible
                            /\ roll'[x].asked = roll[x].asked
    BY <1>0, <1>5 DEF Fire
  <2>1. VoterInv'
    BY <1>0, <1>5, <2>0 DEF Fire, VoterInv
  <2>2. SeedInv'
    BY <1>0, <1>5, <2>0 DEF Fire, SeedInv, HandsInv
  <2>3. SettleInv'
    BY <1>0, <1>5, <2>0 DEF Fire, SettleInv
  <2>4. WinnerEntitled'
    BY <1>0, <1>5, <2>0 DEF Fire, WinnerEntitled, SettleInv
  <2> QED  BY <2>1, <2>2, <2>3, <2>4 DEF WInv
<1>6. ASSUME NEW a \in Actors, ResolveStep(a) PROVE WInv'
  <2>1. CASE Close(a)
    <3>0. \A x \in RollIds : /\ roll'[x].votes = roll[x].votes
                              /\ roll'[x].eligible = roll[x].eligible
                              /\ roll'[x].asked = roll[x].asked
      BY <1>0, <2>1, RollFields DEF Close
    <3>1. VoterInv'
      BY <1>0, <2>1, <3>0 DEF Close, VoterInv
    <3>2. SeedInv'
      <4>1. \A q \in Players : at'[q] = "seeding" =>
              at[q] = "seeding" /\ mine'[q] = mine[q] /\ mine[q] \in RollIds
        BY <1>0, <2>1 DEF Close, HandsInv
      <4>2. \A x \in RollIds : roll'[x].asked = roll[x].asked
        BY <3>0 DEF Close
      <4> QED  BY <1>0, <4>1, <4>2 DEF SeedInv
    <3>3. SettleInv'
      BY <1>0, <2>1, <3>0 DEF Close, SettleInv, HandsInv
    <3>4. WinnerEntitled'
      BY <1>0, <2>1, <3>0 DEF Close, WinnerEntitled, SettleInv, HandsInv
    <3> QED  BY <3>1, <3>2, <3>3, <3>4 DEF WInv
  <2>2. CASE Tally(a)
    <3>1. VoterInv'
      BY <1>0, <2>2 DEF Tally, Winners, Tier, Present, VoterInv
    <3>2. SeedInv'
      BY <1>0, <2>2 DEF Tally, Winners, Tier, Present, SeedInv, HandsInv
    <3>3. SettleInv'
      BY <1>0, <2>2 DEF Tally, Winners, Tier, Present, SettleInv
    <3>4. WinnerEntitled'
      <4>1. \A w \in Winners(a) : w \in roll[mine[a]].eligible /\ roll[mine[a]].votes[w] \in {"need", "greed"}
        <5>1. mine[a] \in RollIds
          BY <1>0, <2>2 DEF Tally, HandsInv
        <5> QED  BY <1>0, <5>1 DEF Winners, Tier, Present, VoterInv
      <4>2. who[a] = Nobody
        BY <1>0, <2>2 DEF Tally, SettleInv
      <4>3. who'[a] = Nobody \/ who'[a] \in Winners(a)
        BY <1>0, <2>2, <4>2 DEF Tally
      <4>4. \A b \in Actors : b # a => who'[b] = who[b] /\ at'[b] = at[b]
        BY <1>0, <2>2 DEF Tally
      <4> QED  BY <1>0, <2>2, <4>1, <4>3, <4>4 DEF Tally, WinnerEntitled
    <3> QED  BY <3>1, <3>2, <3>3, <3>4 DEF WInv
  <2>3. CASE AllPassed(a)
    <3>1. VoterInv'
      BY <1>0, <2>3 DEF AllPassed, Unblock, VoterInv
    <3>2. SeedInv'
      BY <1>0, <2>3 DEF AllPassed, Unblock, SeedInv, HandsInv
    <3>3. SettleInv'
      BY <1>0, <2>3 DEF AllPassed, Unblock, SettleInv
    <3>4. WinnerEntitled'
      BY <1>0, <2>3 DEF AllPassed, Unblock, WinnerEntitled, SettleInv
    <3> QED  BY <3>1, <3>2, <3>3, <3>4 DEF WInv
  <2>4. CASE Deliver(a)
    <3>1. VoterInv'
      BY <1>0, <2>4 DEF Deliver, VoterInv
    <3>2. SeedInv'
      BY <1>0, <2>4 DEF Deliver, SeedInv, HandsInv
    <3>3. SettleInv'
      BY <1>0, <2>4 DEF Deliver, SettleInv
    <3>4. WinnerEntitled'
      BY <1>0, <2>4 DEF Deliver, WinnerEntitled, SettleInv
    <3> QED  BY <3>1, <3>2, <3>3, <3>4 DEF WInv
  <2>5. CASE DropRow(a)
    <3>1. VoterInv'
      BY <1>0, <2>5 DEF DropRow, VoterInv
    <3>2. SeedInv'
      BY <1>0, <2>5 DEF DropRow, SeedInv, HandsInv
    <3>3. SettleInv'
      BY <1>0, <2>5 DEF DropRow, SettleInv
    <3>4. WinnerEntitled'
      BY <1>0, <2>5 DEF DropRow, WinnerEntitled, SettleInv
    <3> QED  BY <3>1, <3>2, <3>3, <3>4 DEF WInv
  <2>6. CASE KeepForWinner(a)
    <3>1. VoterInv'
      BY <1>0, <2>6 DEF KeepForWinner, VoterInv
    <3>2. SeedInv'
      BY <1>0, <2>6 DEF KeepForWinner, SeedInv, HandsInv
    <3>3. SettleInv'
      BY <1>0, <2>6 DEF KeepForWinner, SettleInv
    <3>4. WinnerEntitled'
      BY <1>0, <2>6 DEF KeepForWinner, WinnerEntitled, SettleInv
    <3> QED  BY <3>1, <3>2, <3>3, <3>4 DEF WInv
  <2> QED  BY <1>6, <2>1, <2>2, <2>3, <2>4, <2>5, <2>6 DEF ResolveStep
<1> QED  BY <1>1, <1>2, <1>3, <1>4, <1>5, <1>6 DEF Next

\* A winner voted for the item and was in the roll when it was closed, whoever
\* votes, leaves or opens windows meanwhile (handleLootRoll,
\* onPlayerLeaveGroupRolls, resolveGroupLootRoll).
THEOREM WinnersAreVoters == Spec => []WinnerEntitled
<1>1. Init => WInv
  BY NamesAssumption
  DEF Init, WInv, VoterInv, SeedInv, SettleInv, WinnerEntitled, NewRoll, Settling, Actors
<1>2. WInv => WinnerEntitled
  BY DEF WInv
<1> QED  BY <1>1, <1>2, InitIInv, NextIInv, NextWinner, PTL DEF Spec

-----------------------------------------------------------------------------
(* The rolls of a row keep their promise.                                    *)

\* No two resolvers have the same roll.
AloneInv ==
  \A a, b \in Actors :
    at[a] \in Settling /\ at[b] \in Settling /\ mine[a] = mine[b] => a = b

PInv == IInv /\ WInv /\ AloneInv

LEMMA NextAlone == PInv /\ [Next]_vars => AloneInv'
<1> SUFFICES ASSUME PInv, [Next]_vars
             PROVE  AloneInv'
  OBVIOUS
<1> USE DEF PInv, IInv, TypeOK, HandsInv, WInv, SettleInv, AloneInv, Settling, NoRoll, Go, Forget,
            shared, people, locks, history, locals
<1> USE Sets
<1>1. CASE UNCHANGED vars
  BY <1>1 DEF vars
<1>2. CASE ClearLoot
  BY <1>2 DEF ClearLoot
<1>3. ASSUME NEW p \in Players, ClientStep(p) PROVE AloneInv'
  <2>1. CASE Open(p)
    BY <2>1 DEF Open
  <2>2. CASE TakeRow(p)
    BY <2>2 DEF TakeRow
  <2>3. CASE Travel(p)
    BY <2>3 DEF Travel
  <2>4. ASSUME NEW b \in Ballots, NEW o \in BOOLEAN, Vote(p, b, o) PROVE AloneInv'
    BY <2>4 DEF Vote
  <2>5. ASSUME NEW m \in Players, Remove(p, m) PROVE AloneInv'
    BY <2>5 DEF Remove
  <2> QED  BY <1>3, <2>1, <2>2, <2>3, <2>4, <2>5 DEF ClientStep
<1>4. ASSUME NEW p \in Players, StartStep(p) \/ TakeStep(p) \/ Withdraw(p) PROVE AloneInv'
  <2>1. CASE ListEligible(p)
    BY <2>1 DEF ListEligible
  <2>2. CASE LockLoot(p)
    BY <2>2 DEF LockLoot
  <2>3. CASE Register(p)
    BY <2>3 DEF Register, NewActive
  <2>4. CASE BlockOnly(p)
    BY <2>4 DEF BlockOnly
  <2>5. CASE RegisterQuest(p)
    BY <2>5 DEF RegisterQuest, NewActive
  <2>6. CASE Seed(p)
    BY <2>6 DEF Seed
  <2>7. CASE Arm(p)
    BY <2>7 DEF Arm
  <2>8. CASE TakeGate(p)
    BY <2>8 DEF TakeGate
  <2>9. CASE TakeStore(p)
    BY <2>9 DEF TakeStore
  <2>10. CASE TakeDelete(p)
    BY <2>10 DEF TakeDelete
  <2>11. CASE Withdraw(p)
    BY <2>11 DEF Withdraw
  <2> QED  BY <1>4, <2>1, <2>2, <2>3, <2>4, <2>5, <2>6, <2>7, <2>8, <2>9, <2>10, <2>11 DEF StartStep, TakeStep
<1>5. ASSUME NEW r \in RollIds, Fire(r) PROVE AloneInv'
  BY <1>5 DEF Fire
<1>6. ASSUME NEW a \in Actors, ResolveStep(a) PROVE AloneInv'
  <2>1. CASE Close(a)
    BY <2>1 DEF Close
  <2>2. CASE Tally(a)
    BY <2>2 DEF Tally
  <2>3. CASE AllPassed(a)
    BY <2>3 DEF AllPassed
  <2>4. CASE Deliver(a)
    BY <2>4 DEF Deliver
  <2>5. CASE DropRow(a)
    BY <2>5 DEF DropRow
  <2>6. CASE KeepForWinner(a)
    BY <2>6 DEF KeepForWinner
  <2> QED  BY <1>6, <2>1, <2>2, <2>3, <2>4, <2>5, <2>6 DEF ResolveStep
<1> QED  BY <1>1, <1>2, <1>3, <1>4, <1>5, <1>6 DEF Next

\* What the phase of a roll is, by what is known of it.
PhaseFacts ==
  /\ Phase = [r \in RollIds |-> Phase[r]]
  /\ \A r \in RollIds : r > used => Phase[r] = "future"
  /\ active # NoRoll => Phase[active] = "open"
  /\ \A a \in Actors : /\ at[a] = "tallying" => Phase[mine[a]] = "closed"
                       /\ at[a] \in {"decided", "refused"} => Phase[mine[a]] = "drawn"
                       /\ at[a] = "awarded" => Phase[mine[a]] = "awarded"
  /\ \A r \in RollIds :
       /\ r <= used /\ r # active
       /\ \A a \in Actors : at[a] \in Settling => mine[a] # r
       => Phase[r] = "settled"

LEMMA PhaseFactsHold == PInv => PhaseFacts
<1> SUFFICES ASSUME PInv PROVE PhaseFacts
  OBVIOUS
<1>0. TypeOK /\ HandsInv /\ SettleInv /\ AloneInv
  BY DEF PInv, IInv, WInv
<1>1. /\ active \in RollIds \cup {NoRoll} /\ active <= used /\ used \in Nat
      /\ \A a \in Actors : at[a] \in Settling =>
           mine[a] \in RollIds /\ mine[a] <= used /\ mine[a] # active
  BY <1>0 DEF TypeOK, HandsInv, SettleInv
<1>3. ASSUME NEW a \in Actors, at[a] \in Settling PROVE ~(mine[a] > used)
  <2>1. mine[a] \in Nat /\ mine[a] <= used
    BY <1>1, <1>3, Sets
  <2> QED  BY <1>1, <2>1
<1>2. ASSUME NEW r \in RollIds, r > used PROVE Phase[r] = "future"
  <2>1. \A a \in Actors : at[a] \in Settling => mine[a] # r
    BY <1>2, <1>3
  <2>2. ~Working(r, {"tallying"}) /\ ~Working(r, {"decided", "refused"}) /\ ~Working(r, {"awarded"})
    BY <2>1 DEF Working, Settling
  <2>3. r \in Nat /\ r # active
    BY <1>1, <1>2, Sets DEF NoRoll
  <2> QED  BY <1>2, <2>2, <2>3 DEF Phase
<1>4. active # NoRoll => Phase[active] = "open"
  <2>1. SUFFICES ASSUME active # NoRoll PROVE Phase[active] = "open"
    OBVIOUS
  <2>2. active \in RollIds /\ ~(active > used)
    BY <1>1, <2>1, Sets
  <2>3. \A P \in SUBSET Settling : ~Working(active, P)
    BY <1>1 DEF Working
  <2>4. ~Working(active, {"tallying"}) /\ ~Working(active, {"decided", "refused"}) /\ ~Working(active, {"awarded"})
    BY <2>3 DEF Settling
  <2> QED  BY <2>2, <2>4 DEF Phase
<1>5. ASSUME NEW a \in Actors
      PROVE  /\ at[a] = "tallying" => Phase[mine[a]] = "closed"
             /\ at[a] \in {"decided", "refused"} => Phase[mine[a]] = "drawn"
             /\ at[a] = "awarded" => Phase[mine[a]] = "awarded"
  <2>1. at[a] \in Settling =>
          \A P \in SUBSET Settling : Working(mine[a], P) <=> at[a] \in P
    BY <1>0 DEF Working, AloneInv
  <2>2. at[a] \in Settling =>
          /\ Working(mine[a], {"tallying"}) <=> at[a] = "tallying"
          /\ Working(mine[a], {"decided", "refused"}) <=> at[a] \in {"decided", "refused"}
          /\ Working(mine[a], {"awarded"}) <=> at[a] = "awarded"
    BY <2>1 DEF Settling
  <2>3. CASE at[a] \in Settling
    BY <1>1, <1>3, <2>2, <2>3 DEF Phase
  <2> QED  BY <2>3 DEF Settling
<1>6. ASSUME NEW r \in RollIds, r <= used, r # active,
             \A a \in Actors : at[a] \in Settling => mine[a] # r
      PROVE  Phase[r] = "settled"
  <2>1. ~Working(r, {"tallying"}) /\ ~Working(r, {"decided", "refused"}) /\ ~Working(r, {"awarded"})
    BY <1>6 DEF Working, Settling
  <2>2. ~(r > used)
    BY <1>1, <1>6, Sets
  <2> QED  BY <1>6, <2>1, <2>2 DEF Phase
<1>7. Phase = [r \in RollIds |-> Phase[r]]
  BY DEF Phase
<1> QED  BY <1>2, <1>4, <1>5, <1>6, <1>7 DEF PhaseFacts

LEMMA PhaseFactsNext == PInv' => PhaseFacts'
BY PhaseFactsHold, PTL

\* The step changes nothing that the phases of the rolls outside R depend on.
Elsewhere(R) ==
  \A q \in RollIds \ R :
    /\ q > used' <=> q > used
    /\ q = active' <=> q = active
    /\ \A b \in Actors, s \in Settling :
         mine'[b] = q /\ at'[b] = s <=> mine[b] = q /\ at[b] = s

LEMMA PhaseElsewhere ==
  ASSUME NEW R, Elsewhere(R)
  PROVE  \A q \in RollIds \ R : Phase'[q] = Phase[q]
<1> SUFFICES ASSUME NEW q \in RollIds \ R PROVE Phase'[q] = Phase[q]
  OBVIOUS
<1>1. \A P \in SUBSET Settling : Working(q, P)' <=> Working(q, P)
  BY DEF Elsewhere, Working
<1>2. /\ Working(q, {"tallying"})' <=> Working(q, {"tallying"})
      /\ Working(q, {"decided", "refused"})' <=> Working(q, {"decided", "refused"})
      /\ Working(q, {"awarded"})' <=> Working(q, {"awarded"})
  BY <1>1 DEF Settling
<1>3. (q > used' <=> q > used) /\ (q = active' <=> q = active)
  BY DEF Elsewhere
<1> QED  BY <1>2, <1>3 DEF Phase

\* The roll r moves to another phase, and nothing else happens.
LEMMA PhaseMoves ==
  ASSUME PInv, NEW r \in RollIds, Elsewhere({r}), NEW x, NEW y,
         Phase[r] = x, Phase'[r] = y
  PROVE  Promise!Move(r, x, y)
<1>1. \A q \in RollIds \ {r} : Phase'[q] = Phase[q]
  BY PhaseElsewhere
<1>2. Phase = [q \in RollIds |-> Phase[q]] /\ Phase' = [q \in RollIds |-> Phase'[q]]
  BY DEF Phase
<1> QED  BY <1>1, <1>2 DEF Promise!Move

\* A step of actors outside of resolving moves no roll.
Quiet ==
  /\ used' = used /\ active' = active
  /\ \A b \in Actors : \/ at[b] \notin Settling /\ at'[b] \notin Settling
                       \/ at'[b] = at[b] /\ mine'[b] = mine[b]

LEMMA QuietStep == Quiet => UNCHANGED Phase
<1> SUFFICES ASSUME Quiet PROVE Phase' = Phase
  OBVIOUS
<1>1. Elsewhere({})
  BY DEF Quiet, Elsewhere
<1>2. \A q \in RollIds : Phase'[q] = Phase[q]
  BY <1>1, PhaseElsewhere
<1>3. Phase = [q \in RollIds |-> Phase[q]] /\ Phase' = [q \in RollIds |-> Phase'[q]]
  BY DEF Phase
<1> QED  BY <1>2, <1>3

LEMMA StartMoves ==
  ASSUME PInv, PInv', PhaseFacts, PhaseFacts', NEW p \in Players, NewActiveFacts(p),
         active = NoRoll, at' = [at EXCEPT ![p] = "seeding"], at[p] \in {"listed", "locked"}
  PROVE  Promise!Next
<1>0. TypeOK /\ HandsInv /\ SettleInv
  BY DEF PInv, IInv, WInv
<1>1. /\ used' = used + 1 /\ active' = used' /\ used' \in RollIds /\ used \in Nat
      /\ \A a \in Actors : mine'[a] = IF a = p THEN used' ELSE mine[a]
      /\ \A a \in Actors : mine[a] # used'
      /\ \A a \in Actors : at'[a] = IF a = p THEN "seeding" ELSE at[a]
  BY <1>0 DEF NewActiveFacts, TypeOK, HandsInv
<1>2. Elsewhere({used'})
  <2>1. \A q \in RollIds \ {used'} : (q > used' <=> q > used) /\ q # active' /\ q # active
    BY <1>1, Sets DEF NoRoll
  <2>2. \A q \in RollIds \ {used'}, b \in Actors, s \in Settling :
          mine'[b] = q /\ at'[b] = s <=> mine[b] = q /\ at[b] = s
    BY <1>1 DEF Settling
  <2> QED  BY <2>1, <2>2 DEF Elsewhere
<1>3. Phase[used'] = "future"
  BY <1>1 DEF PhaseFacts
<1>4. Phase'[used'] = "open"
  BY <1>1, Sets DEF PhaseFacts
<1>5. \A q \in RollIds : Phase[q] # "open"
  <2> SUFFICES ASSUME NEW q \in RollIds PROVE Phase[q] # "open"
    OBVIOUS
  <2>1. q # active
    BY Sets
  <2>2. q \in Nat
    BY Sets
  <2>3. CASE q > used
    BY <2>3 DEF PhaseFacts
  <2>4. CASE \E a \in Actors : at[a] \in Settling /\ mine[a] = q
    BY <2>4 DEF PhaseFacts, Settling
  <2>5. CASE q <= used /\ \A a \in Actors : at[a] \in Settling => mine[a] # q
    BY <2>1, <2>5 DEF PhaseFacts
  <2> QED  BY <1>1, <2>2, <2>3, <2>4, <2>5
<1>6. Promise!Move(used', "future", "open")
  BY <1>1, <1>2, <1>3, <1>4, PhaseMoves
<1> QED  BY <1>1, <1>5, <1>6 DEF Promise!Next, Promise!Start

LEMMA NextPromise == PInv /\ PInv' /\ [Next]_vars => Promise!Next \/ UNCHANGED Phase
<1> SUFFICES ASSUME PInv /\ PInv', [Next]_vars
             PROVE  Promise!Next \/ UNCHANGED Phase
  OBVIOUS
<1>0. /\ TypeOK /\ LockInv /\ HandsInv /\ SettleInv /\ AloneInv
      /\ PInv' /\ PhaseFacts /\ PhaseFacts'
  BY PhaseFactsHold, PhaseFactsNext DEF PInv, IInv, WInv
<1>1. CASE UNCHANGED vars
  BY <1>1, <1>0, QuietStep, Sets DEF vars, Quiet, TypeOK, Settling, Go, Forget, shared, people, locks, history, locals
<1>2. CASE ClearLoot
  <2>1. CASE active = NoRoll
    BY <1>2, <2>1, QuietStep DEF ClearLoot, Quiet, locals
  <2>2. CASE active # NoRoll
    <3>1. active \in RollIds /\ active # active' /\ active <= used'
      BY <1>0, <1>2, <2>2, Sets DEF ClearLoot, TypeOK, HandsInv
    <3>2. Elsewhere({active})
      BY <1>2, <3>1, Sets DEF ClearLoot, Elsewhere, NoRoll, locals
    <3>3. \A a \in Actors : at'[a] \in Settling => mine'[a] # active
      BY <1>0, <1>2 DEF ClearLoot, SettleInv, locals
    <3>4. Phase[active] = "open" /\ Phase'[active] = "settled"
      BY <1>0, <2>2, <3>1, <3>3 DEF PhaseFacts
    <3> QED  BY <3>1, <3>2, <3>4, PhaseMoves DEF Promise!Next, Promise!Cancel
  <2> QED  BY <2>1, <2>2
<1>3. ASSUME NEW p \in Players, ClientStep(p) PROVE Promise!Next \/ UNCHANGED Phase
  <2>1. CASE Open(p)
    BY <2>1, <1>0, QuietStep, Sets DEF Open, Quiet, TypeOK, Settling, Go, Forget, shared, people, locks, history, locals
  <2>2. CASE TakeRow(p)
    BY <2>2, <1>0, QuietStep, Sets DEF TakeRow, Quiet, TypeOK, Settling, Go, Forget, shared, people, locks, history, locals
  <2>3. CASE Travel(p)
    BY <2>3, <1>0, QuietStep, Sets DEF Travel, Quiet, TypeOK, Settling, Go, Forget, shared, people, locks, history, locals
  <2>4. ASSUME NEW b \in Ballots, NEW o \in BOOLEAN, Vote(p, b, o) PROVE Promise!Next \/ UNCHANGED Phase
    BY <2>4, <1>0, QuietStep, Sets DEF Vote, Quiet, TypeOK, Settling, Go, Forget, shared, people, locks, history, locals
  <2>5. ASSUME NEW m \in Players, Remove(p, m) PROVE Promise!Next \/ UNCHANGED Phase
    BY <2>5, <1>0, QuietStep, Sets DEF Remove, Quiet, TypeOK, Settling, Go, Forget, shared, people, locks, history, locals
  <2> QED  BY <1>3, <2>1, <2>2, <2>3, <2>4, <2>5 DEF ClientStep
<1>4. ASSUME NEW p \in Players, StartStep(p) \/ TakeStep(p) \/ Withdraw(p) PROVE Promise!Next \/ UNCHANGED Phase
  <2>1. CASE ListEligible(p)
    BY <2>1, <1>0, QuietStep, Sets DEF ListEligible, Quiet, TypeOK, Settling, Go, Forget, shared, people, locks, history, locals
  <2>2. CASE LockLoot(p)
    BY <2>2, <1>0, QuietStep, Sets DEF LockLoot, Quiet, TypeOK, Settling, Go, Forget, shared, people, locks, history, locals
  <2>3. CASE Register(p)
    <3>1. NewActive(p) /\ NewActiveFacts(p) /\ active = NoRoll
      <4>1. active' # active
        BY <2>3, <1>0 DEF Register, NewActive, LockInv, HandsInv, TypeOK
      <4> QED  BY <2>3, <1>0, <4>1, RegisterFacts DEF Register, LockInv, Go, PInv
    <3>2. at' = [at EXCEPT ![p] = "seeding"] /\ at[p] = "locked"
      BY <2>3 DEF Register, Go
    <3> QED  BY <1>0, <3>1, <3>2, StartMoves
  <2>4. CASE BlockOnly(p)
    BY <2>4, <1>0, QuietStep, Sets DEF BlockOnly, Quiet, TypeOK, Settling, Go, Forget, shared, people, locks, history, locals
  <2>5. CASE RegisterQuest(p)
    <3>1. CASE active # NoRoll \/ used = MaxRolls
      BY <2>5, <1>0, <3>1, QuietStep, Sets DEF RegisterQuest, Quiet, TypeOK, Settling, Go
    <3>2. CASE ~(active # NoRoll \/ used = MaxRolls)
      <4>1. NewActive(p) /\ at' = [at EXCEPT ![p] = "seeding"] /\ at[p] = "listed"
        BY <2>5, <3>2 DEF RegisterQuest, Go
      <4>2. active' # active
        BY <1>0, <3>2, <4>1 DEF NewActive, TypeOK, NoRoll
      <4>3. NewActiveFacts(p)
        BY <2>5, <4>2, RegisterFacts DEF PInv
      <4> QED  BY <1>0, <3>2, <4>1, <4>3, StartMoves
    <3> QED  BY <3>1, <3>2
  <2>6. CASE Seed(p)
    BY <2>6, <1>0, QuietStep, Sets DEF Seed, Quiet, TypeOK, Settling, Go, Forget, shared, people, locks, history, locals
  <2>7. CASE Arm(p)
    BY <2>7, <1>0, QuietStep, Sets DEF Arm, Quiet, TypeOK, Settling, Go, Forget, shared, people, locks, history, locals
  <2>8. CASE TakeGate(p)
    BY <2>8, <1>0, QuietStep, Sets DEF TakeGate, Quiet, TypeOK, Settling, Go, Forget, shared, people, locks, history, locals
  <2>9. CASE TakeStore(p)
    BY <2>9, <1>0, QuietStep, Sets DEF TakeStore, Quiet, TypeOK, Settling, Go, Forget, shared, people, locks, history, locals
  <2>10. CASE TakeDelete(p)
    BY <2>10, <1>0, QuietStep, Sets DEF TakeDelete, Quiet, TypeOK, Settling, Go, Forget, shared, people, locks, history, locals
  <2>11. CASE Withdraw(p)
    BY <2>11, <1>0, QuietStep, Sets DEF Withdraw, Quiet, TypeOK, Settling, Go, Forget, shared, people, locks, history, locals
  <2> QED  BY <1>4, <2>1, <2>2, <2>3, <2>4, <2>5, <2>6, <2>7, <2>8, <2>9, <2>10, <2>11 DEF StartStep, TakeStep
<1>5. ASSUME NEW r \in RollIds, Fire(r) PROVE Promise!Next \/ UNCHANGED Phase
  BY <1>5, <1>0, QuietStep, Sets DEF Fire, Quiet, TypeOK, Settling, Go, Forget, shared, people, locks, history, locals
<1>6. ASSUME NEW a \in Actors, ResolveStep(a) PROVE Promise!Next \/ UNCHANGED Phase
  <2>1. CASE Close(a)
    <3>1. CASE active = NoRoll \/ mine[a] = NoRoll
      BY <1>0, <2>1, <3>1, QuietStep DEF Close, Quiet, TypeOK, Settling, Go, Forget
    <3>2. CASE ~(active = NoRoll \/ mine[a] = NoRoll)
      <4>1. /\ active \in RollIds /\ active' = NoRoll /\ active # active' /\ used' = used
            /\ active <= used'
        BY <1>0, <2>1, <3>2, Sets DEF Close, TypeOK, HandsInv
      <4>2. /\ at[a] = "resolving"
            /\ at' = [at EXCEPT ![a] = IF corpse THEN "tallying" ELSE "idle"]
            /\ mine' = [mine EXCEPT ![a] = IF corpse THEN active ELSE NoRoll]
        BY <2>1, <3>2 DEF Close, Go
      <4>3. \A b \in Actors : /\ b # a => at'[b] = at[b] /\ mine'[b] = mine[b]
                              /\ at'[a] = (IF corpse THEN "tallying" ELSE "idle")
                              /\ mine'[a] = (IF corpse THEN active ELSE NoRoll)
        BY <1>0, <4>2 DEF TypeOK
      <4>4. Elsewhere({active})
        <5>1. \A q \in RollIds \ {active} : q # active /\ q # active' /\ q # NoRoll
          BY <4>1, Sets
        <5>2. \A q \in RollIds \ {active}, b \in Actors, s \in Settling :
                mine'[b] = q /\ at'[b] = s <=> mine[b] = q /\ at[b] = s
          BY <4>2, <4>3, <5>1 DEF Settling
        <5> QED  BY <4>1, <5>1, <5>2 DEF Elsewhere
      <4>5. Phase[active] = "open"
        BY <1>0, <3>2 DEF PhaseFacts
      <4>6. CASE corpse
        <5>1. Phase'[active] = "closed"
          BY <1>0, <4>3, <4>6 DEF PhaseFacts
        <5> QED  BY <4>1, <4>4, <4>5, <5>1, PhaseMoves DEF Promise!Next, Promise!Close
      <4>7. CASE ~corpse
        <5>1. \A b \in Actors : at'[b] \in Settling => mine'[b] # active
          BY <1>0, <4>3, <4>7 DEF SettleInv, Settling
        <5>2. Phase'[active] = "settled"
          BY <1>0, <4>1, <5>1 DEF PhaseFacts
        <5> QED  BY <4>1, <4>4, <4>5, <5>2, PhaseMoves DEF Promise!Next, Promise!Cancel
      <4> QED  BY <4>6, <4>7
    <3> QED  BY <3>1, <3>2
  <2>2. CASE Tally(a)
    <3>1. at[a] = "tallying" /\ at' = [at EXCEPT ![a] = "decided"]
      BY <2>2 DEF Tally, Go
    <3>2. UNCHANGED <<used, active>> /\ UNCHANGED mine
      BY <2>2 DEF Tally, Forget, shared, locals
    <3>3. /\ at'[a] = "decided"
          /\ \A b \in Actors : b # a => at'[b] = at[b] /\ mine'[b] = mine[b]
      BY <1>0, <3>1, <3>2 DEF TypeOK
    <3>4. mine[a] \in RollIds /\ mine[a] <= used /\ mine[a] # active
      BY <1>0, <3>1 DEF TypeOK, HandsInv, SettleInv, Settling
    <3>5. Elsewhere({mine[a]})
      BY <3>2, <3>3 DEF Elsewhere
    <3>6. Phase[mine[a]] = "closed"
      BY <1>0, <3>1 DEF PhaseFacts
    <3>7. Phase'[mine[a]] = "drawn"
      BY <1>0, <3>2, <3>3 DEF PhaseFacts
    <3> QED  BY <3>4, <3>5, <3>6, <3>7, PhaseMoves DEF Promise!Next, Promise!Draw
  <2>3. CASE AllPassed(a)
    <3>1. at[a] = "decided" /\ at' = [at EXCEPT ![a] = "idle"]
      BY <2>3 DEF AllPassed, Go
    <3>2. UNCHANGED <<used, active>> /\ mine' = [mine EXCEPT ![a] = NoRoll]
      BY <2>3 DEF AllPassed, Forget, shared, locals
    <3>3. /\ at'[a] = "idle"
          /\ \A b \in Actors : b # a => at'[b] = at[b] /\ mine'[b] = mine[b]
      BY <1>0, <3>1, <3>2 DEF TypeOK
    <3>4. mine[a] \in RollIds /\ mine[a] <= used /\ mine[a] # active
      BY <1>0, <3>1 DEF TypeOK, HandsInv, SettleInv, Settling
    <3>5. Elsewhere({mine[a]})
      <4>1. at[a] \in Settling /\ "idle" \notin Settling
        BY <3>1 DEF Settling
      <4> QED  BY <3>2, <3>3, <4>1 DEF Elsewhere
    <3>6. Phase[mine[a]] = "drawn"
      BY <1>0, <3>1 DEF PhaseFacts
    <3>7. Phase'[mine[a]] = "settled"
      <4>1. \A b \in Actors : at'[b] \in Settling => mine'[b] # mine[a]
        BY <1>0, <3>1, <3>3 DEF AloneInv, Settling
      <4> QED  BY <1>0, <3>2, <3>4, <4>1 DEF PhaseFacts
    <3> QED  BY <3>4, <3>5, <3>6, <3>7, PhaseMoves DEF Promise!Next, Promise!Release
  <2>4. CASE Deliver(a)
    <3>1. at[a] = "decided" /\ (at' = [at EXCEPT ![a] = "awarded"] \/ at' = [at EXCEPT ![a] = "refused"])
      BY <2>4 DEF Deliver, Go
    <3>2. UNCHANGED <<mine, used, active>>
      BY <2>4 DEF Deliver, shared, locals
    <3>3. \A b \in Actors : /\ b # a => at'[b] = at[b]
                            /\ at'[a] \in {"awarded", "refused"}
      BY <1>0, <3>1 DEF TypeOK
    <3>4. mine[a] \in RollIds
      BY <1>0, <3>1 DEF TypeOK, HandsInv, Settling
    <3>5. Elsewhere({mine[a]})
      BY <3>2, <3>3 DEF Elsewhere
    <3>6. Phase[mine[a]] = "drawn"
      BY <1>0, <3>1 DEF PhaseFacts
    <3>7. CASE at'[a] = "awarded"
      <4>1. Phase'[mine[a]] = "awarded"
        BY <1>0, <3>2, <3>7 DEF PhaseFacts
      <4> QED  BY <3>4, <3>5, <3>6, <4>1, PhaseMoves DEF Promise!Next, Promise!Award
    <3>8. CASE at'[a] = "refused"
      <4>1. Phase'[mine[a]] = "drawn"
        BY <1>0, <3>2, <3>8 DEF PhaseFacts
      <4>2. \A q \in RollIds : Phase'[q] = Phase[q]
        BY <3>4, <3>5, <3>6, <4>1, PhaseElsewhere
      <4>3. Phase' = Phase
        BY <1>0, <4>2 DEF PhaseFacts
      <4> QED  BY <4>3
    <3> QED  BY <3>3, <3>7, <3>8
  <2>5. CASE DropRow(a)
    <3>1. at[a] = "awarded" /\ at' = [at EXCEPT ![a] = "idle"]
      BY <2>5 DEF DropRow, Go
    <3>2. UNCHANGED <<used, active>> /\ mine' = [mine EXCEPT ![a] = NoRoll]
      BY <2>5 DEF DropRow, Forget, shared, locals
    <3>3. /\ at'[a] = "idle"
          /\ \A b \in Actors : b # a => at'[b] = at[b] /\ mine'[b] = mine[b]
      BY <1>0, <3>1, <3>2 DEF TypeOK
    <3>4. mine[a] \in RollIds /\ mine[a] <= used /\ mine[a] # active
      BY <1>0, <3>1 DEF TypeOK, HandsInv, SettleInv, Settling
    <3>5. Elsewhere({mine[a]})
      <4>1. at[a] \in Settling /\ "idle" \notin Settling
        BY <3>1 DEF Settling
      <4> QED  BY <3>2, <3>3, <4>1 DEF Elsewhere
    <3>6. Phase[mine[a]] = "awarded"
      BY <1>0, <3>1 DEF PhaseFacts
    <3>7. Phase'[mine[a]] = "settled"
      <4>1. \A b \in Actors : at'[b] \in Settling => mine'[b] # mine[a]
        BY <1>0, <3>1, <3>3 DEF AloneInv, Settling
      <4> QED  BY <1>0, <3>2, <3>4, <4>1 DEF PhaseFacts
    <3> QED  BY <3>4, <3>5, <3>6, <3>7, PhaseMoves DEF Promise!Next, Promise!Finish
  <2>6. CASE KeepForWinner(a)
    <3>1. at[a] = "refused" /\ at' = [at EXCEPT ![a] = "idle"]
      BY <2>6 DEF KeepForWinner, Go
    <3>2. UNCHANGED <<used, active>> /\ mine' = [mine EXCEPT ![a] = NoRoll]
      BY <2>6 DEF KeepForWinner, Forget, shared, locals
    <3>3. /\ at'[a] = "idle"
          /\ \A b \in Actors : b # a => at'[b] = at[b] /\ mine'[b] = mine[b]
      BY <1>0, <3>1, <3>2 DEF TypeOK
    <3>4. mine[a] \in RollIds /\ mine[a] <= used /\ mine[a] # active
      BY <1>0, <3>1 DEF TypeOK, HandsInv, SettleInv, Settling
    <3>5. Elsewhere({mine[a]})
      <4>1. at[a] \in Settling /\ "idle" \notin Settling
        BY <3>1 DEF Settling
      <4> QED  BY <3>2, <3>3, <4>1 DEF Elsewhere
    <3>6. Phase[mine[a]] = "drawn"
      BY <1>0, <3>1 DEF PhaseFacts
    <3>7. Phase'[mine[a]] = "settled"
      <4>1. \A b \in Actors : at'[b] \in Settling => mine'[b] # mine[a]
        BY <1>0, <3>1, <3>3 DEF AloneInv, Settling
      <4> QED  BY <1>0, <3>2, <3>4, <4>1 DEF PhaseFacts
    <3> QED  BY <3>4, <3>5, <3>6, <3>7, PhaseMoves DEF Promise!Next, Promise!Release
  <2> QED  BY <1>6, <2>1, <2>2, <2>3, <2>4, <2>5, <2>6 DEF ResolveStep
<1> QED  BY <1>1, <1>2, <1>3, <1>4, <1>5, <1>6 DEF Next

\* Every step on the rolls is a step of the promise or invisible to it: rolls of
\* a row are held one after the other, and each is closed once, drawn once and
\* handed out at most once (startGroupLootRoll, resolveGroupLootRoll,
\* deliverGroupLootItem, clearLootState).
THEOREM RollsKeepPromise == Spec => KeepsPromise
<1>1. Init => WInv
  BY NamesAssumption
  DEF Init, WInv, VoterInv, SeedInv, SettleInv, WinnerEntitled, NewRoll, Settling, Actors
<1>2. Init => AloneInv
  BY DEF Init, AloneInv, Settling
<1>3. Init => PInv
  BY <1>1, <1>2, InitIInv DEF PInv
<1>4. PInv /\ [Next]_vars => PInv'
  BY NextIInv, NextWinner, NextAlone DEF PInv
<1>5. Init => Promise!Init
  <2> SUFFICES ASSUME Init PROVE Promise!Init
    OBVIOUS
  <2>1. PInv /\ PhaseFacts
    BY <1>3, PhaseFactsHold
  <2>2. \A r \in RollIds : Phase[r] = "future"
    BY <2>1, BoundAssumption DEF PhaseFacts, Init, RollIds
  <2> QED  BY <2>1, <2>2 DEF PhaseFacts, Promise!Init
<1>6. PInv /\ PInv' /\ [Next]_vars => [Promise!Next]_Phase
  BY NextPromise
<1> QED  BY <1>3, <1>4, <1>5, <1>6, PTL DEF Spec, KeepsPromise, Promise!Spec

-----------------------------------------------------------------------------
(* The counters of a roll agree with its votes when no client votes twice: a *)
(* second ballot is counted again by handleLootRoll, so the theorem asks for *)
(* "revote" \notin Events.  Every roll ever made keeps its books, not only   *)
(* the one in the table.                                                     *)

\* The books of one roll.
BooksOf(x) == /\ x.need = Cardinality(Voters(x, "need"))
              /\ x.greed = Cardinality(Voters(x, "greed"))
              /\ x.rolling = Cardinality(x.eligible)

BooksInv == \A r \in RollIds : BooksOf(roll[r])

LEMMA FiniteMembers ==
  ASSUME NEW S \in SUBSET Players
  PROVE  IsFiniteSet(S) /\ Cardinality(S) \in Nat
BY FiniteAssumption, FS_Subset, FS_CardinalityType

LEMMA SameBooks ==
  ASSUME NEW x, NEW y, BooksOf(x), y.votes = x.votes, y.eligible = x.eligible,
         y.need = x.need, y.greed = x.greed, y.rolling = x.rolling
  PROVE  BooksOf(y)
BY DEF BooksOf, Voters

LEMMA NoVotesBooks ==
  ASSUME NEW x, \A m \in Players : x.votes[m] \notin {"need", "greed"},
         x.need = 0, x.greed = 0, x.rolling = Cardinality(x.eligible)
  PROVE  BooksOf(x)
<1>1. Voters(x, "need") = {} /\ Voters(x, "greed") = {}
  BY DEF Voters
<1> QED  BY <1>1, FS_EmptySet DEF BooksOf

\* Registering: an empty roll of all the members it may reach.
LEMMA NewRollBooks ==
  ASSUME NEW E \in SUBSET Players, NEW n
  PROVE  BooksOf([NewRoll EXCEPT !.eligible = E, !.rolling = Cardinality(E), !.pass = n])
<1> DEFINE R == [NewRoll EXCEPT !.eligible = E, !.rolling = Cardinality(E), !.pass = n]
<1>1. /\ R.need = 0 /\ R.greed = 0 /\ R.rolling = Cardinality(E) /\ R.eligible = E
      /\ \A m \in Players : R.votes[m] = "none"
  BY DEF NewRoll
<1> QED  BY <1>1, NoVotesBooks

\* The automatic passes: nobody has voted for the item yet.
LEMMA SeededBooks ==
  ASSUME NEW x \in RollType, NEW A, NEW E, BooksOf(x),
         \A m \in Players : x.votes[m] \notin {"need", "greed"}
  PROVE  BooksOf(Seeded(x, A, E))
<1> DEFINE y == Seeded(x, A, E)
<1>1. /\ y.votes = [m \in Players |-> IF m \in A THEN "pass" ELSE x.votes[m]]
      /\ y.need = x.need /\ y.greed = x.greed
      /\ y.rolling = x.rolling /\ y.eligible = x.eligible
  BY DEF Seeded, RollType
<1>2. \A m \in Players : y.votes[m] \notin {"need", "greed"}
  BY <1>1
<1>3. Voters(x, "need") = {} /\ Voters(x, "greed") = {}
  BY DEF Voters
<1>4. Voters(y, "need") = {} /\ Voters(y, "greed") = {}
  BY <1>2 DEF Voters
<1> QED  BY <1>1, <1>3, <1>4 DEF BooksOf

\* A first ballot: one more voter of its kind, and one more in that total.
LEMMA CountedBooks ==
  ASSUME NEW x \in RollType, NEW p \in Players, NEW b \in Ballots \ {"none"},
         x.votes[p] = "none", BooksOf(x)
  PROVE  BooksOf(Counted(x, p, b))
<1> DEFINE y == Counted(x, p, b)
<1>1. /\ y.votes = [x.votes EXCEPT ![p] = b]
      /\ y.need = x.need + (IF b = "need" THEN 1 ELSE 0)
      /\ y.greed = x.greed + (IF b = "greed" THEN 1 ELSE 0)
      /\ y.rolling = x.rolling /\ y.eligible = x.eligible
  BY DEF Counted, RollType
<1>2. x.votes \in [Players -> Ballots]
  BY DEF RollType
<1> HIDE DEF y
<1>3. ASSUME NEW k \in {"need", "greed"}
      PROVE  Cardinality(Voters(y, k)) = Cardinality(Voters(x, k)) + (IF b = k THEN 1 ELSE 0)
  <2>1. p \notin Voters(x, k) /\ Voters(x, k) \in SUBSET Players
    BY <1>3 DEF Voters
  <2>2. CASE b = k
    <3>1. Voters(y, k) = Voters(x, k) \cup {p}
      BY <1>1, <1>2, <2>2 DEF Voters
    <3> QED  BY <2>1, <2>2, <3>1, FiniteMembers, FS_AddElement
  <2>3. CASE b # k
    <3>1. Voters(y, k) = Voters(x, k)
      BY <1>1, <1>2, <1>3, <2>3 DEF Voters
    <3> QED  BY <2>1, <2>3, <3>1, FiniteMembers
  <2> QED  BY <2>2, <2>3
<1> QED  BY <1>1, <1>3 DEF BooksOf, y

\* A leaver: the seat goes, and the vote with the unit it had put in its total.
LEMMA WithoutBooks ==
  ASSUME NEW x \in RollType, NEW m \in Players, m \in x.eligible, BooksOf(x)
  PROVE  BooksOf(Without(x, m))
<1> DEFINE y == Without(x, m)
<1>1. /\ y.votes = [x.votes EXCEPT ![m] = "none"]
      /\ y.need = x.need - (IF x.votes[m] = "need" THEN 1 ELSE 0)
      /\ y.greed = x.greed - (IF x.votes[m] = "greed" THEN 1 ELSE 0)
      /\ y.rolling = x.rolling - 1 /\ y.eligible = x.eligible \ {m}
  BY DEF Without, RollType
<1>2. x.votes \in [Players -> Ballots] /\ x.eligible \in SUBSET Players
  BY DEF RollType
<1> HIDE DEF y
<1>3. ASSUME NEW k \in {"need", "greed"}
      PROVE  Cardinality(Voters(y, k)) =
               Cardinality(Voters(x, k)) - (IF x.votes[m] = k THEN 1 ELSE 0)
  <2>1. Voters(x, k) \in SUBSET Players
    BY DEF Voters
  <2>2. Voters(y, k) = Voters(x, k) \ {m}
    BY <1>1, <1>2, <1>3 DEF Voters
  <2>3. m \in Voters(x, k) <=> x.votes[m] = k
    BY DEF Voters
  <2> QED  BY <2>1, <2>2, <2>3, FiniteMembers, FS_RemoveElement
<1>4. Cardinality(y.eligible) = Cardinality(x.eligible) - 1
  BY <1>1, <1>2, FiniteMembers, FS_RemoveElement
<1> QED  BY <1>1, <1>3, <1>4 DEF BooksOf, y

\* Stopping, starting and firing the timer leave the books alone.
LEMMA TimerBooks ==
  ASSUME NEW x \in RollType, NEW t, BooksOf(x)
  PROVE  BooksOf(StopTimer(x)) /\ BooksOf([x EXCEPT !.timer = t])
BY SameBooks DEF RollType, StopTimer

\* One roll changes, and its books stay in order.
LEMMA OneRollChanges ==
  ASSUME TypeOK, BooksInv, NEW r \in RollIds, NEW x, BooksOf(x),
         roll' = [roll EXCEPT ![r] = x]
  PROVE  BooksInv'
<1>1. \A q \in RollIds : roll'[q] = IF q = r THEN x ELSE roll[q]
  BY DEF TypeOK
<1>2. \A q \in RollIds : BooksOf(roll'[q])
  <2>1. \A q \in RollIds : BooksOf(roll[q])
    BY DEF BooksInv
  <2> QED  BY <1>1, <2>1
<1> QED  BY <1>2 DEF BooksInv, BooksOf, Voters

LEMMA RegisterBooks ==
  ASSUME IInv, BooksInv, NEW p \in Players, NewActive(p), used < MaxRolls
  PROVE  BooksInv'
<1>1. list[p] \in SUBSET Players /\ used + 1 \in RollIds
  BY BoundAssumption DEF IInv, TypeOK, RollIds
<1> QED  BY <1>1, NewRollBooks, OneRollChanges DEF IInv, NewActive

LEMMA NextBooks ==
  ASSUME "revote" \notin Events, IInv, WInv, BooksInv, [Next]_vars
  PROVE  BooksInv'
<1> USE DEF shared, people, locks, history, locals
<1>0. /\ TypeOK /\ \A r \in RollIds : roll[r] \in RollType /\ BooksOf(roll[r])
      /\ active # NoRoll => active \in RollIds
      /\ roll' = roll => BooksInv'
  BY DEF IInv, TypeOK, BooksInv
<1>1. CASE UNCHANGED vars
  BY <1>0, <1>1 DEF vars
<1>2. CASE ClearLoot
  <2>1. CASE active = NoRoll
    BY <1>0, <1>2, <2>1 DEF ClearLoot
  <2>2. CASE active # NoRoll
    <3>1. roll' = [roll EXCEPT ![active] = StopTimer(roll[active])]
      BY <1>2, <2>2 DEF ClearLoot
    <3> QED  BY <1>0, <2>2, <3>1, TimerBooks, OneRollChanges
  <2> QED  BY <2>1, <2>2
<1>3. ASSUME NEW p \in Players, ClientStep(p) PROVE BooksInv'
  <2>1. CASE Open(p) \/ TakeRow(p) \/ Travel(p) \/ \E m \in Players : Remove(p, m)
    BY <1>0, <2>1 DEF Open, TakeRow, Travel, Remove
  <2>2. ASSUME NEW b \in Ballots, NEW o \in BOOLEAN, Vote(p, b, o) PROVE BooksInv'
    <3>1. /\ active # NoRoll /\ roll[active].votes[p] = "none" /\ b # "none"
          /\ roll' = [roll EXCEPT ![active] = Counted(roll[active], p, b)]
      BY <2>2 DEF Vote
    <3> QED  BY <1>0, <3>1, CountedBooks, OneRollChanges
  <2> QED  BY <1>3, <2>1, <2>2 DEF ClientStep
<1>4. ASSUME NEW p \in Players, StartStep(p) PROVE BooksInv'
  <2>1. CASE ListEligible(p) \/ LockLoot(p) \/ BlockOnly(p)
    BY <1>0, <2>1 DEF ListEligible, LockLoot, BlockOnly
  <2>2. CASE Register(p)
    <3>1. used < MaxRolls /\ NewActive(p)
      BY <2>2 DEF Register, Go, IInv, LockInv
    <3> QED  BY <3>1, RegisterBooks
  <2>3. CASE RegisterQuest(p)
    <3>1. CASE active # NoRoll \/ used = MaxRolls
      BY <1>0, <2>3, <3>1 DEF RegisterQuest
    <3>2. CASE ~(active # NoRoll \/ used = MaxRolls)
      <4>1. used < MaxRolls /\ NewActive(p)
        BY <1>0, <2>3, <3>2, BoundAssumption DEF RegisterQuest, TypeOK
      <4> QED  BY <4>1, RegisterBooks
    <3> QED  BY <3>1, <3>2
  <2>4. CASE Seed(p)
    <3>1. PICK A : roll' = [roll EXCEPT ![mine[p]] = Seeded(roll[mine[p]], A, list[p])]
      BY <2>4 DEF Seed
    <3>2. at[p] = "seeding" /\ mine[p] \in RollIds /\ roll[mine[p]].asked = {}
      BY <1>0, <2>4, Sets DEF Seed, Go, IInv, HandsInv, TypeOK, WInv, SeedInv
    <3>3. \A m \in Players : roll[mine[p]].votes[m] \notin {"need", "greed"}
      BY <3>2 DEF WInv, VoterInv
    <3> QED  BY <1>0, <3>1, <3>2, <3>3, SeededBooks, OneRollChanges
  <2>5. CASE Arm(p)
    <3>1. mine[p] \in RollIds
      BY <1>0, <2>5, Sets DEF Arm, Go, IInv, HandsInv, TypeOK
    <3>2. roll' = [roll EXCEPT ![mine[p]] = [roll[mine[p]] EXCEPT !.timer = "running"]]
      BY <1>0, <2>5, <3>1 DEF Arm
    <3> QED  BY <1>0, <3>1, <3>2, TimerBooks, OneRollChanges
  <2> QED  BY <1>4, <2>1, <2>2, <2>3, <2>4, <2>5 DEF StartStep
<1>5. ASSUME NEW p \in Players, Withdraw(p) PROVE BooksInv'
  <2>1. CASE ~(active # NoRoll /\ who[p] \in roll[active].eligible)
    BY <1>0, <1>5, <2>1 DEF Withdraw
  <2>2. CASE active # NoRoll /\ who[p] \in roll[active].eligible
    <3>1. roll' = [roll EXCEPT ![active] = Without(roll[active], who[p])]
      BY <1>5, <2>2 DEF Withdraw
    <3>2. who[p] \in Players
      BY <1>0, <2>2 DEF RollType
    <3> QED  BY <1>0, <2>2, <3>1, <3>2, WithoutBooks, OneRollChanges
  <2> QED  BY <2>1, <2>2
<1>6. ASSUME NEW p \in Players, TakeStep(p) PROVE BooksInv'
  BY <1>0, <1>6 DEF TakeStep, TakeGate, TakeStore, TakeDelete
<1>7. ASSUME NEW r \in RollIds, Fire(r) PROVE BooksInv'
  <2>1. roll' = [roll EXCEPT ![r] = [roll[r] EXCEPT !.timer = "fired"]]
    BY <1>0, <1>7 DEF Fire
  <2> QED  BY <1>0, <2>1, TimerBooks, OneRollChanges
<1>8. ASSUME NEW a \in Actors, ResolveStep(a) PROVE BooksInv'
  <2>1. CASE Close(a)
    <3>1. CASE active = NoRoll \/ mine[a] = NoRoll
      BY <1>0, <2>1, <3>1 DEF Close
    <3>2. CASE ~(active = NoRoll \/ mine[a] = NoRoll)
      <4>1. roll' = [roll EXCEPT ![active] = StopTimer(roll[active])]
        BY <2>1, <3>2 DEF Close
      <4> QED  BY <1>0, <3>2, <4>1, TimerBooks, OneRollChanges
    <3> QED  BY <3>1, <3>2
  <2>2. CASE Tally(a) \/ AllPassed(a) \/ Deliver(a) \/ DropRow(a) \/ KeepForWinner(a)
    BY <1>0, <2>2 DEF Tally, AllPassed, Deliver, DropRow, KeepForWinner
  <2> QED  BY <1>8, <2>1, <2>2 DEF ResolveStep
<1> QED  BY <1>1, <1>2, <1>3, <1>4, <1>5, <1>6, <1>7, <1>8 DEF Next

\* The need and greed totals of the open roll are the votes that are still in it,
\* and its size the members still in it, whatever votes, withdrawals, restarts
\* and timers came before, as long as no client votes twice (handleLootRoll,
\* onPlayerLeaveGroupRolls).
THEOREM BooksBalance == "revote" \notin Events /\ Spec => []RollBooks
<1> SUFFICES ASSUME "revote" \notin Events PROVE Spec => []RollBooks
  OBVIOUS
<1>1. Init => BooksInv
  <2>1. BooksOf(NewRoll)
    BY NoVotesBooks, FS_EmptySet DEF NewRoll
  <2> QED  BY <2>1 DEF Init, BooksInv
<1>2. Init => IInv /\ WInv
  <2>1. Init => WInv
    BY NamesAssumption
    DEF Init, WInv, VoterInv, SeedInv, SettleInv, WinnerEntitled, NewRoll, Settling, Actors
  <2> QED  BY <2>1, InitIInv
<1>3. IInv /\ WInv /\ BooksInv /\ [Next]_vars => IInv' /\ WInv' /\ BooksInv'
  BY NextIInv, NextWinner, NextBooks
<1>4. IInv /\ BooksInv => RollBooks
  BY DEF IInv, TypeOK, BooksInv, BooksOf, RollBooks
<1> QED  BY <1>1, <1>2, <1>3, <1>4, PTL DEF Spec

=============================================================================
