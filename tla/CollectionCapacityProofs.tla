----------------------- MODULE CollectionCapacityProofs -----------------------
(***************************************************************************)
(* Theorems about CollectionCapacity, for any number of processes, tasks,  *)
(* connections and targets and any limits, with sessions lost at any time. *)
(***************************************************************************)
EXTENDS CollectionCapacity, FiniteSetTheorems, SequenceTheorems, TLAPS

\* What an execution holds at each stage.
Shape(x) ==
  /\ x \in Execution
  /\ x.at # "idle" => x.target \in Targets
  /\ x.at \in {"idle", "connect"} => x.acquired = <<>> /\ x.index = 0
  /\ x.at \in {"idle", "connect"} <=> x.capacity = NoSession
  /\ x.query # NoSession => x.at = "query"
  /\ x.at = "acquire" =>
       /\ Len(x.acquired) < 3
       /\ x.index < Limit[Scopes[Len(x.acquired) + 1]]
  /\ x.at \in Works => Len(x.acquired) = 3
  /\ Len(x.acquired) <= 3
  /\ \A i \in 1..Len(x.acquired) :
       /\ x.acquired[i].scope = Scopes[i]
       /\ x.acquired[i].key = KeyOf(x.target, Scopes[i])

ShapeOK == CapacityTypeOK /\ \A e \in Executions : Shape(execs[e])

SessionsExclusive ==
  \A e, f \in Executions :
    e # f => \/ execs[e].capacity = NoSession
             \/ execs[e].capacity # execs[f].capacity

SlotsExclusive == \A l, m \in locks : l[1] = m[1] => l[2] = m[2]

\* A locked slot is one that the execution of the session has recorded ...
LocksRecorded ==
  \A l \in locks :
    \E e \in Executions : /\ execs[e].capacity = l[2]
                          /\ \E i \in 1..Len(execs[e].acquired) :
                               execs[e].acquired[i] = l[1]

\* ... and, while the session lives, the other way round.
RecordsLocked ==
  \A e \in Executions :
    execs[e].capacity \notin lost =>
      \A i \in 1..Len(execs[e].acquired) :
        <<execs[e].acquired[i], execs[e].capacity>> \in locks

CapacityInv == /\ ShapeOK
               /\ SessionsExclusive
               /\ SlotsExclusive
               /\ LocksRecorded
               /\ RecordsLocked

LEMMA ScopesAre ==
  /\ Scopes[1] = "global" /\ Scopes[2] = "source" /\ Scopes[3] = "host"
  /\ Len(Scopes) = 3 /\ DOMAIN Limit = {"global", "source", "host"}
  /\ \A i \in 1..3 : Scopes[i] \in DOMAIN Limit /\ Limit[Scopes[i]] \in Nat \ {0}
  /\ \A i, j \in 1..3 : Scopes[i] = Scopes[j] => i = j
<1>1. Scopes[1] = "global" /\ Scopes[2] = "source" /\ Scopes[3] = "host"
  BY DEF Scopes
<1>2. Len(Scopes) = 3 BY DEF Scopes
<1>3. DOMAIN Limit = {"global", "source", "host"} BY LimitAssumption
<1>4. \A i \in 1..3 : i = 1 \/ i = 2 \/ i = 3 OBVIOUS
<1> QED BY <1>1, <1>2, <1>3, <1>4, LimitAssumption

LEMMA ServedIsFree ==
  ASSUME NEW p, Free(p) # {}
  PROVE  Served(p) \in Sessions /\ Served(p) \notin InUse /\ Served(p) # NoSession
BY NoSessionAssumption DEF Served, Free

\* The execution that a step moves is well formed again, and so are all.
LEMMA BecomesOK ==
  ASSUME ShapeOK, NEW e \in Executions, NEW r, Shape(r), Becomes(e, r)
  PROVE  /\ execs' \in [Executions -> Execution]
         /\ \A f \in Executions : Shape(execs'[f])
         /\ execs'[e] = r
         /\ \A f \in Executions : f # e => execs'[f] = execs[f]
BY DEF ShapeOK, CapacityTypeOK, Becomes, Shape

LEMMA IdleShape == Shape(Idle)
<1>1. Idle \in Execution
  <2>1. <<>> \in Seq(Slots) OBVIOUS
  <2> QED BY <2>1 DEF Idle, Execution, Stages
<1>2. Len(<<>>) = 0 OBVIOUS
<1> QED BY <1>1, <1>2 DEF Idle, Shape, Works

LEMMA InitShape == CapacityInit => CapacityInv
<1> SUFFICES ASSUME CapacityInit PROVE CapacityInv OBVIOUS
<1>1. \A e \in Executions : execs[e] = Idle /\ Shape(execs[e])
  BY IdleShape DEF CapacityInit
<1>2. execs \in [Executions -> Execution]
  BY IdleShape DEF CapacityInit, Shape
<1>3. ShapeOK
  BY <1>1, <1>2, BoundAssumption DEF CapacityInit, ShapeOK, CapacityTypeOK
<1>4. \A e \in Executions : execs[e].capacity = NoSession /\ Len(execs[e].acquired) = 0
  BY <1>1 DEF Idle
<1>5. SessionsExclusive BY <1>4 DEF SessionsExclusive
<1>6. SlotsExclusive /\ LocksRecorded
  BY DEF CapacityInit, SlotsExclusive, LocksRecorded
<1>7. RecordsLocked BY <1>4 DEF RecordsLocked
<1> QED BY <1>3, <1>5, <1>6, <1>7 DEF CapacityInv

-----------------------------------------------------------------------------
(* Steps that move an execution, and leave its slots and session alone.    *)

LEMMA KeepsSlots ==
  ASSUME CapacityInv, NEW e \in Executions, NEW r, Shape(r), Becomes(e, r),
         r.capacity = execs[e].capacity, r.acquired = execs[e].acquired,
         UNCHANGED <<locks, lost, losses, borrowed>>
  PROVE  CapacityInv'
<1>1. /\ execs' \in [Executions -> Execution]
      /\ \A f \in Executions : Shape(execs'[f])
      /\ \A f \in Executions : /\ execs'[f].capacity = execs[f].capacity
                               /\ execs'[f].acquired = execs[f].acquired
  BY BecomesOK DEF CapacityInv
<1>2. ShapeOK'
  BY <1>1 DEF CapacityInv, ShapeOK, CapacityTypeOK, Shape
<1>3. SessionsExclusive' /\ SlotsExclusive'
  BY <1>1 DEF CapacityInv, SessionsExclusive, SlotsExclusive
<1>4. LocksRecorded' /\ RecordsLocked'
  BY <1>1 DEF CapacityInv, LocksRecorded, RecordsLocked
<1> QED BY <1>2, <1>3, <1>4 DEF CapacityInv

LEMMA MovesKeep ==
  ASSUME CapacityInv, NEW e \in Executions,
         \/ Begin(e) \/ DecideToCollect(e) \/ EnterLock(e) \/ LeaveLock(e)
         \/ WantQuery(e) \/ BeginQuery(e) \/ EndQuery(e) \/ Settle(e)
  PROVE  CapacityInv'
<1> USE DEF CapacityInv, ShapeOK
<1>0. Shape(execs[e]) /\ execs[e] \in Execution
  BY DEF Shape
<1>1. CASE Begin(e)
  <2>1. PICK t \in Targets :
          /\ Becomes(e, [execs[e] EXCEPT !.at = "connect", !.target = t])
          /\ execs[e].at = "idle"
          /\ UNCHANGED <<locks, lost, losses, borrowed>>
    BY <1>1 DEF Begin
  <2> DEFINE r == [execs[e] EXCEPT !.at = "connect", !.target = t]
  <2>2. r \in Execution /\ r.at = "connect" /\ r.target = t
        /\ r.capacity = execs[e].capacity /\ r.acquired = execs[e].acquired
        /\ r.index = execs[e].index /\ r.query = execs[e].query
    BY <1>0 DEF Execution, Stages
  <2>3. Shape(r) BY <1>0, <2>1, <2>2 DEF Shape, Works
  <2> QED BY <2>1, <2>2, <2>3, KeepsSlots
<1>2. CASE DecideToCollect(e) \/ WantQuery(e) \/ Settle(e)
  <2>1. PICK stage \in {"wantLock", "wantQuery", "release"} :
          /\ Becomes(e, [execs[e] EXCEPT !.at = stage])
          /\ execs[e].at \in {"work", "locked", "settle"}
          /\ UNCHANGED <<locks, lost, losses, borrowed>>
    BY <1>2 DEF DecideToCollect, WantQuery, Settle, Goto
  <2> DEFINE r == [execs[e] EXCEPT !.at = stage]
  <2>2. r \in Execution /\ r.at = stage /\ r.target = execs[e].target
        /\ r.capacity = execs[e].capacity /\ r.acquired = execs[e].acquired
        /\ r.index = execs[e].index /\ r.query = execs[e].query
    BY <1>0 DEF Execution, Stages, Works
  <2>3. Shape(r) BY <1>0, <2>1, <2>2 DEF Shape, Works
  <2> QED BY <2>1, <2>2, <2>3, KeepsSlots
<1>3. CASE EnterLock(e) \/ LeaveLock(e)
  <2>1. PICK stage \in {"locked", "settle"}, c \in Sessions \union {NoSession} :
          /\ Becomes(e, [execs[e] EXCEPT !.at = stage, !.lock = c])
          /\ execs[e].at \in {"wantLock", "locked"}
          /\ UNCHANGED <<locks, lost, losses, borrowed>>
    BY <1>3, ServedIsFree DEF EnterLock, LeaveLock
  <2> DEFINE r == [execs[e] EXCEPT !.at = stage, !.lock = c]
  <2>2. r \in Execution /\ r.at = stage /\ r.target = execs[e].target
        /\ r.capacity = execs[e].capacity /\ r.acquired = execs[e].acquired
        /\ r.index = execs[e].index /\ r.query = execs[e].query
    BY <1>0 DEF Execution, Stages, Works
  <2>3. Shape(r) BY <1>0, <2>1, <2>2 DEF Shape, Works
  <2> QED BY <2>1, <2>2, <2>3, KeepsSlots
<1>4. CASE BeginQuery(e) \/ EndQuery(e)
  <2>1. PICK stage \in {"query", "locked", "release"}, c \in Sessions \union {NoSession} :
          /\ Becomes(e, [execs[e] EXCEPT !.at = stage, !.query = c])
          /\ execs[e].at \in {"wantQuery", "query"}
          /\ c = NoSession \/ stage = "query"
          /\ UNCHANGED <<locks, lost, losses, borrowed>>
    BY <1>4, ServedIsFree DEF BeginQuery, EndQuery
  <2> DEFINE r == [execs[e] EXCEPT !.at = stage, !.query = c]
  <2>2. r \in Execution /\ r.at = stage /\ r.target = execs[e].target
        /\ r.capacity = execs[e].capacity /\ r.acquired = execs[e].acquired
        /\ r.index = execs[e].index /\ r.query = c
    BY <1>0 DEF Execution, Stages, Works
  <2>3. Shape(r) BY <1>0, <2>1, <2>2 DEF Shape, Works
  <2> QED BY <2>1, <2>2, <2>3, KeepsSlots
<1> QED BY <1>1, <1>2, <1>3, <1>4

-----------------------------------------------------------------------------
(* Steps that change which slots and sessions are held.                    *)

LEMMA ConnectKeeps ==
  ASSUME CapacityInv, NEW e \in Executions, Connect(e) PROVE CapacityInv'
<1> USE DEF CapacityInv
<1> DEFINE c == Served(e[1])
           r == [execs[e] EXCEPT !.at = "acquire", !.capacity = c]
<1>1. /\ execs[e].at = "connect" /\ Becomes(e, r)
      /\ UNCHANGED <<locks, lost, losses, borrowed>>
      /\ c \in Sessions /\ c \notin InUse /\ c # NoSession
  BY ServedIsFree DEF Connect
<1>2. Shape(execs[e]) BY DEF ShapeOK
<1>3. \A f \in Executions : execs[f].capacity # c
  BY <1>1 DEF InUse, Held
<1>4. Shape(r)
  <2>1. r \in Execution /\ r.at = "acquire" /\ r.target = execs[e].target
        /\ r.capacity = c /\ r.acquired = execs[e].acquired
        /\ r.index = execs[e].index /\ r.query = execs[e].query
    BY <1>1, <1>2 DEF Shape, Execution, Stages
  <2>2. r.acquired = <<>> /\ Len(r.acquired) = 0 /\ r.index = 0
    BY <1>1, <1>2, <2>1 DEF Shape
  <2> QED BY <1>1, <1>2, <2>1, <2>2, ScopesAre DEF Shape, Works
<1>5. /\ execs' \in [Executions -> Execution]
      /\ \A f \in Executions : Shape(execs'[f])
      /\ execs'[e] = r
      /\ \A f \in Executions : f # e => execs'[f] = execs[f]
  <2> HIDE DEF r
  <2> QED BY <1>1, <1>4, BecomesOK
<1>6. /\ execs'[e].capacity = c /\ Len(execs'[e].acquired) = 0
      /\ execs[e].capacity = NoSession
      /\ Len(execs[e].acquired) = 0
  BY <1>1, <1>2, <1>5 DEF Shape, Execution
<1> HIDE DEF r, c
<1>7. ShapeOK' BY <1>1, <1>5 DEF ShapeOK, CapacityTypeOK
<1>8. SessionsExclusive' BY <1>3, <1>5, <1>6 DEF SessionsExclusive
<1>9. SlotsExclusive' BY <1>1 DEF SlotsExclusive
<1>10. LocksRecorded' BY <1>1, <1>5, <1>6 DEF LocksRecorded
<1>11. RecordsLocked' BY <1>1, <1>5, <1>6 DEF RecordsLocked
<1> QED BY <1>7, <1>8, <1>9, <1>10, <1>11

LEMMA SlotTriedOK ==
  ASSUME ShapeOK, NEW e \in Executions, execs[e].at = "acquire"
  PROVE  /\ SlotTried(e) \in Slots
         /\ SlotTried(e).scope = Scopes[Len(execs[e].acquired) + 1]
         /\ SlotTried(e).index = execs[e].index
         /\ SlotTried(e).key = KeyOf(execs[e].target, SlotTried(e).scope)
         /\ Len(execs[e].acquired) \in 0..2
<1>1. Shape(execs[e]) BY DEF ShapeOK
<1>2. Len(execs[e].acquired) \in 0..2
  <2>1. execs[e].acquired \in Seq(Slots) BY <1>1 DEF Shape, Execution
  <2>2. Len(execs[e].acquired) \in Nat BY <2>1
  <2>3. Len(execs[e].acquired) < 3 BY <1>1 DEF Shape
  <2>4. \A n \in Nat : n < 3 => n \in 0..2 OBVIOUS
  <2> QED BY <2>2, <2>3, <2>4
<1> DEFINE scope == Scopes[Len(execs[e].acquired) + 1]
<1>3. scope \in DOMAIN Limit /\ execs[e].index \in Nat /\ execs[e].index < Limit[scope]
  BY <1>1, <1>2, ScopesAre DEF Shape, Execution
<1>4. execs[e].target \in Targets BY <1>1 DEF Shape
<1>5. KeyOf(execs[e].target, scope) \in Keys
  BY <1>3, <1>4, ScopesAre DEF KeyOf, Keys
<1> QED BY <1>2, <1>3, <1>5 DEF SlotTried, Slots

LEMMA RefusalKeeps ==
  ASSUME CapacityInv, NEW e \in Executions, execs[e].at = "acquire",
         UNCHANGED <<locks, lost, losses, borrowed>>,
         IF MoreSlots(SlotTried(e))
         THEN Becomes(e, [execs[e] EXCEPT !.index = SlotTried(e).index + 1])
         ELSE Goto(e, "release")
  PROVE  CapacityInv'
<1>1. Shape(execs[e]) /\ execs[e] \in Execution
  BY DEF CapacityInv, ShapeOK, Shape
<1>2. SlotTried(e).scope = Scopes[Len(execs[e].acquired) + 1]
      /\ SlotTried(e).index = execs[e].index
  BY SlotTriedOK DEF CapacityInv
<1>3. CASE MoreSlots(SlotTried(e))
  <2> DEFINE r == [execs[e] EXCEPT !.index = SlotTried(e).index + 1]
  <2>1. r \in Execution /\ r.at = "acquire" /\ r.target = execs[e].target
        /\ r.capacity = execs[e].capacity /\ r.acquired = execs[e].acquired
        /\ r.index = execs[e].index + 1 /\ r.query = execs[e].query
    BY <1>1, <1>2 DEF Execution
  <2>2. Shape(r) BY <1>1, <1>2, <1>3, <2>1 DEF Shape, Works, MoreSlots
  <2>3. Becomes(e, r) BY <1>3
  <2> HIDE DEF r
  <2> QED BY <2>1, <2>2, <2>3, KeepsSlots
<1>4. CASE ~MoreSlots(SlotTried(e))
  <2> DEFINE r == [execs[e] EXCEPT !.at = "release"]
  <2>1. r \in Execution /\ r.at = "release" /\ r.target = execs[e].target
        /\ r.capacity = execs[e].capacity /\ r.acquired = execs[e].acquired
        /\ r.index = execs[e].index /\ r.query = execs[e].query
    BY <1>1 DEF Execution, Stages
  <2>2. Shape(r) BY <1>1, <2>1 DEF Shape, Works
  <2>3. Becomes(e, r) BY <1>4 DEF Goto
  <2> HIDE DEF r
  <2> QED BY <2>1, <2>2, <2>3, KeepsSlots
<1> QED BY <1>3, <1>4

\* What AcquireSlot does when the slot is granted.
Granted(e, r) ==
  /\ r = [execs[e] EXCEPT
            !.acquired = Append(execs[e].acquired, SlotTried(e)), !.index = 0,
            !.at = IF Len(Append(execs[e].acquired, SlotTried(e))) = Len(Scopes)
                   THEN "work" ELSE "acquire"]
  /\ Becomes(e, r)
  /\ locks' = locks \union {<<SlotTried(e), execs[e].capacity>>}
  /\ UNCHANGED <<lost, losses, borrowed>>

LEMMA GrantedShape ==
  ASSUME ShapeOK, NEW e \in Executions, execs[e].at = "acquire",
         NEW r, Granted(e, r)
  PROVE  /\ Shape(r)
         /\ r.capacity = execs[e].capacity /\ r.capacity \in Sessions
         /\ Len(r.acquired) = Len(execs[e].acquired) + 1
         /\ Len(execs[e].acquired) \in 0..2
         /\ r.acquired[Len(r.acquired)] = SlotTried(e)
         /\ \A i \in 1..Len(execs[e].acquired) : r.acquired[i] = execs[e].acquired[i]
<1> DEFINE slot == SlotTried(e)
           old == execs[e].acquired
           new == Append(old, slot)
<1>1. /\ slot \in Slots /\ slot.scope = Scopes[Len(old) + 1]
      /\ slot.key = KeyOf(execs[e].target, slot.scope) /\ Len(old) \in 0..2
  BY SlotTriedOK
<1>2. Shape(execs[e]) /\ old \in Seq(Slots) BY DEF ShapeOK, Shape, Execution
<1>3. /\ new \in Seq(Slots) /\ Len(new) = Len(old) + 1 /\ new[Len(new)] = slot
      /\ \A i \in 1..Len(old) : new[i] = old[i]
  <2> HIDE DEF slot, old
  <2> QED BY <1>1, <1>2
<1>4. /\ r.acquired = new /\ r.index = 0
      /\ r.at = IF Len(new) = 3 THEN "work" ELSE "acquire"
      /\ r.capacity = execs[e].capacity /\ r.target = execs[e].target
      /\ r.query = execs[e].query /\ r \in Execution
  <2>1. execs[e] \in Execution BY <1>2 DEF Shape
  <2>2. r = [execs[e] EXCEPT !.acquired = new, !.index = 0,
                             !.at = IF Len(new) = 3 THEN "work" ELSE "acquire"]
    BY ScopesAre DEF Granted
  <2>3. (IF Len(new) = 3 THEN "work" ELSE "acquire") \in Stages
    BY DEF Stages, Works
  <2> HIDE DEF new
  <2> QED BY <2>1, <2>2, <2>3, <1>3 DEF Execution
<1>5. r.capacity \in Sessions BY <1>2, <1>4 DEF Shape, Execution
<1>6. r.target \in Targets /\ r.query = NoSession BY <1>2, <1>4 DEF Shape
<1>7. \A i \in 1..Len(new) : /\ new[i].scope = Scopes[i]
                             /\ new[i].key = KeyOf(r.target, Scopes[i])
  <2>1. SUFFICES ASSUME NEW i \in 1..Len(new)
                 PROVE  /\ new[i].scope = Scopes[i]
                        /\ new[i].key = KeyOf(r.target, Scopes[i])
    OBVIOUS
  <2>2. CASE i = Len(new) BY <2>2, <1>1, <1>3, <1>4
  <2>3. CASE i # Len(new)
    <3>1. i \in 1..Len(old) /\ new[i] = old[i] BY <2>3, <1>1, <1>3
    <3> QED BY <3>1, <1>2, <1>4 DEF Shape
  <2> QED BY <2>2, <2>3
<1>8. r.at = "acquire" => Len(new) < 3 /\ 0 < Limit[Scopes[Len(new) + 1]]
  <2>1. SUFFICES ASSUME r.at = "acquire"
                 PROVE  Len(new) < 3 /\ 0 < Limit[Scopes[Len(new) + 1]]
    OBVIOUS
  <2>2. \A n \in 0..2 : n + 1 # 3 => n + 1 < 3 /\ n + 1 + 1 \in 1..3 OBVIOUS
  <2>3. Len(new) < 3 /\ Len(new) + 1 \in 1..3
    BY <1>1, <1>3, <1>4, <2>1, <2>2
  <2>4. Limit[Scopes[Len(new) + 1]] \in Nat \ {0} BY <2>3, ScopesAre
  <2> QED BY <2>3, <2>4
<1> HIDE DEF new, slot
<1>9. Shape(r)
  <2>1. Len(new) \in 1..3
    <3> HIDE DEF old
    <3>1. Len(new) = Len(old) + 1 /\ Len(old) \in 0..2 BY <1>1, <1>3
    <3>2. \A n \in 0..2 : n + 1 \in 1..3 OBVIOUS
    <3> QED BY <3>1, <3>2
  <2>2. r.at \in {"work", "acquire"} BY <1>4
  <2>3. r.at \in Works => Len(r.acquired) = 3 BY <1>4 DEF Works
  <2>4. r.capacity # NoSession BY <1>5, NoSessionAssumption
  <2> QED BY <1>4, <1>6, <1>7, <1>8, <2>1, <2>2, <2>3, <2>4 DEF Shape
<1> QED BY <1>1, <1>3, <1>4, <1>5, <1>9 DEF new, slot

LEMMA GrantKeeps ==
  ASSUME CapacityInv, NEW e \in Executions, execs[e].at = "acquire",
         Grants(SlotTried(e), execs[e].capacity), NEW r, Granted(e, r)
  PROVE  CapacityInv'
<1> DEFINE slot == SlotTried(e)
           c == execs[e].capacity
<1> USE DEF CapacityInv
<1>1. /\ Shape(r) /\ r.capacity = c /\ c \in Sessions
      /\ Len(r.acquired) = Len(execs[e].acquired) + 1
      /\ Len(execs[e].acquired) \in 0..2
      /\ r.acquired[Len(r.acquired)] = slot
      /\ \A i \in 1..Len(execs[e].acquired) : r.acquired[i] = execs[e].acquired[i]
      /\ slot \in Slots
  BY GrantedShape, SlotTriedOK
<1>2. /\ execs' \in [Executions -> Execution]
      /\ \A f \in Executions : Shape(execs'[f])
      /\ execs'[e] = r
      /\ \A f \in Executions : f # e => execs'[f] = execs[f]
  BY <1>1, BecomesOK DEF Granted
<1>3. /\ locks' = locks \union {<<slot, c>>}
      /\ UNCHANGED <<lost, losses, borrowed>>
      /\ \A l \in locks : l[1] = slot => l[2] = c
  BY DEF Granted, Grants
<1> HIDE DEF slot, c
<1>4. ShapeOK' BY <1>1, <1>2, <1>3 DEF ShapeOK, CapacityTypeOK
<1>5. SessionsExclusive' BY <1>1, <1>2 DEF SessionsExclusive, c
<1>6. SlotsExclusive' BY <1>3 DEF SlotsExclusive
<1>7. LocksRecorded'
  <2>1. SUFFICES ASSUME NEW l \in locks'
                 PROVE  \E f \in Executions :
                          /\ execs'[f].capacity = l[2]
                          /\ \E i \in 1..Len(execs'[f].acquired) :
                               execs'[f].acquired[i] = l[1]
    BY DEF LocksRecorded
  <2>2. CASE l \in locks
    <3>0. PICK f \in Executions :
            /\ execs[f].capacity = l[2]
            /\ \E i \in 1..Len(execs[f].acquired) : execs[f].acquired[i] = l[1]
      BY <2>2 DEF LocksRecorded
    <3>1. PICK i \in 1..Len(execs[f].acquired) :
            execs[f].capacity = l[2] /\ execs[f].acquired[i] = l[1]
      BY <3>0
    <3>2. CASE f # e BY <3>1, <3>2, <1>2
    <3>3. CASE f = e
      <4>1. i \in 1..Len(r.acquired) /\ r.acquired[i] = l[1]
        BY <3>1, <3>3, <1>1
      <4> QED BY <4>1, <3>1, <3>3, <1>1, <1>2 DEF c
    <3> QED BY <3>2, <3>3
  <2>3. CASE l = <<slot, c>>
    <3>1. Len(r.acquired) \in 1..Len(r.acquired) BY <1>1
    <3> QED BY <3>1, <2>3, <1>1, <1>2
  <2> QED BY <2>2, <2>3, <1>3
<1>8. RecordsLocked'
  <2>1. SUFFICES ASSUME NEW f \in Executions, execs'[f].capacity \notin lost,
                        NEW i \in 1..Len(execs'[f].acquired)
                 PROVE  <<execs'[f].acquired[i], execs'[f].capacity>> \in locks'
    BY <1>3 DEF RecordsLocked
  <2>2. CASE f # e BY <2>1, <2>2, <1>2, <1>3 DEF RecordsLocked
  <2>3. CASE f = e /\ i = Len(r.acquired) BY <2>3, <1>1, <1>2, <1>3
  <2>4. CASE f = e /\ i # Len(r.acquired)
    <3>1. i \in 1..Len(execs[e].acquired) BY <2>4, <1>1, <1>2
    <3> QED BY <3>1, <2>1, <2>4, <1>1, <1>2, <1>3 DEF RecordsLocked, c
  <2> QED BY <2>2, <2>3, <2>4
<1> QED BY <1>4, <1>5, <1>6, <1>7, <1>8

LEMMA ReleaseKeeps ==
  ASSUME CapacityInv, NEW e \in Executions, execs[e].at = "release", ~Kept(e),
         NEW slots, slots = execs[e].acquired,
         NEW c, c = execs[e].capacity,
         locks' = locks \ {<<slots[Len(slots)], c>>},
         Becomes(e, [execs[e] EXCEPT !.acquired = SubSeq(slots, 1, Len(slots) - 1)]),
         UNCHANGED <<lost, losses, borrowed>>
  PROVE  CapacityInv'
<1> USE DEF CapacityInv
<1> DEFINE n == Len(slots)
           rest == SubSeq(slots, 1, n - 1)
           r == [execs[e] EXCEPT !.acquired = rest]
<1>1. Shape(execs[e]) /\ execs[e] \in Execution /\ slots \in Seq(Slots)
  BY DEF ShapeOK, Shape, Execution
<1>2. n \in 1..3
  <2>1. n \in Nat /\ n # 0 BY <1>1 DEF Kept
  <2>2. n <= 3 BY <1>1 DEF Shape
  <2>3. \A k \in Nat : k # 0 /\ k <= 3 => k \in 1..3 OBVIOUS
  <2> QED BY <2>1, <2>2, <2>3
<1>3. /\ rest \in Seq(Slots) /\ Len(rest) = n - 1
      /\ \A i \in 1..(n - 1) : rest[i] = slots[i]
  <2>0. \A k \in 1..3 : k - 1 \in Int /\ k - 1 >= 0 /\ \A i \in 1..(k - 1) : i \in 1..k
    OBVIOUS
  <2>1. n - 1 \in Int /\ n - 1 >= 0 BY <1>2, <2>0
  <2>2. \A i \in 1..(n - 1) : i \in 1..n BY <1>2, <2>0
  <2>3. \A i \in 1..(n - 1) : slots[i] \in Slots BY <1>1, <2>2
  <2>4. Len(rest) = n - 1 /\ \A i \in 1..(n - 1) : rest[i] = slots[i]
    BY <1>1, <2>1, <2>2, SubSeqProperties
  <2>5. rest \in Seq(Slots) BY <1>1, <2>1, <2>2, SubSeqProperties
  <2> QED BY <2>4, <2>5
<1> HIDE DEF n, rest
<1>4. /\ r \in Execution /\ r.at = "release" /\ r.target = execs[e].target
      /\ r.capacity = c /\ r.acquired = rest
      /\ r.query = execs[e].query
  BY <1>1, <1>3 DEF Execution
<1>5. c \in Sessions /\ c # NoSession BY <1>1, NoSessionAssumption DEF Shape, Execution
<1>6. \A i \in 1..n : /\ slots[i].scope = Scopes[i]
                      /\ slots[i].key = KeyOf(execs[e].target, Scopes[i])
  BY <1>1 DEF Shape, n
<1>7. \A i \in 1..(n - 1) : i \in 1..n /\ i # n BY <1>2
<1>8. Shape(r)
  <2>1. n - 1 <= 3 BY <1>2
  <2>2. \A i \in 1..Len(rest) : /\ rest[i].scope = Scopes[i]
                                /\ rest[i].key = KeyOf(r.target, Scopes[i])
    BY <1>3, <1>4, <1>6, <1>7
  <2>3. execs[e].query = NoSession BY <1>1 DEF Shape
  <2> HIDE DEF r
  <2> QED BY <1>1, <1>3, <1>4, <1>5, <2>1, <2>2, <2>3 DEF Shape, Works
<1>9. /\ execs' \in [Executions -> Execution]
      /\ \A f \in Executions : Shape(execs'[f])
      /\ execs'[e] = r
      /\ \A f \in Executions : f # e => execs'[f] = execs[f]
  <2>1. Becomes(e, r) BY DEF r, rest, n
  <2> HIDE DEF r
  <2> QED BY <1>8, <2>1, BecomesOK
<1>10. locks' = locks \ {<<slots[n], c>>} BY DEF n
<1> HIDE DEF r
<1>11. ShapeOK' BY <1>9, <1>10 DEF ShapeOK, CapacityTypeOK
<1>12. SessionsExclusive' BY <1>4, <1>9 DEF SessionsExclusive
<1>13. SlotsExclusive' BY <1>10 DEF SlotsExclusive
<1>14. LocksRecorded'
  <2>1. SUFFICES ASSUME NEW l \in locks, l # <<slots[n], c>>
                 PROVE  \E f \in Executions :
                          /\ execs'[f].capacity = l[2]
                          /\ \E i \in 1..Len(execs'[f].acquired) :
                               execs'[f].acquired[i] = l[1]
    BY <1>10 DEF LocksRecorded
  <2>2. PICK f \in Executions :
          /\ execs[f].capacity = l[2]
          /\ \E i \in 1..Len(execs[f].acquired) : execs[f].acquired[i] = l[1]
    BY DEF LocksRecorded
  <2>3. PICK i \in 1..Len(execs[f].acquired) : execs[f].acquired[i] = l[1]
    BY <2>2
  <2>4. CASE f # e BY <2>2, <2>3, <2>4, <1>9
  <2>5. CASE f = e
    <3>1. l = <<l[1], l[2]>> BY DEF ShapeOK, CapacityTypeOK
    <3>2. i \in 1..n /\ i # n BY <2>1, <2>2, <2>3, <2>5, <3>1 DEF n
    <3>3. i \in 1..(n - 1) BY <3>2, <1>2
    <3> QED BY <3>3, <2>2, <2>3, <2>5, <1>3, <1>4, <1>9
  <2> QED BY <2>4, <2>5
<1>15. RecordsLocked'
  <2>1. SUFFICES ASSUME NEW f \in Executions, execs'[f].capacity \notin lost,
                        NEW i \in 1..Len(execs'[f].acquired)
                 PROVE  <<execs'[f].acquired[i], execs'[f].capacity>> \in locks'
    BY DEF RecordsLocked
  <2>2. CASE f # e
    <3>1. execs[f].capacity = NoSession \/ execs[f].capacity # c
      BY <2>2 DEF SessionsExclusive
    <3>2. execs[f].capacity = NoSession => Len(execs[f].acquired) = 0
      BY DEF ShapeOK, Shape
    <3>3. execs[f].capacity # c BY <3>1, <3>2, <2>1, <2>2, <1>9
    <3>4. <<execs[f].acquired[i], execs[f].capacity>> \in locks
      BY <2>1, <2>2, <1>9 DEF RecordsLocked
    <3> QED BY <3>3, <3>4, <2>2, <1>9, <1>10
  <2>3. CASE f = e
    <3>1. i \in 1..(n - 1) /\ i \in 1..n /\ i # n BY <2>1, <2>3, <1>3, <1>4, <1>7, <1>9
    <3>2. <<slots[i], c>> \in locks BY <3>1, <2>1, <2>3, <1>4, <1>9 DEF RecordsLocked, n
    <3>3. slots[i] # slots[n]
      <4>1. slots[i].scope = Scopes[i] /\ slots[n].scope = Scopes[n]
        BY <3>1, <1>2, <1>6
      <4>2. i \in 1..3 BY <3>1, <1>2
      <4> QED BY <4>1, <4>2, <3>1, <1>2, ScopesAre
    <3> QED BY <3>1, <3>2, <3>3, <2>3, <1>3, <1>4, <1>9, <1>10
  <2> QED BY <2>2, <2>3
<1> QED BY <1>11, <1>12, <1>13, <1>14, <1>15

LEMMA IdleKeeps ==
  ASSUME CapacityInv, NEW e \in Executions, Becomes(e, Idle),
         NEW c, c = execs[e].capacity, c # NoSession,
         lost' = lost \ {c},
         \/ locks' = {l \in locks : l[2] # c}
         \/ locks' = locks /\ Kept(e),
         UNCHANGED <<losses, borrowed>>
  PROVE  CapacityInv'
<1> USE DEF CapacityInv
<1>1. /\ execs' \in [Executions -> Execution]
      /\ \A f \in Executions : Shape(execs'[f])
      /\ execs'[e] = Idle
      /\ \A f \in Executions : f # e => execs'[f] = execs[f]
  BY IdleShape, BecomesOK
<1>2. Idle.capacity = NoSession /\ Len(Idle.acquired) = 0 BY DEF Idle
<1>3. locks' \subseteq locks OBVIOUS
<1>4. \A f \in Executions : f # e /\ execs[f].capacity # NoSession => execs[f].capacity # c
  BY DEF SessionsExclusive
<1>5. \A f \in Executions : execs[f].capacity = NoSession => Len(execs[f].acquired) = 0
  BY DEF ShapeOK, Shape
<1>6. ShapeOK' BY <1>1, <1>3 DEF ShapeOK, CapacityTypeOK
<1>7. SessionsExclusive' BY <1>1, <1>2 DEF SessionsExclusive
<1>8. SlotsExclusive' BY <1>3 DEF SlotsExclusive
<1>9. LocksRecorded'
  <2>1. SUFFICES ASSUME NEW l \in locks'
                 PROVE  \E f \in Executions :
                          /\ execs'[f].capacity = l[2]
                          /\ \E i \in 1..Len(execs'[f].acquired) :
                               execs'[f].acquired[i] = l[1]
    BY DEF LocksRecorded
  <2>2. PICK f \in Executions :
          /\ execs[f].capacity = l[2]
          /\ \E i \in 1..Len(execs[f].acquired) : execs[f].acquired[i] = l[1]
    BY <1>3 DEF LocksRecorded
  <2>3. f # e
    <3>1. CASE locks' = {m \in locks : m[2] # c} BY <3>1, <2>2
    <3>2. CASE Kept(e)
      <4>1. Len(execs[e].acquired) = 0 BY <3>2 DEF Kept
      <4> QED BY <4>1, <2>2
    <3> QED BY <3>1, <3>2
  <2> QED BY <2>2, <2>3, <1>1
<1>10. RecordsLocked'
  <2>1. SUFFICES ASSUME NEW f \in Executions, execs'[f].capacity \notin lost',
                        NEW i \in 1..Len(execs'[f].acquired)
                 PROVE  <<execs'[f].acquired[i], execs'[f].capacity>> \in locks'
    BY DEF RecordsLocked
  <2>2. f # e /\ execs'[f] = execs[f] BY <2>1, <1>1, <1>2
  <2>3. execs[f].capacity # NoSession BY <2>1, <2>2, <1>5
  <2>4. execs[f].capacity # c BY <2>2, <2>3, <1>4
  <2>5. <<execs[f].acquired[i], execs[f].capacity>> \in locks
    BY <2>1, <2>2, <2>4 DEF RecordsLocked
  <2> QED BY <2>2, <2>4, <2>5
<1> QED BY <1>6, <1>7, <1>8, <1>9, <1>10

LEMMA LossKeeps ==
  ASSUME CapacityInv, NEW e \in Executions, LoseSession(e) PROVE CapacityInv'
<1> USE DEF CapacityInv
<1> DEFINE c == execs[e].capacity
<1>1. /\ losses < MaxLosses /\ losses' = losses + 1 /\ c # NoSession
      /\ lost' = lost \union {c} /\ locks' = {l \in locks : l[2] # c}
      /\ UNCHANGED <<execs, borrowed>>
  BY DEF LoseSession
<1>2. c \in Sessions BY <1>1 DEF ShapeOK, Shape, Execution
<1> HIDE DEF c
<1>3. ShapeOK'
  <2>1. losses' \in 0..MaxLosses BY <1>1, BoundAssumption DEF ShapeOK, CapacityTypeOK
  <2>2. CapacityTypeOK' BY <2>1, <1>1, <1>2 DEF ShapeOK, CapacityTypeOK
  <2> QED BY <2>2, <1>1 DEF ShapeOK
<1>4. SessionsExclusive' BY <1>1 DEF SessionsExclusive
<1>5. SlotsExclusive' BY <1>1 DEF SlotsExclusive
<1>6. LocksRecorded' BY <1>1 DEF LocksRecorded
<1>7. RecordsLocked' BY <1>1 DEF RecordsLocked
<1> QED BY <1>3, <1>4, <1>5, <1>6, <1>7

LEMMA CapacityStep ==
  ASSUME CapacityInv, [CapacityNext]_vars PROVE CapacityInv'
<1>1. ASSUME NEW e \in Executions, Step(e) PROVE CapacityInv'
  <2>1. CASE \/ Begin(e) \/ DecideToCollect(e) \/ EnterLock(e) \/ LeaveLock(e)
             \/ WantQuery(e) \/ BeginQuery(e) \/ EndQuery(e) \/ Settle(e)
    BY <2>1, MovesKeep
  <2>2. CASE Connect(e) BY <2>2, ConnectKeeps
  <2>3. CASE AcquireSlot(e)
    <3>1. execs[e].at = "acquire" BY <2>3 DEF AcquireSlot
    <3>2. CASE Grants(SlotTried(e), execs[e].capacity)
      <4>1. \E r : Granted(e, r) BY <2>3, <3>2 DEF AcquireSlot, Granted
      <4> QED BY <3>1, <3>2, <4>1, GrantKeeps
    <3>3. CASE ~Grants(SlotTried(e), execs[e].capacity)
      <4>1. UNCHANGED <<locks, lost, losses, borrowed>>
        BY <2>3, <3>3 DEF AcquireSlot
      <4>2. IF MoreSlots(SlotTried(e))
            THEN Becomes(e, [execs[e] EXCEPT !.index = SlotTried(e).index + 1])
            ELSE Goto(e, "release")
        BY <2>3, <3>3 DEF AcquireSlot
      <4> QED BY <3>1, <4>1, <4>2, RefusalKeeps
    <3> QED BY <3>2, <3>3
  <2>4. CASE ReleaseSlot(e) \/ PutBack(e) \/ StatementFails(e)
    <3>1. execs[e].at \in {"acquire", "release"}
      BY <2>4 DEF ReleaseSlot, PutBack, StatementFails
    <3>2. execs[e].capacity # NoSession BY <3>1 DEF CapacityInv, ShapeOK, Shape
    <3>3. CASE Discard(e) BY <3>2, <3>3, IdleKeeps DEF Discard
    <3>4. CASE PutBack(e) BY <3>2, <3>4, IdleKeeps DEF PutBack
    <3>5. CASE ReleaseSlot(e) /\ ~Discard(e)
      BY <3>5, ReleaseKeeps DEF ReleaseSlot
    <3> QED BY <2>4, <3>3, <3>4, <3>5 DEF StatementFails
  <2>5. CASE LoseSession(e) BY <2>5, LossKeeps
  <2> QED BY <1>1, <2>1, <2>2, <2>3, <2>4, <2>5 DEF Step
<1>2. ASSUME UNCHANGED <<execs, locks, lost, losses>>, borrowed' \subseteq Sessions
      PROVE  CapacityInv'
  BY <1>2 DEF CapacityInv, ShapeOK, CapacityTypeOK, SessionsExclusive,
              SlotsExclusive, LocksRecorded, RecordsLocked
<1>3. ASSUME NEW p \in Processes, Borrow(p) PROVE CapacityInv'
  <2>1. borrowed' \subseteq Sessions
    BY <1>3, ServedIsFree DEF Borrow, CapacityInv, ShapeOK, CapacityTypeOK
  <2> QED BY <1>2, <1>3, <2>1 DEF Borrow
<1>4. ASSUME NEW c \in Sessions, GiveBack(c) PROVE CapacityInv'
  <2>1. borrowed' \subseteq Sessions
    BY <1>4 DEF GiveBack, CapacityInv, ShapeOK, CapacityTypeOK
  <2> QED BY <1>2, <1>4, <2>1 DEF GiveBack
<1>5. CASE UNCHANGED vars
  <2>1. borrowed' \subseteq Sessions
    BY <1>5 DEF vars, CapacityInv, ShapeOK, CapacityTypeOK
  <2> QED BY <1>2, <1>5, <2>1 DEF vars
<1> QED BY <1>1, <1>3, <1>4, <1>5 DEF CapacityNext

\* Every reachable state has the shape, the sessions and the locks described.
THEOREM CapacityInvariant == CapacitySpec => []CapacityInv
<1>1. CapacityInv /\ [CapacityNext]_vars => CapacityInv' BY CapacityStep
<1> QED BY InitShape, <1>1, PTL DEF CapacitySpec

\* Executions, locks, sessions and counters stay in their types.
THEOREM CapacityTypes == CapacitySpec => []CapacityTypeOK
<1>1. CapacityInv => CapacityTypeOK BY DEF CapacityInv, ShapeOK
<1> QED BY CapacityInvariant, <1>1, PTL

\* A session that goes back to its pool holds no slot: a slot is locked only
\* by the session of an execution that recorded it, so that the loop that
\* releases what was recorded (collection-capacity.ts:277) misses none.
THEOREM PooledSessionsStayClean == CapacitySpec => []PooledSessionsAreClean
<1>1. CapacityInv => PooledSessionsAreClean
  BY DEF CapacityInv, LocksRecorded, PooledSessionsAreClean
<1> QED BY CapacityInvariant, <1>1, PTL

-----------------------------------------------------------------------------
(* Limits: executions that share a key have slots of different indices.    *)

LEMMA LimitsFollow == CapacityInv => WithinLimits
<1> SUFFICES ASSUME CapacityInv, NEW slot \in {l[1] : l \in locks}
             PROVE  Cardinality({e \in Executions :
                      /\ execs[e].at \in Works /\ execs[e].capacity \notin lost
                      /\ KeyOf(execs[e].target, slot.scope) = slot.key})
                    <= Limit[slot.scope]
  BY DEF WithinLimits
<1> DEFINE Sharing == {e \in Executions :
                         /\ execs[e].at \in Works /\ execs[e].capacity \notin lost
                         /\ KeyOf(execs[e].target, slot.scope) = slot.key}
           L == Limit[slot.scope]
<1>1. slot \in Slots BY DEF CapacityInv, ShapeOK, CapacityTypeOK
<1>2. slot.scope \in {"global", "source", "host"} BY <1>1, ScopesAre DEF Slots
<1>3. PICK pos \in 1..3 : Scopes[pos] = slot.scope BY <1>2, ScopesAre
<1>4. L \in Nat \ {0} BY <1>2, LimitAssumption
<1>5. ASSUME NEW e \in Sharing
      PROVE  /\ execs[e].acquired[pos] \in Slots
             /\ execs[e].acquired[pos].scope = slot.scope
             /\ execs[e].acquired[pos].key = slot.key
             /\ <<execs[e].acquired[pos], execs[e].capacity>> \in locks
             /\ execs[e].capacity # NoSession
  <2>1. Shape(execs[e]) /\ e \in Executions BY <1>5 DEF CapacityInv, ShapeOK
  <2>2. Len(execs[e].acquired) = 3 BY <1>5, <2>1 DEF Shape
  <2>3. execs[e].acquired \in Seq(Slots) BY <2>1 DEF Shape, Execution
  <2>4. execs[e].capacity # NoSession BY <1>5, <2>1 DEF Shape, Works
  <2>5. /\ execs[e].acquired[pos].scope = Scopes[pos]
        /\ execs[e].acquired[pos].key = KeyOf(execs[e].target, Scopes[pos])
    BY <2>1, <2>2 DEF Shape
  <2>6. <<execs[e].acquired[pos], execs[e].capacity>> \in locks
    BY <1>5, <2>1, <2>2 DEF CapacityInv, RecordsLocked
  <2>7. execs[e].acquired[pos] \in Slots BY <2>2, <2>3
  <2> QED BY <1>3, <1>5, <2>4, <2>5, <2>6, <2>7
<1> DEFINE index(e) == execs[e].acquired[pos].index
           place == [e \in Sharing |-> index(e)]
<1>6. \A e \in Sharing : index(e) \in 0..(L - 1)
  <2>1. \A s \in Slots : s.scope = slot.scope => s.index \in Nat /\ s.index < L
    BY DEF Slots
  <2>2. \A n \in Nat : n < L => n \in 0..(L - 1) BY <1>4
  <2> QED BY <1>5, <2>1, <2>2
<1>7. ASSUME NEW e \in Sharing, NEW f \in Sharing, index(e) = index(f) PROVE e = f
  <2>0. \A s, t \in Slots : s.scope = t.scope /\ s.key = t.key /\ s.index = t.index => s = t
    BY DEF Slots
  <2>1. execs[e].acquired[pos] = execs[f].acquired[pos] BY <1>5, <1>7, <2>0
  <2>2. execs[e].capacity = execs[f].capacity
    BY <1>5, <2>1 DEF CapacityInv, SlotsExclusive
  <2> QED BY <1>5, <2>2 DEF CapacityInv, SessionsExclusive
<1> HIDE DEF Sharing, index, L
<1>8. place \in Injection(Sharing, 0..(L - 1))
  <2>1. place \in [Sharing -> 0..(L - 1)] BY <1>6
  <2>2. \A e, f \in Sharing : place[e] = place[f] => e = f BY <1>7
  <2> HIDE DEF place
  <2> QED BY <2>1, <2>2 DEF Injection, IsInjective
<1> HIDE DEF place
<1>9. IsFiniteSet(0..(L - 1)) /\ Cardinality(0..(L - 1)) = L
  <2>1. L - 1 \in Int /\ ~(0 > L - 1) /\ (L - 1) - 0 + 1 = L BY <1>4
  <2> QED BY <2>1, FS_Interval
<1>10. Cardinality(Sharing) <= L BY <1>8, <1>9, FS_Injection
<1> QED BY <1>10 DEF Sharing, L

\* However executions of all processes come and go, and whatever sessions are
\* lost, no more of them work than the limit of a scope, but for those whose
\* own session is gone (collection-capacity.ts:14).
THEOREM CapacityHolds == CapacitySpec => []WithinLimits
BY CapacityInvariant, LimitsFollow, PTL

-----------------------------------------------------------------------------
(* The pool: what waits holds two connections at most.                     *)

\* An execution uses connections of its own process.
OwnSessions ==
  \A e \in Executions :
    \A c \in {execs[e].capacity, execs[e].lock, execs[e].query} :
      c = NoSession \/ c[1] = e[1]

LEMMA OwnSessionsStep ==
  ASSUME CapacityInv, OwnSessions, [CapacityNext]_vars PROVE OwnSessions'
<1>1. ASSUME NEW e \in Executions, NEW r, Becomes(e, r),
             \A c \in {r.capacity, r.lock, r.query} : c = NoSession \/ c[1] = e[1]
      PROVE  OwnSessions'
  <2>1. \A f \in Executions : execs'[f] = IF f = e THEN r ELSE execs[f]
    BY <1>1 DEF Becomes, CapacityInv, ShapeOK, CapacityTypeOK
  <2> QED BY <1>1, <2>1 DEF OwnSessions
<1>2. ASSUME NEW e \in Executions, Step(e) PROVE OwnSessions'
  <2>1. execs[e] \in Execution BY DEF CapacityInv, ShapeOK, Shape
  <2>2. \A c \in {execs[e].capacity, execs[e].lock, execs[e].query} :
          c = NoSession \/ c[1] = e[1]
    BY DEF OwnSessions
  <2>3. Free(e[1]) # {} => Served(e[1])[1] = e[1] BY DEF Served, Free
  <2>4. CASE Begin(e)
    <3>1. PICK t \in Targets :
            Becomes(e, [execs[e] EXCEPT !.at = "connect", !.target = t])
      BY <2>4 DEF Begin
    <3> DEFINE r == [execs[e] EXCEPT !.at = "connect", !.target = t]
    <3>2. r.capacity = execs[e].capacity /\ r.lock = execs[e].lock /\ r.query = execs[e].query
      BY <2>1 DEF Execution
    <3> HIDE DEF r
    <3> QED BY <3>1, <3>2, <2>2, <1>1 DEF r
  <2>5. CASE \E stage : Goto(e, stage)
    <3>1. PICK stage : Becomes(e, [execs[e] EXCEPT !.at = stage]) BY <2>5 DEF Goto
    <3> DEFINE r == [execs[e] EXCEPT !.at = stage]
    <3>2. r.capacity = execs[e].capacity /\ r.lock = execs[e].lock /\ r.query = execs[e].query
      BY <2>1 DEF Execution
    <3> HIDE DEF r
    <3> QED BY <3>1, <3>2, <2>2, <1>1 DEF r
  <2>6. CASE Connect(e)
    <3> DEFINE r == [execs[e] EXCEPT !.at = "acquire", !.capacity = Served(e[1])]
    <3>1. Becomes(e, r) /\ Free(e[1]) # {} BY <2>6 DEF Connect
    <3>2. r.capacity = Served(e[1]) /\ r.lock = execs[e].lock /\ r.query = execs[e].query
      BY <2>1 DEF Execution
    <3> HIDE DEF r
    <3> QED BY <3>1, <3>2, <2>2, <2>3, <1>1
  <2>7. CASE EnterLock(e) \/ LeaveLock(e)
    <3>1. PICK stage, c : /\ Becomes(e, [execs[e] EXCEPT !.at = stage, !.lock = c])
                          /\ c = NoSession \/ c[1] = e[1]
      BY <2>3, <2>7 DEF EnterLock, LeaveLock
    <3> DEFINE r == [execs[e] EXCEPT !.at = stage, !.lock = c]
    <3>2. r.capacity = execs[e].capacity /\ r.lock = c /\ r.query = execs[e].query
      BY <2>1 DEF Execution
    <3> HIDE DEF r
    <3> QED BY <3>1, <3>2, <2>2, <1>1 DEF r
  <2>8. CASE BeginQuery(e) \/ EndQuery(e)
    <3>1. PICK stage, c : /\ Becomes(e, [execs[e] EXCEPT !.at = stage, !.query = c])
                          /\ c = NoSession \/ c[1] = e[1]
      BY <2>3, <2>8 DEF BeginQuery, EndQuery
    <3> DEFINE r == [execs[e] EXCEPT !.at = stage, !.query = c]
    <3>2. r.capacity = execs[e].capacity /\ r.lock = execs[e].lock /\ r.query = c
      BY <2>1 DEF Execution
    <3> HIDE DEF r
    <3> QED BY <3>1, <3>2, <2>2, <1>1 DEF r
  <2>9. CASE Becomes(e, Idle) BY <2>9, <1>1 DEF Idle
  <2>10. CASE \E r : Granted(e, r)
    <3>1. PICK r : Granted(e, r) BY <2>10
    <3>2. r.capacity = execs[e].capacity /\ r.lock = execs[e].lock /\ r.query = execs[e].query
      BY <2>1, <3>1 DEF Granted, Execution
    <3> QED BY <3>1, <3>2, <2>2, <1>1 DEF Granted
  <2>11. CASE \E i : Becomes(e, [execs[e] EXCEPT !.index = i])
    <3>1. PICK i : Becomes(e, [execs[e] EXCEPT !.index = i]) BY <2>11
    <3> DEFINE r == [execs[e] EXCEPT !.index = i]
    <3>2. r.capacity = execs[e].capacity /\ r.lock = execs[e].lock /\ r.query = execs[e].query
      BY <2>1 DEF Execution
    <3> HIDE DEF r
    <3> QED BY <3>1, <3>2, <2>2, <1>1 DEF r
  <2>12. CASE \E s : Becomes(e, [execs[e] EXCEPT !.acquired = s])
    <3>1. PICK s : Becomes(e, [execs[e] EXCEPT !.acquired = s]) BY <2>12
    <3> DEFINE r == [execs[e] EXCEPT !.acquired = s]
    <3>2. r.capacity = execs[e].capacity /\ r.lock = execs[e].lock /\ r.query = execs[e].query
      BY <2>1 DEF Execution
    <3> HIDE DEF r
    <3> QED BY <3>1, <3>2, <2>2, <1>1 DEF r
  <2>13. CASE UNCHANGED execs BY <2>13 DEF OwnSessions
  <2>14. AcquireSlot(e) => \/ \E r : Granted(e, r)
                           \/ \E i : Becomes(e, [execs[e] EXCEPT !.index = i])
                           \/ \E stage : Goto(e, stage)
    BY DEF AcquireSlot, Granted
  <2>15. DecideToCollect(e) \/ WantQuery(e) \/ Settle(e) => \E stage : Goto(e, stage)
    BY DEF DecideToCollect, WantQuery, Settle
  <2>16. ReleaseSlot(e) => \/ \E s : Becomes(e, [execs[e] EXCEPT !.acquired = s])
                           \/ Becomes(e, Idle)
    BY DEF ReleaseSlot, Discard
  <2>17. PutBack(e) \/ StatementFails(e) => Becomes(e, Idle)
    BY DEF PutBack, StatementFails, Discard
  <2>18. LoseSession(e) => UNCHANGED execs BY DEF LoseSession
  <2> QED BY <1>2, <2>4, <2>5, <2>6, <2>7, <2>8, <2>9, <2>10, <2>11, <2>12, <2>13,
             <2>14, <2>15, <2>16, <2>17, <2>18 DEF Step
<1>3. CASE UNCHANGED execs BY <1>3 DEF OwnSessions
<1> QED BY <1>2, <1>3 DEF CapacityNext, Borrow, GiveBack, vars

LEMMA PoolFollows == CapacityInv /\ OwnSessions => PoolCanMove
<1> SUFFICES ASSUME CapacityInv, OwnSessions,
                    NEW e \in Executions, Free(e[1]) = {},
                    ~\E c \in borrowed : c[1] = e[1],
                    \A f \in Executions :
                      f[1] = e[1] /\ Held(f) # {} => execs[f].at \in Waits
             PROVE  FALSE
  BY DEF PoolCanMove
<1> DEFINE p == e[1]
           Pins == {"capacity", "lock"}
<1>1. p \in Processes BY DEF Executions
<1>2. ASSUME NEW c \in Connections
      PROVE  \E t \in Tasks, pin \in Pins : execs[<<p, t>>][pin] = <<p, c>>
  <2>1. <<p, c>> \in InUse /\ <<p, c>> \notin borrowed
    BY <1>1 DEF Free, Sessions
  <2>2. PICK f \in Executions : <<p, c>> \in Held(f) BY <2>1 DEF InUse
  <2>3. f[1] = p BY <2>2 DEF OwnSessions, Held
  <2>4. execs[f].at \in Waits BY <2>2, <2>3
  <2>5. execs[f].query = NoSession
    BY <2>4 DEF CapacityInv, ShapeOK, Shape, Waits
  <2>6. execs[f].capacity = <<p, c>> \/ execs[f].lock = <<p, c>>
    BY <2>2, <2>5 DEF Held
  <2>7. f = <<p, f[2]>> /\ f[2] \in Tasks BY <2>3 DEF Executions
  <2> QED BY <2>6, <2>7
<1> DEFINE pinned == [c \in Connections |->
                        CHOOSE x \in Tasks \X Pins : execs[<<p, x[1]>>][x[2]] = <<p, c>>]
<1>3. \A c \in Connections : /\ pinned[c] \in Tasks \X Pins
                             /\ execs[<<p, pinned[c][1]>>][pinned[c][2]] = <<p, c>>
  <2>1. \A c \in Connections : \E x \in Tasks \X Pins : execs[<<p, x[1]>>][x[2]] = <<p, c>>
    <3>1. SUFFICES ASSUME NEW c \in Connections
                   PROVE  \E x \in Tasks \X Pins : execs[<<p, x[1]>>][x[2]] = <<p, c>>
      OBVIOUS
    <3>2. PICK t \in Tasks, pin \in Pins : execs[<<p, t>>][pin] = <<p, c>> BY <1>2
    <3>3. <<t, pin>> \in Tasks \X Pins BY <3>2
    <3> HIDE DEF Pins
    <3> QED BY <3>2, <3>3
  <2> QED BY <2>1
<1> HIDE DEF pinned, Pins, p
<1>4. pinned \in Injection(Connections, Tasks \X Pins)
  <2>1. pinned \in [Connections -> Tasks \X Pins] BY <1>3 DEF pinned
  <2>2. \A c, d \in Connections : pinned[c] = pinned[d] => c = d
    <3>1. SUFFICES ASSUME NEW c \in Connections, NEW d \in Connections,
                          pinned[c] = pinned[d]
                   PROVE  c = d
      OBVIOUS
    <3>2. /\ execs[<<p, pinned[c][1]>>][pinned[c][2]] = <<p, c>>
          /\ execs[<<p, pinned[d][1]>>][pinned[d][2]] = <<p, d>>
      BY <1>3
    <3>3. <<p, c>> = <<p, d>> BY <3>1, <3>2, Zenon
    <3> QED BY <3>3
  <2> QED BY <2>1, <2>2 DEF Injection, IsInjective
<1>5. IsFiniteSet(Pins) /\ Cardinality(Pins) = 2
  <2>1. IsFiniteSet({"capacity"}) /\ Cardinality({"capacity"}) = 1 BY FS_Singleton
  <2>2. Pins = {"capacity"} \union {"lock"} /\ "lock" \notin {"capacity"} BY DEF Pins
  <2>3. IsFiniteSet(Pins) /\ Cardinality(Pins) = 1 + 1
    BY <2>1, <2>2, FS_AddElement, Zenon
  <2> QED BY <2>3
<1>6. IsFiniteSet(Tasks \X Pins) /\ Cardinality(Tasks \X Pins) = Cardinality(Tasks) * 2
  BY <1>5, PoolAssumption, FS_Product
<1>7. Cardinality(Connections) <= Cardinality(Tasks \X Pins) BY <1>4, <1>6, FS_Injection
<1>8. Cardinality(Tasks) \in Nat /\ Cardinality(Connections) \in Nat
  BY PoolAssumption, FS_CardinalityType
<1> QED BY <1>6, <1>7, <1>8, PoolAssumption

\* With two connections for each execution and one more, executions of a
\* process never all wait for each other's (collection-capacity.ts:77,
\* runtime-timing.ts:60).
THEOREM PoolNeverStuck == CapacitySpec => []PoolCanMove
<1>1. CapacityInit => OwnSessions BY DEF CapacityInit, OwnSessions, Idle
<1>2. OwnSessions /\ CapacityInv /\ [CapacityNext]_vars => OwnSessions'
  BY OwnSessionsStep
<1> QED BY CapacityInvariant, PoolFollows, <1>1, <1>2, PTL DEF CapacitySpec
=============================================================================
