-------------------------- MODULE CollectionCapacity --------------------------
(***************************************************************************)
(* The capacity of collection (collection/concurrency/collection-          *)
(* capacity.ts) over the connections of each process (database/            *)
(* database.ts).  An execution pins a session, whose advisory locks are    *)
(* its global, source and host slot; within it, it pins one for the lock   *)
(* of its endpoint, and takes a third for each of its statements.  All     *)
(* wait for a free connection as long as it takes.                         *)
(***************************************************************************)
EXTENDS Integers, Sequences, FiniteSets

CONSTANTS Processes,
          Tasks,        \* executions a process has at a time
          Connections,  \* connections of a process's pool
          NoSession,
          Targets,      \* what is collected: a source, and a host of it
          Limit,        \* COLLECTION_CAPACITY_LIMITS
          MaxBorrowed,  \* bound on connections other loops use at a time
          MaxLosses     \* bound on sessions lost in use

Scopes == <<"global", "source", "host">>

ASSUME LimitAssumption ==
  Limit \in [{"global", "source", "host"} -> Nat \ {0}]

\* What collection-capacity.ts:77 and runtime-timing.ts:60 see to: two pinned
\* sessions for each execution, and one more.
ASSUME PoolAssumption ==
  /\ IsFiniteSet(Tasks) /\ IsFiniteSet(Connections)
  /\ 2 * Cardinality(Tasks) < Cardinality(Connections)

Executions == Processes \X Tasks
Sessions == Processes \X Connections
ASSUME NoSessionAssumption == NoSession \notin Sessions
ASSUME BoundAssumption == MaxLosses \in Nat /\ MaxBorrowed \in Nat
ASSUME TargetAssumption == \A t \in Targets : {"source", "host"} \subseteq DOMAIN t

VARIABLES execs,     \* where each execution stands, and what it holds
          locks,     \* pg_locks: which session has locked which slot
          lost,      \* sessions in use whose connection is gone
          losses,
          borrowed   \* sessions that other loops of their process use

vars == <<execs, locks, lost, losses, borrowed>>

Keys == {"all"} \union {t.source : t \in Targets} \union {t.host : t \in Targets}
Slots == {s \in [scope : DOMAIN Limit, key : Keys, index : Nat] :
            s.index < Limit[s.scope]}

\* wantLock and wantQuery wait for a connection, as does connect.
Waits == {"connect", "wantLock", "wantQuery"}
Works == {"work", "wantLock", "locked", "wantQuery", "query", "settle"}
Stages == {"idle", "connect", "acquire", "release"} \union Works

\* acquired: acquiredSlots; index: the slot of the next scope to try
Execution == [at : Stages, target : Targets \union {NoSession},
              capacity : Sessions \union {NoSession},
              lock : Sessions \union {NoSession},
              query : Sessions \union {NoSession},
              acquired : Seq(Slots), index : Nat]

CapacityTypeOK ==
  /\ execs \in [Executions -> Execution]
  /\ locks \subseteq Slots \X Sessions
  /\ lost \subseteq Sessions /\ losses \in 0..MaxLosses
  /\ borrowed \subseteq Sessions

Idle == [at |-> "idle", target |-> NoSession,
         capacity |-> NoSession, lock |-> NoSession, query |-> NoSession,
         acquired |-> <<>>, index |-> 0]

CapacityInit ==
  /\ execs = [e \in Executions |-> Idle]
  /\ locks = {} /\ lost = {} /\ losses = 0 /\ borrowed = {}

-----------------------------------------------------------------------------
(* The pool of a process.                                                  *)

Held(e) == {execs[e].capacity, execs[e].lock, execs[e].query} \ {NoSession}
InUse == borrowed \union UNION {Held(e) : e \in Executions}
Free(p) == {c \in Sessions : c[1] = p} \ InUse

\* Which free connection the pool serves makes no difference.
Served(p) == CHOOSE c \in Free(p) : TRUE

Becomes(e, x) == execs' = [execs EXCEPT ![e] = x]
Goto(e, stage) == Becomes(e, [execs[e] EXCEPT !.at = stage])

\* Scheduler, recovery, renewals, claims and digests take a connection for a
\* transaction or statement, and need no other one meanwhile.
Borrow(p) ==
  /\ Free(p) # {} /\ Cardinality(borrowed) < MaxBorrowed
  /\ borrowed' = borrowed \union {Served(p)}
  /\ UNCHANGED <<execs, locks, lost, losses>>

GiveBack(c) ==
  /\ c \in borrowed
  /\ borrowed' = borrowed \ {c}
  /\ UNCHANGED <<execs, locks, lost, losses>>

-----------------------------------------------------------------------------
(* Acquiring slots.                                                        *)

Begin(e) ==
  /\ execs[e].at = "idle"
  /\ \E t \in Targets :
       Becomes(e, [execs[e] EXCEPT !.at = "connect", !.target = t])
  /\ UNCHANGED <<locks, lost, losses, borrowed>>

Connect(e) ==
  /\ execs[e].at = "connect"
  /\ Free(e[1]) # {}
  /\ Becomes(e, [execs[e] EXCEPT !.at = "acquire", !.capacity = Served(e[1])])
  /\ UNCHANGED <<locks, lost, losses, borrowed>>

KeyOf(t, scope) == CASE scope = "global" -> "all"
                     [] scope = "source" -> t.source
                     [] scope = "host" -> t.host

SlotTried(e) ==
  LET scope == Scopes[Len(execs[e].acquired) + 1]
  IN [scope |-> scope, key |-> KeyOf(execs[e].target, scope),
      index |-> execs[e].index]

\* pg_try_advisory_lock grants a session what it holds already.
Grants(slot, c) == \A l \in locks : l[1] = slot => l[2] = c

\* Mutant of MoreSlots: one slot too many is tried.
MoreSlotsInclusive(slot) == slot.index < Limit[slot.scope]

MoreSlots(slot) == slot.index + 1 < Limit[slot.scope]

AcquireSlot(e) ==
  LET slot == SlotTried(e)
      c == execs[e].capacity
      slots == Append(execs[e].acquired, slot)
  IN /\ execs[e].at = "acquire" /\ c \notin lost
     /\ \/ /\ Grants(slot, c)
           /\ locks' = locks \union {<<slot, c>>}
           /\ Becomes(e, [execs[e] EXCEPT
                !.acquired = slots, !.index = 0,
                !.at = IF Len(slots) = Len(Scopes) THEN "work" ELSE "acquire"])
        \/ /\ ~Grants(slot, c)
           /\ IF MoreSlots(slot)
              THEN Becomes(e, [execs[e] EXCEPT !.index = slot.index + 1])
              ELSE Goto(e, "release")
           /\ UNCHANGED locks
     /\ UNCHANGED <<lost, losses, borrowed>>

-----------------------------------------------------------------------------
(* Working, with a lock session and connections for statements.            *)

\* Not eligible or not due any more: no lock, nothing to apply.
DecideToCollect(e) ==
  /\ execs[e].at = "work"
  /\ Goto(e, "wantLock") \/ Goto(e, "release")
  /\ UNCHANGED <<locks, lost, losses, borrowed>>

EnterLock(e) ==
  /\ execs[e].at = "wantLock"
  /\ Free(e[1]) # {}
  /\ Becomes(e, [execs[e] EXCEPT !.at = "locked", !.lock = Served(e[1])])
  /\ UNCHANGED <<locks, lost, losses, borrowed>>

\* The lock was refused, or the collection ended or threw.
LeaveLock(e) ==
  /\ execs[e].at = "locked"
  /\ Becomes(e, [execs[e] EXCEPT !.at = "settle", !.lock = NoSession])
  /\ UNCHANGED <<locks, lost, losses, borrowed>>

\* Mutant of WantQuery: a statement asks for another connection while it
\* holds one, and keeps both.
WantQueryNested(e) ==
  /\ execs[e].at \in {"locked", "settle", "query"}
  /\ Goto(e, "wantQuery")
  /\ UNCHANGED <<locks, lost, losses, borrowed>>

\* Run rows, articles and observations under the lock; the endpoint's runtime
\* columns after it.
WantQuery(e) ==
  /\ execs[e].at \in {"locked", "settle"}
  /\ Goto(e, "wantQuery")
  /\ UNCHANGED <<locks, lost, losses, borrowed>>

BeginQuery(e) ==
  /\ execs[e].at = "wantQuery"
  /\ Free(e[1]) # {}
  /\ Becomes(e, [execs[e] EXCEPT !.at = "query", !.query = Served(e[1])])
  /\ UNCHANGED <<locks, lost, losses, borrowed>>

EndQuery(e) ==
  /\ execs[e].at = "query"
  /\ IF execs[e].lock # NoSession
     THEN Becomes(e, [execs[e] EXCEPT !.at = "locked", !.query = NoSession])
     ELSE Becomes(e, [execs[e] EXCEPT !.at = "release", !.query = NoSession])
  /\ UNCHANGED <<locks, lost, losses, borrowed>>

Settle(e) ==
  /\ execs[e].at = "settle"
  /\ Goto(e, "release")
  /\ UNCHANGED <<locks, lost, losses, borrowed>>

-----------------------------------------------------------------------------
(* Releasing slots, and sessions that fail.                                *)

\* The session is terminated, and with it go its locks.
Discard(e) ==
  /\ locks' = {l \in locks : l[2] # execs[e].capacity}
  /\ lost' = lost \ {execs[e].capacity}
  /\ Becomes(e, Idle)
  /\ UNCHANGED <<losses, borrowed>>

\* Mutant of Kept: the loop stops before the first slot.
KeptFirst(e) == Len(execs[e].acquired) <= 1

Kept(e) == execs[e].acquired = <<>>

PutBack(e) ==
  /\ execs[e].at = "release" /\ Kept(e)
  /\ lost' = lost \ {execs[e].capacity}
  /\ Becomes(e, Idle)
  /\ UNCHANGED <<locks, losses, borrowed>>

\* The last slot first; a release that is not confirmed ends the session.
ReleaseSlot(e) ==
  LET slots == execs[e].acquired
      lock == <<slots[Len(slots)], execs[e].capacity>>
  IN /\ execs[e].at = "release" /\ ~Kept(e)
     /\ \/ /\ lock \in locks
           /\ locks' = locks \ {lock}
           /\ Becomes(e, [execs[e] EXCEPT
                            !.acquired = SubSeq(slots, 1, Len(slots) - 1)])
           /\ UNCHANGED <<lost, losses, borrowed>>
        \/ lock \notin locks /\ Discard(e)

\* A statement fails, or its connection is found to be gone.
StatementFails(e) == execs[e].at \in {"acquire", "release"} /\ Discard(e)

\* A connection breaks, and PostgreSQL gives up its locks; an execution that
\* is working does not notice.
LoseSession(e) ==
  LET c == execs[e].capacity IN
  /\ losses < MaxLosses /\ losses' = losses + 1
  /\ c # NoSession /\ c \notin lost
  /\ lost' = lost \union {c}
  /\ locks' = {l \in locks : l[2] # c}
  /\ UNCHANGED <<execs, borrowed>>

-----------------------------------------------------------------------------

Step(e) ==
  \/ Begin(e) \/ Connect(e) \/ AcquireSlot(e)
  \/ DecideToCollect(e) \/ EnterLock(e) \/ LeaveLock(e)
  \/ WantQuery(e) \/ BeginQuery(e) \/ EndQuery(e) \/ Settle(e)
  \/ ReleaseSlot(e) \/ PutBack(e) \/ StatementFails(e) \/ LoseSession(e)

CapacityNext ==
  \/ \E e \in Executions : Step(e)
  \/ \E p \in Processes : Borrow(p)
  \/ \E c \in Sessions : GiveBack(c)

CapacitySpec == CapacityInit /\ [][CapacityNext]_vars

\* The pool serves who has waited longest; a collection runs out of articles;
\* every statement ends.
CapacityFairness ==
  /\ WF_vars(\E c \in Sessions : GiveBack(c))
  /\ \A e \in Executions :
       /\ SF_vars(Connect(e) \/ EnterLock(e) \/ BeginQuery(e))
       /\ SF_vars(LeaveLock(e))
       /\ WF_vars(\/ AcquireSlot(e) \/ DecideToCollect(e) \/ EndQuery(e)
                  \/ Settle(e) \/ ReleaseSlot(e) \/ PutBack(e)
                  \/ StatementFails(e))

-----------------------------------------------------------------------------
(* What capacity promises.                                                 *)

\* No more executions work at a time than the scope allows, over all
\* processes, except for those whose session is gone.
WithinLimits ==
  \A slot \in {l[1] : l \in locks} :
    Cardinality({e \in Executions :
                   /\ execs[e].at \in Works /\ execs[e].capacity \notin lost
                   /\ KeyOf(execs[e].target, slot.scope) = slot.key}) <= Limit[slot.scope]

\* A session that goes back to the pool has let go of every slot, after
\* refusals, failures and losses too: otherwise it would take part of the
\* capacity with it, or be granted slots that others count on.
PooledSessionsAreClean ==
  \A l \in locks : \E e \in Executions : execs[e].capacity = l[2]

\* Executions cannot wait for each other's connections: when one waits and
\* the pool is empty, somebody of its process holds one and does not wait.
PoolCanMove ==
  \A e \in Executions :
    execs[e].at \in Waits /\ Free(e[1]) = {}
    => \/ \E c \in borrowed : c[1] = e[1]
       \/ \E f \in Executions :
            f[1] = e[1] /\ Held(f) # {} /\ execs[f].at \notin Waits

\* Every execution comes to an end, and gives back what it holds.
EveryExecutionEnds ==
  \A e \in Executions : execs[e].at = "connect" ~> execs[e].at = "idle"
=============================================================================
