--------------------------- MODULE QueryLimiter ---------------------------
(***************************************************************************)
(* The concurrency limiter of warehouse queries: one global semaphore, and *)
(* for every project a limiter (a semaphore and a count of outstanding     *)
(* queries) kept in a map that is cleaned when it is full.                 *)
(*                                                                         *)
(* A query is a task that calls acquire, runs holding the permit, and      *)
(* drops it; it may be cancelled at either of the two awaits of acquire.   *)
(* The state between two steps is what other threads can observe: the map  *)
(* is locked one shard at a time, the counters are atomics.  tokio's       *)
(* semaphores are fair: their waiters are first-in, first-out queues.      *)
(*                                                                         *)
(* A limiter is an instance shared by reference: a query keeps the         *)
(* instance it found although the map may have dropped it since.           *)
(***************************************************************************)
EXTENDS Integers, Sequences, FiniteSets

CONSTANTS
  Queries,        \* the concurrent callers
  Projects,
  ProjectsOf,     \* the projects each caller queries
  NoProject,      \* of a caller between two queries
  Limiters,       \* bound: instances alive at once (they are recycled)
  NoLimiter,
  MaxPerProject,  \* max_concurrent_per_project
  MaxGlobal,      \* max_concurrent_global
  MaxQueue,       \* max_queue_per_project
  MaxCached       \* max_cached_projects

ASSUME QueriesAssumption == IsFiniteSet(Queries) /\ ProjectsOf \in [Queries -> SUBSET Projects]
ASSUME ProjectAssumption == NoProject \notin Projects
ASSUME LimiterAssumption == NoLimiter \notin Limiters
ASSUME LimitsAssumption ==
  /\ MaxPerProject \in Nat \ {0} /\ MaxGlobal \in Nat \ {0} /\ MaxQueue \in Nat \ {0}
  /\ MaxCached \in Nat \ {0}

VARIABLES
  pc,           \* what each query does next
  proj,         \* the project of a query
  lim,          \* the limiter a query holds a reference to
  todo,         \* projects the LRU stage of a query's cleanup is still to remove
  entry,        \* project_limiters: the limiter of each project, or none
  stale,        \* projects whose limiter was last accessed over the idle timeout ago
  avail,        \* permits left in the semaphore of a limiter
  queued,       \* queue_size of a limiter
  pwait,        \* the waiters of the semaphore of a limiter
  globalAvail,  \* permits left in the global semaphore
  gwait         \* the waiters of the global semaphore

cacheVars == <<entry, stale>>
semVars == <<avail, queued, pwait, globalAvail, gwait>>
vars == <<pc, proj, lim, todo, cacheVars, semVars>>

Cached == {p \in Projects : entry[p] # NoLimiter}

\* A query refers to its limiter from the lookup until its permit is gone.
Holding == {"ready", "wglobal", "wproject", "running", "drop1", "drop2"}
Used == {lim[q] : q \in {r \in Queries : pc[r] \in Holding}} \cup {entry[p] : p \in Cached}

Move(q, s) == pc' = [pc EXCEPT ![q] = s]

\* Clone the references of limiter l of project p, touch() it, and go on.
Refer(q, p, l) ==
  /\ lim' = [lim EXCEPT ![q] = l]
  /\ stale' = stale \ {p}
  /\ Move(q, "ready")

-----------------------------------------------------------------------------
(* acquire: the limiter of the project. *)

\* The map has a limiter.
Found(q, p) ==
  /\ pc[q] = "idle" /\ p \in Cached
  /\ proj' = [proj EXCEPT ![q] = p]
  /\ Refer(q, p, entry[p])
  /\ UNCHANGED <<todo, entry, semVars>>

\* It has none, and is cleaned first when it is full.
Missing(q, p) ==
  /\ pc[q] = "idle" /\ p \notin Cached
  /\ proj' = [proj EXCEPT ![q] = p]
  /\ Move(q, IF Cardinality(Cached) >= MaxCached THEN "retain" ELSE "insert")
  /\ UNCHANGED <<lim, todo, cacheVars, semVars>>

\* What is_idle may answer of the limiters in the map.  It loads the permits
\* before the count: a query dropping its permit (count first) can be missed.
IdleReads ==
  {idle \in [Cached -> BOOLEAN] :
     \A p \in Cached :
       LET l == entry[p]
       IN  idle[p] \in {queued[l] = 0, queued[l] = 0 /\ avail[l] = MaxPerProject}}

\* Mutant: eviction by age alone.
should_evict_by_age(p, idle) == p \in stale

should_evict(p, idle) == idle[p] /\ p \in stale

\* The limiters of the projects of S leave the map.
Drop(S) ==
  /\ entry' = [p \in Projects |-> IF p \in S THEN NoLimiter ELSE entry[p]]
  /\ stale' = stale \ S

\* cleanup_idle: retain drops the expired limiters.  Shards are locked one at a
\* time; what is seen of one project does not depend on the others, so one
\* step stands for the visits.
Retain(q) ==
  /\ pc[q] = "retain"
  /\ \E idle \in IdleReads : Drop({p \in Cached : should_evict(p, idle)})
  /\ Move(q, "lru")
  /\ UNCHANGED <<proj, lim, todo, semVars>>

\* Still over capacity: the oldest idle limiters are to go, down to half the
\* capacity.  The order of access is abstracted: any may be the oldest.
CollectLru(q) ==
  /\ pc[q] = "lru"
  /\ \/ /\ Cardinality(Cached) > MaxCached
        /\ LET target == Cardinality(Cached) - (MaxCached \div 2)
           IN \E idle \in IdleReads :
              LET cand == {p \in Cached : idle[p]}
              IN \E S \in SUBSET cand :
                   /\ IF Cardinality(cand) <= target THEN S = cand ELSE Cardinality(S) = target
                   /\ todo' = [todo EXCEPT ![q] = S]
                   /\ Move(q, IF S = {} THEN "insert" ELSE "remove")
     \/ Cardinality(Cached) <= MaxCached /\ Move(q, "insert") /\ UNCHANGED todo
  /\ UNCHANGED <<proj, lim, cacheVars, semVars>>

\* Remove the next of them, without looking at it again.
RemoveLru(q) ==
  /\ pc[q] = "remove"
  /\ \E p \in todo[q] :
       /\ todo' = [todo EXCEPT ![q] = @ \ {p}]
       /\ Drop({p})
       /\ IF todo[q] = {p} THEN Move(q, "insert") ELSE UNCHANGED pc
  /\ UNCHANGED <<proj, lim, semVars>>

\* entry().or_insert_with(new): another query may have inserted one meanwhile.
Insert(q) ==
  /\ pc[q] = "insert"
  /\ IF proj[q] \in Cached
     THEN Refer(q, proj[q], entry[proj[q]]) /\ UNCHANGED <<entry, avail, queued, pwait>>
     ELSE /\ \E l \in Limiters : l \notin Used
          /\ LET new == CHOOSE l \in Limiters : l \notin Used
             IN /\ entry' = [entry EXCEPT ![proj[q]] = new]
                /\ avail' = [avail EXCEPT ![new] = MaxPerProject]
                /\ queued' = [queued EXCEPT ![new] = 0]
                /\ pwait' = [pwait EXCEPT ![new] = << >>]
                /\ Refer(q, proj[q], new)
  /\ UNCHANGED <<proj, todo, globalAvail, gwait>>

-----------------------------------------------------------------------------
(* acquire: the queue, the global permit, the project permit. *)

\* A query that is done with its limiter.
Gone(q) ==
  /\ Move(q, "idle")
  /\ lim' = [lim EXCEPT ![q] = NoLimiter]
  /\ proj' = [proj EXCEPT ![q] = NoProject]

\* QueueGuard::try_new: the compare-and-swap loop is one atomic step.
Enqueue(q) ==
  /\ pc[q] = "ready" /\ queued[lim[q]] < MaxQueue
  /\ queued' = [queued EXCEPT ![lim[q]] = @ + 1]
  /\ gwait' = Append(gwait, q)
  /\ Move(q, "wglobal")
  /\ UNCHANGED <<proj, lim, todo, cacheVars, avail, pwait, globalAvail>>

\* QueueFull.
Reject(q) ==
  /\ pc[q] = "ready" /\ queued[lim[q]] >= MaxQueue
  /\ Gone(q)
  /\ UNCHANGED <<todo, cacheVars, semVars>>

\* The global semaphore serves its first waiter, who then waits for the
\* semaphore of the project.
GrantGlobal(q) ==
  /\ pc[q] = "wglobal" /\ globalAvail > 0
  /\ gwait # << >> /\ Head(gwait) = q
  /\ globalAvail' = globalAvail - 1
  /\ gwait' = Tail(gwait)
  /\ pwait' = [pwait EXCEPT ![lim[q]] = Append(@, q)]
  /\ Move(q, "wproject")
  /\ UNCHANGED <<proj, lim, todo, cacheVars, avail, queued>>

\* The guard is consumed: the QueryPermit has it all.
GrantProject(q) ==
  /\ pc[q] = "wproject" /\ avail[lim[q]] > 0
  /\ pwait[lim[q]] # << >> /\ Head(pwait[lim[q]]) = q
  /\ avail' = [avail EXCEPT ![lim[q]] = @ - 1]
  /\ pwait' = [pwait EXCEPT ![lim[q]] = Tail(@)]
  /\ Move(q, "running")
  /\ UNCHANGED <<proj, lim, todo, cacheVars, queued, globalAvail, gwait>>

\* A waiter, who is in a queue at most once, leaves it.
Without(s, q) ==
  IF \E i \in 1..Len(s) : s[i] = q
  THEN LET i == CHOOSE k \in 1..Len(s) : s[k] = q
       IN  SubSeq(s, 1, i - 1) \o SubSeq(s, i + 1, Len(s))
  ELSE s

\* Mutants: the guard does not count back; a global permit is not given back.
CancelDrift(q) ==
  /\ pc[q] = "wglobal"
  /\ gwait' = Without(gwait, q)
  /\ Gone(q)
  /\ UNCHANGED <<todo, cacheVars, avail, queued, pwait, globalAvail>>

CancelLeak(q) ==
  /\ pc[q] \in {"wglobal", "wproject"}
  /\ queued' = [queued EXCEPT ![lim[q]] = @ - 1]
  /\ gwait' = Without(gwait, q)
  /\ pwait' = [pwait EXCEPT ![lim[q]] = Without(@, q)]
  /\ Gone(q)
  /\ UNCHANGED <<todo, cacheVars, avail, globalAvail>>

\* The future is dropped at an await (client gone, statement timeout): it
\* leaves the waiters, gives back what it holds, and the guard counts back.
Cancel(q) ==
  /\ pc[q] \in {"wglobal", "wproject"}
  /\ queued' = [queued EXCEPT ![lim[q]] = @ - 1]
  /\ gwait' = Without(gwait, q)
  /\ pwait' = [pwait EXCEPT ![lim[q]] = Without(@, q)]
  /\ globalAvail' = IF pc[q] = "wproject" THEN globalAvail + 1 ELSE globalAvail
  /\ Gone(q)
  /\ UNCHANGED <<todo, cacheVars, avail>>

\* Mutant: the query gives its project permit back along with the count.
FinishAll(q) ==
  /\ pc[q] = "running"
  /\ queued' = [queued EXCEPT ![lim[q]] = @ - 1]
  /\ avail' = [avail EXCEPT ![lim[q]] = @ + 1]
  /\ Move(q, "drop1")
  /\ UNCHANGED <<proj, lim, todo, cacheVars, pwait, globalAvail, gwait>>

\* Drop of the QueryPermit: first its own drop, then its fields in order.
Finish(q) ==
  /\ pc[q] = "running"
  /\ queued' = [queued EXCEPT ![lim[q]] = @ - 1]
  /\ Move(q, "drop1")
  /\ UNCHANGED <<proj, lim, todo, cacheVars, avail, pwait, globalAvail, gwait>>

ReleaseGlobal(q) ==
  /\ pc[q] = "drop1"
  /\ globalAvail' = globalAvail + 1
  /\ Move(q, "drop2")
  /\ UNCHANGED <<proj, lim, todo, cacheVars, avail, queued, pwait, gwait>>

ReleaseProject(q) ==
  /\ pc[q] = "drop2"
  /\ avail' = [avail EXCEPT ![lim[q]] = @ + 1]
  /\ Gone(q)
  /\ UNCHANGED <<todo, cacheVars, queued, pwait, globalAvail, gwait>>

\* The idle timeout of a limiter passes.  There is no await between touch() and
\* try_new, so it does not pass while a query is between the two.
Age(p) ==
  /\ p \in Cached /\ p \notin stale
  /\ \A q \in Queries : ~(pc[q] = "ready" /\ proj[q] = p)
  /\ stale' = stale \cup {p}
  /\ UNCHANGED <<pc, proj, lim, todo, entry, semVars>>

-----------------------------------------------------------------------------
Init ==
  /\ pc = [q \in Queries |-> "idle"]
  /\ proj = [q \in Queries |-> NoProject]
  /\ lim = [q \in Queries |-> NoLimiter]
  /\ todo = [q \in Queries |-> {}]
  /\ entry = [p \in Projects |-> NoLimiter]
  /\ stale = {}
  /\ avail = [l \in Limiters |-> MaxPerProject]
  /\ queued = [l \in Limiters |-> 0]
  /\ pwait = [l \in Limiters |-> << >>]
  /\ globalAvail = MaxGlobal
  /\ gwait = << >>

\* Once it has its permit a query ends, and the semaphores serve their waiters.
Progress(q) ==
  GrantGlobal(q) \/ GrantProject(q) \/ Finish(q) \/ ReleaseGlobal(q) \/ ReleaseProject(q)

Step(q) ==
  \/ \E p \in ProjectsOf[q] : Found(q, p) \/ Missing(q, p)
  \/ Retain(q) \/ CollectLru(q) \/ RemoveLru(q)
  \/ Insert(q) \/ Enqueue(q) \/ Reject(q) \/ Cancel(q)
  \/ Progress(q)

Next == (\E q \in Queries : Step(q)) \/ (\E p \in Projects : Age(p))

Spec == Init /\ [][Next]_vars

FairSpec == Spec /\ \A q \in Queries : WF_vars(Progress(q))

-----------------------------------------------------------------------------
(* Properties. *)

At(l, S) == {q \in Queries : lim[q] = l /\ pc[q] \in S}
Outstanding == {"wglobal", "wproject", "running"}
HasProjectPermit == {"running", "drop1", "drop2"}
HasGlobalPermit == {"wproject", "running", "drop1"}

\* Every variable keeps to its domain; the counters never go below zero (an
\* unsigned wrap-around in the code) nor above their limits.
TypeOK ==
  /\ pc \in [Queries -> Holding \cup {"idle", "retain", "lru", "remove", "insert"}]
  /\ proj \in [Queries -> Projects \cup {NoProject}]
  /\ lim \in [Queries -> Limiters \cup {NoLimiter}]
  /\ \A q \in Queries : pc[q] # "idle" => proj[q] \in Projects
  /\ \A q \in Queries : pc[q] \in Holding => lim[q] \in Limiters
  /\ todo \in [Queries -> SUBSET Projects]
  /\ entry \in [Projects -> Limiters \cup {NoLimiter}]
  /\ stale \subseteq Projects
  /\ avail \in [Limiters -> 0..MaxPerProject]
  /\ queued \in [Limiters -> 0..MaxQueue]
  /\ pwait \in [Limiters -> Seq(Queries)]
  /\ globalAvail \in 0..MaxGlobal
  /\ gwait \in Seq(Queries)

\* No drift: whatever mix of cancellations, rejections, evictions and finished
\* queries occurs, the counters of a limiter and the global semaphore say
\* exactly which queries hold them (QueueGuard and QueryPermit, limiter.rs).
CountersMatchQueries ==
  /\ \A l \in Limiters :
       /\ queued[l] = Cardinality(At(l, Outstanding))
       /\ avail[l] = MaxPerProject - Cardinality(At(l, HasProjectPermit))
  /\ globalAvail = MaxGlobal - Cardinality({q \in Queries : pc[q] \in HasGlobalPermit})

\* A project whose queries all refer to the limiter in the map never runs more
\* than MaxPerProject of them (acquire, limiter.rs).
RunningOf(p) == {q \in Queries : pc[q] = "running" /\ proj[q] = p}
PerProjectLimit ==
  \A p \in Projects :
    \/ Cardinality(RunningOf(p)) <= MaxPerProject
    \/ \E q \in Queries : proj[q] = p /\ pc[q] \in Holding /\ lim[q] # entry[p]

\* Only the LRU stage of a cleanup can take the limiter of a project away from
\* its active queries; expiry never does, although it looks at the age, the
\* permits and the count at different moments (should_evict, limiter.rs).
InUse(l) == At(l, {"ready"} \cup Outstanding) # {}
OnlyLruEvictsActive ==
  [][\A p \in Cached :
       entry'[p] # entry[p] /\ InUse(entry[p]) => \E q \in Queries : pc[q] = "remove"]_vars

\* A query admitted to the queue is eventually served or cancelled: taking the
\* global permit before the project permit cannot make queries wait for each
\* other for ever (acquire, limiter.rs).
QueuedQueryProceeds ==
  \A q \in Queries : (pc[q] \in {"wglobal", "wproject"}) ~> (pc[q] \in {"running", "idle"})

=============================================================================
