------------------------ MODULE QueryLimiter_proofs ------------------------
(***************************************************************************)
(* Proofs about the query limiter, for any number of queries, projects and *)
(* limiter instances and any limits.                                       *)
(***************************************************************************)
EXTENDS QueryLimiter, FiniteSetTheorems, TLAPS

-----------------------------------------------------------------------------
(* The inductive invariant. *)

\* Two projects never share a limiter, and who refers to a limiter of the map
\* refers to the one of its own project.
LimitersAreOwned ==
  /\ \A p1, p2 \in Cached : entry[p1] = entry[p2] => p1 = p2
  /\ \A q \in Queries, p \in Cached : pc[q] \in Holding /\ lim[q] = entry[p] => proj[q] = p

\* A limiter that was just touched has not expired.
TouchedIsFresh == \A q \in Queries : pc[q] = "ready" => proj[q] \notin stale

LimiterInv == TypeOK /\ CountersMatchQueries /\ LimitersAreOwned /\ TouchedIsFresh

-----------------------------------------------------------------------------
(* Counting.  A step moves one query; each set of queries a counter stands   *)
(* for changes by at most that query.                                        *)

\* Every set of queries is finite.
LEMMA QueriesFinite ==
  ASSUME NEW A \in SUBSET Queries
  PROVE  IsFiniteSet(A) /\ Cardinality(A) \in Nat
BY QueriesAssumption, FS_Subset, FS_CardinalityType

\* How the size of such a set changes when only q may enter or leave it.
LEMMA SizeStep ==
  ASSUME NEW A \in SUBSET Queries, NEW B \in SUBSET Queries, NEW q \in Queries,
         \A r \in Queries : r # q => (r \in A <=> r \in B)
  PROVE  Cardinality(B) = Cardinality(A) + (IF q \in B THEN 1 ELSE 0) - (IF q \in A THEN 1 ELSE 0)
<1>0. IsFiniteSet(A) /\ Cardinality(A) \in Nat
  BY QueriesFinite
<1>1. CASE q \in B
  <2>1. B = A \cup {q}
    BY <1>1
  <2> QED
    BY <1>0, <1>1, <2>1, FS_AddElement
<1>2. CASE q \notin B
  <2>1. B = A \ {q}
    BY <1>2
  <2>2. Cardinality(A \ {q}) = IF q \in A THEN Cardinality(A) - 1 ELSE Cardinality(A)
    BY <1>0, FS_RemoveElement
  <2> QED
    BY <1>0, <1>2, <2>1, <2>2
<1> QED
  BY <1>1, <1>2

\* The queries that hold a global permit, when one query moves.
GlobalHolders == {q \in Queries : pc[q] \in HasGlobalPermit}

\* They are counted up and down as it takes and returns the permit.
LEMMA GlobalStep ==
  ASSUME TypeOK, NEW q \in Queries, NEW s, Move(q, s)
  PROVE  /\ Cardinality(GlobalHolders) \in Nat
         /\ Cardinality(GlobalHolders') = Cardinality(GlobalHolders)
              + (IF s \in HasGlobalPermit THEN 1 ELSE 0)
              - (IF pc[q] \in HasGlobalPermit THEN 1 ELSE 0)
<1> DEFINE A == GlobalHolders
           B == GlobalHolders'
<1>0. pc \in [Queries -> Holding \cup {"idle", "retain", "lru", "remove", "insert"}]
  BY DEF TypeOK
<1>1. A \in SUBSET Queries /\ B \in SUBSET Queries
  BY DEF GlobalHolders
<1>2. \A r \in Queries : r # q => (r \in A <=> r \in B)
  BY <1>0 DEF GlobalHolders, Move
<1>3. (q \in A <=> pc[q] \in HasGlobalPermit) /\ (q \in B <=> s \in HasGlobalPermit)
  BY <1>0 DEF GlobalHolders, Move
<1>4. Cardinality(A) \in Nat
  BY <1>1, QueriesFinite
<1> HIDE DEF A, B
<1>5. Cardinality(B) = Cardinality(A) + (IF q \in B THEN 1 ELSE 0) - (IF q \in A THEN 1 ELSE 0)
  BY <1>1, <1>2, SizeStep
<1> QED
  BY <1>3, <1>4, <1>5 DEF A, B

-----------------------------------------------------------------------------
(* Induction. *)

\* The limiter starts out empty.
LEMMA InitLimiter == Init => LimiterInv
<1> SUFFICES ASSUME Init PROVE LimiterInv
  OBVIOUS
<1>1. TypeOK
  BY LimitsAssumption DEF Init, TypeOK, Holding
<1>2. \A l \in Limiters : At(l, Outstanding) = {} /\ At(l, HasProjectPermit) = {}
  BY DEF Init, At, Outstanding, HasProjectPermit
<1>3. GlobalHolders = {}
  BY DEF Init, GlobalHolders, HasGlobalPermit
<1>4. CountersMatchQueries
  <2>1. \A l \in Limiters : queued[l] = 0 /\ avail[l] = MaxPerProject - 0
    BY LimitsAssumption DEF Init
  <2>2. globalAvail = MaxGlobal - Cardinality(GlobalHolders)
    BY <1>3, FS_EmptySet, LimitsAssumption DEF Init
  <2>3. \A l \in Limiters : Cardinality(At(l, Outstanding)) = 0
                           /\ Cardinality(At(l, HasProjectPermit)) = 0
    BY <1>2, FS_EmptySet
  <2> QED
    BY <2>1, <2>2, <2>3 DEF CountersMatchQueries, GlobalHolders
<1>5. LimitersAreOwned /\ TouchedIsFresh
  BY DEF Init, LimitersAreOwned, TouchedIsFresh, Cached, Holding
<1> QED
  BY <1>1, <1>4, <1>5 DEF LimiterInv

\* The waiters of a semaphore stay a queue of queries when one leaves.
LEMMA WithoutType ==
  ASSUME NEW s \in Seq(Queries), NEW q
  PROVE  Without(s, q) \in Seq(Queries)
<1>1. CASE \E i \in 1..Len(s) : s[i] = q
  <2> DEFINE i == CHOOSE k \in 1..Len(s) : s[k] = q
  <2>1. i \in 1..Len(s)
    BY <1>1
  <2> HIDE DEF i
  <2>2. SubSeq(s, 1, i - 1) \in Seq(Queries) /\ SubSeq(s, i + 1, Len(s)) \in Seq(Queries)
    BY <2>1
  <2>3. Without(s, q) = SubSeq(s, 1, i - 1) \o SubSeq(s, i + 1, Len(s))
    BY <1>1 DEF Without, i
  <2> QED
    BY <2>2, <2>3
<1>2. CASE ~ \E i \in 1..Len(s) : s[i] = q
  BY <1>2 DEF Without
<1> QED
  BY <1>1, <1>2

\* When query q moves to state s with limiter m, every counter changes by what
\* q takes and gives back.
Balanced(q, s, m) ==
  /\ \A l \in Limiters :
       /\ queued'[l] = queued[l] + (IF s \in Outstanding /\ m = l THEN 1 ELSE 0)
                                - (IF pc[q] \in Outstanding /\ lim[q] = l THEN 1 ELSE 0)
       /\ avail'[l] = avail[l] - (IF s \in HasProjectPermit /\ m = l THEN 1 ELSE 0)
                              + (IF pc[q] \in HasProjectPermit /\ lim[q] = l THEN 1 ELSE 0)
  /\ globalAvail' = globalAvail - (IF s \in HasGlobalPermit THEN 1 ELSE 0)
                                + (IF pc[q] \in HasGlobalPermit THEN 1 ELSE 0)

\* The semaphores and the queue of a limiter keep their accounts as long as
\* a query enters and leaves each set along with the counter it stands for.
LEMMA AccountsStep ==
  ASSUME LimiterInv, NEW q \in Queries, NEW s, Move(q, s),
         NEW m, lim' = [lim EXCEPT ![q] = m], Balanced(q, s, m)
  PROVE  /\ CountersMatchQueries'
         /\ \A l \in Limiters : queued'[l] \in Nat /\ avail'[l] \in Int
                              /\ avail'[l] <= MaxPerProject
         /\ globalAvail' \in Int /\ globalAvail' <= MaxGlobal
<1>0. TypeOK /\ CountersMatchQueries
  BY DEF LimiterInv
<1>1. ASSUME NEW l \in Limiters
      PROVE  /\ queued'[l] = Cardinality(At(l, Outstanding)')
             /\ avail'[l] = MaxPerProject - Cardinality(At(l, HasProjectPermit)')
             /\ Cardinality(At(l, Outstanding)') \in Nat
             /\ Cardinality(At(l, HasProjectPermit)') \in Nat
  <2>0. /\ pc \in [Queries -> Holding \cup {"idle", "retain", "lru", "remove", "insert"}]
        /\ lim \in [Queries -> Limiters \cup {NoLimiter}]
    BY <1>0 DEF TypeOK
  <2>1. /\ queued[l] = Cardinality(At(l, Outstanding))
        /\ avail[l] = MaxPerProject - Cardinality(At(l, HasProjectPermit))
    BY <1>0, <1>1 DEF CountersMatchQueries
  <2>2. /\ Cardinality(At(l, Outstanding)) \in Nat
        /\ Cardinality(At(l, Outstanding)') = Cardinality(At(l, Outstanding))
              + (IF s \in Outstanding /\ m = l THEN 1 ELSE 0)
              - (IF pc[q] \in Outstanding /\ lim[q] = l THEN 1 ELSE 0)
    <3> DEFINE A == At(l, Outstanding)
               B == At(l, Outstanding)'
    <3>1. A \in SUBSET Queries /\ B \in SUBSET Queries
      BY DEF At
    <3>2. \A r \in Queries : r # q => (r \in A <=> r \in B)
      BY <2>0 DEF At, Move
    <3>3. /\ q \in A <=> pc[q] \in Outstanding /\ lim[q] = l
          /\ q \in B <=> s \in Outstanding /\ m = l
      BY <2>0 DEF At, Move
    <3>4. Cardinality(A) \in Nat
      BY <3>1, QueriesFinite
    <3> HIDE DEF A, B
    <3>5. Cardinality(B) = Cardinality(A) + (IF q \in B THEN 1 ELSE 0)
                                          - (IF q \in A THEN 1 ELSE 0)
      BY <3>1, <3>2, SizeStep
    <3>6. Cardinality(B) = Cardinality(A)
              + (IF s \in Outstanding /\ m = l THEN 1 ELSE 0)
              - (IF pc[q] \in Outstanding /\ lim[q] = l THEN 1 ELSE 0)
      BY <3>3, <3>5
    <3> QED
      BY <3>4, <3>6 DEF A, B
  <2>3. /\ Cardinality(At(l, HasProjectPermit)) \in Nat
        /\ Cardinality(At(l, HasProjectPermit)') = Cardinality(At(l, HasProjectPermit))
              + (IF s \in HasProjectPermit /\ m = l THEN 1 ELSE 0)
              - (IF pc[q] \in HasProjectPermit /\ lim[q] = l THEN 1 ELSE 0)
    <3> DEFINE A == At(l, HasProjectPermit)
               B == At(l, HasProjectPermit)'
    <3>1. A \in SUBSET Queries /\ B \in SUBSET Queries
      BY DEF At
    <3>2. \A r \in Queries : r # q => (r \in A <=> r \in B)
      BY <2>0 DEF At, Move
    <3>3. /\ q \in A <=> pc[q] \in HasProjectPermit /\ lim[q] = l
          /\ q \in B <=> s \in HasProjectPermit /\ m = l
      BY <2>0 DEF At, Move
    <3>4. Cardinality(A) \in Nat
      BY <3>1, QueriesFinite
    <3> HIDE DEF A, B
    <3>5. Cardinality(B) = Cardinality(A) + (IF q \in B THEN 1 ELSE 0)
                                          - (IF q \in A THEN 1 ELSE 0)
      BY <3>1, <3>2, SizeStep
    <3>6. Cardinality(B) = Cardinality(A)
              + (IF s \in HasProjectPermit /\ m = l THEN 1 ELSE 0)
              - (IF pc[q] \in HasProjectPermit /\ lim[q] = l THEN 1 ELSE 0)
      BY <3>3, <3>5
    <3> QED
      BY <3>4, <3>6 DEF A, B
  <2>4. At(l, Outstanding)' \in SUBSET Queries /\ At(l, HasProjectPermit)' \in SUBSET Queries
    BY DEF At
  <2>5. Cardinality(At(l, Outstanding)') \in Nat /\ Cardinality(At(l, HasProjectPermit)') \in Nat
    BY <2>4, QueriesFinite
  <2> QED
    BY <1>1, <2>1, <2>2, <2>3, <2>5, LimitsAssumption DEF Balanced
<1>2. /\ globalAvail' = MaxGlobal - Cardinality(GlobalHolders')
      /\ Cardinality(GlobalHolders') \in Nat
  <2>1. globalAvail = MaxGlobal - Cardinality(GlobalHolders)
    BY <1>0 DEF CountersMatchQueries, GlobalHolders
  <2>2. GlobalHolders' \in SUBSET Queries
    BY DEF GlobalHolders
  <2>3. Cardinality(GlobalHolders') \in Nat
    BY <2>2, QueriesFinite
  <2> QED
    BY <1>0, <2>1, <2>3, GlobalStep, LimitsAssumption DEF Balanced
<1>3. CountersMatchQueries'
  BY <1>1, <1>2 DEF CountersMatchQueries, GlobalHolders
<1> QED
  BY <1>1, <1>2, <1>3, LimitsAssumption

\* A query that goes on with the limiter it has, or does without one, changes
\* nothing about who owns which limiter.
LEMMA OwnersKept ==
  ASSUME LimiterInv, NEW q \in Queries, NEW s, Move(q, s), s # "ready",
         pc[q] \in Holding \/ s \notin Holding, UNCHANGED <<lim, proj, entry, stale>>
  PROVE  LimitersAreOwned' /\ TouchedIsFresh'
BY DEF LimiterInv, LimitersAreOwned, TouchedIsFresh, TypeOK, Move, Cached

\* A query that is gone leaves limiters that are still owned.
LEMMA OwnersLeft ==
  ASSUME LimiterInv, NEW q \in Queries, Gone(q), UNCHANGED <<entry, stale>>
  PROVE  /\ LimitersAreOwned' /\ TouchedIsFresh'
         /\ Move(q, "idle") /\ lim' = [lim EXCEPT ![q] = NoLimiter]
         /\ pc' \in [Queries -> Holding \cup {"idle", "retain", "lru", "remove", "insert"}]
         /\ proj' \in [Queries -> Projects \cup {NoProject}]
         /\ lim' \in [Queries -> Limiters \cup {NoLimiter}]
         /\ \A r \in Queries : pc'[r] # "idle" => proj'[r] \in Projects
         /\ \A r \in Queries : pc'[r] \in Holding => lim'[r] \in Limiters
BY DEF LimiterInv, LimitersAreOwned, TouchedIsFresh, TypeOK, Move, Cached, Gone, Holding

\* Referring to limiter l of project p.
LEMMA ReferTypes ==
  ASSUME LimiterInv, NEW q \in Queries, NEW p \in Projects, NEW l \in Limiters, Refer(q, p, l),
         proj' = [proj EXCEPT ![q] = p]
  PROVE  /\ pc' \in [Queries -> Holding \cup {"idle", "retain", "lru", "remove", "insert"}]
         /\ proj' \in [Queries -> Projects \cup {NoProject}]
         /\ lim' \in [Queries -> Limiters \cup {NoLimiter}]
         /\ \A r \in Queries : pc'[r] # "idle" => proj'[r] \in Projects
         /\ \A r \in Queries : pc'[r] \in Holding => lim'[r] \in Limiters
         /\ stale' \subseteq Projects /\ TouchedIsFresh'
<1>1. stale' = stale \ {p} /\ Move(q, "ready") /\ lim' = [lim EXCEPT ![q] = l]
  BY DEF Refer
<1> QED
  BY <1>1 DEF LimiterInv, TouchedIsFresh, TypeOK, Move, Holding

\* A query without a limiter changes no account.
LEMMA AccountsKept ==
  ASSUME LimiterInv, NEW q \in Queries, NEW s, NEW m, Move(q, s), lim' = [lim EXCEPT ![q] = m],
         pc[q] \notin {"wglobal", "wproject", "running", "drop1", "drop2"},
         s \notin {"wglobal", "wproject", "running", "drop1", "drop2"},
         \A l \in Limiters : queued'[l] = queued[l] /\ avail'[l] = avail[l],
         globalAvail' = globalAvail
  PROVE  CountersMatchQueries'
<1>1. /\ s \notin Outstanding /\ s \notin HasProjectPermit /\ s \notin HasGlobalPermit
      /\ pc[q] \notin Outstanding /\ pc[q] \notin HasProjectPermit /\ pc[q] \notin HasGlobalPermit
  BY DEF Outstanding, HasProjectPermit, HasGlobalPermit
<1>2. /\ \A l \in Limiters : queued[l] \in Int /\ avail[l] \in Int
      /\ globalAvail \in Int
  BY LimitsAssumption DEF LimiterInv, TypeOK
<1>3. Balanced(q, s, m)
  BY <1>1, <1>2 DEF Balanced
<1> QED
  BY <1>3, AccountsStep

\* A limiter nobody refers to is as good as new.
LEMMA UnusedIsFresh ==
  ASSUME LimiterInv, NEW l \in Limiters, l \notin Used
  PROVE  queued[l] = 0 /\ avail[l] = MaxPerProject
<1>1. At(l, Outstanding) = {} /\ At(l, HasProjectPermit) = {}
  <2>1. \A r \in Queries : pc[r] \in Holding => lim[r] # l
    BY DEF Used
  <2> QED
    BY <2>1 DEF At, Outstanding, HasProjectPermit, Holding
<1>2. Cardinality(At(l, Outstanding)) = 0 /\ Cardinality(At(l, HasProjectPermit)) = 0
  BY <1>1, FS_EmptySet
<1> QED
  BY <1>2, LimitsAssumption DEF LimiterInv, CountersMatchQueries

\* Looking the limiter up and cleaning the map.
LEMMA FoundStep ==
  ASSUME LimiterInv, NEW q \in Queries, NEW p \in Projects, Found(q, p)
  PROVE  LimiterInv'
<1>1. /\ pc[q] = "idle" /\ p \in Cached /\ entry[p] \in Limiters
      /\ proj' = [proj EXCEPT ![q] = p] /\ Refer(q, p, entry[p])
      /\ UNCHANGED <<todo, entry, avail, queued, pwait, globalAvail, gwait>>
  BY DEF Found, semVars, Cached, LimiterInv, TypeOK
<1>2. TypeOK' /\ TouchedIsFresh'
  <2>1. /\ pc' \in [Queries -> Holding \cup {"idle", "retain", "lru", "remove", "insert"}]
        /\ proj' \in [Queries -> Projects \cup {NoProject}]
        /\ lim' \in [Queries -> Limiters \cup {NoLimiter}]
        /\ \A r \in Queries : pc'[r] # "idle" => proj'[r] \in Projects
        /\ \A r \in Queries : pc'[r] \in Holding => lim'[r] \in Limiters
        /\ stale' \subseteq Projects /\ TouchedIsFresh'
    BY <1>1, ReferTypes
  <2> QED
    BY <1>1, <2>1 DEF LimiterInv, TypeOK
<1>3. CountersMatchQueries'
  <2>1. Move(q, "ready") /\ lim' = [lim EXCEPT ![q] = entry[p]]
    BY <1>1 DEF Refer
  <2> QED
    BY <1>1, <2>1, AccountsKept
<1>4. LimitersAreOwned'
  BY <1>1 DEF LimiterInv, LimitersAreOwned, TypeOK, Refer, Move, Cached, Holding
<1> QED
  BY <1>2, <1>3, <1>4 DEF LimiterInv

\* A limiter inserted into the cache keeps the invariant.
LEMMA InsertStep ==
  ASSUME LimiterInv, NEW q \in Queries, Insert(q)
  PROVE  LimiterInv'
<1> DEFINE p == proj[q]
<1>0. p \in Projects /\ pc[q] = "insert" /\ proj \in [Queries -> Projects \cup {NoProject}]
  BY DEF LimiterInv, TypeOK, Insert
<1>1. proj' = [proj EXCEPT ![q] = p] /\ UNCHANGED <<todo, globalAvail, gwait>>
  BY <1>0 DEF Insert
<1>2. PICK l \in Limiters :
        /\ Refer(q, p, l)
        /\ \/ p \in Cached /\ l = entry[p] /\ UNCHANGED <<entry, avail, queued, pwait>>
           \/ /\ p \notin Cached /\ l \notin Used
              /\ entry' = [entry EXCEPT ![p] = l]
              /\ avail' = [avail EXCEPT ![l] = MaxPerProject]
              /\ queued' = [queued EXCEPT ![l] = 0]
              /\ pwait' = [pwait EXCEPT ![l] = << >>]
  <2>1. CASE p \in Cached
    BY <2>1 DEF Insert, LimiterInv, TypeOK, Cached
  <2>2. CASE p \notin Cached
    <3> DEFINE new == CHOOSE l \in Limiters : l \notin Used
    <3>1. new \in Limiters /\ new \notin Used
      BY <2>2 DEF Insert
    <3>2. /\ entry' = [entry EXCEPT ![p] = new]
          /\ avail' = [avail EXCEPT ![new] = MaxPerProject]
          /\ queued' = [queued EXCEPT ![new] = 0]
          /\ pwait' = [pwait EXCEPT ![new] = << >>]
          /\ Refer(q, p, new)
      BY <2>2 DEF Insert
    <3> HIDE DEF new
    <3> QED
      BY <2>2, <3>1, <3>2
  <2> QED
    BY <2>1, <2>2
<1> HIDE DEF p
<1>3. \A m \in Limiters : queued'[m] = queued[m] /\ avail'[m] = avail[m]
  <2>1. CASE UNCHANGED <<avail, queued>>
    BY <2>1
  <2>2. CASE /\ l \notin Used
             /\ avail' = [avail EXCEPT ![l] = MaxPerProject]
             /\ queued' = [queued EXCEPT ![l] = 0]
    BY <2>2, UnusedIsFresh DEF LimiterInv, TypeOK
  <2> QED
    BY <1>2, <2>1, <2>2
<1>4. CountersMatchQueries'
  <2>1. Move(q, "ready") /\ lim' = [lim EXCEPT ![q] = l]
    BY <1>2 DEF Refer
  <2> QED
    BY <1>0, <1>1, <1>3, <2>1, AccountsKept
<1>5. TypeOK' /\ TouchedIsFresh'
  <2>1. /\ pc' \in [Queries -> Holding \cup {"idle", "retain", "lru", "remove", "insert"}]
        /\ proj' \in [Queries -> Projects \cup {NoProject}]
        /\ lim' \in [Queries -> Limiters \cup {NoLimiter}]
        /\ \A r \in Queries : pc'[r] # "idle" => proj'[r] \in Projects
        /\ \A r \in Queries : pc'[r] \in Holding => lim'[r] \in Limiters
        /\ stale' \subseteq Projects /\ TouchedIsFresh'
    BY <1>0, <1>1, <1>2, ReferTypes
  <2>2. /\ avail' \in [Limiters -> 0..MaxPerProject] /\ queued' \in [Limiters -> 0..MaxQueue]
        /\ pwait' \in [Limiters -> Seq(Queries)]
        /\ entry' \in [Projects -> Limiters \cup {NoLimiter}]
    <3>1. /\ avail \in [Limiters -> 0..MaxPerProject] /\ queued \in [Limiters -> 0..MaxQueue]
          /\ pwait \in [Limiters -> Seq(Queries)]
          /\ entry \in [Projects -> Limiters \cup {NoLimiter}]
          /\ MaxPerProject \in 0..MaxPerProject /\ 0 \in 0..MaxQueue /\ << >> \in Seq(Queries)
      BY LimitsAssumption DEF LimiterInv, TypeOK
    <3> QED
      BY <1>0, <1>2, <3>1
  <2> QED
    BY <1>1, <2>1, <2>2 DEF LimiterInv, TypeOK
<1>6. LimitersAreOwned'
  <2>0. /\ entry \in [Projects -> Limiters \cup {NoLimiter}]
        /\ lim' = [lim EXCEPT ![q] = l] /\ pc' = [pc EXCEPT ![q] = "ready"]
        /\ \A r \in Queries \ {q} : lim'[r] = lim[r] /\ pc'[r] = pc[r] /\ proj'[r] = proj[r]
        /\ lim'[q] = l /\ proj'[q] = p
    BY <1>0, <1>1, <1>2 DEF Refer, Move, LimiterInv, TypeOK
  <2>1. CASE p \in Cached /\ l = entry[p] /\ UNCHANGED entry
    BY <2>0, <2>1 DEF LimiterInv, LimitersAreOwned, Cached
  <2>2. CASE p \notin Cached /\ l \notin Used /\ entry' = [entry EXCEPT ![p] = l]
    <3>1. /\ \A r \in Cached : entry[r] # l
          /\ \A r \in Queries : pc[r] \in Holding => lim[r] # l
      BY <2>2 DEF Used
    <3>2. \A r \in Projects : r # p => entry'[r] = entry[r]
      BY <1>0, <2>0, <2>2
    <3>3. entry'[p] = l
      BY <1>0, <2>0, <2>2
    <3> QED
      BY <1>0, <2>0, <3>1, <3>2, <3>3 DEF LimiterInv, LimitersAreOwned, Cached
  <2> QED
    BY <1>2, <2>1, <2>2
<1> QED
  BY <1>4, <1>5, <1>6 DEF LimiterInv

\* A limiter that leaves the map takes no query along.
LEMMA DropStep ==
  ASSUME LimiterInv, NEW q \in Queries, NEW s \in {"lru", "remove", "insert"}, NEW S \in SUBSET Projects,
         pc[q] \in {"retain", "remove"}, Move(q, s), Drop(S), todo' \in [Queries -> SUBSET Projects],
         UNCHANGED <<proj, lim, semVars>>
  PROVE  LimiterInv'
<1>1. lim' = [lim EXCEPT ![q] = lim[q]]
  BY DEF LimiterInv, TypeOK
<1>2. CountersMatchQueries'
  BY <1>1, AccountsKept DEF semVars
<1>3. TypeOK'
  BY DEF LimiterInv, TypeOK, semVars, Move, Drop, Holding
<1>4. LimitersAreOwned'
  BY DEF LimiterInv, TypeOK, Move, Drop, Holding, LimitersAreOwned, Cached
<1>5. TouchedIsFresh'
  BY DEF LimiterInv, TypeOK, Move, Drop, TouchedIsFresh
<1> QED
  BY <1>2, <1>3, <1>4, <1>5 DEF LimiterInv

\* Every step keeps the invariant.
LEMMA NextLimiter == LimiterInv /\ [Next]_vars => LimiterInv'
<1> SUFFICES ASSUME LimiterInv, [Next]_vars PROVE LimiterInv'
  OBVIOUS
<1> DEFINE States == Holding \cup {"idle", "retain", "lru", "remove", "insert"}
<1>0. /\ pc \in [Queries -> States] /\ proj \in [Queries -> Projects \cup {NoProject}]
      /\ lim \in [Queries -> Limiters \cup {NoLimiter}]
      /\ \A r \in Queries : pc[r] # "idle" => proj[r] \in Projects
      /\ \A r \in Queries : pc[r] \in Holding => lim[r] \in Limiters
      /\ todo \in [Queries -> SUBSET Projects] /\ stale \subseteq Projects
      /\ entry \in [Projects -> Limiters \cup {NoLimiter}]
      /\ avail \in [Limiters -> 0..MaxPerProject] /\ queued \in [Limiters -> 0..MaxQueue]
      /\ pwait \in [Limiters -> Seq(Queries)] /\ gwait \in Seq(Queries)
      /\ globalAvail \in 0..MaxGlobal
      /\ \A r \in Queries : lim = [lim EXCEPT ![r] = lim[r]]
  BY DEF LimiterInv, TypeOK
<1>1. ASSUME NEW q \in Queries, NEW p \in ProjectsOf[q], Found(q, p) \/ Missing(q, p)
      PROVE  LimiterInv'
  <2>1. p \in Projects
    BY QueriesAssumption
  <2>2. CASE Missing(q, p)
    <3>1. PICK s \in {"retain", "insert"} : Move(q, s)
      BY <2>2 DEF Missing
    <3>2. /\ pc[q] = "idle" /\ proj' = [proj EXCEPT ![q] = p]
          /\ UNCHANGED <<lim, todo, entry, stale, avail, queued, pwait, globalAvail, gwait>>
      BY <2>2 DEF Missing, semVars, cacheVars
    <3>3. CountersMatchQueries'
      BY <1>0, <3>1, <3>2, AccountsKept
    <3>4. TypeOK'
      BY <2>1, <3>1, <3>2 DEF LimiterInv, TypeOK, Move, Holding
    <3>5. LimitersAreOwned' /\ TouchedIsFresh'
      BY <1>0, <2>1, <3>1, <3>2
      DEF LimiterInv, LimitersAreOwned, TouchedIsFresh, Cached, Move, Holding
    <3> QED
      BY <3>3, <3>4, <3>5 DEF LimiterInv
  <2> QED
    BY <1>1, <2>1, <2>2, FoundStep
<1>2. ASSUME NEW q \in Queries, Retain(q) PROVE LimiterInv'
  <2>1. PICK S \in SUBSET Projects : Drop(S)
    BY <1>2 DEF Retain, Cached
  <2>2. pc[q] = "retain" /\ Move(q, "lru") /\ UNCHANGED <<proj, lim, todo, semVars>>
    BY <1>2 DEF Retain
  <2> QED
    BY <1>0, <2>1, <2>2, DropStep
<1>3. ASSUME NEW q \in Queries, RemoveLru(q) PROVE LimiterInv'
  <2>1. PICK p \in todo[q] :
          /\ todo' = [todo EXCEPT ![q] = @ \ {p}] /\ Drop({p})
          /\ IF todo[q] = {p} THEN Move(q, "insert") ELSE UNCHANGED pc
    BY <1>3 DEF RemoveLru
  <2>2. pc[q] = "remove" /\ UNCHANGED <<proj, lim, semVars>> /\ {p} \in SUBSET Projects
    BY <1>0, <1>3, <2>1 DEF RemoveLru
  <2>3. PICK s \in {"remove", "insert"} : Move(q, s)
    BY <1>0, <2>1, <2>2 DEF Move
  <2>4. todo' \in [Queries -> SUBSET Projects]
    BY <1>0, <2>1
  <2> QED
    BY <2>1, <2>2, <2>3, <2>4, DropStep
<1>4. ASSUME NEW q \in Queries, CollectLru(q) PROVE LimiterInv'
  <2>1. PICK s \in {"remove", "insert"} : Move(q, s)
    BY <1>4 DEF CollectLru
  <2>2. todo' \in [Queries -> SUBSET Projects]
    <3>1. (\E S \in SUBSET Projects : todo' = [todo EXCEPT ![q] = S]) \/ todo' = todo
      BY <1>4 DEF CollectLru, Cached
    <3> QED
      BY <1>0, <3>1
  <2>3. /\ pc[q] = "lru"
        /\ UNCHANGED <<proj, lim, entry, stale, avail, queued, pwait, globalAvail, gwait>>
    BY <1>4 DEF CollectLru, cacheVars, semVars
  <2>4. CountersMatchQueries'
    BY <1>0, <2>1, <2>3, AccountsKept
  <2>5. TypeOK'
    BY <2>1, <2>2, <2>3 DEF LimiterInv, TypeOK, Move, Holding
  <2>6. LimitersAreOwned' /\ TouchedIsFresh'
    BY <2>1, <2>3, OwnersKept DEF Holding
  <2> QED
    BY <2>4, <2>5, <2>6 DEF LimiterInv
<1>5. ASSUME NEW q \in Queries, Insert(q) PROVE LimiterInv'
  BY <1>5, InsertStep
<1>6. ASSUME NEW q \in Queries, Enqueue(q) PROVE LimiterInv'
  <2>1. pc[q] = "ready" /\ Move(q, "wglobal") /\ lim' = [lim EXCEPT ![q] = lim[q]]
        /\ lim[q] \in Limiters /\ UNCHANGED <<proj, lim, todo, entry, stale>>
    BY <1>0, <1>6 DEF Enqueue, cacheVars, Holding
  <2>2. Balanced(q, "wglobal", lim[q])
    BY <1>0, <1>6, <2>1, LimitsAssumption
    DEF Enqueue, Balanced, Outstanding, HasProjectPermit, HasGlobalPermit
  <2>3. /\ CountersMatchQueries'
        /\ \A l \in Limiters : queued'[l] \in Nat /\ avail'[l] \in Int
                             /\ avail'[l] <= MaxPerProject
        /\ globalAvail' \in Int /\ globalAvail' <= MaxGlobal
    BY <2>1, <2>2, AccountsStep
  <2>4. /\ avail' \in [Limiters -> 0..MaxPerProject] /\ queued' \in [Limiters -> 0..MaxQueue]
        /\ globalAvail' \in 0..MaxGlobal
    BY <1>0, <1>6, <2>1, <2>3, LimitsAssumption DEF Enqueue
  <2>5. pwait' \in [Limiters -> Seq(Queries)] /\ gwait' \in Seq(Queries)
    BY <1>0, <1>6, <2>1 DEF Enqueue
  <2>6. TypeOK'
    BY <2>1, <2>4, <2>5 DEF LimiterInv, TypeOK, Move, Holding
  <2>7. LimitersAreOwned' /\ TouchedIsFresh'
    BY <2>1, OwnersKept DEF Holding
  <2> QED
    BY <2>3, <2>6, <2>7 DEF LimiterInv
<1>7. ASSUME NEW q \in Queries, Reject(q) PROVE LimiterInv'
  <2>1. pc[q] \in {"ready"} /\ Gone(q) /\ lim[q] \in Limiters /\ UNCHANGED <<todo, entry, stale>>
    BY <1>0, <1>7 DEF Reject, cacheVars, Holding
  <2>2. /\ LimitersAreOwned' /\ TouchedIsFresh'
        /\ Move(q, "idle") /\ lim' = [lim EXCEPT ![q] = NoLimiter]
        /\ pc' \in [Queries -> States] /\ proj' \in [Queries -> Projects \cup {NoProject}]
        /\ lim' \in [Queries -> Limiters \cup {NoLimiter}]
        /\ \A r \in Queries : pc'[r] # "idle" => proj'[r] \in Projects
        /\ \A r \in Queries : pc'[r] \in Holding => lim'[r] \in Limiters
    BY <2>1, OwnersLeft
  <2>3. Balanced(q, "idle", NoLimiter)
    BY <1>0, <1>7, <2>1, LimitsAssumption, LimiterAssumption
    DEF Reject, Balanced, Outstanding, HasProjectPermit, HasGlobalPermit, semVars
  <2>4. /\ CountersMatchQueries'
        /\ \A l \in Limiters : queued'[l] \in Nat /\ avail'[l] \in Int
                             /\ avail'[l] <= MaxPerProject
        /\ globalAvail' \in Int /\ globalAvail' <= MaxGlobal
    BY <2>2, <2>3, AccountsStep
  <2>5. /\ avail' \in [Limiters -> 0..MaxPerProject] /\ queued' \in [Limiters -> 0..MaxQueue]
        /\ globalAvail' \in 0..MaxGlobal
    BY <1>0, <1>7, <2>1, <2>4, LimitsAssumption DEF Reject, semVars
  <2>6. pwait' \in [Limiters -> Seq(Queries)] /\ gwait' \in Seq(Queries)
    BY <1>0, <1>7, <2>1, WithoutType DEF Reject, semVars
  <2>7. TypeOK'
    BY <1>0, <2>1, <2>2, <2>5, <2>6 DEF TypeOK
  <2> QED
    BY <2>2, <2>4, <2>7 DEF LimiterInv
<1>8. ASSUME NEW q \in Queries, GrantGlobal(q) PROVE LimiterInv'
  <2>1. pc[q] = "wglobal" /\ Move(q, "wproject") /\ lim' = [lim EXCEPT ![q] = lim[q]]
        /\ lim[q] \in Limiters /\ UNCHANGED <<proj, lim, todo, entry, stale>>
    BY <1>0, <1>8 DEF GrantGlobal, cacheVars, Holding
  <2>2. Balanced(q, "wproject", lim[q])
    BY <1>0, <1>8, <2>1, LimitsAssumption
    DEF GrantGlobal, Balanced, Outstanding, HasProjectPermit, HasGlobalPermit
  <2>3. /\ CountersMatchQueries'
        /\ \A l \in Limiters : queued'[l] \in Nat /\ avail'[l] \in Int
                             /\ avail'[l] <= MaxPerProject
        /\ globalAvail' \in Int /\ globalAvail' <= MaxGlobal
    BY <2>1, <2>2, AccountsStep
  <2>4. /\ avail' \in [Limiters -> 0..MaxPerProject] /\ queued' \in [Limiters -> 0..MaxQueue]
        /\ globalAvail' \in 0..MaxGlobal
    BY <1>0, <1>8, <2>1, <2>3, LimitsAssumption DEF GrantGlobal
  <2>5. pwait' \in [Limiters -> Seq(Queries)] /\ gwait' \in Seq(Queries)
    BY <1>0, <1>8, <2>1 DEF GrantGlobal
  <2>6. TypeOK'
    BY <2>1, <2>4, <2>5 DEF LimiterInv, TypeOK, Move, Holding
  <2>7. LimitersAreOwned' /\ TouchedIsFresh'
    BY <2>1, OwnersKept DEF Holding
  <2> QED
    BY <2>3, <2>6, <2>7 DEF LimiterInv
<1>9. ASSUME NEW q \in Queries, GrantProject(q) PROVE LimiterInv'
  <2>1. pc[q] = "wproject" /\ Move(q, "running") /\ lim' = [lim EXCEPT ![q] = lim[q]]
        /\ lim[q] \in Limiters /\ UNCHANGED <<proj, lim, todo, entry, stale>>
    BY <1>0, <1>9 DEF GrantProject, cacheVars, Holding
  <2>2. Balanced(q, "running", lim[q])
    BY <1>0, <1>9, <2>1, LimitsAssumption
    DEF GrantProject, Balanced, Outstanding, HasProjectPermit, HasGlobalPermit
  <2>3. /\ CountersMatchQueries'
        /\ \A l \in Limiters : queued'[l] \in Nat /\ avail'[l] \in Int
                             /\ avail'[l] <= MaxPerProject
        /\ globalAvail' \in Int /\ globalAvail' <= MaxGlobal
    BY <2>1, <2>2, AccountsStep
  <2>4. /\ avail' \in [Limiters -> 0..MaxPerProject] /\ queued' \in [Limiters -> 0..MaxQueue]
        /\ globalAvail' \in 0..MaxGlobal
    BY <1>0, <1>9, <2>1, <2>3, LimitsAssumption DEF GrantProject
  <2>5. pwait' \in [Limiters -> Seq(Queries)] /\ gwait' \in Seq(Queries)
    BY <1>0, <1>9, <2>1 DEF GrantProject
  <2>6. TypeOK'
    BY <2>1, <2>4, <2>5 DEF LimiterInv, TypeOK, Move, Holding
  <2>7. LimitersAreOwned' /\ TouchedIsFresh'
    BY <2>1, OwnersKept DEF Holding
  <2> QED
    BY <2>3, <2>6, <2>7 DEF LimiterInv
<1>10. ASSUME NEW q \in Queries, Cancel(q) PROVE LimiterInv'
  <2>1. pc[q] \in {"wglobal", "wproject"} /\ Gone(q) /\ lim[q] \in Limiters /\ UNCHANGED <<todo, entry, stale>>
    BY <1>0, <1>10 DEF Cancel, cacheVars, Holding
  <2>2. /\ LimitersAreOwned' /\ TouchedIsFresh'
        /\ Move(q, "idle") /\ lim' = [lim EXCEPT ![q] = NoLimiter]
        /\ pc' \in [Queries -> States] /\ proj' \in [Queries -> Projects \cup {NoProject}]
        /\ lim' \in [Queries -> Limiters \cup {NoLimiter}]
        /\ \A r \in Queries : pc'[r] # "idle" => proj'[r] \in Projects
        /\ \A r \in Queries : pc'[r] \in Holding => lim'[r] \in Limiters
    BY <2>1, OwnersLeft
  <2>3. Balanced(q, "idle", NoLimiter)
    BY <1>0, <1>10, <2>1, LimitsAssumption, LimiterAssumption
    DEF Cancel, Balanced, Outstanding, HasProjectPermit, HasGlobalPermit, semVars
  <2>4. /\ CountersMatchQueries'
        /\ \A l \in Limiters : queued'[l] \in Nat /\ avail'[l] \in Int
                             /\ avail'[l] <= MaxPerProject
        /\ globalAvail' \in Int /\ globalAvail' <= MaxGlobal
    BY <2>2, <2>3, AccountsStep
  <2>5. /\ avail' \in [Limiters -> 0..MaxPerProject] /\ queued' \in [Limiters -> 0..MaxQueue]
        /\ globalAvail' \in 0..MaxGlobal
    BY <1>0, <1>10, <2>1, <2>4, LimitsAssumption DEF Cancel, semVars
  <2>6. pwait' \in [Limiters -> Seq(Queries)] /\ gwait' \in Seq(Queries)
    BY <1>0, <1>10, <2>1, WithoutType DEF Cancel, semVars
  <2>7. TypeOK'
    BY <1>0, <2>1, <2>2, <2>5, <2>6 DEF TypeOK
  <2> QED
    BY <2>2, <2>4, <2>7 DEF LimiterInv
<1>11. ASSUME NEW q \in Queries, Finish(q) PROVE LimiterInv'
  <2>1. pc[q] = "running" /\ Move(q, "drop1") /\ lim' = [lim EXCEPT ![q] = lim[q]]
        /\ lim[q] \in Limiters /\ UNCHANGED <<proj, lim, todo, entry, stale>>
    BY <1>0, <1>11 DEF Finish, cacheVars, Holding
  <2>2. Balanced(q, "drop1", lim[q])
    BY <1>0, <1>11, <2>1, LimitsAssumption
    DEF Finish, Balanced, Outstanding, HasProjectPermit, HasGlobalPermit
  <2>3. /\ CountersMatchQueries'
        /\ \A l \in Limiters : queued'[l] \in Nat /\ avail'[l] \in Int
                             /\ avail'[l] <= MaxPerProject
        /\ globalAvail' \in Int /\ globalAvail' <= MaxGlobal
    BY <2>1, <2>2, AccountsStep
  <2>4. /\ avail' \in [Limiters -> 0..MaxPerProject] /\ queued' \in [Limiters -> 0..MaxQueue]
        /\ globalAvail' \in 0..MaxGlobal
    BY <1>0, <1>11, <2>1, <2>3, LimitsAssumption DEF Finish
  <2>5. pwait' \in [Limiters -> Seq(Queries)] /\ gwait' \in Seq(Queries)
    BY <1>0, <1>11, <2>1 DEF Finish
  <2>6. TypeOK'
    BY <2>1, <2>4, <2>5 DEF LimiterInv, TypeOK, Move, Holding
  <2>7. LimitersAreOwned' /\ TouchedIsFresh'
    BY <2>1, OwnersKept DEF Holding
  <2> QED
    BY <2>3, <2>6, <2>7 DEF LimiterInv
<1>12. ASSUME NEW q \in Queries, ReleaseGlobal(q) PROVE LimiterInv'
  <2>1. pc[q] = "drop1" /\ Move(q, "drop2") /\ lim' = [lim EXCEPT ![q] = lim[q]]
        /\ lim[q] \in Limiters /\ UNCHANGED <<proj, lim, todo, entry, stale>>
    BY <1>0, <1>12 DEF ReleaseGlobal, cacheVars, Holding
  <2>2. Balanced(q, "drop2", lim[q])
    BY <1>0, <1>12, <2>1, LimitsAssumption
    DEF ReleaseGlobal, Balanced, Outstanding, HasProjectPermit, HasGlobalPermit
  <2>3. /\ CountersMatchQueries'
        /\ \A l \in Limiters : queued'[l] \in Nat /\ avail'[l] \in Int
                             /\ avail'[l] <= MaxPerProject
        /\ globalAvail' \in Int /\ globalAvail' <= MaxGlobal
    BY <2>1, <2>2, AccountsStep
  <2>4. /\ avail' \in [Limiters -> 0..MaxPerProject] /\ queued' \in [Limiters -> 0..MaxQueue]
        /\ globalAvail' \in 0..MaxGlobal
    BY <1>0, <1>12, <2>1, <2>3, LimitsAssumption DEF ReleaseGlobal
  <2>5. pwait' \in [Limiters -> Seq(Queries)] /\ gwait' \in Seq(Queries)
    BY <1>0, <1>12, <2>1 DEF ReleaseGlobal
  <2>6. TypeOK'
    BY <2>1, <2>4, <2>5 DEF LimiterInv, TypeOK, Move, Holding
  <2>7. LimitersAreOwned' /\ TouchedIsFresh'
    BY <2>1, OwnersKept DEF Holding
  <2> QED
    BY <2>3, <2>6, <2>7 DEF LimiterInv
<1>13. ASSUME NEW q \in Queries, ReleaseProject(q) PROVE LimiterInv'
  <2>1. pc[q] \in {"drop2"} /\ Gone(q) /\ lim[q] \in Limiters /\ UNCHANGED <<todo, entry, stale>>
    BY <1>0, <1>13 DEF ReleaseProject, cacheVars, Holding
  <2>2. /\ LimitersAreOwned' /\ TouchedIsFresh'
        /\ Move(q, "idle") /\ lim' = [lim EXCEPT ![q] = NoLimiter]
        /\ pc' \in [Queries -> States] /\ proj' \in [Queries -> Projects \cup {NoProject}]
        /\ lim' \in [Queries -> Limiters \cup {NoLimiter}]
        /\ \A r \in Queries : pc'[r] # "idle" => proj'[r] \in Projects
        /\ \A r \in Queries : pc'[r] \in Holding => lim'[r] \in Limiters
    BY <2>1, OwnersLeft
  <2>3. Balanced(q, "idle", NoLimiter)
    BY <1>0, <1>13, <2>1, LimitsAssumption, LimiterAssumption
    DEF ReleaseProject, Balanced, Outstanding, HasProjectPermit, HasGlobalPermit, semVars
  <2>4. /\ CountersMatchQueries'
        /\ \A l \in Limiters : queued'[l] \in Nat /\ avail'[l] \in Int
                             /\ avail'[l] <= MaxPerProject
        /\ globalAvail' \in Int /\ globalAvail' <= MaxGlobal
    BY <2>2, <2>3, AccountsStep
  <2>5. /\ avail' \in [Limiters -> 0..MaxPerProject] /\ queued' \in [Limiters -> 0..MaxQueue]
        /\ globalAvail' \in 0..MaxGlobal
    BY <1>0, <1>13, <2>1, <2>4, LimitsAssumption DEF ReleaseProject, semVars
  <2>6. pwait' \in [Limiters -> Seq(Queries)] /\ gwait' \in Seq(Queries)
    BY <1>0, <1>13, <2>1, WithoutType DEF ReleaseProject, semVars
  <2>7. TypeOK'
    BY <1>0, <2>1, <2>2, <2>5, <2>6 DEF TypeOK
  <2> QED
    BY <2>2, <2>4, <2>7 DEF LimiterInv
<1>14. ASSUME NEW p \in Projects, Age(p) PROVE LimiterInv'
  <2>1. TypeOK' /\ LimitersAreOwned' /\ TouchedIsFresh'
    BY <1>14 DEF Age, LimiterInv, TypeOK, LimitersAreOwned, TouchedIsFresh, Cached, semVars
  <2>2. CountersMatchQueries'
    BY <1>14 DEF Age, LimiterInv, CountersMatchQueries, At, semVars
  <2> QED
    BY <2>1, <2>2 DEF LimiterInv
<1>15. CASE UNCHANGED vars
  BY <1>15 DEF vars, cacheVars, semVars, LimiterInv, TypeOK, LimitersAreOwned, TouchedIsFresh,
     Cached, CountersMatchQueries, At
<1> QED
  BY <1>1, <1>2, <1>3, <1>4, <1>5, <1>6, <1>7, <1>8, <1>9, <1>10, <1>11, <1>12, <1>13, <1>14, <1>15
  DEF Next, Step, Progress

-----------------------------------------------------------------------------
(* The theorems. *)

\* The invariant of the induction holds.
LEMMA LimiterInvHolds == Spec => []LimiterInv
BY InitLimiter, NextLimiter, PTL DEF Spec

\* The limiter keeps its state well typed: no counter wraps below zero or
\* exceeds its limit, for any number of queries, projects and limits.
THEOREM TypeCorrect == Spec => []TypeOK
<1>1. LimiterInv => TypeOK
  BY DEF LimiterInv
<1> QED
  BY <1>1, LimiterInvHolds, PTL

\* The counters never drift from the queries that hold them.
THEOREM NoDrift == Spec => []CountersMatchQueries
<1>1. LimiterInv => CountersMatchQueries
  BY DEF LimiterInv
<1> QED
  BY <1>1, LimiterInvHolds, PTL

\* A project whose queries share the limiter in the map keeps to its limit.
THEOREM LimitHolds == Spec => []PerProjectLimit
<1>1. LimiterInv => PerProjectLimit
  <2> SUFFICES ASSUME LimiterInv, NEW p \in Projects,
                      \A q \in Queries : proj[q] = p /\ pc[q] \in Holding => lim[q] = entry[p]
               PROVE  Cardinality(RunningOf(p)) <= MaxPerProject
    BY DEF PerProjectLimit
  <2>0. RunningOf(p) \in SUBSET Queries
    BY DEF RunningOf
  <2>1. CASE RunningOf(p) = {}
    BY <2>1, FS_EmptySet, LimitsAssumption
  <2>2. CASE RunningOf(p) # {}
    <3> DEFINE l == entry[p]
               A == At(l, HasProjectPermit)
    <3>1. l \in Limiters
      BY <2>2 DEF RunningOf, LimiterInv, TypeOK, Holding
    <3>2. RunningOf(p) \in SUBSET A
      BY DEF RunningOf, At, HasProjectPermit, Holding
    <3>3. A \in SUBSET Queries
      BY DEF At
    <3>4. avail[l] = MaxPerProject - Cardinality(A) /\ avail[l] \in 0..MaxPerProject
      BY <3>1 DEF LimiterInv, CountersMatchQueries, TypeOK
    <3> HIDE DEF l, A
    <3>5. IsFiniteSet(A) /\ Cardinality(A) \in Nat /\ Cardinality(RunningOf(p)) \in Nat
      BY <2>0, <3>3, QueriesFinite
    <3>6. Cardinality(RunningOf(p)) <= Cardinality(A)
      BY <3>2, <3>5, FS_Subset
    <3> QED
      BY <3>4, <3>5, <3>6, LimitsAssumption
  <2> QED
    BY <2>1, <2>2
<1> QED
  BY <1>1, LimiterInvHolds, PTL

\* Expiry never takes the limiter of an active query out of the map: only the
\* LRU stage, which removes without a second look, does.
THEOREM ExpirySparesActive == Spec => OnlyLruEvictsActive
<1> DEFINE Safe == \A p \in Cached :
                     entry'[p] # entry[p] /\ InUse(entry[p]) => \E q \in Queries : pc[q] = "remove"
<1>1. LimiterInv /\ [Next]_vars => [Safe]_vars
  <2> SUFFICES ASSUME LimiterInv, Next, NEW p \in Cached, entry'[p] # entry[p], InUse(entry[p])
               PROVE  \E q \in Queries : pc[q] = "remove"
    OBVIOUS
  <2>0. entry \in [Projects -> Limiters \cup {NoLimiter}] /\ p \in Projects /\ entry[p] # NoLimiter
    BY DEF LimiterInv, TypeOK, Cached
  <2>1. ASSUME NEW q \in Queries, Retain(q) PROVE FALSE
    <3>1. PICK idle \in IdleReads : Drop({r \in Cached : should_evict(r, idle)})
      BY <2>1 DEF Retain
    <3>2. idle[p] /\ p \in stale
      BY <2>0, <3>1 DEF Drop, should_evict
    <3>3. queued[entry[p]] = 0
      BY <3>1, <3>2 DEF IdleReads
    <3>4. At(entry[p], Outstanding) = {}
      <4>1. Cardinality(At(entry[p], Outstanding)) = 0
        BY <2>0, <3>3 DEF LimiterInv, CountersMatchQueries
      <4>2. At(entry[p], Outstanding) \in SUBSET Queries
        BY DEF At
      <4> QED
        BY <4>1, <4>2, QueriesFinite, FS_EmptySet
    <3>5. PICK r \in Queries : lim[r] = entry[p] /\ pc[r] = "ready"
      BY <3>4 DEF InUse, At
    <3>6. proj[r] = p /\ proj[r] \notin stale
      BY <3>5 DEF LimiterInv, LimitersAreOwned, TouchedIsFresh, Holding
    <3> QED
      BY <3>2, <3>6
  <2>2. ASSUME NEW q \in Queries, Insert(q) PROVE FALSE
    BY <2>0, <2>2 DEF Insert
  <2>3. ASSUME NEW q \in Queries, RemoveLru(q) PROVE pc[q] = "remove"
    BY <2>3 DEF RemoveLru
  <2>4. ASSUME NEW q \in Queries, NEW r \in ProjectsOf[q], Found(q, r) \/ Missing(q, r) PROVE FALSE
    BY <2>4 DEF Found, Missing, cacheVars
  <2>5. ASSUME NEW q \in Queries,
               CollectLru(q) \/ Enqueue(q) \/ Reject(q) \/ Cancel(q) \/ Progress(q)
        PROVE  FALSE
    BY <2>5 DEF CollectLru, Enqueue, Reject, Cancel, Progress, GrantGlobal, GrantProject, Finish,
       ReleaseGlobal, ReleaseProject, cacheVars
  <2>6. ASSUME NEW r \in Projects, Age(r) PROVE FALSE
    BY <2>6 DEF Age
  <2> QED
    BY <2>1, <2>2, <2>3, <2>4, <2>5, <2>6 DEF Next, Step
<1> QED
  BY <1>1, LimiterInvHolds, PTL DEF Spec, OnlyLruEvictsActive

=============================================================================
