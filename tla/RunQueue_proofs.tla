--------------------------- MODULE RunQueue_proofs ---------------------------
(***************************************************************************)
(* Proofs about the run queue, for any set of finite builds.               *)
(*                                                                         *)
(* The graph walks are least closed sets.  That something is not in one is *)
(* shown by giving a closed set without it; that something is in one, by   *)
(* going one step along an edge.  No induction over the graph is needed.   *)
(***************************************************************************)
EXTENDS RunQueue, FiniteSetTheorems, WellFoundedInduction, TLAPS

-----------------------------------------------------------------------------
(* What build_scenequeue_data finds in a graph *)

\* What s covers is exactly what it, or something it covers, needs beyond setscene tasks
LEMMA CoveredWalk ==
  ASSUME NEW b, Build(b), NEW s \in b.setscene
  PROVE  /\ covered_tasks(b, s) \subseteq b.tasks \ b.setscene
         /\ \A u \in covered_tasks(b, s) \cup {s} : b.depends[u] \ b.setscene \subseteq covered_tasks(b, s)
         /\ \A d \in covered_tasks(b, s) : \E u \in covered_tasks(b, s) \cup {s} : d \in b.depends[u]
  <1> DEFINE C == covered_tasks(b, s)
             below(t) == b.depends[t] \ b.setscene
             closed(X) == below(s) \subseteq X /\ \A u \in X : below(u) \subseteq X
  <1>1. \A d : d \in C <=> d \in b.tasks /\ \A X \in SUBSET b.tasks : closed(X) => d \in X
    BY DEF covered_tasks, Closure
  <1>2. \A t \in b.tasks : below(t) \subseteq b.tasks \ b.setscene
    BY DEF Build
  <1>3. s \in b.tasks
    BY DEF Build
  <1>4. closed(b.tasks \ b.setscene)
    BY <1>2, <1>3
  <1>5. C \subseteq b.tasks \ b.setscene
    BY <1>1, <1>4
  <1>6. \A u \in C \cup {s} : below(u) \subseteq C
    BY <1>1, <1>2, <1>3, <1>5
  <1>7. \A d \in C : \E u \in C \cup {s} : d \in b.depends[u]
    <2>1. SUFFICES ASSUME NEW d \in C, \A u \in C \cup {s} : d \notin b.depends[u]
                   PROVE  FALSE
      OBVIOUS
    <2>2. closed(C \ {d})
      BY <1>6, <2>1
    <2>3. C \ {d} \in SUBSET b.tasks
      BY <1>5
    <2>4. d \in C \ {d}
      BY <1>1, <2>2, <2>3
    <2> QED
      BY <2>4
  <1> QED
    BY <1>5, <1>6, <1>7

\* What is asked for is closed under needing, down to setscene tasks
LEMMA UnskippableWalk ==
  ASSUME NEW b, Build(b)
  PROVE  /\ unskippable(b) \subseteq b.tasks
         /\ (b.targets \ b.setscene) \subseteq unskippable(b)
         /\ Endpoints(b) \subseteq unskippable(b)
         /\ \A t \in unskippable(b) \ b.setscene : b.depends[t] \subseteq unskippable(b)
  <1> DEFINE U == unskippable(b)
             down(t) == IF t \in b.setscene THEN {} ELSE b.depends[t]
             from == Endpoints(b) \cup (b.targets \ b.setscene)
             closed(X) == from \subseteq X /\ \A u \in X : down(u) \subseteq X
  <1>1. \A d : d \in U <=> d \in b.tasks /\ \A X \in SUBSET b.tasks : closed(X) => d \in X
    BY DEF unskippable, Closure
  <1>2. /\ b.targets \subseteq b.tasks /\ Endpoints(b) \subseteq b.tasks
        /\ \A t \in b.tasks : b.depends[t] \subseteq b.tasks
    BY DEF Build, Endpoints
  <1> QED
    BY <1>1, <1>2

\* A set of numbers has a least one
LEMMA Least ==
  ASSUME NEW S \in SUBSET Nat, S # {}
  PROVE  \E x \in S : \A y \in S : x <= y
  <1>1. PICK x \in S : \A y \in S : ~(<<y, x>> \in OpToRel(<, Nat))
    BY WFMin, NatLessThanWellFounded
  <1>2. \A y \in S : ~(y < x)
    BY <1>1 DEF OpToRel
  <1> QED
    BY <1>2

LEMMA DeferredByHash ==
  ASSUME NEW b, Build(b)
  PROVE  \E D \in SUBSET b.setscene : deferred_by_hash(b) \in [D -> b.setscene]
  <1> DEFINE same(s) == {r \in b.setscene : b.hash[r] = b.hash[s]}
             least(s, r) == b.hash[r] = b.hash[s] /\ \A x \in b.setscene : b.hash[x] = b.hash[s] => r <= x
             first(s) == CHOOSE r \in b.setscene : least(s, r)
  <1>1. ASSUME NEW s \in b.setscene
        PROVE  first(s) \in b.setscene
    <2>1. same(s) \in SUBSET Nat /\ same(s) # {}
      BY DEF Build
    <2>2. PICK r \in same(s) : \A x \in same(s) : r <= x
      BY <2>1, Least
    <2> QED
      BY <2>2
  <1>2. deferred_by_hash(b) = [s \in {s \in b.setscene : first(s) # s} |-> first(s)]
    BY DEF deferred_by_hash
  <1> HIDE DEF first
  <1> QED
    BY <1>1, <1>2

(* What the setscene queue is told of the graph.                            *)
Graph ==
  /\ Build(rqdata)
  /\ SQDataType
  /\ \A s \in Setscene : \A u \in sqdata.covered_tasks[s] \cup {s} :
       depends(u) \ Setscene \subseteq sqdata.covered_tasks[s]
  /\ \A s \in Setscene : \A d \in sqdata.covered_tasks[s] :
       \E u \in sqdata.covered_tasks[s] \cup {s} : d \in depends(u)
  /\ \A s, r \in Setscene : \A u \in sqdata.covered_tasks[s] \cup {s} :
       r \in depends(u) => s \in sqdata.revdeps[r]
  /\ \A r \in Setscene : \A s \in sqdata.revdeps[r] :
       \E u \in sqdata.covered_tasks[s] \cup {s} : r \in depends(u)
  /\ (rqdata.targets \ Setscene) \subseteq sqdata.unskippable
  /\ \A t \in Tasks : revdeps(t) = {} => t \in sqdata.unskippable
  /\ \A t \in sqdata.unskippable \ Setscene : depends(t) \subseteq sqdata.unskippable

LEMMA GraphInit ==
  ASSUME rqdata \in Builds, sqdata = build_scenequeue_data(rqdata)
  PROVE  Graph
  <1>1. Build(rqdata)
    BY BuildsAssumption
  <1>2. /\ DOMAIN sqdata = {"covered_tasks", "revdeps", "unskippable", "deferred"}
        /\ sqdata.covered_tasks = [s \in Setscene |-> covered_tasks(rqdata, s)]
        /\ sqdata.revdeps = [s \in Setscene |-> revdeps_squash(rqdata, s)]
        /\ sqdata.unskippable = unskippable(rqdata)
        /\ sqdata.deferred = deferred_by_hash(rqdata)
    BY DEF build_scenequeue_data, Setscene
  <1>3. \A s \in Setscene : 
          /\ covered_tasks(rqdata, s) \subseteq Tasks \ Setscene
          /\ \A u \in covered_tasks(rqdata, s) \cup {s} : depends(u) \ Setscene \subseteq covered_tasks(rqdata, s)
          /\ \A d \in covered_tasks(rqdata, s) : \E u \in covered_tasks(rqdata, s) \cup {s} : d \in depends(u)
    BY <1>1, CoveredWalk DEF Setscene, Tasks, depends
  <1>4. \A r \in Setscene : revdeps_squash(rqdata, r) =
          {s \in Setscene : \E t \in covered_tasks(rqdata, s) \cup {s} : r \in depends(t)}
    BY DEF revdeps_squash, Setscene, depends
  <1>5. /\ unskippable(rqdata) \subseteq Tasks
        /\ (rqdata.targets \ Setscene) \subseteq unskippable(rqdata)
        /\ \A t \in Tasks : revdeps(t) = {} => t \in unskippable(rqdata)
        /\ \A t \in unskippable(rqdata) \ Setscene : depends(t) \subseteq unskippable(rqdata)
    <2>1. Endpoints(rqdata) = {t \in Tasks : revdeps(t) = {}}
      BY DEF Endpoints, Tasks, revdeps, depends
    <2> QED
      BY <1>1, <2>1, UnskippableWalk DEF Setscene, Tasks, depends
  <1>6. deferred_by_hash(rqdata) \in Deferrals
    BY <1>1, DeferredByHash DEF Deferrals, Setscene
  <1>7. SQDataType
    BY <1>2, <1>3, <1>4, <1>5, <1>6 DEF SQDataType
  <1> QED
    BY <1>1, <1>2, <1>3, <1>4, <1>5, <1>7 DEF Graph

-----------------------------------------------------------------------------
(* The walks over the setscene queue *)

\* Whatever contains done and is closed under settling contains what done leads to
LEMMA DoneWalk ==
  ASSUME NEW done \in SUBSET Tasks, NEW G \in SUBSET Tasks, done \subseteq G,
         \A d \in Tasks \ Setscene : revdeps(d) # {} /\ revdeps(d) \subseteq G => d \in G
  PROVE  DoneClosure(done) \subseteq G
  BY DEF DoneClosure

\* Those that fail with t: t, what is undecided and needs something undecided,
\* and nothing that needs one of them is left
LEMMA FailWalk ==
  ASSUME Graph, NEW q, NEW t \in Setscene, t \notin Decided(q)
  PROVE  LET F == FailingWith(q, t) IN
           /\ t \in F /\ F \in SUBSET Setscene
           /\ \A s \in F \ {t} : /\ s \notin Decided(q) /\ ~Present(s)
                                 /\ ~(rqdata.harddeps[s] \subseteq Decided(q))
           /\ \A s \in Setscene, u \in F :
                u \in rqdata.harddeps[s] => s \in Decided(q) \cup F \/ Present(s)
  <1> DEFINE F == FailingWith(q, t)
             needing(u) == {s \in Setscene : u \in rqdata.harddeps[s] /\ s \notin Decided(q) /\ ~Present(s)}
             closed(X) == {t} \subseteq X /\ \A u \in X : needing(u) \subseteq X
             Y == {t} \cup {s \in Setscene : /\ s \notin Decided(q) /\ ~Present(s)
                                            /\ ~(rqdata.harddeps[s] \subseteq Decided(q))}
  <1>1. \A s : s \in F <=> s \in Tasks /\ \A X \in SUBSET Tasks : closed(X) => s \in X
    BY DEF FailingWith, Closure
  <1>2. Setscene \subseteq Tasks
    BY DEF Graph, Build, Setscene, Tasks
  <1>3. Y \in SUBSET Tasks /\ closed(Y)
    BY <1>2
  <1>4. F \subseteq Y /\ t \in F
    BY <1>1, <1>2, <1>3
  <1>5. \A u \in F : needing(u) \subseteq F
    BY <1>1, <1>2
  <1> QED
    BY <1>4, <1>5

-----------------------------------------------------------------------------
(* What holds of the setscene queue q, when the workers have restored R *)

\* A covered setscene task is there, or nothing that will be run needs it
Brought(q, R, d) ==
  \/ d \in R
  \/ Present(d)
  \/ d \notin sqdata.unskippable /\ sqdata.revdeps[d] \subseteq q.covered

\* What is done with was asked for, or everything that could cover it is decided
Settled(q, t) ==
  IF t \in Setscene THEN t \in Decided(q)
  ELSE t \in sqdata.unskippable \/ \A s \in Setscene : t \in sqdata.covered_tasks[s] => s \in Decided(q)

Apart(q) ==
  /\ q.covered \cap q.notcovered = {}
  /\ q.live \cap Decided(q) = {}
  /\ q.live \cup Decided(q) \subseteq q.running
  /\ \A s \in Setscene : Present(s) => s \in q.covered

HardKept(q) ==
  /\ \A s \in q.live : rqdata.harddeps[s] \subseteq q.covered
  /\ \A s \in Setscene : rqdata.harddeps[s] \cap q.notcovered # {} => s \in Decided(q)

Scene(q, R) ==
  /\ q \in SQType
  /\ Apart(q)
  /\ HardKept(q)
  /\ \A d \in q.covered : Brought(q, R, d)
  /\ \A t \in q.done : Settled(q, t)

\* n comes of q by decisions, or is as decided as q and as much up to date
Follows(q, n) ==
  /\ q.covered \subseteq n.covered /\ q.notcovered \subseteq n.notcovered
  /\ ~n.need_update => ~q.need_update /\ n.covered = q.covered /\ n.notcovered = q.notcovered

\* Only what these fields hold counts
LEMMA SameScene ==
  ASSUME NEW q, NEW n \in SQType, NEW R, Scene(q, R),
         n.running = q.running, n.live = q.live, n.covered = q.covered,
         n.notcovered = q.notcovered, n.done = q.done
  PROVE  Scene(n, R)
  BY DEF Scene, Apart, HardKept, Brought, Settled, Decided

\* The fields after scenequeue_updatecounters
LEMMA UpdateFields ==
  ASSUME NEW q \in SQType, NEW S \in SUBSET Setscene
  PROVE  LET n == scenequeue_updatecounters(q, S) IN
           /\ n \in SQType
           /\ n.running = q.running /\ n.live = q.live /\ n.covered = q.covered
           /\ n.notcovered = q.notcovered /\ n.done = DoneClosure(q.done \cup S)
           /\ n.need_update = TRUE
  <1>1. DoneClosure(q.done \cup S) \in SUBSET Tasks
    BY DEF DoneClosure
  <1> QED
    BY <1>1 DEF scenequeue_updatecounters, SQType

\* Counting decisions keeps the queue in order
LEMMA UpdateScene ==
  ASSUME Graph, NEW R, NEW q, Scene(q, R), NEW S \in SUBSET Setscene, S \subseteq Decided(q)
  PROVE  LET n == scenequeue_updatecounters(q, S) IN
           /\ Scene(n, R) /\ n.need_update = TRUE
           /\ n.live = q.live /\ n.covered = q.covered /\ n.notcovered = q.notcovered
  <1> DEFINE n == scenequeue_updatecounters(q, S)
             G == {t \in Tasks : Settled(q, t)}
  <1>1. /\ n \in SQType
        /\ n.running = q.running /\ n.live = q.live /\ n.covered = q.covered
        /\ n.notcovered = q.notcovered /\ n.done = DoneClosure(q.done \cup S)
        /\ n.need_update = TRUE
    BY UpdateFields DEF Scene
  <1>2. q.done \cup S \in SUBSET Tasks /\ q.done \cup S \subseteq G
    BY DEF Scene, SQType, Settled, Graph, Build, Setscene, Tasks
  <1>3. ASSUME NEW d \in Tasks \ Setscene, revdeps(d) # {}, revdeps(d) \subseteq G
        PROVE  d \in G
    <2>1. SUFFICES ASSUME d \notin sqdata.unskippable,
                          NEW s \in Setscene, d \in sqdata.covered_tasks[s]
                   PROVE  s \in Decided(q)
      BY DEF Settled
    <2>2. PICK u \in sqdata.covered_tasks[s] \cup {s} : d \in depends(u)
      BY <2>1 DEF Graph
    <2>3. u \in Tasks
      BY <2>2 DEF Graph, SQDataType, Build, Setscene, Tasks
    <2>4. Settled(q, u)
      BY <1>3, <2>2, <2>3 DEF revdeps
    <2>5. CASE u = s
      BY <2>4, <2>5 DEF Settled
    <2>6. CASE u \in sqdata.covered_tasks[s]
      <3>1. u \notin Setscene
        BY <2>6 DEF Graph, SQDataType
      <3>2. u \notin sqdata.unskippable
        BY <2>1, <2>2, <3>1 DEF Graph
      <3> QED
        BY <2>4, <2>6, <3>1, <3>2 DEF Settled
    <2> QED
      BY <2>2, <2>5, <2>6
  <1>4. DoneClosure(q.done \cup S) \subseteq G
    <2>1. G \in SUBSET Tasks /\ \A d \in Tasks \ Setscene : revdeps(d) # {} /\ revdeps(d) \subseteq G => d \in G
      BY <1>3
    <2> HIDE DEF G
    <2> QED
      BY <1>2, <2>1, DoneWalk
  <1> HIDE DEF n
  <1>5. Scene(n, R)
    <2>1. Decided(n) = Decided(q)
      BY <1>1 DEF Decided
    <2>2. Apart(n) /\ HardKept(n)
      BY <1>1, <2>1 DEF Scene, Apart, HardKept
    <2>3. \A d \in n.covered : Brought(n, R, d)
      BY <1>1 DEF Scene, Brought
    <2>4. \A t \in n.done : Settled(n, t)
      BY <1>1, <1>4, <2>1 DEF Settled
    <2> QED
      BY <1>1, <2>2, <2>3, <2>4 DEF Scene
  <1> QED
    BY <1>1, <1>5 DEF n

\* sq_task_skip of a task that nobody works on and that is there, or not needed
LEMMA SkipScene ==
  ASSUME Graph, NEW R, NEW q, Scene(q, R), NEW t \in Setscene,
         t \notin q.live, t \notin q.notcovered, Brought(q, R, t)
  PROVE  LET n == sq_task_skip(q, t) IN
           Scene(n, R) /\ Follows(q, n) /\ n.live = q.live
  <1> DEFINE p == [q EXCEPT !.running = @ \cup {t}, !.buildable = @ \cup {t}, !.covered = @ \cup {t}]
  <1>1. /\ p \in SQType
        /\ p.running = q.running \cup {t} /\ p.covered = q.covered \cup {t}
        /\ p.live = q.live /\ p.notcovered = q.notcovered /\ p.done = q.done
    BY DEF Scene, SQType
  <1>2. sq_task_skip(q, t) = scenequeue_updatecounters(p, {t})
    BY DEF sq_task_skip
  <1> HIDE DEF p
  <1>3. Decided(p) = Decided(q) \cup {t}
    BY <1>1 DEF Decided
  <1>4. Apart(p)
    BY <1>1, <1>3 DEF Scene, Apart
  <1>5. HardKept(p)
    BY <1>1, <1>3 DEF Scene, HardKept
  <1>6. \A d \in p.covered : Brought(p, R, d)
    BY <1>1 DEF Scene, Brought
  <1>7. \A d \in p.done : Settled(p, d)
    BY <1>1, <1>3 DEF Scene, Settled
  <1>8. Scene(p, R) /\ {t} \subseteq Decided(p)
    BY <1>1, <1>3, <1>4, <1>5, <1>6, <1>7 DEF Scene
  <1>9. LET n == scenequeue_updatecounters(p, {t}) IN
          /\ Scene(n, R) /\ n.need_update = TRUE
          /\ n.live = p.live /\ n.covered = p.covered /\ n.notcovered = p.notcovered
    BY <1>8, UpdateScene
  <1> QED
    BY <1>1, <1>2, <1>9 DEF Follows

\* sq_task_failoutright of a task that is not decided and that nobody works on
LEMMA FailScene ==
  ASSUME Graph, NEW R, NEW q, Scene(q, R), NEW t \in Setscene,
         t \notin q.live, t \notin Decided(q)
  PROVE  LET n == sq_task_failoutright(q, t) IN
           Scene(n, R) /\ Follows(q, n) /\ n.live = q.live
  <1> DEFINE F == FailingWith(q, t)
             p == [q EXCEPT !.running = @ \cup F, !.buildable = @ \cup F, !.notcovered = @ \cup F]
  <1>1. /\ t \in F /\ F \in SUBSET Setscene
        /\ \A s \in F \ {t} : /\ s \notin Decided(q) /\ ~Present(s)
                              /\ ~(rqdata.harddeps[s] \subseteq Decided(q))
        /\ \A s \in Setscene, u \in F :
             u \in rqdata.harddeps[s] => s \in Decided(q) \cup F \/ Present(s)
    BY FailWalk
  <1>2. sq_task_failoutright(q, t) = scenequeue_updatecounters(p, F)
    BY DEF sq_task_failoutright
  <1> HIDE DEF F
  <1>3. /\ p \in SQType
        /\ p.running = q.running \cup F /\ p.covered = q.covered
        /\ p.live = q.live /\ p.notcovered = q.notcovered \cup F /\ p.done = q.done
    BY <1>1 DEF Scene, SQType
  <1> HIDE DEF p
  <1>4. Decided(p) = Decided(q) \cup F
    BY <1>3 DEF Decided
  <1>5. F \cap Decided(q) = {} /\ F \cap q.live = {}
    BY <1>1 DEF Scene, HardKept, Decided
  <1>6. \A s \in F : ~Present(s)
    BY <1>1, <1>5 DEF Scene, Apart, Decided
  <1>7. Apart(p)
    BY <1>3, <1>4, <1>5, <1>6 DEF Scene, Apart, Decided
  <1>8. HardKept(p)
    BY <1>1, <1>3, <1>4 DEF Scene, HardKept, Apart, Decided
  <1>9. \A d \in p.covered : Brought(p, R, d)
    BY <1>3 DEF Scene, Brought
  <1>10. \A d \in p.done : Settled(p, d)
    BY <1>3, <1>4 DEF Scene, Settled
  <1>11. Scene(p, R) /\ F \subseteq Decided(p)
    BY <1>3, <1>4, <1>7, <1>8, <1>9, <1>10 DEF Scene
  <1>12. LET n == scenequeue_updatecounters(p, F) IN
           /\ Scene(n, R) /\ n.need_update = TRUE
           /\ n.live = p.live /\ n.covered = p.covered /\ n.notcovered = p.notcovered
    BY <1>1, <1>11, UpdateScene
  <1> QED
    BY <1>2, <1>3, <1>12 DEF Follows

\* Taking a task out of those that wait for another
LEMMA WithoutType ==
  ASSUME NEW f \in Deferrals, NEW t
  PROVE  Without(f, t) \in Deferrals
  <1>1. PICK S \in SUBSET Setscene : f \in [S -> Setscene]
    BY DEF Deferrals
  <1>2. Without(f, t) \in [S \ {t} -> Setscene]
    BY <1>1 DEF Without
  <1> QED
    BY <1>2 DEF Deferrals

\* update_scenequeue_data decides only what is there already
LEMMA UpdateDataScene ==
  ASSUME Graph, NEW R, NEW q, Scene(q, R), NEW t \in Setscene, NEW valid \in BOOLEAN
  PROVE  LET n == update_scenequeue_data(q, t, valid) IN
           Scene(n, R) /\ Follows(q, n) /\ n.live = q.live
  <1> DEFINE p == [q EXCEPT !.outrightfail = @ \ {t}]
             r == [p EXCEPT !.outrightfail = @ \cup {t}]
  <1>1. /\ p \in SQType /\ p.running = q.running /\ p.live = q.live /\ p.covered = q.covered
        /\ p.notcovered = q.notcovered /\ p.done = q.done /\ p.need_update = q.need_update
    BY DEF Scene, SQType
  <1>2. Scene(p, R) /\ Follows(q, p)
    BY <1>1, SameScene DEF Follows
  <1>3. /\ r \in SQType /\ r.running = q.running /\ r.live = q.live /\ r.covered = q.covered
        /\ r.notcovered = q.notcovered /\ r.done = q.done /\ r.need_update = q.need_update
    BY DEF Scene, SQType
  <1>4. Scene(r, R) /\ Follows(q, r)
    BY <1>3, SameScene DEF Follows
  <1>5. CASE Present(t)
    <2>1. update_scenequeue_data(q, t, valid) = sq_task_skip(p, t)
      BY <1>5 DEF update_scenequeue_data
    <2> HIDE DEF p
    <2>2. t \notin p.live /\ t \notin p.notcovered /\ Brought(p, R, t)
      BY <1>2, <1>5 DEF Scene, Apart, Brought, Decided
    <2>3. LET n == sq_task_skip(p, t) IN Scene(n, R) /\ Follows(p, n) /\ n.live = p.live
      BY <1>2, <2>2, SkipScene
    <2> QED
      BY <1>1, <2>1, <2>3 DEF Follows
  <1>6. CASE ~Present(t)
    <2>1. update_scenequeue_data(q, t, valid) \in {p, r}
      BY <1>6 DEF update_scenequeue_data
    <2> HIDE DEF p, r
    <2> QED
      BY <1>1, <1>2, <1>3, <1>4, <2>1
  <1> QED
    BY <1>5, <1>6

\* The next of those that waited for t
LEMMA NextScene ==
  ASSUME Graph, NEW R, NEW q, Scene(q, R), NEW t, NEW valid \in BOOLEAN
  PROVE  LET n == NextDeferred(q, t, valid) IN
           Scene(n, R) /\ Follows(q, n) /\ n.live = q.live
  <1> DEFINE W == {x \in DOMAIN q.deferred : q.deferred[x] = t}
             found == CHOOSE x \in W : \A y \in W : x <= y
             rest == [x \in DOMAIN q.deferred \ {found} |->
                        IF q.deferred[x] = t THEN found ELSE q.deferred[x]]
             p == [q EXCEPT !.deferred = rest]
  <1>1. PICK S \in SUBSET Setscene : q.deferred \in [S -> Setscene]
    BY DEF Scene, SQType, Deferrals
  <1>2. CASE W = {}
    <2>1. NextDeferred(q, t, valid) = q
      BY <1>2 DEF NextDeferred
    <2> QED
      BY <2>1 DEF Follows
  <1>3. CASE W # {}
    <2>1. W \in SUBSET Nat /\ W \subseteq Setscene
      BY <1>1 DEF Graph, Build, Setscene
    <2>2. \E x \in W : \A y \in W : x <= y
      BY <1>3, <2>1, Least
    <2>3. found \in Setscene
      BY <2>1, <2>2
    <2>4. NextDeferred(q, t, valid) = update_scenequeue_data(p, found, valid)
      BY <1>3 DEF NextDeferred
    <2> HIDE DEF found, W
    <2>5. rest \in [S \ {found} -> Setscene]
      BY <1>1, <2>3
    <2>6. rest \in Deferrals
      BY <2>5 DEF Deferrals
    <2> HIDE DEF rest
    <2>7. /\ p \in SQType /\ p.running = q.running /\ p.live = q.live /\ p.covered = q.covered
          /\ p.notcovered = q.notcovered /\ p.done = q.done /\ p.need_update = q.need_update
      BY <2>6 DEF Scene, SQType
    <2> HIDE DEF p
    <2>8. Scene(p, R) /\ Follows(q, p)
      BY <2>7, SameScene DEF Follows
    <2>9. LET n == update_scenequeue_data(p, found, valid) IN
            Scene(n, R) /\ Follows(p, n) /\ n.live = p.live
      BY <2>3, <2>8, UpdateDataScene
    <2> QED
      BY <2>4, <2>7, <2>8, <2>9 DEF Follows
  <1> QED
    BY <1>2, <1>3

\* As it starts
LEMMA InitScene ==
  ASSUME Graph, NEW valid \in SUBSET Setscene
  PROVE  /\ Scene(InitialScene(valid), {})
         /\ InitialScene(valid).live = {}
         /\ InitialScene(valid).need_update = TRUE
  <1> DEFINE P == {s \in Setscene : Present(s)}
             p == [EmptyScene EXCEPT
                     !.running = P, !.covered = P, !.buildable = @ \cup P,
                     !.outrightfail = Setscene \ (P \cup valid \cup DOMAIN sqdata.deferred)]
  <1>1. InitialScene(valid) = scenequeue_updatecounters(p, P)
    BY DEF InitialScene
  <1>2. /\ p \in SQType /\ p.running = P /\ p.live = {} /\ p.covered = P
        /\ p.notcovered = {} /\ p.done = sqdata.unskippable \ Setscene
    BY DEF EmptyScene, SQType, Graph, SQDataType
  <1> HIDE DEF p
  <1>3. Apart(p) /\ HardKept(p)
    BY <1>2 DEF Apart, HardKept, Decided
  <1>4. \A d \in p.covered : Brought(p, {}, d)
    BY <1>2 DEF Brought
  <1>5. \A t \in p.done : Settled(p, t)
    BY <1>2 DEF Settled
  <1>6. Scene(p, {}) /\ P \subseteq Decided(p) /\ P \in SUBSET Setscene
    BY <1>2, <1>3, <1>4, <1>5 DEF Scene, Decided
  <1> HIDE DEF P
  <1>7. LET n == scenequeue_updatecounters(p, P) IN
          /\ Scene(n, {}) /\ n.need_update = TRUE
          /\ n.live = p.live /\ n.covered = p.covered /\ n.notcovered = p.notcovered
    BY <1>6, UpdateScene
  <1> QED
    BY <1>1, <1>2, <1>7

-----------------------------------------------------------------------------
(* The invariant *)

\* A task that is covered need not be run: whatever could need it is restored
CoveredFact(q, d) ==
  IF d \in Setscene THEN d \in q.covered
  ELSE /\ d \notin sqdata.unskippable
       /\ \A s \in Setscene : d \in sqdata.covered_tasks[s] => s \in q.covered

\* A task that is not covered is asked for, or needed for want of a setscene task
NotCoveredFact(q, t) ==
  \/ t \in q.notcovered
  \/ t \in sqdata.unskippable \ Setscene
  \/ \E s \in q.notcovered : t \in sqdata.covered_tasks[s]

Queue ==
  /\ executing \cup runq_complete \subseteq runq_running
  /\ \A t \in runq_buildable : depends(t) \subseteq runq_complete

Known ==
  /\ tasks_covered \cap tasks_notcovered = {}
  /\ ~sq.need_update =>
       /\ Holdoff \subseteq holdoff_tasks
       /\ \A d \in tasks_covered : CoveredFact(sq, d)
       /\ \A t \in tasks_notcovered : NotCoveredFact(sq, t)

\* Nothing that an undecided setscene task would cover is run, nor its own task
Waiting ==
  \A s \in Undecided : sqdata.covered_tasks[s] \cap executing = {} /\ s \notin runq_running

\* What is complete without having been carried out is covered
Carried == \A d \in runq_complete \ runq_tasksrun : CoveredFact(sq, d)

RQInv ==
  /\ TypeOK
  /\ Graph
  /\ Scene(sq, restored)
  /\ Queue
  /\ Known
  /\ Waiting
  /\ Carried
  /\ OutputsThere
  /\ ActiveCounts

\* The key to OutputsThere: of a covered task, what is run needs at most one
\* that has been brought
LEMMA NeededIsBrought ==
  ASSUME Graph, NEW R, NEW q, Scene(q, R), NEW t \in Tasks, NEW d \in depends(t),
         CoveredFact(q, d), NotCoveredFact(q, t)
  PROVE  d \in Setscene /\ (d \in R \/ Present(d))
  <1>1. d \in Setscene
    <2>1. SUFFICES ASSUME d \notin Setscene
                   PROVE  FALSE
      OBVIOUS
    <2>2. CASE t \in q.notcovered
      <3>1. t \in Setscene /\ d \in sqdata.covered_tasks[t]
        BY <2>1, <2>2 DEF Scene, SQType, Graph
      <3> QED
        BY <2>1, <2>2, <3>1 DEF CoveredFact, Scene, Apart
    <2>3. CASE t \in sqdata.unskippable \ Setscene
      BY <2>1, <2>3 DEF Graph, CoveredFact
    <2>4. CASE \E s \in q.notcovered : t \in sqdata.covered_tasks[s]
      <3>1. PICK s \in q.notcovered : t \in sqdata.covered_tasks[s]
        BY <2>4
      <3>2. s \in Setscene /\ d \in sqdata.covered_tasks[s]
        BY <2>1, <3>1 DEF Scene, SQType, Graph
      <3> QED
        BY <2>1, <3>2 DEF CoveredFact, Scene, Apart
    <2> QED
      BY <2>2, <2>3, <2>4 DEF NotCoveredFact
  <1>2. d \in q.covered
    BY <1>1 DEF CoveredFact
  <1>3. SUFFICES ASSUME d \notin sqdata.unskippable, sqdata.revdeps[d] \subseteq q.covered
                 PROVE  FALSE
    BY <1>1, <1>2 DEF Scene, Brought
  <1>4. CASE t \in q.notcovered
    <2>1. t \in Setscene /\ t \in sqdata.revdeps[d]
      BY <1>1, <1>4 DEF Scene, SQType, Graph
    <2> QED
      BY <1>3, <1>4, <2>1 DEF Scene, Apart
  <1>5. CASE t \in sqdata.unskippable \ Setscene
    BY <1>3, <1>5 DEF Graph
  <1>6. CASE \E s \in q.notcovered : t \in sqdata.covered_tasks[s]
    <2>1. PICK s \in q.notcovered : t \in sqdata.covered_tasks[s]
      BY <1>6
    <2>2. s \in Setscene /\ s \in sqdata.revdeps[d]
      BY <1>1, <2>1 DEF Scene, SQType, Graph
    <2> QED
      BY <1>3, <2>1, <2>2 DEF Scene, Apart
  <1> QED
    BY <1>4, <1>5, <1>6 DEF NotCoveredFact

\* What a pass goes on with
LEMMA PassKnows ==
  ASSUME RQInv
  PROVE  /\ \A d \in Cov : CoveredFact(sq, d)
         /\ \A t \in NCov : NotCoveredFact(sq, t)
         /\ Cov \cap NCov = {}
         /\ Holdoff \subseteq Hold
         /\ \A t \in Buildable : depends(t) \subseteq runq_complete
         /\ Cov \in SUBSET Tasks /\ NCov \in SUBSET Tasks /\ Hold \in SUBSET Tasks
         /\ Buildable \in SUBSET Tasks
  <1>1. sq \in SQType /\ Setscene \subseteq Tasks /\ sqdata.covered_tasks \in [Setscene -> SUBSET (Tasks \ Setscene)]
    BY DEF RQInv, TypeOK, Graph, SQDataType, Build, Setscene, Tasks
  <1>2. CASE ~sq.need_update
    <2>1. Cov = tasks_covered /\ NCov = tasks_notcovered /\ Hold = holdoff_tasks /\ Buildable = runq_buildable
      BY <1>2 DEF Cov, NCov, Hold, Buildable
    <2> QED
      BY <1>2, <2>1 DEF RQInv, TypeOK, Known, Queue
  <1>3. CASE sq.need_update
    <2>1. /\ Cov = Covered /\ NCov = NotCovered /\ Hold = Holdoff
          /\ Buildable = runq_buildable \cup Ready(Cov \cup NCov, runq_complete)
      BY <1>3 DEF Cov, NCov, Hold, Buildable
    <2>2. Covered \cap NotCovered = {} /\ Covered \in SUBSET Tasks /\ NotCovered \in SUBSET Tasks
      BY <1>1 DEF Covered, NotCovered, SQType
    <2>3. Holdoff \in SUBSET Tasks
      BY <1>1 DEF Holdoff, Undecided
    <2> DEFINE wanted(t) == \/ t \in sq.notcovered \cup (rqdata.targets \ Setscene)
                            \/ \E s \in sq.notcovered : t \in sqdata.covered_tasks[s]
                            \/ t \in sqdata.unskippable \ Setscene
    <2>0. \A t : t \in NotCovered <=> wanted(t) /\ t \in sq.done
      <3> DEFINE V == UNION {sqdata.covered_tasks[s] : s \in sq.notcovered}
      <3>1. \A t : t \in V <=> \E s \in sq.notcovered : t \in sqdata.covered_tasks[s]
        OBVIOUS
      <3>2. NotCovered = (sq.notcovered \cup (rqdata.targets \ Setscene) \cup V
                            \cup (sqdata.unskippable \ Setscene)) \cap sq.done
        BY DEF NotCovered
      <3> HIDE DEF V
      <3> QED
        BY <3>1, <3>2
    <2>4. ASSUME NEW t \in NotCovered PROVE NotCoveredFact(sq, t)
      BY <2>0 DEF NotCoveredFact, RQInv, Graph
    <2>5. ASSUME NEW d \in Covered PROVE CoveredFact(sq, d)
      <3>1. CASE d \in Setscene
        BY <1>1, <3>1, <2>5 DEF Covered, CoveredFact, SQType
      <3>2. CASE d \notin Setscene
        <4>1. d \in sq.done /\ d \notin NotCovered
          BY <2>5 DEF Covered
        <4>2. d \notin sqdata.unskippable
          BY <2>0, <3>2, <4>1
        <4>3. \A s \in sq.notcovered : d \notin sqdata.covered_tasks[s]
          BY <2>0, <4>1
        <4>4. Settled(sq, d)
          BY <4>1 DEF RQInv, Scene
        <4> QED
          BY <3>2, <4>2, <4>3, <4>4 DEF Settled, CoveredFact, Decided
      <3> QED
        BY <3>1, <3>2
    <2>6. Buildable \in SUBSET Tasks /\ \A t \in Buildable : depends(t) \subseteq runq_complete
      BY <2>1, <2>2 DEF Ready, RQInv, TypeOK, Queue
    <2> QED
      BY <2>1, <2>2, <2>3, <2>4, <2>5, <2>6
  <1> QED
    BY <1>2, <1>3

-----------------------------------------------------------------------------
(* What a step keeps *)

LEMMA GraphKept ==
  ASSUME Graph, UNCHANGED <<rqdata, sqdata>>
  PROVE  Graph'
  <1>1. /\ Tasks' = Tasks /\ Setscene' = Setscene /\ Deferrals' = Deferrals
        /\ \A t : depends(t)' = depends(t) /\ revdeps(t)' = revdeps(t)
    BY DEF Tasks, Setscene, Deferrals, depends, revdeps
  <1> QED
    BY <1>1 DEF Graph, SQDataType

LEMMA SceneKept ==
  ASSUME UNCHANGED <<rqdata, sqdata>>, Scene(sq', restored')
  PROVE  Scene(sq, restored)'
  <1>1. /\ Tasks' = Tasks /\ Setscene' = Setscene /\ Deferrals' = Deferrals
        /\ \A t : Present(t)' = Present(t)
    BY DEF Tasks, Setscene, Deferrals, Present
  <1> QED
    BY <1>1 DEF Scene, SQType, Apart, HardKept, Brought, Settled, Decided

\* What is known of a task stays true
LEMMA FactsKept ==
  ASSUME UNCHANGED <<rqdata, sqdata>>, NEW q, q.covered \subseteq sq'.covered, q.notcovered \subseteq sq'.notcovered
  PROVE  /\ \A d : CoveredFact(q, d) => CoveredFact(sq, d)'
         /\ \A t : NotCoveredFact(q, t) => NotCoveredFact(sq, t)'
  <1>1. Setscene' = Setscene
    BY DEF Setscene
  <1> QED
    BY <1>1 DEF CoveredFact, NotCoveredFact

\* What an answer or a decision leaves known
LEMMA KnownKept ==
  ASSUME RQInv, UNCHANGED <<rqdata, sqdata, cover>>, Follows(sq, sq'), runq_complete \subseteq runq_complete'
  PROVE  Known'
  <1>1. SUFFICES ASSUME ~sq'.need_update
                 PROVE  /\ (Holdoff \subseteq holdoff_tasks)'
                        /\ \A d \in tasks_covered' : CoveredFact(sq, d)'
                        /\ \A t \in tasks_notcovered' : NotCoveredFact(sq, t)'
    BY DEF RQInv, Known, cover
  <1>2. ~sq.need_update /\ sq'.covered = sq.covered /\ sq'.notcovered = sq.notcovered
    BY <1>1 DEF Follows
  <1>3. Undecided' = Undecided
    BY <1>2 DEF Undecided, Setscene, Decided
  <1>4. Holdoff' \subseteq Holdoff
    BY <1>3 DEF Holdoff
  <1> QED
    BY <1>2, <1>4, FactsKept DEF RQInv, Known, cover

\* What a pass finds out
LEMMA KnownUpdated ==
  ASSUME RQInv, UNCHANGED <<rqdata, sqdata>>, Updated, Follows(Sq, sq'), runq_complete \subseteq runq_complete'
  PROVE  Known'
  <1>1. /\ \A d \in Cov : CoveredFact(sq, d)
        /\ \A t \in NCov : NotCoveredFact(sq, t)
        /\ Cov \cap NCov = {}
        /\ Holdoff \subseteq Hold
    BY PassKnows
  <1>2. Sq.covered = sq.covered /\ Sq.notcovered = sq.notcovered
    BY DEF Sq, RQInv, Scene, SQType
  <1>3. SUFFICES ASSUME ~sq'.need_update
                 PROVE  /\ (Holdoff \subseteq holdoff_tasks)'
                        /\ \A d \in tasks_covered' : CoveredFact(sq, d)'
                        /\ \A t \in tasks_notcovered' : NotCoveredFact(sq, t)'
    BY <1>1 DEF Known, Updated
  <1>4. sq'.covered = sq.covered /\ sq'.notcovered = sq.notcovered
    BY <1>2, <1>3 DEF Follows
  <1>5. Undecided' = Undecided
    BY <1>4 DEF Undecided, Setscene, Decided
  <1>6. Holdoff' \subseteq Holdoff
    BY <1>5 DEF Holdoff
  <1> QED
    BY <1>1, <1>4, <1>6, FactsKept DEF Updated

\* The numbers of what is worked on
LEMMA Numbers ==
  ASSUME RQInv
  PROVE  /\ IsFiniteSet(executing) /\ IsFiniteSet(Live)
         /\ Cardinality(executing) \in Nat /\ Cardinality(Live) \in Nat
         /\ rqdata.threads \in Nat
         /\ \A t \in Tasks \ executing : Cardinality(executing \cup {t}) = Cardinality(executing) + 1
         /\ \A t \in executing : Cardinality(executing \ {t}) = Cardinality(executing) - 1
         /\ \A t \in Tasks \ Live : Cardinality(Live \cup {t}) = Cardinality(Live) + 1
         /\ \A t \in Live : Cardinality(Live \ {t}) = Cardinality(Live) - 1
  <1>1. IsFiniteSet(Tasks) /\ Setscene \subseteq Tasks /\ rqdata.threads \in Nat
    BY DEF RQInv, Graph, Build, Tasks, Setscene
  <1>2. executing \subseteq Tasks /\ Live \subseteq Tasks
    BY <1>1 DEF RQInv, TypeOK, SQType, Live
  <1>3. IsFiniteSet(executing) /\ IsFiniteSet(Live)
    BY <1>1, <1>2, FS_Subset
  <1> QED
    BY <1>1, <1>3, FS_CardinalityType, FS_AddElement, FS_RemoveElement

-----------------------------------------------------------------------------
(* Steps of the setscene queue, and of the state alone *)

LEMMA SceneStep ==
  ASSUME RQInv, UNCHANGED <<rqdata, sqdata, runq, cover, work>>,
         Scene(sq', restored'), Follows(sq, sq'),
         restored \subseteq restored', restored' \subseteq Setscene,
         state' \in {"running", "cleanup", "complete", "failed"},
         inpass' \in BOOLEAN, stopped' \in BOOLEAN,
         ~rqdata.enforce => Cardinality(executing) + Cardinality(sq'.live) <= rqdata.threads
  PROVE  RQInv'
  <1>1. /\ Tasks' = Tasks /\ Setscene' = Setscene /\ Deferrals' = Deferrals
        /\ \A t : depends(t)' = depends(t) /\ Present(t)' = Present(t)
    BY DEF Tasks, Setscene, Deferrals, depends, Present
  <1>2. Graph'
    BY GraphKept DEF RQInv
  <1>3. Scene(sq, restored)'
    BY SceneKept
  <1>4. TypeOK'
    BY <1>1, <1>2, <1>3 DEF RQInv, TypeOK, Graph, Scene, runq, cover, work
  <1>5. Queue'
    BY <1>1 DEF RQInv, Queue, runq, work
  <1>6. Known'
    BY KnownKept DEF runq
  <1>7. Undecided' \subseteq Undecided
    BY <1>1 DEF Undecided, Decided, Follows
  <1>8. Waiting'
    BY <1>7 DEF RQInv, Waiting, runq, work
  <1>9. Carried'
    BY FactsKept DEF RQInv, Carried, runq, Follows
  <1>10. OutputsThere'
    BY <1>1 DEF RQInv, OutputsThere, runq, work
  <1>11. ActiveCounts'
    BY DEF RQInv, ActiveCounts, work, Live
  <1> QED
    BY <1>2, <1>3, <1>4, <1>5, <1>6, <1>8, <1>9, <1>10, <1>11 DEF RQInv

LEMMA StateStep ==
  ASSUME RQInv, UNCHANGED <<rqdata, sqdata, sq, runq, cover, work, restored>>,
         state' \in {"running", "cleanup", "complete", "failed"},
         inpass' \in BOOLEAN, stopped' \in BOOLEAN
  PROVE  RQInv'
  <1>1. Scene(sq', restored') /\ Follows(sq, sq')
    BY DEF RQInv, Follows
  <1>2. restored' \subseteq Setscene
    BY DEF RQInv, TypeOK
  <1>3. ~rqdata.enforce => Cardinality(executing) + Cardinality(sq'.live) <= rqdata.threads
    BY DEF RQInv, ActiveCounts, Live
  <1> QED
    BY <1>1, <1>2, <1>3, SceneStep

\* More may have been restored
LEMMA MoreRestored ==
  ASSUME NEW q, NEW R, NEW T, R \subseteq T, Scene(q, R)
  PROVE  Scene(q, T)
  BY DEF Scene, Brought

\* A setscene task that is no longer worked on
LEMMA NotLive ==
  ASSUME RQInv, NEW t \in Live
  PROVE  LET p == [sq EXCEPT !.live = @ \ {t}] IN
           /\ Scene(p, restored) /\ Follows(sq, p) /\ p.live = Live \ {t}
           /\ t \in Setscene /\ t \notin Decided(p)
  <1> DEFINE p == [sq EXCEPT !.live = @ \ {t}]
  <1>1. /\ p \in SQType /\ p.running = sq.running /\ p.live = Live \ {t} /\ p.covered = sq.covered
        /\ p.notcovered = sq.notcovered /\ p.done = sq.done /\ p.need_update = sq.need_update
        /\ t \in Setscene
    BY DEF RQInv, Scene, SQType, Live
  <1> HIDE DEF p
  <1>2. Scene(p, restored)
    BY <1>1 DEF RQInv, Scene, Apart, HardKept, Brought, Settled, Decided, Live
  <1>3. t \notin Decided(p)
    BY <1>1 DEF RQInv, Scene, Apart, Decided, Live
  <1>4. Follows(sq, p)
    BY <1>1 DEF Follows
  <1> QED
    BY <1>1, <1>2, <1>3, <1>4 DEF p

\* What leaves no more setscene tasks at work keeps the bound
LEMMA FewerLive ==
  ASSUME RQInv, NEW L \in SUBSET Live, ~rqdata.enforce
  PROVE  Cardinality(executing) + Cardinality(L) <= rqdata.threads
  <1>1. IsFiniteSet(Live) /\ Cardinality(executing) \in Nat /\ Cardinality(Live) \in Nat /\ rqdata.threads \in Nat
    BY Numbers
  <1>2. IsFiniteSet(L) /\ Cardinality(L) <= Cardinality(Live)
    BY <1>1, FS_Subset
  <1>3. Cardinality(L) \in Nat
    BY <1>2, FS_CardinalityType
  <1> QED
    BY <1>1, <1>2, <1>3 DEF RQInv, ActiveCounts

LEMMA RestoredStep ==
  ASSUME RQInv, NEW t \in Tasks, Restored(t)
  PROVE  RQInv'
  <1> DEFINE p == [sq EXCEPT !.live = @ \ {t}]
             n == sq_task_skip(p, t)
  <1>1. t \in Live
    BY DEF Restored
  <1>2. /\ Scene(p, restored) /\ Follows(sq, p) /\ p.live = Live \ {t}
        /\ t \in Setscene /\ t \notin Decided(p)
    BY <1>1, NotLive
  <1> HIDE DEF p
  <1>3. Scene(p, restored \cup {t})
    BY <1>2, MoreRestored
  <1>4. Scene(n, restored \cup {t}) /\ Follows(p, n) /\ n.live = p.live
    <2>1. t \notin p.live /\ t \notin p.notcovered /\ Brought(p, restored \cup {t}, t)
      BY <1>2 DEF Decided, Brought
    <2> QED
      BY <1>2, <1>3, <2>1, SkipScene DEF RQInv
  <1>5. sq' = n /\ restored' = restored \cup {t}
    BY DEF Restored, p
  <1> HIDE DEF n
  <1>6. Follows(sq, n)
    BY <1>2, <1>4 DEF Follows
  <1>7. ~rqdata.enforce => Cardinality(executing) + Cardinality(n.live) <= rqdata.threads
    BY <1>2, <1>4, FewerLive
  <1>8. /\ restored' \subseteq Setscene
        /\ state' \in {"running", "cleanup", "complete", "failed"}
        /\ inpass' \in BOOLEAN /\ stopped' \in BOOLEAN
        /\ UNCHANGED <<rqdata, sqdata, runq, cover, work>>
    BY <1>2, <1>5 DEF RQInv, TypeOK, Restored, Reading
  <1> QED
    BY <1>4, <1>5, <1>6, <1>7, <1>8, SceneStep

LEMMA NotRestoredStep ==
  ASSUME RQInv, NEW t \in Tasks, NotRestored(t)
  PROVE  RQInv'
  <1> DEFINE p == [sq EXCEPT !.live = @ \ {t}]
             n == sq_task_failoutright(p, t)
  <1>1. t \in Live
    BY DEF NotRestored
  <1>2. /\ Scene(p, restored) /\ Follows(sq, p) /\ p.live = Live \ {t}
        /\ t \in Setscene /\ t \notin Decided(p)
    BY <1>1, NotLive
  <1> HIDE DEF p
  <1>4. Scene(n, restored) /\ Follows(p, n) /\ n.live = p.live
    <2>1. t \notin p.live
      BY <1>2
    <2> QED
      BY <1>2, <2>1, FailScene DEF RQInv
  <1>5. sq' = n /\ restored' = restored
    BY DEF NotRestored, p
  <1> HIDE DEF n
  <1>6. Follows(sq, n)
    BY <1>2, <1>4 DEF Follows
  <1>7. ~rqdata.enforce => Cardinality(executing) + Cardinality(n.live) <= rqdata.threads
    BY <1>2, <1>4, FewerLive
  <1>8. /\ restored' \subseteq Setscene
        /\ state' \in {"running", "cleanup", "complete", "failed"}
        /\ inpass' \in BOOLEAN /\ stopped' \in BOOLEAN
        /\ UNCHANGED <<rqdata, sqdata, runq, cover, work>>
    BY <1>2, <1>5 DEF RQInv, TypeOK, NotRestored, Reading
  <1> QED
    BY <1>4, <1>5, <1>6, <1>7, <1>8, SceneStep

\* The setscene queue where the loop over it stops
LEMMA PassingScene ==
  ASSUME RQInv, NEW q \in Passing
  PROVE  /\ q \in SQType /\ Scene(q, restored) /\ Follows(sq, q)
         /\ q.live = sq.live /\ q.running = sq.running /\ q.covered = sq.covered
         /\ q.notcovered = sq.notcovered /\ q.done = sq.done /\ q.need_update = sq.need_update
  <1>1. PassedOver \subseteq Setscene
    BY DEF PassedOver, Candidates, RQInv, Scene, SQType
  <1>2. PICK D \in SUBSET PassedOver : q = [sq EXCEPT !.harddeferred = @ \cup D]
    BY DEF Passing
  <1>3. /\ q \in SQType /\ q.running = sq.running /\ q.live = sq.live /\ q.covered = sq.covered
        /\ q.notcovered = sq.notcovered /\ q.done = sq.done /\ q.need_update = sq.need_update
    BY <1>1, <1>2 DEF RQInv, Scene, SQType
  <1>4. Scene(q, restored) /\ Follows(sq, q)
    BY <1>3, SameScene DEF RQInv, Follows
  <1> QED
    BY <1>3, <1>4

\* The same with the candidate taken out of those that wait
LEMMA NoLongerDeferred ==
  ASSUME RQInv, NEW q \in Passing, NEW t
  PROVE  LET p == [q EXCEPT !.deferred = Without(@, t)] IN
           /\ p \in SQType /\ Scene(p, restored) /\ Follows(sq, p)
           /\ p.live = sq.live /\ p.running = sq.running /\ p.covered = sq.covered
           /\ p.notcovered = sq.notcovered /\ p.done = sq.done /\ p.need_update = sq.need_update
  <1> DEFINE p == [q EXCEPT !.deferred = Without(@, t)]
  <1>1. /\ q \in SQType /\ Scene(q, restored)
        /\ q.live = sq.live /\ q.running = sq.running /\ q.covered = sq.covered
        /\ q.notcovered = sq.notcovered /\ q.done = sq.done /\ q.need_update = sq.need_update
    BY PassingScene
  <1>2. Without(q.deferred, t) \in Deferrals
    BY <1>1, WithoutType DEF SQType
  <1>3. /\ p \in SQType /\ p.running = q.running /\ p.live = q.live /\ p.covered = q.covered
        /\ p.notcovered = q.notcovered /\ p.done = q.done /\ p.need_update = q.need_update
    BY <1>1, <1>2 DEF SQType
  <1> HIDE DEF p
  <1>4. Scene(p, restored) /\ Follows(sq, p)
    BY <1>1, <1>3, SameScene DEF Follows
  <1> QED
    BY <1>1, <1>3, <1>4 DEF p

\* A task that a pass may stop at is not worked on and not decided
LEMMA CandidateFree ==
  ASSUME RQInv, NEW t, Stops(t)
  PROVE  /\ t \in Setscene /\ t \notin sq.running /\ t \notin sq.live /\ t \notin Decided(sq)
         /\ active + Cardinality(Live) < rqdata.threads
  BY DEF Stops, SceneTurn, can_start_task, Candidates, RQInv, Scene, Apart, SQType

\* Steps that change nothing but the setscene queue
LEMMA OnlySceneStep ==
  ASSUME RQInv, OnlyScene, Choosing, Scene(sq', restored), Follows(sq, sq'),
         ~rqdata.enforce => Cardinality(executing) + Cardinality(sq'.live) <= rqdata.threads
  PROVE  RQInv'
  <1>1. /\ restored' = restored /\ restored' \subseteq Setscene
        /\ state' \in {"running", "cleanup", "complete", "failed"}
        /\ inpass' \in BOOLEAN /\ stopped' \in BOOLEAN
        /\ UNCHANGED <<rqdata, sqdata, runq, cover, work>>
    BY DEF OnlyScene, Choosing, RQInv, TypeOK
  <1>2. Scene(sq', restored')
    BY <1>1
  <1> QED
    BY <1>1, <1>2, SceneStep

LEMMA SkipNotNeededStep ==
  ASSUME RQInv, NEW t, SkipNotNeeded(t)
  PROVE  RQInv'
  <1>1. PICK q \in Passing : sq' = sq_task_skip([q EXCEPT !.deferred = Without(@, t)], t)
    BY DEF SkipNotNeeded
  <1> DEFINE p == [q EXCEPT !.deferred = Without(@, t)]
             n == sq_task_skip(p, t)
  <1>2. /\ t \in Setscene /\ t \notin sq.running /\ t \notin sq.live /\ t \notin Decided(sq)
    BY CandidateFree DEF SkipNotNeeded
  <1>3. /\ Scene(p, restored) /\ Follows(sq, p)
        /\ p.live = sq.live /\ p.covered = sq.covered /\ p.notcovered = sq.notcovered
    BY NoLongerDeferred
  <1> HIDE DEF p
  <1>4. t \notin p.live /\ t \notin p.notcovered /\ Brought(p, restored, t)
    BY <1>2, <1>3 DEF SkipNotNeeded, NotNeeded, Brought, Decided
  <1>5. Scene(n, restored) /\ Follows(p, n) /\ n.live = p.live
    BY <1>2, <1>3, <1>4, SkipScene DEF RQInv
  <1>6. sq' = n
    BY <1>1 DEF p
  <1> HIDE DEF n
  <1>7. Follows(sq, n)
    BY <1>3, <1>5 DEF Follows
  <1>8. ~rqdata.enforce => Cardinality(executing) + Cardinality(n.live) <= rqdata.threads
    BY <1>3, <1>5 DEF RQInv, ActiveCounts, Live
  <1> QED
    BY <1>5, <1>6, <1>7, <1>8, OnlySceneStep DEF SkipNotNeeded, Stops

LEMMA FailNowStep ==
  ASSUME RQInv, NEW t, FailNow(t)
  PROVE  RQInv'
  <1>1. PICK q \in Passing : sq' = sq_task_failoutright([q EXCEPT !.deferred = Without(@, t)], t)
    BY DEF FailNow
  <1> DEFINE p == [q EXCEPT !.deferred = Without(@, t)]
             n == sq_task_failoutright(p, t)
  <1>2. /\ t \in Setscene /\ t \notin sq.running /\ t \notin sq.live /\ t \notin Decided(sq)
    BY CandidateFree DEF FailNow, Chosen
  <1>3. /\ Scene(p, restored) /\ Follows(sq, p)
        /\ p.live = sq.live /\ p.covered = sq.covered /\ p.notcovered = sq.notcovered
    BY NoLongerDeferred
  <1> HIDE DEF p
  <1>4. t \notin p.live /\ t \notin Decided(p)
    BY <1>2, <1>3 DEF Decided
  <1>5. Scene(n, restored) /\ Follows(p, n) /\ n.live = p.live
    BY <1>2, <1>3, <1>4, FailScene DEF RQInv
  <1>6. sq' = n
    BY <1>1 DEF p
  <1> HIDE DEF n
  <1>7. Follows(sq, n)
    BY <1>3, <1>5 DEF Follows
  <1>8. ~rqdata.enforce => Cardinality(executing) + Cardinality(n.live) <= rqdata.threads
    BY <1>3, <1>5 DEF RQInv, ActiveCounts, Live
  <1> QED
    BY <1>5, <1>6, <1>7, <1>8, OnlySceneStep DEF FailNow, Chosen, Stops

LEMMA AskForHardStep ==
  ASSUME RQInv, NEW t, AskForHard(t)
  PROVE  RQInv'
  <1>1. PICK q \in Passing :
          sq' = [q EXCEPT !.buildable = @ \cup rqdata.harddeps[t],
                          !.needed_harddeps = @ \cup rqdata.harddeps[t],
                          !.harddeferred = @ \cup {t}]
    BY DEF AskForHard
  <1>2. t \in Setscene /\ rqdata.harddeps[t] \subseteq Setscene
    BY CandidateFree DEF AskForHard, RQInv, Graph, Build, Setscene
  <1>3. /\ q \in SQType /\ Scene(q, restored) /\ Follows(sq, q)
        /\ q.live = sq.live /\ q.running = sq.running /\ q.covered = sq.covered
        /\ q.notcovered = sq.notcovered /\ q.done = sq.done /\ q.need_update = sq.need_update
    BY PassingScene
  <1>4. /\ sq' \in SQType /\ sq'.running = q.running /\ sq'.live = q.live /\ sq'.covered = q.covered
        /\ sq'.notcovered = q.notcovered /\ sq'.done = q.done /\ sq'.need_update = q.need_update
    BY <1>1, <1>2, <1>3 DEF SQType
  <1>5. Scene(sq', restored) /\ Follows(sq, sq')
    BY <1>3, <1>4, SameScene DEF Follows
  <1>6. ~rqdata.enforce => Cardinality(executing) + Cardinality(sq'.live) <= rqdata.threads
    BY <1>3, <1>4 DEF RQInv, ActiveCounts, Live
  <1> QED
    BY <1>5, <1>6, OnlySceneStep DEF AskForHard, Stops

LEMMA StartSceneStep ==
  ASSUME RQInv, NEW t, StartScene(t)
  PROVE  RQInv'
  <1>1. PICK q \in Passing :
          sq' = [q EXCEPT !.deferred = Without(@, t), !.running = @ \cup {t}, !.live = @ \cup {t}]
    BY DEF StartScene
  <1> DEFINE p == [q EXCEPT !.deferred = Without(@, t)]
  <1>2. /\ t \in Setscene /\ t \notin sq.running /\ t \notin sq.live /\ t \notin Decided(sq)
        /\ active + Cardinality(Live) < rqdata.threads
    BY CandidateFree DEF StartScene, Chosen
  <1>3. /\ p \in SQType /\ Scene(p, restored) /\ Follows(sq, p)
        /\ p.live = sq.live /\ p.running = sq.running /\ p.covered = sq.covered
        /\ p.notcovered = sq.notcovered /\ p.done = sq.done /\ p.need_update = sq.need_update
    BY NoLongerDeferred
  <1>4. sq' = [p EXCEPT !.running = @ \cup {t}, !.live = @ \cup {t}]
    <2>1. q \in SQType
      BY PassingScene
    <2> QED
      BY <1>1, <2>1 DEF SQType
  <1> HIDE DEF p
  <1>5. /\ sq' \in SQType /\ sq'.running = sq.running \cup {t} /\ sq'.live = sq.live \cup {t}
        /\ sq'.covered = sq.covered /\ sq'.notcovered = sq.notcovered
        /\ sq'.done = sq.done /\ sq'.need_update = sq.need_update
    BY <1>2, <1>3, <1>4 DEF SQType
  <1>6. rqdata.harddeps[t] \subseteq sq.covered
    <2>1. rqdata.harddeps[t] \subseteq Decided(sq)
      BY DEF StartScene, Chosen, WaitsForHard
    <2> QED
      BY <1>2, <2>1 DEF RQInv, Scene, HardKept, Decided
  <1>7. Scene(sq', restored)
    <2>1. Decided(sq') = Decided(sq)
      BY <1>5 DEF Decided
    <2>2. Apart(sq')
      BY <1>2, <1>5, <2>1 DEF RQInv, Scene, Apart
    <2>3. HardKept(sq')
      BY <1>5, <1>6, <2>1 DEF RQInv, Scene, HardKept
    <2>4. \A d \in sq'.covered : Brought(sq', restored, d)
      BY <1>5 DEF RQInv, Scene, Brought
    <2>5. \A d \in sq'.done : Settled(sq', d)
      BY <1>5, <2>1 DEF RQInv, Scene, Settled
    <2> QED
      BY <1>5, <2>2, <2>3, <2>4, <2>5 DEF Scene
  <1>8. Follows(sq, sq')
    BY <1>5 DEF Follows
  <1>9. ~rqdata.enforce => Cardinality(executing) + Cardinality(sq'.live) <= rqdata.threads
    <2>1. t \in Tasks \ Live
      BY <1>2 DEF RQInv, Graph, Build, Tasks, Setscene, Live
    <2>2. /\ Cardinality(executing) \in Nat /\ Cardinality(Live) \in Nat /\ rqdata.threads \in Nat
          /\ Cardinality(Live \cup {t}) = Cardinality(Live) + 1
      BY <2>1, Numbers
    <2>3. sq'.live = Live \cup {t}
      BY <1>5 DEF Live
    <2> QED
      BY <1>2, <2>2, <2>3 DEF RQInv, ActiveCounts
  <1> QED
    BY <1>7, <1>8, <1>9, OnlySceneStep DEF StartScene, Chosen, Stops

-----------------------------------------------------------------------------
(* Steps of the queue of tasks *)

LEMMA TaskAnswerStep ==
  ASSUME RQInv, NEW t \in Tasks, task_complete(t) \/ task_fail(t)
  PROVE  RQInv'
  <1>1. /\ UNCHANGED <<rqdata, sqdata, cover, restored, stopped, runq_running>>
        /\ t \in executing /\ executing' = executing \ {t} /\ active' = active - 1
        /\ state' \in {state, "cleanup"} /\ inpass' \in BOOLEAN
    BY DEF task_complete, task_fail, Reading, Halted, runq, RQInv, TypeOK
  <1>2. /\ Tasks' = Tasks /\ Setscene' = Setscene /\ Deferrals' = Deferrals
        /\ \A u : depends(u)' = depends(u) /\ Present(u)' = Present(u)
    BY <1>1 DEF Tasks, Setscene, Deferrals, depends, Present
  <1>3. Scene(sq', restored) /\ Follows(sq, sq') /\ sq'.live = sq.live
    <2>1. CASE task_complete(t)
      <3>1. PICK valid \in BOOLEAN : sq' = NextDeferred(sq, t, valid)
        BY <2>1 DEF task_complete
      <3> DEFINE n == NextDeferred(sq, t, valid)
      <3>2. Scene(n, restored) /\ Follows(sq, n) /\ n.live = sq.live
        BY NextScene DEF RQInv
      <3> QED
        BY <3>1, <3>2
    <2>2. CASE task_fail(t)
      BY <2>2 DEF task_fail, RQInv, Follows
    <2> QED
      BY <2>1, <2>2
  <1>4. /\ runq_complete \subseteq runq_complete' /\ runq_complete' \subseteq runq_complete \cup {t}
        /\ runq_tasksrun \subseteq runq_tasksrun' /\ runq_tasksrun' \subseteq Tasks
        /\ runq_complete' \ runq_tasksrun' \subseteq runq_complete \ runq_tasksrun
        /\ runq_buildable' \subseteq Tasks
        /\ \A u \in runq_buildable' : depends(u) \subseteq runq_complete'
        /\ failed_tids' \subseteq Tasks /\ newstamps' \subseteq Tasks
    BY DEF task_complete, task_fail, Stamped, Ready, runq, revdeps, RQInv, TypeOK, Queue
  <1>5. Graph'
    BY <1>1, GraphKept DEF RQInv
  <1>6. Scene(sq, restored)'
    BY <1>1, <1>3, SceneKept
  <1>7. TypeOK'
    <2>1. runq_complete' \subseteq Tasks /\ executing' \subseteq Tasks /\ active' \in Int
      BY <1>1, <1>4 DEF RQInv, TypeOK
    <2>2. SQDataType' /\ (sq \in SQType)'
      BY <1>5, <1>6 DEF Graph, Scene
    <2> QED
      BY <1>1, <1>2, <1>4, <2>1, <2>2 DEF RQInv, TypeOK, cover
  <1>8. Queue'
    BY <1>1, <1>2, <1>4 DEF RQInv, Queue
  <1>9. Known'
    BY <1>1, <1>3, <1>4, KnownKept
  <1>10. Waiting'
    <2>1. Undecided' \subseteq Undecided
      BY <1>2, <1>3 DEF Undecided, Decided, Follows
    <2> QED
      BY <1>1, <2>1 DEF RQInv, Waiting
  <1>11. Carried'
    BY <1>1, <1>3, <1>4, FactsKept DEF RQInv, Carried, Follows
  <1>12. OutputsThere'
    BY <1>1, <1>2, <1>4 DEF RQInv, OutputsThere
  <1>13. ActiveCounts'
    <2>1. SUFFICES ASSUME ~rqdata.enforce
                   PROVE  /\ active' = Cardinality(executing')
                          /\ Cardinality(executing') + Cardinality(sq'.live) <= rqdata.threads
      BY <1>1 DEF ActiveCounts, Live
    <2>2. /\ Cardinality(executing \ {t}) = Cardinality(executing) - 1
          /\ Cardinality(executing) \in Nat /\ Cardinality(Live) \in Nat /\ rqdata.threads \in Nat
      BY <1>1, Numbers
    <2> QED
      BY <1>1, <1>3, <2>1, <2>2 DEF RQInv, ActiveCounts, Live
  <1> QED
    BY <1>5, <1>6, <1>7, <1>8, <1>9, <1>10, <1>11, <1>12, <1>13 DEF RQInv

\* The setscene queue when a pass has seen to it
LEMMA SqScene ==
  ASSUME RQInv
  PROVE  Sq \in SQType /\ Scene(Sq, restored) /\ Sq.live = sq.live
  <1>1. PassedOver \subseteq Setscene
    BY DEF PassedOver, Candidates, RQInv, Scene, SQType
  <1>2. /\ Sq \in SQType /\ Sq.running = sq.running /\ Sq.live = sq.live /\ Sq.covered = sq.covered
        /\ Sq.notcovered = sq.notcovered /\ Sq.done = sq.done
    BY <1>1 DEF Sq, RQInv, Scene, SQType
  <1> QED
    BY <1>2, SameScene DEF RQInv

\* What a step of the task part has to show
LEMMA TaskStep ==
  ASSUME RQInv, UNCHANGED <<rqdata, sqdata, restored, stopped>>, Updated,
         Scene(sq', restored), Follows(Sq, sq'), sq'.live = sq.live,
         state' \in {"running", "cleanup", "complete", "failed"}, inpass' \in BOOLEAN, sqdone' \in BOOLEAN,
         runq_buildable' \subseteq Tasks, runq_running' \subseteq Tasks, runq_complete' \subseteq Tasks,
         runq_tasksrun' \subseteq Tasks, failed_tids' \subseteq Tasks, newstamps' \subseteq Tasks,
         executing' \subseteq Tasks, active' \in Int,
         executing' \cup runq_complete' \subseteq runq_running',
         runq_complete \subseteq runq_complete', runq_tasksrun \subseteq runq_tasksrun',
         \A t \in runq_buildable' : depends(t) \subseteq runq_complete',
         \A s \in Undecided : sqdata.covered_tasks[s] \cap executing' = {} /\ s \notin runq_running',
         \A d \in runq_complete' \ runq_tasksrun' : CoveredFact(sq, d),
         \A t \in executing' : \A d \in depends(t) :
           d \in runq_complete' /\ (d \in runq_tasksrun' \cup restored \/ (d \in Setscene /\ Present(d))),
         ~rqdata.enforce => /\ active' = Cardinality(executing')
                            /\ Cardinality(executing') + Cardinality(Live) <= rqdata.threads
  PROVE  RQInv'
  <1>1. /\ Tasks' = Tasks /\ Setscene' = Setscene /\ Deferrals' = Deferrals
        /\ \A u : depends(u)' = depends(u) /\ Present(u)' = Present(u)
    BY DEF Tasks, Setscene, Deferrals, depends, Present
  <1>2. Graph'
    BY GraphKept DEF RQInv
  <1>3. Scene(sq, restored)'
    BY SceneKept
  <1>4. Sq.covered = sq.covered /\ Sq.notcovered = sq.notcovered
    BY DEF Sq, RQInv, Scene, SQType
  <1>5. TypeOK'
    <2>1. SQDataType' /\ (sq \in SQType)'
      BY <1>2, <1>3 DEF Graph, Scene
    <2>2. tasks_covered' \subseteq Tasks /\ tasks_notcovered' \subseteq Tasks /\ holdoff_tasks' \subseteq Tasks
      BY PassKnows DEF Updated
    <2> QED
      BY <1>1, <2>1, <2>2 DEF RQInv, TypeOK
  <1>6. Queue'
    BY <1>1 DEF Queue
  <1>7. Known'
    BY KnownUpdated
  <1>8. Waiting'
    <2>1. Undecided' \subseteq Undecided
      BY <1>1, <1>4 DEF Undecided, Decided, Follows
    <2> QED
      BY <2>1 DEF Waiting
  <1>9. Carried'
    BY <1>4, FactsKept DEF Carried, Follows
  <1>10. OutputsThere'
    BY <1>1 DEF OutputsThere
  <1>11. ActiveCounts'
    BY DEF ActiveCounts, Live
  <1> QED
    BY <1>2, <1>3, <1>5, <1>6, <1>7, <1>8, <1>9, <1>10, <1>11 DEF RQInv

\* A step of the task part that starts and completes nothing
LEMMA NothingStarts ==
  ASSUME RQInv, UNCHANGED <<rqdata, sqdata, restored, stopped>>, Updated,
         Scene(sq', restored), Follows(Sq, sq'), sq'.live = sq.live,
         state' \in {"running", "cleanup", "complete", "failed"}, inpass' \in BOOLEAN, sqdone' \in BOOLEAN,
         UNCHANGED <<runq_running, runq_complete, runq_tasksrun, executing, newstamps>>,
         runq_buildable' = Buildable, failed_tids' \subseteq Tasks, active' \in Int,
         ~rqdata.enforce => active' = active
  PROVE  RQInv'
  <1>1. /\ Buildable \in SUBSET Tasks
        /\ \A t \in Buildable : depends(t) \subseteq runq_complete
    BY PassKnows
  <1>2. /\ runq_running \subseteq Tasks /\ runq_complete \subseteq Tasks /\ runq_tasksrun \subseteq Tasks
        /\ newstamps \subseteq Tasks /\ executing \subseteq Tasks
        /\ executing \cup runq_complete \subseteq runq_running
    BY DEF RQInv, TypeOK, Queue
  <1>3. \A s \in Undecided : sqdata.covered_tasks[s] \cap executing = {} /\ s \notin runq_running
    BY DEF RQInv, Waiting
  <1>4. \A d \in runq_complete \ runq_tasksrun : CoveredFact(sq, d)
    BY DEF RQInv, Carried
  <1>5. \A t \in executing : \A d \in depends(t) :
           d \in runq_complete /\ (d \in runq_tasksrun \cup restored \/ (d \in Setscene /\ Present(d)))
    BY DEF RQInv, OutputsThere
  <1>6. ~rqdata.enforce => /\ active' = Cardinality(executing')
                           /\ Cardinality(executing') + Cardinality(Live) <= rqdata.threads
    BY DEF RQInv, ActiveCounts
  <1> QED
    BY <1>1, <1>2, <1>3, <1>4, <1>5, <1>6, TaskStep

\* A task that may be chosen
LEMMA EligibleTask ==
  ASSUME RQInv, NEW t \in Eligible
  PROVE  /\ t \in Tasks /\ t \notin Undecided /\ t \notin runq_running
         /\ t \in Cov \cup NCov
         /\ \A s \in Undecided : t \notin sqdata.covered_tasks[s]
         /\ depends(t) \subseteq runq_complete
         /\ active + Cardinality(Live) < rqdata.threads
  <1>1. /\ t \in Buildable /\ t \notin runq_running /\ t \notin Hold /\ t \in Cov \cup NCov
        /\ can_start_task
    BY DEF Eligible
  <1>2. /\ Holdoff \subseteq Hold /\ Buildable \in SUBSET Tasks
        /\ \A u \in Buildable : depends(u) \subseteq runq_complete
    BY PassKnows
  <1>3. runq_complete \subseteq runq_running
    BY DEF RQInv, Queue
  <1>4. t \notin Undecided /\ t \notin (UNION {sqdata.covered_tasks[s] : s \in Undecided}) \ runq_complete
    BY <1>1, <1>2 DEF Holdoff
  <1>5. \A s \in Undecided : t \notin sqdata.covered_tasks[s]
    BY <1>1, <1>3, <1>4
  <1> QED
    BY <1>1, <1>2, <1>4, <1>5 DEF can_start_task

LEMMA CompleteNowStep ==
  ASSUME RQInv, Scheduling, NEW t \in Eligible, SkipTask(t) \/ RunNoexec(t)
  PROVE  RQInv'
  <1>1. /\ t \in Tasks /\ t \notin Undecided /\ t \notin runq_running
        /\ depends(t) \subseteq runq_complete
    BY EligibleTask
  <1>2. CompleteNow(t)
    BY DEF SkipTask, RunNoexec
  <1>3. /\ Updated /\ UNCHANGED <<rqdata, sqdata, restored, stopped>>
        /\ inpass' \in BOOLEAN /\ sqdone' \in BOOLEAN
    BY DEF Scheduling, TaskTurn, Choosing, RQInv, TypeOK
  <1>4. Scene(sq', restored) /\ Follows(Sq, sq') /\ sq'.live = sq.live
    <2>1. PICK valid \in BOOLEAN : sq' = NextDeferred(Sq, t, valid)
      BY <1>2 DEF CompleteNow
    <2>2. Sq \in SQType /\ Scene(Sq, restored) /\ Sq.live = sq.live
      BY SqScene
    <2> DEFINE n == NextDeferred(Sq, t, valid)
    <2>3. Scene(n, restored) /\ Follows(Sq, n) /\ n.live = Sq.live
      BY <2>2, NextScene DEF RQInv
    <2> QED
      BY <2>1, <2>2, <2>3
  <1>5. /\ runq_running' = runq_running \cup {t} /\ runq_complete' = runq_complete \cup {t}
        /\ runq_buildable' = Buildable \cup {t} \cup Ready(revdeps(t), runq_complete \cup {t})
        /\ UNCHANGED <<state, active, executing, failed_tids>>
    BY <1>2 DEF CompleteNow, task_completeoutright
  <1>6. /\ runq_tasksrun' \in {runq_tasksrun, runq_tasksrun \cup {t}}
        /\ newstamps' \in {newstamps, newstamps \cup {t}}
        /\ t \notin Cov => t \in runq_tasksrun'
    BY DEF SkipTask, RunNoexec, Stamped
  <1>7. /\ runq_running' \subseteq Tasks /\ runq_complete' \subseteq Tasks /\ runq_tasksrun' \subseteq Tasks
        /\ newstamps' \subseteq Tasks /\ failed_tids' \subseteq Tasks
        /\ executing' \subseteq Tasks /\ active' \in Int
        /\ state' \in {"running", "cleanup", "complete", "failed"}
    BY <1>1, <1>5, <1>6 DEF RQInv, TypeOK
  <1>8. /\ runq_buildable' \subseteq Tasks
        /\ \A u \in runq_buildable' : depends(u) \subseteq runq_complete'
    <2>1. /\ Buildable \in SUBSET Tasks
          /\ \A u \in Buildable : depends(u) \subseteq runq_complete
      BY PassKnows
    <2> QED
      BY <1>1, <1>5, <2>1 DEF Ready, revdeps
  <1>9. executing' \cup runq_complete' \subseteq runq_running'
    BY <1>5 DEF RQInv, Queue
  <1>10. \A s \in Undecided : sqdata.covered_tasks[s] \cap executing' = {} /\ s \notin runq_running'
    BY <1>1, <1>5 DEF RQInv, Waiting
  <1>11. \A d \in runq_complete' \ runq_tasksrun' : CoveredFact(sq, d)
    <2>1. \A d \in Cov : CoveredFact(sq, d)
      BY PassKnows
    <2> QED
      BY <1>5, <1>6, <2>1 DEF RQInv, Carried
  <1>12. \A u \in executing' : \A d \in depends(u) :
           d \in runq_complete' /\ (d \in runq_tasksrun' \cup restored \/ (d \in Setscene /\ Present(d)))
    BY <1>5, <1>6 DEF RQInv, OutputsThere
  <1>13. ~rqdata.enforce => /\ active' = Cardinality(executing')
                            /\ Cardinality(executing') + Cardinality(Live) <= rqdata.threads
    BY <1>5 DEF RQInv, ActiveCounts
  <1>14. runq_complete \subseteq runq_complete' /\ runq_tasksrun \subseteq runq_tasksrun'
    BY <1>5, <1>6
  <1> QED
    BY <1>3, <1>4, <1>7, <1>8, <1>9, <1>10, <1>11, <1>12, <1>13, <1>14, TaskStep

LEMMA StartTaskStep ==
  ASSUME RQInv, Scheduling, NEW t \in Eligible, StartTask(t)
  PROVE  RQInv'
  <1>1. /\ t \in Tasks /\ t \notin Undecided /\ t \notin runq_running
        /\ t \in Cov \cup NCov
        /\ \A s \in Undecided : t \notin sqdata.covered_tasks[s]
        /\ depends(t) \subseteq runq_complete
        /\ active + Cardinality(Live) < rqdata.threads
    BY EligibleTask
  <1>2. /\ Updated /\ UNCHANGED <<rqdata, sqdata, restored, stopped>>
        /\ inpass' \in BOOLEAN /\ sqdone' \in BOOLEAN
    BY DEF Scheduling, TaskTurn, Choosing, RQInv, TypeOK
  <1>3. Scene(sq', restored) /\ Follows(Sq, sq') /\ sq'.live = sq.live
    BY SqScene DEF StartTask, Follows
  <1>4. /\ runq_running' = runq_running \cup {t} /\ executing' = executing \cup {t} /\ active' = active + 1
        /\ runq_buildable' = Buildable
        /\ UNCHANGED <<state, runq_complete, runq_tasksrun, failed_tids, newstamps>>
    BY DEF StartTask
  <1>5. /\ runq_running' \subseteq Tasks /\ runq_complete' \subseteq Tasks /\ runq_tasksrun' \subseteq Tasks
        /\ newstamps' \subseteq Tasks /\ failed_tids' \subseteq Tasks
        /\ executing' \subseteq Tasks /\ active' \in Int
        /\ state' \in {"running", "cleanup", "complete", "failed"}
    BY <1>1, <1>4 DEF RQInv, TypeOK
  <1>6. /\ runq_buildable' \subseteq Tasks
        /\ \A u \in runq_buildable' : depends(u) \subseteq runq_complete'
    BY <1>4, PassKnows
  <1>7. executing' \cup runq_complete' \subseteq runq_running'
    BY <1>4 DEF RQInv, Queue
  <1>8. \A s \in Undecided : sqdata.covered_tasks[s] \cap executing' = {} /\ s \notin runq_running'
    BY <1>1, <1>4 DEF RQInv, Waiting
  <1>9. \A d \in runq_complete' \ runq_tasksrun' : CoveredFact(sq, d)
    BY <1>4 DEF RQInv, Carried
  <1>10. \A u \in executing' : \A d \in depends(u) :
           d \in runq_complete' /\ (d \in runq_tasksrun' \cup restored \/ (d \in Setscene /\ Present(d)))
    <2>1. NotCoveredFact(sq, t)
      <3>1. t \in NCov
        BY <1>1 DEF StartTask
      <3> QED
        BY <3>1, PassKnows
    <2>2. ASSUME NEW d \in depends(t), d \notin runq_tasksrun
          PROVE  d \in Setscene /\ (d \in restored \/ Present(d))
      <3>1. CoveredFact(sq, d)
        BY <1>1, <2>2 DEF RQInv, Carried
      <3> QED
        BY <1>1, <2>1, <3>1, NeededIsBrought DEF RQInv
    <2> QED
      BY <1>1, <1>4, <2>2 DEF RQInv, OutputsThere
  <1>11. ~rqdata.enforce => /\ active' = Cardinality(executing')
                            /\ Cardinality(executing') + Cardinality(Live) <= rqdata.threads
    <2>1. t \in Tasks \ executing
      BY <1>1 DEF RQInv, Queue
    <2>2. /\ Cardinality(executing \cup {t}) = Cardinality(executing) + 1
          /\ Cardinality(executing) \in Nat /\ Cardinality(Live) \in Nat /\ rqdata.threads \in Nat
      BY <2>1, Numbers
    <2> QED
      BY <1>1, <1>4, <2>2 DEF RQInv, ActiveCounts
  <1>12. runq_complete \subseteq runq_complete' /\ runq_tasksrun \subseteq runq_tasksrun'
    BY <1>4
  <1> QED
    BY <1>2, <1>3, <1>5, <1>6, <1>7, <1>8, <1>9, <1>10, <1>11, <1>12, TaskStep

LEMMA FailUnexpectedStep ==
  ASSUME RQInv, Scheduling, NEW t \in Eligible, FailUnexpected(t)
  PROVE  RQInv'
  <1>1. /\ Updated /\ UNCHANGED <<rqdata, sqdata, restored, stopped>>
        /\ inpass' \in BOOLEAN /\ sqdone' \in BOOLEAN
    BY DEF Scheduling, TaskTurn, Choosing, RQInv, TypeOK
  <1>2. Scene(sq', restored) /\ Follows(Sq, sq') /\ sq'.live = sq.live
    BY SqScene DEF FailUnexpected, Follows
  <1>3. /\ runq_buildable' = Buildable /\ failed_tids' \subseteq Tasks /\ active' \in Int
        /\ state' \in {"running", "cleanup", "complete", "failed"}
        /\ UNCHANGED <<runq_running, runq_complete, runq_tasksrun, executing, newstamps>>
    BY EligibleTask DEF FailUnexpected, Halted, RQInv, TypeOK
  <1>4. ~rqdata.enforce => active' = active
    BY DEF FailUnexpected, Unexpected
  <1> QED
    BY <1>1, <1>2, <1>3, <1>4, NothingStarts

\* Waiting, letting a deferred task go on, and the end
LEMMA NoTaskStep ==
  ASSUME RQInv, Scheduling, NoTask,
         state' \in {state, "complete", "failed"},
         sq' = Sq \/ \E t \in Setscene : sq' = [Sq EXCEPT !.deferred = Without(@, t)]
  PROVE  RQInv'
  <1>1. /\ Updated /\ UNCHANGED <<rqdata, sqdata, restored, stopped>>
        /\ inpass' \in BOOLEAN /\ sqdone' \in BOOLEAN
    BY DEF Scheduling, TaskTurn, Choosing, RQInv, TypeOK
  <1>2. Sq \in SQType /\ Scene(Sq, restored) /\ Sq.live = sq.live
    BY SqScene
  <1>3. Scene(sq', restored) /\ Follows(Sq, sq') /\ sq'.live = sq.live
    <2>1. CASE sq' = Sq
      BY <1>2, <2>1 DEF Follows
    <2>2. CASE \E t \in Setscene : sq' = [Sq EXCEPT !.deferred = Without(@, t)]
      <3>1. PICK t \in Setscene : sq' = [Sq EXCEPT !.deferred = Without(@, t)]
        BY <2>2
      <3>2. Without(Sq.deferred, t) \in Deferrals
        BY <1>2, WithoutType DEF SQType
      <3>3. /\ sq' \in SQType /\ sq'.running = Sq.running /\ sq'.live = Sq.live /\ sq'.covered = Sq.covered
            /\ sq'.notcovered = Sq.notcovered /\ sq'.done = Sq.done /\ sq'.need_update = Sq.need_update
        BY <1>2, <3>1, <3>2 DEF SQType
      <3> QED
        BY <1>2, <3>3, SameScene DEF Follows
    <2> QED
      BY <2>1, <2>2
  <1>4. /\ runq_buildable' = Buildable /\ failed_tids' \subseteq Tasks /\ active' \in Int /\ active' = active
        /\ state' \in {"running", "cleanup", "complete", "failed"}
        /\ UNCHANGED <<runq_running, runq_complete, runq_tasksrun, executing, newstamps>>
    BY DEF NoTask, work, RQInv, TypeOK
  <1> QED
    BY <1>1, <1>3, <1>4, NothingStarts

LEMMA SceneEndsStep ==
  ASSUME RQInv, SceneEnds
  PROVE  RQInv'
  <1>1. /\ Updated /\ UNCHANGED <<rqdata, sqdata, restored, stopped>>
        /\ inpass' \in BOOLEAN /\ sqdone' \in BOOLEAN
    BY DEF SceneEnds, TaskTurn, Choosing, RQInv, TypeOK
  <1>2. Scene(sq', restored) /\ Follows(Sq, sq') /\ sq'.live = sq.live
    BY SqScene DEF SceneEnds, Follows
  <1>3. /\ runq_buildable' = Buildable /\ failed_tids' \subseteq Tasks /\ active' \in Int /\ active' = active
        /\ state' \in {"running", "cleanup", "complete", "failed"}
        /\ UNCHANGED <<runq_running, runq_complete, runq_tasksrun, executing, newstamps>>
    BY DEF SceneEnds, work, RQInv, TypeOK
  <1> QED
    BY <1>1, <1>2, <1>3, NothingStarts

-----------------------------------------------------------------------------
LEMMA RQInvInit == Init => RQInv
  <1>1. SUFFICES ASSUME Init PROVE RQInv
    OBVIOUS
  <1>2. Graph
    BY <1>1, GraphInit DEF Init
  <1>3. PICK valid \in SUBSET Setscene : sq = InitialScene(valid)
    BY <1>1 DEF Init
  <1>4. Scene(sq, {}) /\ sq.live = {} /\ sq.need_update = TRUE
    BY <1>2, <1>3, InitScene
  <1>5. /\ rqdata \in Builds /\ state = "running" /\ inpass = FALSE /\ restored = {} /\ stopped = FALSE
        /\ runq_buildable \subseteq Tasks /\ \A t \in runq_buildable : depends(t) = {}
        /\ runq_running = {} /\ runq_complete = {} /\ runq_tasksrun = {}
        /\ tasks_covered = {} /\ tasks_notcovered \subseteq Tasks /\ holdoff_tasks = {} /\ sqdone \in BOOLEAN
        /\ active = 0 /\ executing = {} /\ failed_tids = {} /\ newstamps = {}
    BY <1>1, <1>2 DEF Init, Graph, SQDataType
  <1>6. TypeOK
    <2>1. SQDataType /\ sq \in SQType
      BY <1>2, <1>4 DEF Graph, Scene
    <2>2. /\ state \in {"running", "cleanup", "complete", "failed"}
          /\ inpass \in BOOLEAN /\ sqdone \in BOOLEAN /\ stopped \in BOOLEAN
      BY <1>5, Zenon
    <2>4. active \in Int
      BY <1>5
    <2>3. /\ runq_running \subseteq Tasks /\ runq_complete \subseteq Tasks /\ runq_tasksrun \subseteq Tasks
          /\ tasks_covered \subseteq Tasks /\ tasks_notcovered \subseteq Tasks /\ holdoff_tasks \subseteq Tasks
          /\ executing \subseteq Tasks /\ failed_tids \subseteq Tasks /\ newstamps \subseteq Tasks
          /\ restored \subseteq Setscene
      BY <1>5
    <2> QED
      BY <1>5, <2>1, <2>2, <2>3, <2>4, Zenon DEF TypeOK
  <1>7. Queue /\ Known /\ Waiting /\ Carried /\ OutputsThere
    BY <1>4, <1>5 DEF Queue, Known, Waiting, Carried, OutputsThere
  <1>8. ActiveCounts
    BY <1>2, <1>4, <1>5, FS_EmptySet DEF ActiveCounts, Live, Graph, Build
  <1> QED
    BY <1>2, <1>4, <1>5, <1>6, <1>7, <1>8 DEF RQInv

LEMMA RQInvStep == RQInv /\ [Next]_vars => RQInv'
  <1>1. SUFFICES ASSUME RQInv, [Next]_vars PROVE RQInv'
    OBVIOUS
  <1>2. ASSUME NEW t \in Candidates, ScenePart(t) PROVE RQInv'
    BY <1>1, <1>2, SkipNotNeededStep, AskForHardStep, FailNowStep, StartSceneStep DEF ScenePart
  <1>3. CASE SceneEnds
    BY <1>1, <1>3, SceneEndsStep
  <1>4. CASE Schedule
    <2>1. ASSUME NEW t \in Eligible, TaskPart(t) PROVE RQInv'
      BY <1>1, <1>4, <2>1, CompleteNowStep, StartTaskStep, FailUnexpectedStep DEF TaskPart, Schedule
    <2>2. ASSUME NEW t \in Setscene, ForceDeferred(t) PROVE RQInv'
      BY <1>1, <1>4, <2>2, NoTaskStep DEF ForceDeferred, Idle, Schedule
    <2>3. CASE Wait
      BY <1>1, <1>4, <2>3, NoTaskStep DEF Wait, Schedule
    <2>4. CASE EndBuild
      BY <1>1, <1>4, <2>4, NoTaskStep DEF EndBuild, Idle, Schedule
    <2> QED
      BY <1>4, <2>1, <2>2, <2>3, <2>4 DEF Schedule
  <1>5. ASSUME NEW t \in Tasks, Answers(t) PROVE RQInv'
    BY <1>1, <1>5, RestoredStep, NotRestoredStep, TaskAnswerStep DEF Answers
  <1>6. CASE Stop \/ StopNow \/ Finish \/ Over \/ UNCHANGED vars
    <2>1. /\ UNCHANGED <<rqdata, sqdata, sq, runq, cover, work, restored>>
          /\ state' \in {"running", "cleanup", "complete", "failed"}
          /\ inpass' \in BOOLEAN /\ stopped' \in BOOLEAN
      BY <1>1, <1>6 DEF Stop, StopNow, Finish, Over, vars, Ended, RQInv, TypeOK
    <2> QED
      BY <1>1, <2>1, StateStep
  <1> QED
    BY <1>1, <1>2, <1>3, <1>4, <1>5, <1>6 DEF Next, Pass

(* What the theorems below follow from.                                     *)
THEOREM RunQueueInvariant == Spec => []RQInv
  BY RQInvInit, RQInvStep, PTL DEF Spec

(* For any set of finite builds, every variable keeps its type.             *)
THEOREM TypeCorrect == Spec => []TypeOK
  <1>1. RQInv => TypeOK
    BY DEF RQInv
  <1> QED
    BY <1>1, RunQueueInvariant, PTL

(* Whatever the graph, the order of the answers, the failures and the       *)
(* settings, no task is run before all it depends on is there.  A covered   *)
(* task is never one that something that is run needs: what can cover it is *)
(* decided before it may be skipped, and a setscene task that is not        *)
(* restored takes what it covers out of the covered ones.                   *)
THEOREM OutputsBeforeUse == Spec => []OutputsThere
  <1>1. RQInv => OutputsThere
    BY DEF RQInv
  <1> QED
    BY <1>1, RunQueueInvariant, PTL

(* A setscene task is started only when those it needs are covered, and a   *)
(* failure takes all that needs it along, so they stay covered.  One that   *)
(* the graph shows to be needed has not been skipped as needless.           *)
THEOREM HardDepsCovered == Spec => []HardDepsThere
  <1>1. ASSUME RQInv, NEW s \in Live, NEW h \in rqdata.harddeps[s]
        PROVE  h \in sq.covered /\ (s \in sqdata.revdeps[h] => h \in restored \/ Present(h))
    <2>1. h \in sq.covered /\ s \notin sq.covered
      BY <1>1 DEF RQInv, Scene, Apart, HardKept, Decided, Live
    <2> QED
      BY <1>1, <2>1 DEF RQInv, Scene, Brought
  <1>2. RQInv => HardDepsThere
    BY <1>1 DEF HardDepsThere
  <1> QED
    BY <1>2, RunQueueInvariant, PTL

(* The threads are counted right and not exceeded, unless BB_SETSCENE_ENFORCE *)
(* gives places back that were never taken.                                 *)
THEOREM ThreadsCounted == Spec => []ActiveCounts
  <1>1. RQInv => ActiveCounts
    BY DEF RQInv
  <1> QED
    BY <1>1, RunQueueInvariant, PTL

(* No task ends up both covered and not covered.                            *)
THEOREM NeverBoth == Spec => []CoveredOrNot
  <1>1. RQInv => CoveredOrNot
    BY DEF RQInv, Scene, Apart, Known, CoveredOrNot, Live
  <1> QED
    BY <1>1, RunQueueInvariant, PTL

(* What a setscene task may make needless is held off until it is decided.  *)
THEOREM HeldOff == Spec => []CoveredTasksWait
  <1>1. RQInv => CoveredTasksWait
    BY DEF RQInv, Scene, SQType, Apart, Waiting, Undecided, CoveredTasksWait, Live
  <1> QED
    BY <1>1, RunQueueInvariant, PTL

-----------------------------------------------------------------------------
(* A graph without circles *)

\* It has a first as well as a last: drop the last of a smallest set without a first
LEMMA AcyclicBottom ==
  ASSUME NEW T, IsFiniteSet(T), NEW dep \in [T -> SUBSET T], Acyclic(T, dep),
         NEW S \in SUBSET T, S # {}
  PROVE  \E t \in S : dep[t] \cap S = {}
  <1> DEFINE headless(X) == X # {} /\ \A t \in X : dep[t] \cap X # {}
             H == {X \in SUBSET S : headless(X)}
             sizes == {Cardinality(X) : X \in H}
  <1>1. SUFFICES ASSUME headless(S) PROVE FALSE
    OBVIOUS
  <1>2. \A X \in SUBSET S : IsFiniteSet(X) /\ Cardinality(X) \in Nat
    BY FS_Subset, FS_CardinalityType
  <1>3. sizes \in SUBSET Nat /\ sizes # {}
    BY <1>1, <1>2
  <1>4. PICK n \in sizes : \A m \in sizes : n <= m
    <2> HIDE DEF sizes
    <2> QED
      BY <1>3, Least
  <1>5. PICK X \in H : n = Cardinality(X)
    OBVIOUS
  <1>6. PICK t \in X : \A u \in X : t \notin dep[u]
    BY <1>5 DEF Acyclic
  <1>7. X \ {t} \in H
    BY <1>5, <1>6
  <1>8. Cardinality(X \ {t}) = Cardinality(X) - 1
    BY <1>2, <1>5, <1>6, FS_RemoveElement
  <1>9. n <= Cardinality(X \ {t})
    BY <1>4, <1>7
  <1> QED
    BY <1>2, <1>5, <1>8, <1>9

\* Of some setscene tasks there is one that none of them may make needless
LEMMA SceneTop ==
  ASSUME Graph, NEW S \in SUBSET Setscene, S # {}
  PROVE  \E s \in S : sqdata.revdeps[s] \cap S = {}
  <1> DEFINE Z == S \cup UNION {sqdata.covered_tasks[s] : s \in S}
  <1>1. \A t : t \in Z <=> t \in S \/ \E s \in S : t \in sqdata.covered_tasks[s]
    OBVIOUS
  <1>2. Z \in (SUBSET Tasks) \ {{}}
    BY <1>1 DEF Graph, SQDataType, Build, Setscene, Tasks
  <1> HIDE DEF Z
  <1>3. PICK t \in Z : \A u \in Z : t \notin depends(u)
    BY <1>2 DEF Graph, Build, Acyclic, Tasks, depends
  <1>4. t \in S
    <2>1. SUFFICES ASSUME NEW s \in S, t \in sqdata.covered_tasks[s] PROVE FALSE
      BY <1>1
    <2>2. PICK u \in sqdata.covered_tasks[s] \cup {s} : t \in depends(u)
      BY <2>1 DEF Graph
    <2> QED
      BY <1>1, <1>3, <2>2
  <1>5. ASSUME NEW s \in sqdata.revdeps[t] \cap S PROVE FALSE
    <2>1. PICK u \in sqdata.covered_tasks[s] \cup {s} : t \in depends(u)
      BY <1>4, <1>5 DEF Graph
    <2> QED
      BY <1>1, <1>3, <1>5, <2>1
  <1> QED
    BY <1>4, <1>5

\* Every task is asked for or may be covered
LEMMA NobodyForgotten ==
  ASSUME Graph, NEW t \in Tasks \ (Setscene \cup sqdata.unskippable)
  PROVE  \E s \in Setscene : t \in sqdata.covered_tasks[s]
  <1> DEFINE X == {x \in Tasks \ (Setscene \cup sqdata.unskippable) :
                     \A s \in Setscene : x \notin sqdata.covered_tasks[s]}
  <1>1. SUFFICES ASSUME X # {} PROVE FALSE
    OBVIOUS
  <1>2. PICK x \in X : \A u \in X : x \notin depends(u)
    <2>1. X \in (SUBSET Tasks) \ {{}}
      BY <1>1
    <2> HIDE DEF X
    <2> QED
      BY <2>1 DEF Graph, Build, Acyclic, Tasks, depends
  <1>3. PICK u \in Tasks : x \in depends(u)
    BY <1>2 DEF Graph, revdeps
  <1>4. u \notin Setscene
    BY <1>2, <1>3 DEF Graph
  <1>5. u \notin sqdata.unskippable
    BY <1>2, <1>3, <1>4 DEF Graph
  <1>6. \A s \in Setscene : u \notin sqdata.covered_tasks[s]
    BY <1>2, <1>3 DEF Graph
  <1> QED
    BY <1>2, <1>3, <1>4, <1>5, <1>6

-----------------------------------------------------------------------------
(* What keeps the setscene queue moving *)

(* Nothing that can be decided is lost sight of: X are the tasks that have    *)
(* just stopped running and are not decided yet.                             *)
Moving(q, X) ==
  /\ q.running \subseteq Decided(q) \cup q.live \cup X
  /\ Decided(q) \subseteq q.running \cap q.buildable \cap q.done
  /\ \A s \in Setscene : sqdata.revdeps[s] \subseteq Decided(q) => s \in q.buildable
  /\ q.needed_harddeps \subseteq q.buildable
  /\ \A s \in q.harddeferred :
       rqdata.harddeps[s] \subseteq q.needed_harddeps /\ ~(rqdata.harddeps[s] \subseteq Decided(q))
  /\ sqdata.unskippable \ Setscene \subseteq q.done
  /\ \A d \in Tasks \ Setscene : revdeps(d) # {} /\ revdeps(d) \subseteq q.done => d \in q.done

\* What a pass has found out stays enough, until a decision calls for more
UpToDate ==
  ~sq.need_update =>
    /\ Undecided = {} => holdoff_tasks = {} /\ Tasks \subseteq tasks_covered \cup tasks_notcovered
    /\ Ready(tasks_covered \cup tasks_notcovered, runq_complete) \subseteq runq_buildable

\* A task that was started is at work, complete or failed
Accounted ==
  /\ executing \cup runq_complete \subseteq runq_buildable
  /\ ~rqdata.enforce => runq_running \subseteq runq_complete \cup executing \cup failed_tids

\* How far the build is
Stage ==
  /\ sqdone => Undecided = {}
  /\ sqdone /\ rqdata.setsceneonly => Setscene = {}
  /\ rqdata.setsceneonly => executing = {} /\ failed_tids = {}

\* How the build may end
Ending ==
  /\ state \in {"complete", "failed"} => ~inpass
  /\ state = "cleanup" /\ ~stopped /\ ~rqdata.enforce => failed_tids # {} /\ rqdata.halt
  /\ AllThatCanBe

EndInv == Moving(sq, {}) /\ UpToDate /\ Accounted /\ Stage /\ Ending


\* Counting the decisions of S
LEMMA UpdateMoving ==
  ASSUME Graph, NEW p \in SQType, NEW S \in SUBSET Setscene, NEW X,
         p.running \subseteq Decided(p) \cup p.live \cup X,
         Decided(p) \subseteq p.running \cap p.buildable, Decided(p) \subseteq p.done \cup S,
         \A s \in Setscene : sqdata.revdeps[s] \subseteq Decided(p) /\ sqdata.revdeps[s] \cap S = {}
                               => s \in p.buildable,
         p.needed_harddeps \subseteq p.buildable,
         \A s \in p.harddeferred : rqdata.harddeps[s] \subseteq p.needed_harddeps,
         sqdata.unskippable \ Setscene \subseteq p.done
  PROVE  Moving(scenequeue_updatecounters(p, S), X)
  <1> DEFINE n == scenequeue_updatecounters(p, S)
             D == DoneClosure(p.done \cup S)
  <1>1. /\ n.running = p.running /\ n.live = p.live /\ n.covered = p.covered
        /\ n.notcovered = p.notcovered /\ n.needed_harddeps = p.needed_harddeps
        /\ n.done = D
        /\ n.buildable = p.buildable \cup {r \in Setscene : /\ sqdata.revdeps[r] \cap S # {}
                                                            /\ sqdata.revdeps[r] \subseteq Decided(p)}
        /\ n.harddeferred = {s \in p.harddeferred : ~(rqdata.harddeps[s] \subseteq Decided(p))}
    BY DEF scenequeue_updatecounters, SQType
  <1>2. Decided(n) = Decided(p)
    BY <1>1 DEF Decided
  <1>3. /\ p.done \cup S \subseteq D
        /\ \A d \in Tasks \ Setscene : revdeps(d) # {} /\ revdeps(d) \subseteq D => d \in D
    <2>1. p.done \cup S \subseteq Tasks
      BY DEF SQType, Graph, Build, Setscene, Tasks
    <2> DEFINE settled(d, Y) == revdeps(d) # {} /\ revdeps(d) \subseteq Y
               closed(Y) == p.done \cup S \subseteq Y /\ \A d \in (Tasks \ Setscene) \ Y : ~settled(d, Y)
    <2>2. \A d : d \in D <=> d \in Tasks /\ \A Y \in SUBSET Tasks : closed(Y) => d \in Y
      BY DEF DoneClosure
    <2> HIDE DEF D
    <2>3. ASSUME NEW d \in Tasks \ Setscene, revdeps(d) # {}, revdeps(d) \subseteq D,
                 NEW Y \in SUBSET Tasks, closed(Y)
          PROVE  d \in Y
      <3>1. D \subseteq Y
        BY <2>2, <2>3
      <3> QED
        BY <2>3, <3>1
    <2> QED
      BY <2>1, <2>2, <2>3
  <1> HIDE DEF n, D
  <1>4. \A s \in Setscene : sqdata.revdeps[s] \subseteq Decided(n) => s \in n.buildable
    BY <1>1, <1>2
  <1>5. Decided(n) \subseteq n.running \cap n.buildable \cap n.done
    BY <1>1, <1>2, <1>3
  <1>6. \A s \in n.harddeferred :
          rqdata.harddeps[s] \subseteq n.needed_harddeps /\ ~(rqdata.harddeps[s] \subseteq Decided(n))
    BY <1>1, <1>2
  <1>7. /\ n.running \subseteq Decided(n) \cup n.live \cup X
        /\ n.needed_harddeps \subseteq n.buildable
        /\ sqdata.unskippable \ Setscene \subseteq n.done
    BY <1>1, <1>2, <1>3
  <1>8. \A d \in Tasks \ Setscene : revdeps(d) # {} /\ revdeps(d) \subseteq n.done => d \in n.done
    BY <1>1, <1>3
  <1>9. Moving(n, X)
    BY <1>4, <1>5, <1>6, <1>7, <1>8 DEF Moving
  <1> QED
    BY <1>9 DEF n

\* Only what these fields hold counts
LEMMA SameMoving ==
  ASSUME NEW q, NEW n, NEW X, Moving(q, X),
         n.running = q.running, n.live = q.live, n.covered = q.covered,
         n.notcovered = q.notcovered, n.done = q.done, n.buildable = q.buildable,
         n.needed_harddeps = q.needed_harddeps, n.harddeferred = q.harddeferred
  PROVE  Moving(n, X)
  BY DEF Moving, Decided

LEMMA SkipMoving ==
  ASSUME Graph, NEW q \in SQType, NEW t \in Setscene, NEW X, Moving(q, X)
  PROVE  Moving(sq_task_skip(q, t), X \ {t})
  <1> DEFINE p == [q EXCEPT !.running = @ \cup {t}, !.buildable = @ \cup {t}, !.covered = @ \cup {t}]
  <1>1. /\ p \in SQType
        /\ p.running = q.running \cup {t} /\ p.covered = q.covered \cup {t}
        /\ p.buildable = q.buildable \cup {t}
        /\ p.live = q.live /\ p.notcovered = q.notcovered /\ p.done = q.done
        /\ p.needed_harddeps = q.needed_harddeps /\ p.harddeferred = q.harddeferred
    BY DEF SQType
  <1>2. sq_task_skip(q, t) = scenequeue_updatecounters(p, {t})
    BY DEF sq_task_skip
  <1> HIDE DEF p
  <1>3. Decided(p) = Decided(q) \cup {t}
    BY <1>1 DEF Decided
  <1>4. p.running \subseteq Decided(p) \cup p.live \cup (X \ {t})
    BY <1>1, <1>3 DEF Moving
  <1>5. Decided(p) \subseteq p.running \cap p.buildable /\ Decided(p) \subseteq p.done \cup {t}
    BY <1>1, <1>3 DEF Moving
  <1>6. \A s \in Setscene : sqdata.revdeps[s] \subseteq Decided(p) /\ sqdata.revdeps[s] \cap {t} = {}
                              => s \in p.buildable
    BY <1>1, <1>3 DEF Moving
  <1>7. /\ p.needed_harddeps \subseteq p.buildable
        /\ \A s \in p.harddeferred : rqdata.harddeps[s] \subseteq p.needed_harddeps
        /\ sqdata.unskippable \ Setscene \subseteq p.done
    BY <1>1 DEF Moving
  <1> QED
    BY <1>1, <1>2, <1>4, <1>5, <1>6, <1>7, UpdateMoving

LEMMA FailMoving ==
  ASSUME Graph, NEW q \in SQType, NEW t \in Setscene, t \notin Decided(q), NEW X, Moving(q, X)
  PROVE  Moving(sq_task_failoutright(q, t), X \ {t})
  <1> DEFINE F == FailingWith(q, t)
             p == [q EXCEPT !.running = @ \cup F, !.buildable = @ \cup F, !.notcovered = @ \cup F]
  <1>1. t \in F /\ F \in SUBSET Setscene
    BY FailWalk
  <1>2. sq_task_failoutright(q, t) = scenequeue_updatecounters(p, F)
    BY DEF sq_task_failoutright
  <1> HIDE DEF F
  <1>3. /\ p \in SQType
        /\ p.running = q.running \cup F /\ p.covered = q.covered
        /\ p.buildable = q.buildable \cup F
        /\ p.live = q.live /\ p.notcovered = q.notcovered \cup F /\ p.done = q.done
        /\ p.needed_harddeps = q.needed_harddeps /\ p.harddeferred = q.harddeferred
    BY <1>1 DEF SQType
  <1> HIDE DEF p
  <1>4. Decided(p) = Decided(q) \cup F
    BY <1>3 DEF Decided
  <1>5. p.running \subseteq Decided(p) \cup p.live \cup (X \ {t})
    BY <1>1, <1>3, <1>4 DEF Moving
  <1>6. Decided(p) \subseteq p.running \cap p.buildable /\ Decided(p) \subseteq p.done \cup F
    BY <1>3, <1>4 DEF Moving
  <1>7. \A s \in Setscene : sqdata.revdeps[s] \subseteq Decided(p) /\ sqdata.revdeps[s] \cap F = {}
                              => s \in p.buildable
    BY <1>3, <1>4 DEF Moving
  <1>8. /\ p.needed_harddeps \subseteq p.buildable
        /\ \A s \in p.harddeferred : rqdata.harddeps[s] \subseteq p.needed_harddeps
        /\ sqdata.unskippable \ Setscene \subseteq p.done
    BY <1>3 DEF Moving
  <1> QED
    BY <1>1, <1>2, <1>3, <1>5, <1>6, <1>7, <1>8, UpdateMoving

LEMMA UpdateDataMoving ==
  ASSUME Graph, NEW q \in SQType, NEW t \in Setscene, NEW valid \in BOOLEAN, Moving(q, {})
  PROVE  Moving(update_scenequeue_data(q, t, valid), {})
  <1> DEFINE p == [q EXCEPT !.outrightfail = @ \ {t}]
             r == [p EXCEPT !.outrightfail = @ \cup {t}]
  <1>1. p \in SQType /\ Moving(p, {})
    BY SameMoving DEF SQType
  <1>2. Moving(r, {})
    <2>1. /\ r.running = q.running /\ r.live = q.live /\ r.covered = q.covered
          /\ r.notcovered = q.notcovered /\ r.done = q.done /\ r.buildable = q.buildable
          /\ r.needed_harddeps = q.needed_harddeps /\ r.harddeferred = q.harddeferred
      BY DEF SQType
    <2> QED
      BY <2>1, SameMoving
  <1>3. update_scenequeue_data(q, t, valid) \in {sq_task_skip(p, t), p, r}
    BY DEF update_scenequeue_data
  <1> HIDE DEF p, r
  <1>4. Moving(sq_task_skip(p, t), {} \ {t})
    BY <1>1, SkipMoving
  <1>5. {} \ {t} = {}
    OBVIOUS
  <1> QED
    BY <1>1, <1>2, <1>3, <1>4, <1>5

LEMMA NextMoving ==
  ASSUME Graph, NEW q \in SQType, NEW t, NEW valid \in BOOLEAN, Moving(q, {})
  PROVE  Moving(NextDeferred(q, t, valid), {})
  <1> DEFINE W == {x \in DOMAIN q.deferred : q.deferred[x] = t}
             found == CHOOSE x \in W : \A y \in W : x <= y
             rest == [x \in DOMAIN q.deferred \ {found} |->
                        IF q.deferred[x] = t THEN found ELSE q.deferred[x]]
             p == [q EXCEPT !.deferred = rest]
  <1>1. PICK S \in SUBSET Setscene : q.deferred \in [S -> Setscene]
    BY DEF SQType, Deferrals
  <1>2. CASE W = {}
    BY <1>2 DEF NextDeferred
  <1>3. CASE W # {}
    <2>1. W \in SUBSET Nat /\ W \subseteq Setscene
      BY <1>1 DEF Graph, Build, Setscene
    <2>2. \E x \in W : \A y \in W : x <= y
      BY <1>3, <2>1, Least
    <2>3. found \in Setscene
      BY <2>1, <2>2
    <2>4. NextDeferred(q, t, valid) = update_scenequeue_data(p, found, valid)
      BY <1>3 DEF NextDeferred
    <2> HIDE DEF found, W
    <2>5. rest \in [S \ {found} -> Setscene]
      BY <1>1, <2>3
    <2>6. rest \in Deferrals
      BY <2>5 DEF Deferrals
    <2> HIDE DEF rest
    <2>7. p \in SQType /\ Moving(p, {})
      BY <2>6, SameMoving DEF SQType
    <2> HIDE DEF p
    <2> QED
      BY <2>3, <2>4, <2>7, UpdateDataMoving
  <1> QED
    BY <1>2, <1>3

LEMMA InitMoving ==
  ASSUME Graph, NEW valid \in SUBSET Setscene
  PROVE  Moving(InitialScene(valid), {})
  <1> DEFINE P == {s \in Setscene : Present(s)}
             p == [EmptyScene EXCEPT
                     !.running = P, !.covered = P, !.buildable = @ \cup P,
                     !.outrightfail = Setscene \ (P \cup valid \cup DOMAIN sqdata.deferred)]
  <1>1. InitialScene(valid) = scenequeue_updatecounters(p, P)
    BY DEF InitialScene
  <1>2. /\ p \in SQType /\ p.running = P /\ p.live = {} /\ p.covered = P
        /\ p.notcovered = {} /\ p.done = sqdata.unskippable \ Setscene
        /\ p.buildable = {s \in Setscene : sqdata.revdeps[s] = {}} \cup P
        /\ p.needed_harddeps = {} /\ p.harddeferred = {}
    BY DEF EmptyScene, SQType, Graph, SQDataType
  <1> HIDE DEF p
  <1>3. Decided(p) = P
    BY <1>2 DEF Decided
  <1>4. \A s \in Setscene : sqdata.revdeps[s] \subseteq P /\ sqdata.revdeps[s] \cap P = {} => s \in p.buildable
    BY <1>2
  <1>5. P \in SUBSET Setscene
    OBVIOUS
  <1> HIDE DEF P
  <1> QED
    BY <1>1, <1>2, <1>3, <1>4, <1>5, UpdateMoving

\* Where the loop over the setscene tasks has passed over some
LEMMA PassedMoving ==
  ASSUME NEW q \in SQType, sq \in SQType, Moving(sq, {}), NEW D \in SUBSET PassedOver,
         q.running = sq.running, q.live = sq.live, q.covered = sq.covered,
         q.notcovered = sq.notcovered, q.done = sq.done, q.buildable = sq.buildable,
         q.needed_harddeps = sq.needed_harddeps, q.harddeferred = sq.harddeferred \cup D
  PROVE  Moving(q, {})
  <1>1. Decided(q) = Decided(sq)
    BY DEF Decided
  <1>2. \A s \in D : rqdata.harddeps[s] \subseteq sq.needed_harddeps /\ ~(rqdata.harddeps[s] \subseteq Decided(sq))
    BY DEF PassedOver, WaitsForHard
  <1> QED
    BY <1>1, <1>2 DEF Moving

LEMMA PassingMoving ==
  ASSUME RQInv, Moving(sq, {}), NEW q \in Passing
  PROVE  Moving(q, {}) /\ q.buildable = sq.buildable /\ q.needed_harddeps = sq.needed_harddeps
  <1>1. PassedOver \subseteq Setscene /\ sq \in SQType
    BY DEF PassedOver, Candidates, RQInv, Scene, SQType
  <1>2. PICK D \in SUBSET PassedOver : q = [sq EXCEPT !.harddeferred = @ \cup D]
    BY DEF Passing
  <1>3. /\ q \in SQType /\ q.running = sq.running /\ q.live = sq.live /\ q.covered = sq.covered
        /\ q.notcovered = sq.notcovered /\ q.done = sq.done /\ q.buildable = sq.buildable
        /\ q.needed_harddeps = sq.needed_harddeps /\ q.harddeferred = sq.harddeferred \cup D
    BY <1>1, <1>2 DEF SQType
  <1> QED
    BY <1>1, <1>3, PassedMoving

LEMMA SqMoving ==
  ASSUME RQInv, Moving(sq, {})
  PROVE  Sq \in SQType /\ Moving(Sq, {})
  <1>1. PassedOver \subseteq Setscene /\ sq \in SQType
    BY DEF PassedOver, Candidates, RQInv, Scene, SQType
  <1>3. /\ Sq \in SQType /\ Sq.running = sq.running /\ Sq.live = sq.live /\ Sq.covered = sq.covered
        /\ Sq.notcovered = sq.notcovered /\ Sq.done = sq.done /\ Sq.buildable = sq.buildable
        /\ Sq.needed_harddeps = sq.needed_harddeps /\ Sq.harddeferred = sq.harddeferred \cup PassedOver
    BY <1>1 DEF Sq, SQType
  <1> QED
    BY <1>1, <1>3, PassedMoving

\* A candidate that no longer waits for another task
LEMMA FreedMoving ==
  ASSUME RQInv, Moving(sq, {}), NEW q \in Passing, NEW t
  PROVE  LET p == [q EXCEPT !.deferred = Without(@, t)] IN
           p \in SQType /\ Moving(p, {}) /\ Decided(p) = Decided(sq)
  <1> DEFINE p == [q EXCEPT !.deferred = Without(@, t)]
  <1>1. /\ p \in SQType /\ q \in SQType /\ p.covered = sq.covered /\ p.notcovered = sq.notcovered
    BY NoLongerDeferred, PassingScene
  <1>2. Moving(q, {})
    BY PassingMoving
  <1>3. Moving(p, {})
    BY <1>1, <1>2, SameMoving DEF SQType
  <1> QED
    BY <1>1, <1>3 DEF Decided

\* Every step keeps it
LEMMA MovingKept ==
  ASSUME UNCHANGED <<rqdata, sqdata>>, NEW q, Moving(q, {}), q = sq'
  PROVE  Moving(sq, {})'
  <1>1. /\ Tasks' = Tasks /\ Setscene' = Setscene
        /\ \A d : revdeps(d)' = revdeps(d)
    BY DEF Tasks, Setscene, revdeps, depends
  <1> QED
    BY <1>1 DEF Moving, Decided

-----------------------------------------------------------------------------
(* What holds when every setscene task is decided *)

LEMMA AllDone ==
  ASSUME RQInv, Moving(sq, {}), Undecided = {}
  PROVE  Tasks \subseteq sq.done
  <1> DEFINE X == Tasks \ sq.done
  <1>1. SUFFICES ASSUME X # {} PROVE FALSE
    OBVIOUS
  <1>2. PICK t \in X : \A u \in X : t \notin depends(u)
    <2>1. X \in (SUBSET Tasks) \ {{}}
      BY <1>1
    <2> HIDE DEF X
    <2> QED
      BY <2>1 DEF RQInv, Graph, Build, Acyclic, Tasks, depends
  <1>3. t \notin Setscene
    BY <1>2 DEF Moving, Undecided
  <1>4. revdeps(t) \subseteq sq.done
    BY <1>2 DEF revdeps
  <1>5. CASE revdeps(t) = {}
    BY <1>2, <1>3, <1>5 DEF RQInv, Graph, Moving
  <1>6. CASE revdeps(t) # {}
    BY <1>2, <1>3, <1>4, <1>6 DEF Moving
  <1> QED
    BY <1>5, <1>6

\* Every task is covered or not, and none is held off
LEMMA AllSettled ==
  ASSUME RQInv, Moving(sq, {}), UpToDate, Undecided = {}
  PROVE  Tasks \subseteq Cov \cup NCov /\ Hold = {}
  <1>1. CASE ~sq.need_update
    BY <1>1 DEF UpToDate, Cov, NCov, Hold
  <1>2. CASE sq.need_update
    <2>1. Hold = {}
      BY <1>2 DEF Hold, Holdoff
    <2>2. ASSUME NEW t \in Tasks PROVE t \in Covered \cup NotCovered
      <3>1. t \in sq.done
        BY AllDone
      <3>2. CASE t \in Setscene
        BY <3>1, <3>2 DEF Undecided, Decided, Covered, NotCovered
      <3>3. CASE t \in sqdata.unskippable \ Setscene
        BY <3>1, <3>3 DEF NotCovered
      <3>4. CASE t \notin Setscene \cup sqdata.unskippable
        <4>1. PICK s \in Setscene : t \in sqdata.covered_tasks[s]
          BY <3>4, NobodyForgotten DEF RQInv
        <4>2. s \in sq.covered \cup sq.notcovered
          BY DEF Undecided, Decided
        <4>3. CASE s \in sq.notcovered
          BY <3>1, <4>1, <4>3 DEF NotCovered
        <4>4. CASE s \in sq.covered
          BY <3>1, <4>1, <4>4 DEF Covered
        <4> QED
          BY <4>2, <4>3, <4>4
      <3> QED
        BY <3>2, <3>3, <3>4
    <2> QED
      BY <1>2, <2>1, <2>2 DEF Cov, NCov
  <1> QED
    BY <1>1, <1>2

\* What is covered or not, and has all it depends on, is buildable
LEMMA ReadyBuildable ==
  ASSUME UpToDate
  PROVE  Ready(Cov \cup NCov, runq_complete) \subseteq Buildable
  BY DEF UpToDate, Buildable, Cov, NCov

LEMMA NoSceneErrors ==
  ASSUME RQInv, Moving(sq, {}), UpToDate, Undecided = {}, DOMAIN sq.deferred = {}
  PROVE  ~SceneErrors
  <1>1. Tasks \subseteq Cov \cup NCov /\ Hold = {} /\ Tasks \subseteq sq.done
    BY AllSettled, AllDone
  <1>2. \A t \in Tasks : depends(t) = {} => t \in Buildable
    BY <1>1, ReadyBuildable DEF Ready
  <1>3. Setscene \subseteq Decided(sq) \cap sq.buildable \cap sq.running
    BY DEF Moving, Undecided
  <1> QED
    BY <1>1, <1>2, <1>3 DEF SceneErrors

LEMMA SettledDecides ==
  ASSUME RQInv, SceneSettled
  PROVE  Undecided = {} /\ DOMAIN sq.deferred = {}
  BY PassKnows DEF SceneSettled, Holdoff

\* When nobody is at work
LEMMA NobodyAtWork ==
  ASSUME RQInv, ~rqdata.enforce, ~(active > 0 \/ Live # {})
  PROVE  executing = {} /\ Live = {} /\ can_start_task
  <1>1. /\ active = Cardinality(executing) /\ Cardinality(executing) \in Nat /\ IsFiniteSet(executing)
        /\ rqdata.threads \in Nat \ {0}
    BY Numbers DEF RQInv, ActiveCounts, Graph, Build
  <1>2. Cardinality(executing) = 0 /\ Cardinality({}) = 0
    BY <1>1, FS_EmptySet
  <1> QED
    BY <1>1, <1>2, FS_EmptySet DEF can_start_task

\* If the loop over the setscene tasks finds none to stop at, and nobody is at
\* work, all of them are decided: of the undecided ones that are buildable one
\* needs no other of them
LEMMA IdleDecides ==
  ASSUME RQInv, Moving(sq, {}), Stage, Acyclic(Setscene, rqdata.harddeps),
         SceneTurn => Candidates \subseteq PassedOver,
         ~rqdata.enforce, ~(active > 0 \/ Live # {}), DOMAIN sq.deferred = {}
  PROVE  Undecided = {}
  <1>1. SUFFICES ASSUME Undecided # {}, ~sqdone PROVE FALSE
    BY DEF Stage
  <1>2. executing = {} /\ Live = {} /\ SceneTurn
    BY <1>1, NobodyAtWork DEF SceneTurn
  <1>3. IsFiniteSet(Setscene) /\ rqdata.harddeps \in [Setscene -> SUBSET Setscene]
    BY FS_Subset DEF RQInv, Graph, Build, Setscene
  <1> DEFINE U == Undecided \cap sq.buildable
  <1>4. U # {}
    <2>1. PICK s \in Undecided : sqdata.revdeps[s] \cap Undecided = {}
      BY <1>1, SceneTop DEF RQInv, Undecided
    <2>2. sqdata.revdeps[s] \subseteq Decided(sq)
      BY <2>1 DEF RQInv, Graph, SQDataType, Undecided
    <2> QED
      BY <2>1, <2>2 DEF Moving, Undecided
  <1>5. PICK r \in U : rqdata.harddeps[r] \cap U = {}
    <2>1. U \in SUBSET Setscene
      BY DEF Undecided
    <2> HIDE DEF U
    <2> QED
      BY <1>3, <1>4, <2>1, AcyclicBottom
  <1>6. r \in Setscene /\ r \in sq.buildable /\ r \notin Decided(sq)
    BY DEF Undecided
  <1>7. ~(rqdata.harddeps[r] \subseteq sq.needed_harddeps /\ ~(rqdata.harddeps[r] \subseteq Decided(sq)))
    BY <1>3, <1>5, <1>6 DEF Moving, Undecided
  <1>8. r \notin sq.running \cup sq.harddeferred
    BY <1>2, <1>6, <1>7 DEF Moving, Live
  <1>9. r \in Candidates
    BY <1>2, <1>6, <1>8 DEF Candidates
  <1> QED
    BY <1>2, <1>7, <1>9 DEF PassedOver, WaitsForHard

-----------------------------------------------------------------------------
(* What holds when the build ends by itself *)

LEMMA LostClosed ==
  ASSUME Graph, failed_tids \subseteq Tasks
  PROVE  /\ failed_tids \subseteq Lost /\ Lost \subseteq Tasks
         /\ \A t \in Tasks : depends(t) \cap Lost # {} => t \in Lost
         /\ failed_tids = {} => Lost = {}
  <1> DEFINE closed(X) == failed_tids \subseteq X /\ \A u \in X : revdeps(u) \subseteq X
  <1>1. \A t : t \in Lost <=> t \in Tasks /\ \A X \in SUBSET Tasks : closed(X) => t \in X
    BY DEF Lost, Closure
  <1>2. \A t \in Tasks : \A d : d \in depends(t) <=> t \in revdeps(d) /\ d \in depends(t)
    BY DEF revdeps
  <1>3. failed_tids = {} => closed({})
    OBVIOUS
  <1>4. \A t \in Tasks : depends(t) \cap Lost # {} => t \in Lost
    BY <1>1, <1>2
  <1> QED
    BY <1>1, <1>3, <1>4

\* Of what is neither lost nor complete, something could be chosen
LEMMA NothingLeft ==
  ASSUME RQInv, EndInv, ~rqdata.enforce, ~(active > 0 \/ Live # {}), Undecided = {},
         ~rqdata.setsceneonly, Eligible = {}, failed_tids = {} \/ rqdata.limited = {}
  PROVE  Tasks \ Lost \subseteq runq_complete
  <1> DEFINE X == Tasks \ (Lost \cup runq_complete)
  <1>1. SUFFICES ASSUME X # {} PROVE FALSE
    OBVIOUS
  <1>2. executing = {} /\ can_start_task
    BY NobodyAtWork
  <1>3. Tasks \subseteq Cov \cup NCov /\ Hold = {}
    BY AllSettled DEF EndInv
  <1>4. PICK t \in X : depends(t) \cap X = {}
    <2>1. X \in SUBSET Tasks
      OBVIOUS
    <2>2. IsFiniteSet(Tasks) /\ rqdata.depends \in [Tasks -> SUBSET Tasks] /\ Acyclic(Tasks, rqdata.depends)
      BY DEF RQInv, Graph, Build, Tasks
    <2> HIDE DEF X
    <2> QED
      BY <1>1, <2>1, <2>2, AcyclicBottom DEF depends
  <1>5. failed_tids \subseteq Lost /\ \A u \in Tasks : depends(u) \cap Lost # {} => u \in Lost
    BY LostClosed DEF RQInv, TypeOK
  <1>6. depends(t) \subseteq runq_complete
    BY <1>4, <1>5 DEF RQInv, Graph, Build, Tasks, depends
  <1>7. t \in Buildable
    BY <1>3, <1>4, <1>6, ReadyBuildable DEF EndInv, Ready
  <1>8. runq_running \subseteq runq_complete \cup failed_tids
    BY <1>2 DEF EndInv, Accounted
  <1>9. NameFree(t)
    BY <1>8 DEF NameFree
  <1>10. t \notin runq_running
    BY <1>4, <1>5, <1>8
  <1> QED
    BY <1>2, <1>3, <1>4, <1>7, <1>9, <1>10 DEF Eligible

LEMMA SoundHere ==
  ASSUME Sound, RQInv
  PROVE  Acyclic(Setscene, rqdata.harddeps) /\ (rqdata.setsceneonly => Setscene # {})
  BY DEF Sound, RQInv, TypeOK, Setscene

LEMMA EndBuildEnds ==
  ASSUME Sound, RQInv, EndInv, Scheduling, EndBuild
  PROVE  Ending'
  <1>1. UNCHANGED <<rqdata, failed_tids, runq_complete, stopped>> /\ inpass' = FALSE
    BY DEF EndBuild, Idle, NoTask, work, Scheduling, TaskTurn, Choosing
  <1>2. state' \in {"complete", "failed"}
    BY DEF EndBuild
  <1>3. Lost' = Lost
    BY <1>1 DEF Lost, Closure, Tasks, revdeps, depends
  <1>4. SUFFICES ASSUME ~rqdata.enforce
                 PROVE  /\ state' = "complete" <=> failed_tids = {}
                        /\ ~rqdata.setsceneonly /\ (failed_tids = {} \/ (~rqdata.halt /\ rqdata.limited = {}))
                             => Tasks \ Lost \subseteq runq_complete
    BY <1>1, <1>2, <1>3 DEF Ending, AllThatCanBe, Tasks
  <1>5. /\ ~(active > 0 \/ Live # {}) /\ Eligible = {} /\ DOMAIN sq.deferred = {}
        /\ SceneTurn => Candidates \subseteq PassedOver
    BY DEF EndBuild, Idle, NoTask, Scheduling, TaskTurn
  <1>6. Undecided = {}
    BY <1>4, <1>5, IdleDecides, SoundHere DEF EndInv
  <1>7. Hold = {} /\ ~SceneErrors
    BY <1>5, <1>6, AllSettled, NoSceneErrors DEF EndInv
  <1>8. ~rqdata.setsceneonly
    BY <1>5, <1>7, SoundHere DEF Scheduling, SceneSettled, EndInv, Stage
  <1>9. failed_tids = {} \/ rqdata.limited = {} => Tasks \ Lost \subseteq runq_complete
    BY <1>4, <1>5, <1>6, <1>8, NothingLeft
  <1>10. failed_tids = {} => Tasks \subseteq Buildable \cap runq_running \cap runq_complete
    <2>1. failed_tids = {} => Lost = {}
      BY LostClosed DEF RQInv, TypeOK
    <2>2. runq_complete \subseteq runq_running /\ runq_complete \subseteq Buildable
      BY DEF RQInv, Queue, EndInv, Accounted, Buildable
    <2> QED
      BY <1>9, <2>1, <2>2
  <1>11. state' = "complete" <=> failed_tids = {}
    BY <1>7, <1>10 DEF EndBuild
  <1> QED
    BY <1>9, <1>11

LEMMA SceneEndsEnds ==
  ASSUME RQInv, EndInv, SceneEnds
  PROVE  Ending'
  <1>1. UNCHANGED <<rqdata, failed_tids, stopped>> /\ inpass' = FALSE
    BY DEF SceneEnds, work, TaskTurn, Choosing
  <1>2. Undecided = {} /\ DOMAIN sq.deferred = {}
    BY SettledDecides DEF SceneEnds
  <1>3. ~SceneErrors
    BY <1>2, NoSceneErrors DEF EndInv
  <1>4. rqdata.setsceneonly /\ state' = "complete"
    BY <1>3 DEF SceneEnds
  <1>5. failed_tids = {}
    BY <1>4 DEF EndInv, Stage
  <1> QED
    BY <1>1, <1>4, <1>5 DEF Ending, AllThatCanBe

\* The build goes on
LEMMA GoesOn ==
  ASSUME EndInv, UNCHANGED <<rqdata, stopped>>, failed_tids \subseteq failed_tids',
         state' \in {"running", "cleanup"},
         state' = state \/ rqdata.enforce \/ (failed_tids' # {} /\ rqdata.halt)
  PROVE  Ending'
  BY DEF EndInv, Ending, AllThatCanBe

LEMMA StopEnds ==
  ASSUME EndInv, Stop \/ StopNow \/ Finish \/ Over \/ UNCHANGED vars
  PROVE  Ending'
  <1>1. CASE Stop \/ StopNow
    BY <1>1 DEF Stop, StopNow, Ending, AllThatCanBe
  <1>2. CASE Finish
    BY <1>2 DEF Finish, Ended, work, EndInv, Ending, AllThatCanBe
  <1>3. CASE UNCHANGED vars
    <2>1. UNCHANGED <<rqdata, state, inpass, stopped, failed_tids, runq_complete>>
      BY <1>3 DEF vars, work, runq
    <2>2. Lost' = Lost /\ Tasks' = Tasks
      BY <2>1 DEF Lost, Closure, Tasks, revdeps, depends
    <2> QED
      BY <2>1, <2>2 DEF EndInv, Ending, AllThatCanBe
  <1> QED
    BY <1>1, <1>2, <1>3 DEF Over

-----------------------------------------------------------------------------
(* The setscene queue moves on with every step *)

LEMMA SceneMoves ==
  ASSUME RQInv, Moving(sq, {}), NEW t, ScenePart(t)
  PROVE  Moving(sq', {}) /\ Follows(sq, sq')
  <1> DEFINE freed(q) == [q EXCEPT !.deferred = Without(@, t)]
  <1>1. Stops(t)
    BY DEF ScenePart, SkipNotNeeded, AskForHard, FailNow, StartScene, Chosen
  <1>2. t \in Setscene /\ t \notin sq.running /\ t \notin sq.live /\ t \notin Decided(sq)
    BY <1>1, CandidateFree
  <1>3. ASSUME NEW q \in Passing
        PROVE  /\ freed(q) \in SQType /\ Scene(freed(q), restored) /\ Follows(sq, freed(q))
               /\ Moving(freed(q), {}) /\ Decided(freed(q)) = Decided(sq)
               /\ freed(q).live = sq.live /\ freed(q).running = sq.running
               /\ freed(q).notcovered = sq.notcovered /\ freed(q).covered = sq.covered
               /\ freed(q).done = sq.done /\ freed(q).need_update = sq.need_update
    BY <1>3, NoLongerDeferred, FreedMoving
  <1>4. {} \ {t} = {}
    OBVIOUS
  <1>5. CASE SkipNotNeeded(t)
    <2>1. PICK q \in Passing : sq' = sq_task_skip(freed(q), t)
      BY <1>5 DEF SkipNotNeeded
    <2> DEFINE p == freed(q)
               n == sq_task_skip(p, t)
    <2>2. /\ p \in SQType /\ Scene(p, restored) /\ Follows(sq, p) /\ Moving(p, {})
          /\ p.live = sq.live /\ p.notcovered = sq.notcovered /\ p.covered = sq.covered
      BY <1>3
    <2>3. sq' = n
      BY <2>1
    <2> HIDE DEF p
    <2>4. Brought(p, restored, t) /\ t \notin p.live /\ t \notin p.notcovered
      BY <1>2, <1>5, <2>2 DEF SkipNotNeeded, NotNeeded, Brought, Decided
    <2>5. Follows(p, n)
      BY <1>2, <2>2, <2>4, SkipScene DEF RQInv
    <2>6. Moving(n, {})
      BY <1>2, <1>4, <2>2, SkipMoving DEF RQInv
    <2> HIDE DEF n
    <2> QED
      BY <2>2, <2>3, <2>5, <2>6 DEF Follows
  <1>6. CASE FailNow(t)
    <2>1. PICK q \in Passing : sq' = sq_task_failoutright(freed(q), t)
      BY <1>6 DEF FailNow
    <2> DEFINE p == freed(q)
               n == sq_task_failoutright(p, t)
    <2>2. /\ p \in SQType /\ Scene(p, restored) /\ Follows(sq, p) /\ Moving(p, {})
          /\ p.live = sq.live /\ Decided(p) = Decided(sq)
      BY <1>3
    <2>3. sq' = n
      BY <2>1
    <2> HIDE DEF p
    <2>4. t \notin p.live /\ t \notin Decided(p)
      BY <1>2, <2>2
    <2>5. Follows(p, n)
      BY <1>2, <2>2, <2>4, FailScene DEF RQInv
    <2>6. Moving(n, {})
      BY <1>2, <1>4, <2>2, <2>4, FailMoving DEF RQInv
    <2> HIDE DEF n
    <2> QED
      BY <2>2, <2>3, <2>5, <2>6 DEF Follows
  <1>7. CASE AskForHard(t)
    <2>1. PICK q \in Passing :
            sq' = [q EXCEPT !.buildable = @ \cup rqdata.harddeps[t],
                            !.needed_harddeps = @ \cup rqdata.harddeps[t],
                            !.harddeferred = @ \cup {t}]
      BY <1>7 DEF AskForHard
    <2>2. q \in SQType /\ Follows(sq, q) /\ q.covered = sq.covered /\ q.notcovered = sq.notcovered /\ Moving(q, {})
      BY PassingScene, PassingMoving
    <2>3. /\ sq'.running = q.running /\ sq'.live = q.live /\ sq'.covered = q.covered
          /\ sq'.notcovered = q.notcovered /\ sq'.done = q.done /\ sq'.need_update = q.need_update
          /\ sq'.buildable = q.buildable \cup rqdata.harddeps[t]
          /\ sq'.needed_harddeps = q.needed_harddeps \cup rqdata.harddeps[t]
          /\ sq'.harddeferred = q.harddeferred \cup {t}
      BY <2>1, <2>2 DEF SQType
    <2>4. ~(rqdata.harddeps[t] \subseteq Decided(sq))
      BY <1>7 DEF AskForHard, WaitsForHard
    <2>5. Decided(sq') = Decided(q) /\ Decided(q) = Decided(sq)
      BY <2>2, <2>3 DEF Decided
    <2> QED
      BY <2>2, <2>3, <2>4, <2>5 DEF Moving, Follows
  <1>8. CASE StartScene(t)
    <2>1. PICK q \in Passing :
            sq' = [q EXCEPT !.deferred = Without(@, t), !.running = @ \cup {t}, !.live = @ \cup {t}]
      BY <1>8 DEF StartScene
    <2> DEFINE p == freed(q)
    <2>2. p \in SQType /\ Follows(sq, p) /\ Moving(p, {})
      BY <1>3
    <2>3. sq' = [p EXCEPT !.running = @ \cup {t}, !.live = @ \cup {t}]
      BY <2>1, PassingScene DEF SQType
    <2> HIDE DEF p
    <2>4. /\ sq'.running = p.running \cup {t} /\ sq'.live = p.live \cup {t} /\ sq'.covered = p.covered
          /\ sq'.notcovered = p.notcovered /\ sq'.done = p.done /\ sq'.need_update = p.need_update
          /\ sq'.buildable = p.buildable /\ sq'.needed_harddeps = p.needed_harddeps
          /\ sq'.harddeferred = p.harddeferred
      BY <2>2, <2>3 DEF SQType
    <2>5. Decided(sq') = Decided(p)
      BY <2>4 DEF Decided
    <2> QED
      BY <2>2, <2>4, <2>5 DEF Moving, Follows
  <1> QED
    BY <1>5, <1>6, <1>7, <1>8 DEF ScenePart

LEMMA AnswerMoves ==
  ASSUME RQInv, Moving(sq, {}), NEW t \in Tasks, Answers(t)
  PROVE  Moving(sq', {}) /\ Follows(sq, sq')
  <1> DEFINE p == [sq EXCEPT !.live = @ \ {t}]
  <1>1. ASSUME t \in Live
        PROVE  /\ p \in SQType /\ Scene(p, restored) /\ Follows(sq, p) /\ Moving(p, {t})
               /\ t \in Setscene /\ t \notin Decided(p) /\ t \notin p.live
    <2>1. /\ Scene(p, restored) /\ Follows(sq, p) /\ p.live = Live \ {t}
          /\ t \in Setscene /\ t \notin Decided(p)
      BY <1>1, NotLive
    <2>2. /\ p.running = sq.running /\ p.covered = sq.covered
          /\ p.notcovered = sq.notcovered /\ p.done = sq.done /\ p.buildable = sq.buildable
          /\ p.needed_harddeps = sq.needed_harddeps /\ p.harddeferred = sq.harddeferred
      BY DEF RQInv, Scene, SQType
    <2> HIDE DEF p
    <2>3. Decided(p) = Decided(sq)
      BY <2>2 DEF Decided
    <2>4. Moving(p, {t})
      BY <2>1, <2>2, <2>3 DEF Moving, Live
    <2> QED
      BY <2>1, <2>4 DEF Scene
  <1>2. {t} \ {t} = {}
    OBVIOUS
  <1>3. CASE Restored(t)
    <2> DEFINE n == sq_task_skip(p, t)
    <2>1. t \in Live /\ sq' = n
      BY <1>3 DEF Restored
    <2> HIDE DEF p
    <2>2. Brought(p, restored \cup {t}, t) /\ Scene(p, restored \cup {t}) /\ t \notin p.notcovered
      BY <1>1, <2>1, MoreRestored DEF Brought, Decided
    <2>3. Follows(p, n)
      BY <1>1, <2>1, <2>2, SkipScene DEF RQInv
    <2>4. Moving(n, {})
      BY <1>1, <1>2, <2>1, SkipMoving DEF RQInv
    <2> HIDE DEF n
    <2> QED
      BY <1>1, <2>1, <2>3, <2>4 DEF Follows
  <1>4. CASE NotRestored(t)
    <2> DEFINE n == sq_task_failoutright(p, t)
    <2>1. t \in Live /\ sq' = n
      BY <1>4 DEF NotRestored
    <2> HIDE DEF p
    <2>3. Follows(p, n)
      BY <1>1, <2>1, FailScene DEF RQInv
    <2>4. Moving(n, {})
      BY <1>1, <1>2, <2>1, FailMoving DEF RQInv
    <2> HIDE DEF n
    <2> QED
      BY <1>1, <2>1, <2>3, <2>4 DEF Follows
  <1>5. CASE task_complete(t)
    <2>1. PICK valid \in BOOLEAN : sq' = NextDeferred(sq, t, valid)
      BY <1>5 DEF task_complete
    <2>2. Follows(sq, NextDeferred(sq, t, valid)) /\ Moving(NextDeferred(sq, t, valid), {})
      BY NextScene, NextMoving DEF RQInv, Scene
    <2> QED
      BY <2>1, <2>2
  <1>6. CASE task_fail(t)
    BY <1>6 DEF task_fail, Follows
  <1> QED
    BY <1>3, <1>4, <1>5, <1>6 DEF Answers

LEMMA TaskMoves ==
  ASSUME RQInv, Moving(sq, {}), SceneEnds \/ Schedule
  PROVE  Moving(sq', {}) /\ Follows(Sq, sq') /\ Sq.covered = sq.covered /\ Sq.notcovered = sq.notcovered
  <1>1. /\ Sq \in SQType /\ Moving(Sq, {}) /\ Scene(Sq, restored)
        /\ Sq.covered = sq.covered /\ Sq.notcovered = sq.notcovered
    BY SqMoving, SqScene DEF Sq, RQInv, Scene, SQType
  <1>2. CASE sq' = Sq
    BY <1>1, <1>2 DEF Follows
  <1>3. ASSUME NEW t, NEW valid \in BOOLEAN, sq' = NextDeferred(Sq, t, valid)
        PROVE  Moving(sq', {}) /\ Follows(Sq, sq')
    <2>1. Moving(NextDeferred(Sq, t, valid), {}) /\ Follows(Sq, NextDeferred(Sq, t, valid))
      BY <1>1, NextScene, NextMoving DEF RQInv
    <2> QED
      BY <1>3, <2>1
  <1>4. ASSUME NEW t, sq' = [Sq EXCEPT !.deferred = Without(@, t)]
        PROVE  Moving(sq', {}) /\ Follows(Sq, sq')
    <2>1. /\ sq'.running = Sq.running /\ sq'.live = Sq.live /\ sq'.covered = Sq.covered
          /\ sq'.notcovered = Sq.notcovered /\ sq'.done = Sq.done /\ sq'.need_update = Sq.need_update
          /\ sq'.buildable = Sq.buildable /\ sq'.needed_harddeps = Sq.needed_harddeps
          /\ sq'.harddeferred = Sq.harddeferred
      BY <1>1, <1>4 DEF SQType
    <2> QED
      BY <1>1, <2>1, SameMoving DEF Follows
  <1>5. \/ sq' = Sq
        \/ \E t : \E valid \in BOOLEAN : sq' = NextDeferred(Sq, t, valid)
        \/ \E t : sq' = [Sq EXCEPT !.deferred = Without(@, t)]
    <2>1. CASE SceneEnds
      BY <2>1 DEF SceneEnds
    <2>2. ASSUME NEW t, TaskPart(t)
          PROVE  sq' = Sq \/ \E valid \in BOOLEAN : sq' = NextDeferred(Sq, t, valid)
      BY <2>2 DEF TaskPart, SkipTask, RunNoexec, CompleteNow, StartTask, FailUnexpected
    <2>3. CASE Schedule
      <3>1. \/ \E t \in Eligible : TaskPart(t)
            \/ \E t \in Setscene : sq' = [Sq EXCEPT !.deferred = Without(@, t)]
            \/ sq' = Sq
        BY <2>3 DEF Schedule, ForceDeferred, Wait, EndBuild
      <3>2. ASSUME \E u \in Eligible : TaskPart(u)
            PROVE  sq' = Sq \/ \E u : \E valid \in BOOLEAN : sq' = NextDeferred(Sq, u, valid)
        BY <2>2, <3>2
      <3> QED
        BY <3>1, <3>2
    <2> QED
      BY <2>1, <2>3
  <1> QED
    BY <1>1, <1>2, <1>3, <1>4, <1>5

-----------------------------------------------------------------------------
(* What a pass knows stays enough *)

LEMMA ReadyGrows ==
  ASSUME NEW S \in SUBSET Tasks, NEW C, NEW B, NEW t, Ready(S, C) \subseteq B
  PROVE  Ready(S, C \cup {t}) \subseteq B \cup Ready(revdeps(t), C \cup {t})
  BY DEF Ready, revdeps

\* An answer, or a decision of the setscene part
LEMMA UpToDateKept ==
  ASSUME RQInv, UpToDate, UNCHANGED <<rqdata, sqdata, cover>>, Follows(sq, sq'),
         \/ UNCHANGED <<runq_complete, runq_buildable>>
         \/ \E t : /\ runq_complete' = runq_complete \cup {t}
                   /\ runq_buildable' = runq_buildable \cup Ready(revdeps(t), runq_complete \cup {t})
  PROVE  UpToDate'
  <1>1. SUFFICES ASSUME ~sq'.need_update
                 PROVE  /\ Undecided' = {} => /\ holdoff_tasks = {}
                                              /\ Tasks \subseteq tasks_covered \cup tasks_notcovered
                        /\ Ready(tasks_covered \cup tasks_notcovered, runq_complete') \subseteq runq_buildable'
    BY DEF UpToDate, cover, Tasks, Ready, depends
  <1>2. ~sq.need_update /\ Undecided' = Undecided
    BY <1>1 DEF Follows, Undecided, Decided, Setscene
  <1>3. tasks_covered \cup tasks_notcovered \in SUBSET Tasks
    BY DEF RQInv, TypeOK
  <1>4. Ready(tasks_covered \cup tasks_notcovered, runq_complete) \subseteq runq_buildable
    BY <1>2 DEF UpToDate
  <1> QED
    BY <1>2, <1>3, <1>4, ReadyGrows DEF UpToDate

\* A pass that goes through
LEMMA UpToDateUpdated ==
  ASSUME RQInv, EndInv, UNCHANGED <<rqdata, sqdata>>, Updated, Follows(Sq, sq'),
         Sq.covered = sq.covered, Sq.notcovered = sq.notcovered,
         \/ runq_complete' = runq_complete /\ runq_buildable' = Buildable
         \/ \E t : /\ runq_complete' = runq_complete \cup {t}
                   /\ runq_buildable' = Buildable \cup {t} \cup Ready(revdeps(t), runq_complete \cup {t})
  PROVE  UpToDate'
  <1>1. SUFFICES ASSUME ~sq'.need_update
                 PROVE  /\ Undecided' = {} => Hold = {} /\ Tasks \subseteq Cov \cup NCov
                        /\ Ready(Cov \cup NCov, runq_complete') \subseteq runq_buildable'
    BY DEF UpToDate, Updated, Tasks, Ready, depends
  <1>2. Undecided' = Undecided
    BY <1>1 DEF Follows, Undecided, Decided, Setscene
  <1>3. Undecided = {} => Hold = {} /\ Tasks \subseteq Cov \cup NCov
    BY AllSettled DEF EndInv
  <1>4. Cov \cup NCov \in SUBSET Tasks
    BY PassKnows
  <1>5. Ready(Cov \cup NCov, runq_complete) \subseteq Buildable
    BY ReadyBuildable DEF EndInv
  <1>6. ASSUME NEW t
        PROVE  Ready(Cov \cup NCov, runq_complete \cup {t})
                 \subseteq Buildable \cup Ready(revdeps(t), runq_complete \cup {t})
    BY <1>4, <1>5, ReadyGrows
  <1> QED
    BY <1>2, <1>3, <1>5, <1>6

-----------------------------------------------------------------------------
(* The steps *)

\* Steps that leave the tasks and their numbers alone
LEMMA QuietStep ==
  ASSUME RQInv, EndInv, UNCHANGED <<rqdata, sqdata, runq, cover, work>>,
         Moving(sq', {}), Follows(sq, sq'), Ending'
  PROVE  EndInv'
  <1>1. Moving(sq, {})'
    BY MovingKept
  <1>2. UpToDate'
    BY UpToDateKept DEF EndInv, runq
  <1>3. Accounted'
    BY DEF EndInv, Accounted, runq, work
  <1>4. Undecided' \subseteq Undecided
    BY DEF Follows, Undecided, Decided, Setscene
  <1>5. Stage'
    BY <1>4 DEF EndInv, Stage, cover, work, Setscene
  <1> QED
    BY <1>1, <1>2, <1>3, <1>5 DEF EndInv

LEMMA ScenePartEnd ==
  ASSUME RQInv, EndInv, NEW t, ScenePart(t)
  PROVE  EndInv'
  <1>1. OnlyScene /\ Choosing
    BY DEF ScenePart, SkipNotNeeded, AskForHard, FailNow, StartScene, Chosen, Stops
  <1>2. Moving(sq', {}) /\ Follows(sq, sq')
    BY SceneMoves DEF EndInv
  <1>3. UNCHANGED <<rqdata, sqdata, state, runq, cover, work, stopped, failed_tids>>
    BY <1>1 DEF OnlyScene, work
  <1>4. state \in {"running", "cleanup"}
    BY <1>1 DEF Choosing, EndInv, Ending, RQInv, TypeOK
  <1>5. Ending'
    BY <1>3, <1>4, GoesOn
  <1> QED
    BY <1>2, <1>3, <1>5, QuietStep

LEMMA AnswerEnd ==
  ASSUME RQInv, EndInv, NEW t \in Tasks, Answers(t)
  PROVE  EndInv'
  <1>1. Moving(sq', {}) /\ Follows(sq, sq')
    BY AnswerMoves DEF EndInv
  <1>2. CASE Restored(t) \/ NotRestored(t)
    <2>1. UNCHANGED <<rqdata, sqdata, runq, cover, work, stopped, failed_tids>>
      BY <1>2 DEF Restored, NotRestored, work
    <2>2. /\ state' \in {"running", "cleanup"}
          /\ state' = state \/ rqdata.enforce
      BY <1>2 DEF Restored, NotRestored, Reading
    <2>3. Ending'
      BY <2>1, <2>2, GoesOn
    <2> QED
      BY <1>1, <2>1, <2>3, QuietStep
  <1>3. CASE task_complete(t) \/ task_fail(t)
    <2>1. /\ UNCHANGED <<rqdata, sqdata, cover, stopped, runq_running>>
          /\ t \in executing /\ executing' = executing \ {t}
          /\ state' \in {"running", "cleanup"}
      BY <1>3 DEF task_complete, task_fail, Reading, Halted, runq
    <2>2. \/ /\ runq_complete' = runq_complete \cup {t} /\ failed_tids' = failed_tids
             /\ runq_buildable' = runq_buildable \cup Ready(revdeps(t), runq_complete \cup {t})
             /\ state' = state
          \/ /\ UNCHANGED <<runq_complete, runq_buildable>> /\ failed_tids' = failed_tids \cup {t}
             /\ state' = state \/ rqdata.halt
      BY <1>3 DEF task_complete, task_fail, Halted, runq
    <2>3. Moving(sq, {})'
      BY <1>1, <2>1, MovingKept
    <2>4. UpToDate'
      <3>1. \/ UNCHANGED <<runq_complete, runq_buildable>>
            \/ \E u : /\ runq_complete' = runq_complete \cup {u}
                      /\ runq_buildable' = runq_buildable \cup Ready(revdeps(u), runq_complete \cup {u})
        BY <2>2
      <3> QED
        BY <1>1, <2>1, <3>1, UpToDateKept DEF EndInv
    <2>5. Accounted'
      BY <2>1, <2>2 DEF EndInv, Accounted
    <2>6. Stage'
      <3>1. Undecided' \subseteq Undecided /\ Setscene' = Setscene
        BY <1>1, <2>1 DEF Follows, Undecided, Decided, Setscene
      <3>2. ~rqdata.setsceneonly
        BY <2>1 DEF EndInv, Stage
      <3> QED
        BY <2>1, <3>1, <3>2 DEF EndInv, Stage, cover
    <2>7. Ending'
      BY <2>1, <2>2, GoesOn
    <2> QED
      BY <2>3, <2>4, <2>5, <2>6, <2>7 DEF EndInv
  <1> QED
    BY <1>2, <1>3 DEF Answers

\* What the task part of a pass leaves
LEMMA PassEnd ==
  ASSUME RQInv, EndInv, SceneEnds \/ (Schedule /\ Scheduling),
         \/ runq_complete' = runq_complete /\ runq_buildable' = Buildable
         \/ \E t : /\ runq_complete' = runq_complete \cup {t}
                   /\ runq_buildable' = Buildable \cup {t} \cup Ready(revdeps(t), runq_complete \cup {t}),
         executing' \subseteq runq_buildable',
         ~rqdata.enforce => runq_running' \subseteq runq_complete' \cup executing' \cup failed_tids',
         rqdata.setsceneonly => executing' = {} /\ failed_tids' = {},
         Ending'
  PROVE  EndInv'
  <1>1. /\ UNCHANGED <<rqdata, sqdata>> /\ Updated
        /\ \/ sqdone' = sqdone
           \/ sqdone' = (sqdone \/ SceneSettled) /\ (SceneSettled => ~rqdata.setsceneonly)
    BY DEF SceneEnds, Scheduling, TaskTurn
  <1>2. Moving(sq', {}) /\ Follows(Sq, sq') /\ Sq.covered = sq.covered /\ Sq.notcovered = sq.notcovered
    BY TaskMoves DEF EndInv
  <1>3. Moving(sq, {})'
    BY <1>1, <1>2, MovingKept
  <1>4. UpToDate'
    BY <1>1, <1>2, UpToDateUpdated
  <1>5. Accounted'
    <2>1. runq_complete \subseteq Buildable
      BY DEF EndInv, Accounted, Buildable
    <2> QED
      BY <1>1, <2>1 DEF Accounted
  <1>6. Undecided' \subseteq Undecided /\ Setscene' = Setscene
    BY <1>1, <1>2 DEF Follows, Undecided, Decided, Setscene
  <1>7. SceneSettled => Undecided = {}
    BY SettledDecides
  <1>8. Stage'
    <2>1. sqdone' => Undecided' = {}
      BY <1>1, <1>6, <1>7 DEF EndInv, Stage
    <2>2. sqdone' /\ rqdata.setsceneonly => Setscene = {}
      BY <1>1 DEF EndInv, Stage
    <2> QED
      BY <1>1, <1>6, <2>1, <2>2 DEF Stage
  <1> QED
    BY <1>3, <1>4, <1>5, <1>8 DEF EndInv

LEMMA TaskPartEnd ==
  ASSUME RQInv, EndInv, Schedule, NEW t \in Eligible, TaskPart(t)
  PROVE  EndInv'
  <1>1. /\ t \in Buildable /\ ~rqdata.setsceneonly
        /\ Scheduling /\ UNCHANGED <<rqdata, stopped>>
        /\ state \in {"running", "cleanup"}
    BY DEF Eligible, Schedule, Scheduling, TaskTurn, Choosing, EndInv, Ending, RQInv, TypeOK
  <1>2. executing \subseteq Buildable
    BY DEF EndInv, Accounted, Buildable
  <1>3. CASE SkipTask(t) \/ RunNoexec(t)
    <2>1. /\ runq_running' = runq_running \cup {t} /\ runq_complete' = runq_complete \cup {t}
          /\ runq_buildable' = Buildable \cup {t} \cup Ready(revdeps(t), runq_complete \cup {t})
          /\ UNCHANGED <<state, executing, failed_tids>>
      BY <1>3 DEF SkipTask, RunNoexec, CompleteNow, task_completeoutright
    <2>2. Ending'
      BY <1>1, <2>1, GoesOn
    <2> QED
      BY <1>1, <1>2, <2>1, <2>2, PassEnd DEF EndInv, Accounted
  <1>4. CASE StartTask(t)
    <2>1. /\ runq_running' = runq_running \cup {t} /\ executing' = executing \cup {t}
          /\ runq_buildable' = Buildable /\ UNCHANGED <<state, runq_complete, failed_tids>>
      BY <1>4 DEF StartTask
    <2>2. Ending'
      BY <1>1, <2>1, GoesOn
    <2> QED
      BY <1>1, <1>2, <2>1, <2>2, PassEnd DEF EndInv, Accounted
  <1>5. CASE FailUnexpected(t)
    <2>1. /\ runq_buildable' = Buildable /\ UNCHANGED <<runq_complete, executing>>
          /\ rqdata.enforce /\ failed_tids' = failed_tids \cup {t} /\ state' \in {state, "cleanup"}
      BY <1>5 DEF FailUnexpected, Unexpected, Halted
    <2>2. Ending'
      BY <1>1, <2>1, GoesOn
    <2> QED
      BY <1>1, <1>2, <2>1, <2>2, PassEnd
  <1> QED
    BY <1>3, <1>4, <1>5 DEF TaskPart

LEMMA NoTaskEnd ==
  ASSUME RQInv, EndInv, SceneEnds \/ (Schedule /\ Scheduling /\ NoTask), Ending'
  PROVE  EndInv'
  <1>1. /\ runq_buildable' = Buildable
        /\ UNCHANGED <<runq_running, runq_complete, executing, failed_tids>>
    BY DEF SceneEnds, NoTask, work
  <1>2. executing \subseteq Buildable
    BY DEF EndInv, Accounted, Buildable
  <1> QED
    BY <1>1, <1>2, PassEnd DEF EndInv, Accounted, Stage

-----------------------------------------------------------------------------
LEMMA EndInvInit == Init => EndInv
  <1>1. SUFFICES ASSUME Init PROVE EndInv
    OBVIOUS
  <1>2. Graph
    BY <1>1, GraphInit DEF Init
  <1>3. PICK valid \in SUBSET Setscene : sq = InitialScene(valid)
    BY <1>1 DEF Init
  <1>4. Moving(sq, {}) /\ sq.need_update
    BY <1>2, <1>3, InitMoving, InitScene
  <1>5. UpToDate
    BY <1>4 DEF UpToDate
  <1>6. Accounted /\ Stage /\ Ending
    BY <1>1 DEF Init, Accounted, Stage, Undecided, Ending, AllThatCanBe
  <1> QED
    BY <1>4, <1>5, <1>6 DEF EndInv

LEMMA EndInvStep ==
  ASSUME Sound
  PROVE  RQInv /\ EndInv /\ [Next]_vars => EndInv'
  <1>1. SUFFICES ASSUME RQInv, EndInv, [Next]_vars PROVE EndInv'
    OBVIOUS
  <1>2. ASSUME NEW t, ScenePart(t) PROVE EndInv'
    BY <1>1, <1>2, ScenePartEnd
  <1>3. CASE SceneEnds
    BY <1>1, <1>3, SceneEndsEnds, NoTaskEnd
  <1>4. CASE Schedule
    <2>1. ASSUME NEW t \in Eligible, TaskPart(t) PROVE EndInv'
      BY <1>1, <1>4, <2>1, TaskPartEnd
    <2>2. Scheduling /\ UNCHANGED <<rqdata, stopped>> /\ state \in {"running", "cleanup"}
      BY <1>1, <1>4 DEF Schedule, Scheduling, TaskTurn, Choosing, EndInv, Ending, RQInv, TypeOK
    <2>3. ASSUME Wait \/ \E t \in Setscene : ForceDeferred(t) PROVE EndInv'
      <3>1. NoTask /\ state' = state
        BY <2>3 DEF Wait, ForceDeferred, Idle
      <3>2. Ending'
        BY <1>1, <2>2, <3>1, GoesOn DEF NoTask, work
      <3> QED
        BY <1>1, <1>4, <2>2, <3>1, <3>2, NoTaskEnd
    <2>4. CASE EndBuild
      <3>1. NoTask
        BY <2>4 DEF EndBuild, Idle
      <3> QED
        BY <1>1, <1>4, <2>2, <2>4, <3>1, EndBuildEnds, NoTaskEnd
    <2> QED
      BY <1>4, <2>1, <2>3, <2>4 DEF Schedule
  <1>5. ASSUME NEW t \in Tasks, Answers(t) PROVE EndInv'
    BY <1>1, <1>5, AnswerEnd
  <1>6. CASE Stop \/ StopNow \/ Finish \/ Over \/ UNCHANGED vars
    <2>1. UNCHANGED <<rqdata, sqdata, sq, runq, cover, work>>
      BY <1>6 DEF Stop, StopNow, Finish, Over, vars
    <2>2. Moving(sq', {}) /\ Follows(sq, sq')
      BY <1>1, <2>1 DEF EndInv, Follows
    <2> QED
      BY <1>1, <1>6, <2>1, <2>2, StopEnds, QuietStep
  <1> QED
    BY <1>1, <1>2, <1>3, <1>4, <1>5, <1>6 DEF Next, Pass

(* A build that nobody stops ends well exactly when nothing has failed, and *)
(* has then completed every task; with -k it has completed whatever does    *)
(* not depend on a failed task.  The graph has no circle, so of what is not *)
(* decided, or not complete, there is always something that waits for none  *)
(* of the rest, and the pass that ends the build would have chosen it.      *)
THEOREM BuildsEndWell ==
  ASSUME Sound
  PROVE  Spec => []AllThatCanBe
  <1>1. EndInv => AllThatCanBe
    BY DEF EndInv, Ending
  <1>2. RQInv /\ EndInv /\ [Next]_vars => EndInv'
    BY EndInvStep
  <1> QED
    BY <1>1, <1>2, EndInvInit, RunQueueInvariant, PTL DEF Spec

-----------------------------------------------------------------------------
(* The order of a build: what has become of a task, or a variant, is final *)

\* The fields that the operators of the setscene queue leave
LEMMA OperatorFields ==
  ASSUME Graph, NEW q \in SQType, NEW t \in Setscene
  PROVE  /\ sq_task_skip(q, t).deferred = q.deferred
         /\ sq_task_skip(q, t).live = q.live
         /\ sq_task_skip(q, t).covered = q.covered \cup {t}
         /\ sq_task_skip(q, t).notcovered = q.notcovered
         /\ Decided(sq_task_skip(q, t)) = Decided(q) \cup {t}
         /\ t \notin Decided(q) =>
              /\ sq_task_failoutright(q, t).deferred = q.deferred
              /\ sq_task_failoutright(q, t).live = q.live
              /\ sq_task_failoutright(q, t).covered = q.covered
              /\ sq_task_failoutright(q, t).notcovered = q.notcovered \cup FailingWith(q, t)
              /\ Decided(sq_task_failoutright(q, t)) = Decided(q) \cup FailingWith(q, t)
  <1> DEFINE p == [q EXCEPT !.running = @ \cup {t}, !.buildable = @ \cup {t}, !.covered = @ \cup {t}]
             F == FailingWith(q, t)
             r == [q EXCEPT !.running = @ \cup F, !.buildable = @ \cup F, !.notcovered = @ \cup F]
             u == scenequeue_updatecounters(p, {t})
             v == scenequeue_updatecounters(r, F)
  <1>1. /\ p \in SQType /\ p.deferred = q.deferred /\ p.live = q.live
        /\ p.covered = q.covered \cup {t} /\ p.notcovered = q.notcovered
    BY DEF SQType
  <1>2. /\ u.deferred = p.deferred /\ u.live = p.live /\ u.covered = p.covered /\ u.notcovered = p.notcovered
    <2> HIDE DEF p
    <2> QED
      BY <1>1 DEF scenequeue_updatecounters, SQType
  <1>3. sq_task_skip(q, t) = u
    BY DEF sq_task_skip
  <1>4. ASSUME t \notin Decided(q)
        PROVE  /\ v.deferred = q.deferred /\ v.live = q.live /\ v.covered = q.covered
               /\ v.notcovered = q.notcovered \cup F
    <2>1. F \in SUBSET Setscene
      BY <1>4, FailWalk
    <2> HIDE DEF F
    <2>2. /\ r \in SQType /\ r.deferred = q.deferred /\ r.live = q.live
          /\ r.covered = q.covered /\ r.notcovered = q.notcovered \cup F
      BY <2>1 DEF SQType
    <2> HIDE DEF r
    <2> QED
      BY <2>1, <2>2 DEF scenequeue_updatecounters, SQType
  <1>5. sq_task_failoutright(q, t) = v
    BY DEF sq_task_failoutright
  <1> HIDE DEF p, r, F, u, v
  <1> QED
    BY <1>1, <1>2, <1>3, <1>4, <1>5 DEF Decided, F

\* A task that failed without having been started is refused again
Refused(t) ==
  /\ rqdata.enforce /\ t \notin rqdata.ignored /\ t \notin rqdata.noexec
  /\ NotCoveredFact(sq, t) /\ ~StampCurrent(t)
  /\ depends(t) \subseteq runq_complete

OnceInv ==
  /\ executing \cap runq_complete = {}
  /\ failed_tids \cap (executing \cup runq_complete) = {}
  /\ runq_tasksrun \subseteq runq_complete
  /\ restored \subseteq sq.covered
  /\ \A t \in failed_tids \ runq_running : Refused(t)

\* What is known to be covered is not known to be not covered
LEMMA FactsApart ==
  ASSUME RQInv, NEW t, CoveredFact(sq, t), NotCoveredFact(sq, t)
  PROVE  FALSE
  BY DEF CoveredFact, NotCoveredFact, RQInv, Scene, SQType, Apart, Graph, SQDataType

\* A task may fail again only as it did before
LEMMA RefusedAgain ==
  ASSUME RQInv, OnceInv, NEW t \in Eligible, t \in failed_tids
  PROVE  Unexpected(t) /\ t \notin Cov \cup rqdata.noexec /\ ~StampCurrent(t)
  <1>1. t \notin runq_running
    BY EligibleTask
  <1>2. Refused(t)
    BY <1>1 DEF OnceInv
  <1>3. t \notin Cov
    BY <1>2, PassKnows, FactsApart DEF Refused
  <1> QED
    BY <1>2, <1>3 DEF Refused, Unexpected

\* It stays so
LEMMA RefusedKept ==
  ASSUME RQInv, UNCHANGED <<rqdata, sqdata>>,
         sq.covered \subseteq sq'.covered, sq.notcovered \subseteq sq'.notcovered,
         newstamps \subseteq newstamps', restored' \subseteq restored \cup Live,
         runq_complete \subseteq runq_complete',
         NEW t, Refused(t)
  PROVE  Refused(t)'
  <1>1. depends(t)' = depends(t) /\ NotCoveredFact(sq, t)'
    BY FactsKept DEF depends, Refused
  <1>2. depends(t) \cap Live = {}
    BY DEF Refused, RQInv, Queue, Waiting, Undecided, Scene, SQType, Apart, Live
  <1>3. ~StampCurrent(t)'
    BY <1>1, <1>2 DEF StampCurrent, Refused
  <1> QED
    BY <1>1, <1>3 DEF Refused

LEMMA OnceInit == Init => OnceInv
  BY DEF Init, OnceInv

\* Steps of the setscene queue alone
LEMMA OnceScene ==
  ASSUME RQInv, OnceInv, UNCHANGED <<rqdata, sqdata, runq, work>>,
         sq.covered \subseteq sq'.covered, sq.notcovered \subseteq sq'.notcovered,
         restored' \subseteq restored \cup (Live \cap sq'.covered)
  PROVE  OnceInv'
  <1>1. \A t : Refused(t) => Refused(t)'
    BY RefusedKept DEF work, runq
  <1> QED
    BY <1>1 DEF OnceInv, work, runq

\* A task that an answer, or the pass, takes one step further
LEMMA OnceTask ==
  ASSUME RQInv, OnceInv, UNCHANGED <<rqdata, sqdata, restored>>, NEW t \in Tasks,
         sq'.covered = sq.covered, sq'.notcovered = sq.notcovered,
         newstamps \subseteq newstamps', runq_complete \subseteq runq_complete', runq_running \subseteq runq_running',
         runq_complete' \subseteq runq_complete \cup {t}, runq_tasksrun' \subseteq runq_tasksrun \cup {t},
         executing' \subseteq executing \cup {t}, failed_tids \subseteq failed_tids', failed_tids' \subseteq failed_tids \cup {t},
         t \in runq_tasksrun' => t \in runq_complete',
         t \in executing' => t \notin runq_complete' \cup failed_tids',
         t \in runq_complete' => t \notin failed_tids',
         t \in failed_tids' \ runq_running' => Refused(t)'
  PROVE  OnceInv'
  <1>1. \A u : Refused(u) => Refused(u)'
    BY RefusedKept
  <1> QED
    BY <1>1 DEF OnceInv

\* What the names stand for
LEMMA TaskLifeFacts ==
  ASSUME OnceInv, NEW t
  PROVE  /\ TaskLife(t) = "waiting" <=> t \notin executing \cup failed_tids \cup runq_complete
         /\ TaskLife(t) = "running" <=> t \in executing
         /\ TaskLife(t) \in {"built", "skipped"} <=> t \in runq_complete
         /\ TaskLife(t) = "built" <=> t \in runq_tasksrun
  BY DEF TaskLife, OnceInv

LEMMA VariantLifeFacts ==
  ASSUME RQInv, OnceInv, NEW s
  PROVE  /\ VariantLife(s) = "open" <=> s \notin Live \cup Decided(sq)
         /\ VariantLife(s) = "restoring" <=> s \in Live
         /\ VariantLife(s) = "refused" <=> s \in sq.notcovered
         /\ VariantLife(s) \in {"there", "needless"} <=> s \in sq.covered
         /\ VariantLife(s) = "there" <=> s \in sq.covered /\ (s \in restored \/ Present(s))
  BY DEF VariantLife, RQInv, Scene, SQType, Apart, Decided, Live

\* What the order's variables are here
LEMMA OrderFields ==
  /\ Asked.tasks = Tasks /\ Asked.depends = rqdata.depends /\ Asked.setscene = Setscene
  /\ Asked.harddeps = rqdata.harddeps /\ Asked.covers = sqdata.covered_tasks /\ Asked.users = sqdata.revdeps
  BY DEF Asked

LEMMA AskedKept == ASSUME UNCHANGED <<rqdata, sqdata>> PROVE Asked' = Asked /\ Tasks' = Tasks /\ Setscene' = Setscene
  BY DEF Asked, Tasks, Setscene

\* What the variants' lives are made of
LEMMA VariantsKept ==
  ASSUME UNCHANGED <<rqdata, sqdata, restored>>,
         sq'.live = sq.live, sq'.covered = sq.covered, sq'.notcovered = sq.notcovered
  PROVE  VariantLives' = VariantLives
  BY AskedKept DEF VariantLives, VariantLife, Live, Present

LEMMA TasksKept ==
  ASSUME UNCHANGED <<rqdata, sqdata, runq_complete, runq_tasksrun, executing, failed_tids>>
  PROVE  TaskLives' = TaskLives
  BY AskedKept DEF TaskLives, TaskLife

OrderStep == [Order!Next]_(Order!vars)

LEMMA OrderStutters ==
  ASSUME UNCHANGED <<rqdata, sqdata, runq_complete, runq_tasksrun, executing, failed_tids, restored>>,
         sq'.live = sq.live, sq'.covered = sq.covered, sq'.notcovered = sq.notcovered
  PROVE  OrderStep
  BY AskedKept, VariantsKept, TasksKept DEF OrderStep, Order!vars

\* One task changes
LEMMA TaskBecomes ==
  ASSUME UNCHANGED <<rqdata, sqdata, restored>>, NEW t \in Tasks,
         sq'.live = sq.live, sq'.covered = sq.covered, sq'.notcovered = sq.notcovered,
         \A u \in Tasks \ {t} : /\ u \in executing' <=> u \in executing
                                /\ u \in failed_tids' <=> u \in failed_tids
                                /\ u \in runq_complete' <=> u \in runq_complete
                                /\ u \in runq_tasksrun' <=> u \in runq_tasksrun,
         NEW life, TaskLife(t)' = life
  PROVE  Order!Become(t, life)
  <1>1. \A u \in Tasks \ {t} : TaskLife(u)' = TaskLife(u)
    BY DEF TaskLife
  <1>2. TaskLives' = [TaskLives EXCEPT ![t] = life]
    BY <1>1, AskedKept DEF TaskLives
  <1> QED
    BY <1>2, AskedKept, VariantsKept DEF Order!Become

\* One variant changes
LEMMA VariantBecomes ==
  ASSUME UNCHANGED <<rqdata, sqdata, runq_complete, runq_tasksrun, executing, failed_tids>>, NEW s \in Setscene,
         \A r \in Setscene \ {s} : /\ r \in sq'.live <=> r \in sq.live
                                   /\ r \in sq'.covered <=> r \in sq.covered
                                   /\ r \in sq'.notcovered <=> r \in sq.notcovered
                                   /\ r \in restored' <=> r \in restored,
         NEW life, VariantLife(s)' = life
  PROVE  Order!Change(s, life)
  <1>1. \A r \in Setscene \ {s} : VariantLife(r)' = VariantLife(r)
    BY DEF VariantLife, Live, Present
  <1>2. VariantLives' = [VariantLives EXCEPT ![s] = life]
    BY <1>1, AskedKept DEF VariantLives
  <1> QED
    BY <1>2, AskedKept, TasksKept DEF Order!Change

\* A task that the pass has chosen
LEMMA EligibleReady ==
  ASSUME RQInv, OnceInv, NEW t \in Eligible, t \notin failed_tids
  PROVE  Order!Ready(t)
  <1>1. /\ t \in Tasks /\ t \notin Undecided /\ t \notin runq_running
        /\ \A s \in Undecided : t \notin sqdata.covered_tasks[s]
        /\ depends(t) \subseteq runq_complete
    BY EligibleTask
  <1>2. TaskLives[t] = "waiting"
    BY <1>1, TaskLifeFacts DEF TaskLives, RQInv, Queue
  <1>3. ASSUME NEW d \in rqdata.depends[t] PROVE TaskLives[d] \in {"built", "skipped"}
    <2>1. d \in runq_complete /\ d \in Tasks
      BY <1>1, <1>3 DEF depends, RQInv, TypeOK
    <2> QED
      BY <2>1, TaskLifeFacts DEF TaskLives
  <1>4. ASSUME NEW s \in Setscene, t = s \/ t \in sqdata.covered_tasks[s]
        PROVE  VariantLives[s] \notin {"open", "restoring"}
    <2>1. s \in Decided(sq) /\ s \notin Live
      BY <1>1, <1>4 DEF Undecided, RQInv, Scene, Apart, Live
    <2> QED
      BY <2>1, VariantLifeFacts DEF VariantLives
  <1> QED
    BY <1>2, <1>3, <1>4, OrderFields DEF Order!Ready, Order!Covering

\* Letting a duplicate go decides nothing that was not decided
LEMMA NextSame ==
  ASSUME Graph, NEW R, NEW q, Scene(q, R), NEW t, NEW valid \in BOOLEAN
  PROVE  LET n == NextDeferred(q, t, valid) IN
           n.live = q.live /\ n.covered = q.covered /\ n.notcovered = q.notcovered
  <1> DEFINE W == {x \in DOMAIN q.deferred : q.deferred[x] = t}
             found == CHOOSE x \in W : \A y \in W : x <= y
             rest == [x \in DOMAIN q.deferred \ {found} |->
                        IF q.deferred[x] = t THEN found ELSE q.deferred[x]]
             p == [q EXCEPT !.deferred = rest]
             r == [p EXCEPT !.outrightfail = @ \ {found}]
  <1>1. PICK S \in SUBSET Setscene : q.deferred \in [S -> Setscene]
    BY DEF Scene, SQType, Deferrals
  <1>2. CASE W = {}
    BY <1>2 DEF NextDeferred
  <1>3. CASE W # {}
    <2>1. W \in SUBSET Nat /\ W \subseteq Setscene
      BY <1>1 DEF Graph, Build, Setscene
    <2>2. \E x \in W : \A y \in W : x <= y
      BY <1>3, <2>1, Least
    <2>3. found \in Setscene
      BY <2>1, <2>2
    <2>4. NextDeferred(q, t, valid) = update_scenequeue_data(p, found, valid)
      BY <1>3 DEF NextDeferred
    <2> HIDE DEF found, W
    <2>5. rest \in Deferrals
      <3>1. rest \in [S \ {found} -> Setscene]
        BY <1>1, <2>3
      <3> QED
        BY <3>1 DEF Deferrals
    <2> HIDE DEF rest
    <2>6. /\ r \in SQType /\ r.live = q.live /\ r.covered = q.covered /\ r.notcovered = q.notcovered
      BY <2>5 DEF Scene, SQType
    <2>7. CASE Present(found)
      <3>1. update_scenequeue_data(p, found, valid) = sq_task_skip(r, found)
        BY <2>7 DEF update_scenequeue_data
      <3>2. found \in q.covered
        BY <2>3, <2>7 DEF Scene, Apart
      <3>3. NextDeferred(q, t, valid) = sq_task_skip(r, found)
        BY <2>4, <3>1
      <3> HIDE DEF r
      <3>4. LET n == sq_task_skip(r, found) IN
              n.live = r.live /\ n.covered = r.covered \cup {found} /\ n.notcovered = r.notcovered
        BY <2>3, <2>6, OperatorFields
      <3> QED
        BY <2>6, <3>2, <3>3, <3>4
    <2>8. CASE ~Present(found)
      <3>1. update_scenequeue_data(p, found, valid) \in {r, [r EXCEPT !.outrightfail = @ \cup {found}]}
        BY <2>8 DEF update_scenequeue_data
      <3> HIDE DEF r
      <3> QED
        BY <2>4, <2>6, <3>1 DEF SQType
    <2> QED
      BY <2>7, <2>8
  <1> QED
    BY <1>2, <1>3

\* A worker's answer about a task
LEMMA TaskAnswerOrder ==
  ASSUME RQInv, OnceInv, NEW t \in Tasks, task_complete(t) \/ task_fail(t)
  PROVE  OnceInv' /\ OrderStep
  <1>1. /\ UNCHANGED <<rqdata, sqdata, restored, runq_running>>
        /\ t \in executing /\ executing' = executing \ {t}
        /\ t \in runq_running /\ t \notin runq_complete \cup failed_tids
    BY DEF task_complete, task_fail, runq, RQInv, Queue, OnceInv
  <1>2. TaskLives[t] = "running"
    BY <1>1, TaskLifeFacts DEF TaskLives
  <1>3. CASE task_complete(t)
    <2>1. /\ runq_complete' = runq_complete \cup {t} /\ runq_tasksrun' = runq_tasksrun \cup {t}
          /\ failed_tids' = failed_tids /\ newstamps \subseteq newstamps'
      BY <1>3 DEF task_complete, Stamped
    <2>2. sq'.live = sq.live /\ sq'.covered = sq.covered /\ sq'.notcovered = sq.notcovered
      BY <1>3, NextSame DEF task_complete, RQInv
    <2>3. OnceInv'
      BY <1>1, <2>1, <2>2, OnceTask
    <2>4. TaskLife(t)' = "built"
      BY <1>1, <2>1 DEF TaskLife
    <2>5. Order!Become(t, "built")
      BY <1>1, <2>1, <2>2, <2>4, TaskBecomes
    <2> QED
      BY <1>2, <2>3, <2>5, OrderFields DEF OrderStep, Order!Next, Order!TaskStep, Order!End
  <1>4. CASE task_fail(t)
    <2>1. /\ UNCHANGED <<runq_complete, runq_tasksrun, newstamps, sq>>
          /\ failed_tids' = failed_tids \cup {t}
      BY <1>4 DEF task_fail, runq
    <2>2. sq'.live = sq.live /\ sq'.covered = sq.covered /\ sq'.notcovered = sq.notcovered
      BY <2>1
    <2>3. OnceInv'
      BY <1>1, <2>1, <2>2, OnceTask DEF OnceInv
    <2>4. TaskLife(t)' = "failed"
      BY <1>1, <2>1 DEF TaskLife
    <2>5. Order!Become(t, "failed")
      BY <1>1, <2>1, <2>2, <2>4, TaskBecomes
    <2> QED
      BY <1>2, <2>3, <2>5, OrderFields DEF OrderStep, Order!Next, Order!TaskStep, Order!End
  <1> QED
    BY <1>3, <1>4

\* The pass completes a task without a worker
LEMMA CompleteNowOrder ==
  ASSUME RQInv, OnceInv, Scheduling, NEW t \in Eligible, SkipTask(t) \/ RunNoexec(t)
  PROVE  OnceInv' /\ OrderStep
  <1>1. CompleteNow(t) /\ UNCHANGED <<rqdata, sqdata, restored>>
    BY DEF SkipTask, RunNoexec, Scheduling
  <1>2. t \in Tasks /\ t \notin runq_running
    BY EligibleTask
  <1>3. t \notin failed_tids
    BY RefusedAgain DEF SkipTask, RunNoexec
  <1>4. t \notin executing \cup runq_complete
    BY <1>2 DEF RQInv, Queue
  <1>5. Order!Ready(t)
    BY <1>3, EligibleReady
  <1>6. /\ runq_running' = runq_running \cup {t} /\ runq_complete' = runq_complete \cup {t}
        /\ executing' = executing /\ failed_tids' = failed_tids
    BY <1>1 DEF CompleteNow, task_completeoutright
  <1>7. /\ newstamps \subseteq newstamps' /\ runq_tasksrun' \subseteq runq_tasksrun \cup {t}
        /\ runq_tasksrun \subseteq runq_tasksrun'
        /\ t \in Cov => runq_tasksrun' = runq_tasksrun
        /\ t \notin Cov => runq_tasksrun' = runq_tasksrun \cup {t}
    BY DEF SkipTask, RunNoexec, Stamped
  <1>8. sq'.live = sq.live /\ sq'.covered = sq.covered /\ sq'.notcovered = sq.notcovered
    <2>1. PICK valid \in BOOLEAN : sq' = NextDeferred(Sq, t, valid)
      BY <1>1 DEF CompleteNow
    <2>2. Scene(Sq, restored) /\ Sq.live = sq.live /\ Sq.covered = sq.covered /\ Sq.notcovered = sq.notcovered
      BY SqScene DEF Sq, RQInv, Scene, SQType
    <2> QED
      BY <2>1, <2>2, NextSame DEF RQInv
  <1>9. OnceInv'
    BY <1>1, <1>2, <1>3, <1>4, <1>6, <1>7, <1>8, OnceTask
  <1>10. CASE t \notin Cov
    <2>1. TaskLife(t)' = "built"
      BY <1>3, <1>4, <1>6, <1>7, <1>10 DEF TaskLife
    <2>2. Order!Become(t, "built")
      BY <1>1, <1>2, <1>6, <1>7, <1>8, <2>1, TaskBecomes
    <2> QED
      BY <1>2, <1>5, <1>9, <2>2, OrderFields DEF OrderStep, Order!Next, Order!TaskStep, Order!Find
  <1>11. CASE t \in Cov
    <2>1. t \notin runq_tasksrun
      BY <1>4 DEF OnceInv
    <2>2. TaskLife(t)' = "skipped"
      BY <1>3, <1>4, <1>6, <1>7, <1>11, <2>1 DEF TaskLife
    <2>3. Order!Become(t, "skipped")
      BY <1>1, <1>2, <1>6, <1>7, <1>8, <2>2, TaskBecomes
    <2>4. ASSUME NEW s \in Setscene, t = s \/ t \in sqdata.covered_tasks[s]
          PROVE  VariantLives[s] \in {"there", "needless"}
      <3>1. CoveredFact(sq, t)
        BY <1>11, PassKnows
      <3>2. s \in sq.covered
        BY <2>4, <3>1 DEF CoveredFact, RQInv, Graph, SQDataType
      <3> QED
        BY <3>2, VariantLifeFacts DEF VariantLives
    <2>5. Order!Skip(t)
      BY <1>5, <2>3, <2>4, OrderFields DEF Order!Skip, Order!Covering, Order!Restorable
    <2> QED
      BY <1>2, <1>9, <2>5, OrderFields DEF OrderStep, Order!Next, Order!TaskStep
  <1> QED
    BY <1>10, <1>11

\* A task is handed to a worker
LEMMA StartTaskOrder ==
  ASSUME RQInv, OnceInv, Scheduling, NEW t \in Eligible, StartTask(t)
  PROVE  OnceInv' /\ OrderStep
  <1>1. /\ UNCHANGED <<rqdata, sqdata, restored, runq_complete, runq_tasksrun, failed_tids, newstamps>>
        /\ runq_running' = runq_running \cup {t} /\ executing' = executing \cup {t} /\ sq' = Sq
        /\ t \notin Cov
    BY DEF StartTask, Scheduling
  <1>2. t \in Tasks /\ t \notin runq_running /\ t \in NCov
    BY <1>1, EligibleTask
  <1>3. t \notin failed_tids \cup runq_complete
    BY <1>2, RefusedAgain DEF StartTask, RQInv, Queue
  <1>4. sq'.live = sq.live /\ sq'.covered = sq.covered /\ sq'.notcovered = sq.notcovered
    BY <1>1 DEF Sq, RQInv, Scene, SQType
  <1>5. OnceInv'
    BY <1>1, <1>2, <1>3, <1>4, OnceTask DEF OnceInv
  <1>6. Order!Ready(t)
    BY <1>3, EligibleReady
  <1>7. TaskLife(t)' = "running"
    <2>1. t \in executing' /\ t \notin runq_complete' \cup failed_tids'
      BY <1>1, <1>3
    <2> QED
      BY <2>1 DEF TaskLife
  <1>8. Order!Become(t, "running")
    BY <1>1, <1>2, <1>4, <1>7, TaskBecomes
  <1>9. ASSUME NEW d \in rqdata.depends[t]
        PROVE  TaskLives[d] = "built" \/ (d \in Setscene /\ VariantLives[d] = "there")
    <2>1. OutputsThere'
      BY StartTaskStep DEF RQInv
    <2>2. d \in runq_complete /\ (d \in runq_tasksrun \cup restored \/ (d \in Setscene /\ Present(d)))
      BY <1>1, <1>9, <2>1, AskedKept DEF OutputsThere, depends, Present
    <2>3. d \in Tasks /\ restored \subseteq Setscene
      BY <2>2 DEF RQInv, TypeOK
    <2>4. CASE d \in runq_tasksrun
      <3>1. TaskLife(d) = "built"
        BY <2>4, TaskLifeFacts
      <3> QED
        BY <2>3, <3>1 DEF TaskLives
    <2>5. CASE d \in Setscene /\ (d \in restored \/ Present(d))
      <3>1. d \in sq.covered
        BY <2>5 DEF OnceInv, RQInv, Scene, Apart
      <3> QED
        BY <2>5, <3>1, VariantLifeFacts DEF VariantLives
    <2> QED
      BY <2>2, <2>3, <2>4, <2>5
  <1>10. ASSUME t \in Setscene PROVE VariantLives[t] = "refused"
    <2>1. NotCoveredFact(sq, t)
      BY <1>2, PassKnows
    <2>2. t \in sq.notcovered
      BY <1>10, <2>1 DEF NotCoveredFact, RQInv, Scene, SQType, Graph, SQDataType
    <2> QED
      BY <1>10, <2>2, VariantLifeFacts DEF VariantLives
  <1>11. Order!Start(t)
    BY <1>6, <1>8, <1>9, <1>10, OrderFields DEF Order!Start, Order!Output
  <1> QED
    BY <1>2, <1>5, <1>11, OrderFields DEF OrderStep, Order!Next, Order!TaskStep

\* A task fails without having been started
LEMMA FailUnexpectedOrder ==
  ASSUME RQInv, OnceInv, Scheduling, NEW t \in Eligible, FailUnexpected(t)
  PROVE  OnceInv' /\ OrderStep
  <1>1. /\ UNCHANGED <<rqdata, sqdata, restored, runq_running, runq_complete, runq_tasksrun, executing, newstamps>>
        /\ failed_tids' = failed_tids \cup {t} /\ sq' = Sq
    BY DEF FailUnexpected, Scheduling
  <1>2. t \in Tasks /\ t \notin runq_running /\ t \in Cov \cup NCov /\ depends(t) \subseteq runq_complete
    BY EligibleTask
  <1>3. t \notin executing \cup runq_complete
    BY <1>2 DEF RQInv, Queue
  <1>4. sq'.live = sq.live /\ sq'.covered = sq.covered /\ sq'.notcovered = sq.notcovered
    BY <1>1 DEF Sq, RQInv, Scene, SQType
  <1>5. Refused(t)
    BY <1>2, PassKnows DEF FailUnexpected, Unexpected, Refused
  <1>6. Refused(t)'
    BY <1>1, <1>4, <1>5, RefusedKept
  <1>7. OnceInv'
    BY <1>1, <1>2, <1>3, <1>4, <1>6, OnceTask DEF OnceInv
  <1>8. CASE t \in failed_tids
    <2>1. failed_tids' = failed_tids
      BY <1>1, <1>8
    <2> QED
      BY <1>1, <1>4, <1>7, <2>1, OrderStutters
  <1>9. CASE t \notin failed_tids
    <2>1. TaskLife(t)' = "failed"
      BY <1>1, <1>3 DEF TaskLife
    <2>2. Order!Become(t, "failed")
      BY <1>1, <1>2, <1>4, <2>1, TaskBecomes
    <2>3. Order!Ready(t)
      BY <1>9, EligibleReady
    <2> QED
      BY <1>2, <1>7, <2>2, <2>3, OrderFields DEF OrderStep, Order!Next, Order!TaskStep, Order!Refuse
  <1> QED
    BY <1>8, <1>9

\* A pass that starts and completes nothing
LEMMA NoTaskOrder ==
  ASSUME RQInv, OnceInv, UNCHANGED <<rqdata, sqdata, restored, runq_running, runq_complete, runq_tasksrun, work>>,
         sq'.live = sq.live, sq'.covered = sq.covered, sq'.notcovered = sq.notcovered
  PROVE  OnceInv' /\ OrderStep
  <1>1. \A t : Refused(t) => Refused(t)'
    BY RefusedKept DEF work
  <1>2. OnceInv'
    BY <1>1 DEF OnceInv, work
  <1>3. OrderStep
    BY OrderStutters DEF work
  <1> QED
    BY <1>2, <1>3

-----------------------------------------------------------------------------
\* Those that fail with another one need one that fails
LEMMA FailChain ==
  ASSUME Graph, NEW q, NEW t \in Setscene, t \notin Decided(q)
  PROVE  \A s \in FailingWith(q, t) \ {t} : rqdata.harddeps[s] \cap FailingWith(q, t) # {}
  <1> DEFINE F == FailingWith(q, t)
             needing(u) == {s \in Setscene : u \in rqdata.harddeps[s] /\ s \notin Decided(q) /\ ~Present(s)}
             closed(X) == {t} \subseteq X /\ \A u \in X : needing(u) \subseteq X
  <1>1. \A s : s \in F <=> s \in Tasks /\ \A X \in SUBSET Tasks : closed(X) => s \in X
    BY DEF FailingWith, Closure
  <1>2. ASSUME NEW s \in F \ {t}, rqdata.harddeps[s] \cap F = {} PROVE FALSE
    <2> DEFINE Y == F \ {s}
    <2>1. closed(F)
      BY <1>1 DEF Graph, Build, Setscene, Tasks
    <2>2. F \in SUBSET Tasks
      BY <1>1
    <2> HIDE DEF F
    <2>3. closed(Y) /\ Y \in SUBSET Tasks
      BY <1>2, <2>1, <2>2
    <2> QED
      BY <1>1, <1>2, <2>3
  <1> QED
    BY <1>2

\* A variant fails
LEMMA FailOrder ==
  ASSUME RQInv, OnceInv, NEW p, Scene(p, restored), NEW t \in Setscene, t \notin Decided(sq),
         p.covered = sq.covered, p.notcovered = sq.notcovered, p.live = sq.live \ {t},
         sq' = sq_task_failoutright(p, t),
         UNCHANGED <<rqdata, sqdata, runq, work, restored>>
  PROVE  OnceInv' /\ OrderStep
  <1> DEFINE F == FailingWith(p, t)
  <1>1. t \notin Decided(p) /\ Graph /\ p \in SQType /\ Decided(p) = Decided(sq)
    BY DEF Decided, RQInv, Scene
  <1>2. sq'.live = sq.live \ {t} /\ sq'.covered = sq.covered /\ sq'.notcovered = sq.notcovered \cup F
    BY <1>1, OperatorFields
  <1>3. OnceInv'
    BY <1>2, OnceScene
  <1>4. /\ t \in F /\ F \in SUBSET Setscene
        /\ \A s \in F \ {t} : s \notin Decided(sq) /\ ~(rqdata.harddeps[s] \subseteq Decided(sq))
        /\ \A s \in Setscene, u \in F : u \in rqdata.harddeps[s] => s \in Decided(sq) \cup F \/ Present(s)
    BY <1>1, FailWalk
  <1>5. \A s \in F \ {t} : rqdata.harddeps[s] \cap F # {}
    BY <1>1, FailChain
  <1> HIDE DEF F
  <1>6. \A s \in F \ {t} : s \notin Live
    BY <1>4 DEF RQInv, Scene, HardKept, Live, Decided
  <1>7. VariantLives[t] \in {"open", "restoring"}
    BY VariantLifeFacts DEF VariantLives
  <1>8. ASSUME NEW r \in F \ {t} PROVE VariantLives[r] = "open" /\ rqdata.harddeps[r] \cap F # {}
    BY <1>4, <1>5, <1>6, <1>8, VariantLifeFacts DEF VariantLives
  <1>9. ASSUME NEW r \in Setscene \ F, VariantLives[r] = "open" PROVE rqdata.harddeps[r] \cap F = {}
    <2>1. r \notin Decided(sq)
      BY <1>9, VariantLifeFacts DEF VariantLives
    <2>2. ~Present(r)
      BY <1>9, <2>1 DEF RQInv, Scene, Apart, Decided
    <2> QED
      BY <1>4, <1>9, <2>1, <2>2
  <1>10. VariantLives' = [r \in Setscene |-> IF r \in F THEN "refused" ELSE VariantLives[r]]
    <2>1. ASSUME NEW r \in F PROVE VariantLife(r)' = "refused"
      <3>1. r \in sq'.notcovered /\ r \notin sq'.live /\ r \notin sq'.covered
        BY <1>2, <1>4, <1>6, <2>1 DEF Live, Decided
      <3> QED
        BY <3>1 DEF VariantLife, Live
    <2>2. ASSUME NEW r \in Setscene \ F PROVE VariantLife(r)' = VariantLife(r)
      BY <1>2, <1>4, <2>2 DEF VariantLife, Live, Present
    <2> QED
      BY <1>4, <2>1, <2>2, AskedKept DEF VariantLives
  <1>11. TaskLives' = TaskLives /\ Asked' = Asked
    BY AskedKept, TasksKept DEF runq, work
  <1>12. Order!FailTogether(t, F)
    BY <1>4, <1>7, <1>8, <1>9, <1>10, <1>11, OrderFields DEF Order!FailTogether
  <1> QED
    BY <1>3, <1>4, <1>12, OrderFields DEF OrderStep, Order!Next, Order!VariantStep

\* A variant has been restored, or not
LEMMA SceneAnswerOrder ==
  ASSUME RQInv, OnceInv, NEW t \in Tasks, Restored(t) \/ NotRestored(t)
  PROVE  OnceInv' /\ OrderStep
  <1> DEFINE p == [sq EXCEPT !.live = @ \ {t}]
  <1>1. t \in Live /\ UNCHANGED <<rqdata, sqdata, runq, work>>
    BY DEF Restored, NotRestored
  <1>2. Scene(p, restored) /\ p.live = Live \ {t} /\ t \in Setscene /\ t \notin Decided(p)
    BY <1>1, NotLive
  <1>3. p.covered = sq.covered /\ p.notcovered = sq.notcovered
    BY DEF RQInv, Scene, SQType
  <1>4. CASE Restored(t)
    <2>1. sq' = sq_task_skip(p, t) /\ restored' = restored \cup {t}
      BY <1>4 DEF Restored
    <2> HIDE DEF p
    <2>2. sq'.live = Live \ {t} /\ sq'.covered = sq.covered \cup {t} /\ sq'.notcovered = sq.notcovered
      BY <1>2, <1>3, <2>1, OperatorFields DEF RQInv, Scene
    <2>3. OnceInv'
      BY <1>1, <2>1, <2>2, OnceScene
    <2>4. t \notin sq.notcovered
      BY <1>2, <1>3 DEF Decided
    <2>5. VariantLife(t)' = "there"
      BY <2>1, <2>2, <2>4 DEF VariantLife, Live
    <2>6. Order!Change(t, "there")
      BY <1>1, <1>2, <2>1, <2>2, <2>5, VariantBecomes DEF runq, work, Live
    <2>7. VariantLives[t] = "restoring"
      BY <1>1, <1>2, VariantLifeFacts DEF VariantLives
    <2> QED
      BY <1>2, <2>3, <2>6, <2>7, OrderFields DEF OrderStep, Order!Next, Order!VariantStep, Order!Restored
  <1>5. CASE NotRestored(t)
    <2>1. sq' = sq_task_failoutright(p, t) /\ restored' = restored
      BY <1>5 DEF NotRestored
    <2>2. t \notin Decided(sq)
      BY <1>2, <1>3 DEF Decided
    <2> HIDE DEF p
    <2> QED
      BY <1>1, <1>2, <1>3, <2>1, <2>2, FailOrder DEF Live
  <1> QED
    BY <1>4, <1>5

\* The pass stops at a setscene task
LEMMA SkipNotNeededOrder ==
  ASSUME RQInv, OnceInv, NEW t, SkipNotNeeded(t)
  PROVE  OnceInv' /\ OrderStep
  <1>1. PICK q \in Passing : sq' = sq_task_skip([q EXCEPT !.deferred = Without(@, t)], t)
    BY DEF SkipNotNeeded
  <1> DEFINE p == [q EXCEPT !.deferred = Without(@, t)]
  <1>2. /\ t \in Setscene /\ t \notin sq.live /\ t \notin Decided(sq)
        /\ UNCHANGED <<rqdata, sqdata, runq, work, restored>>
    BY CandidateFree DEF SkipNotNeeded, OnlyScene
  <1>3. p \in SQType /\ p.live = sq.live /\ p.covered = sq.covered /\ p.notcovered = sq.notcovered
    BY NoLongerDeferred
  <1>4. sq' = sq_task_skip(p, t)
    BY <1>1
  <1> HIDE DEF p
  <1>5. sq'.live = sq.live /\ sq'.covered = sq.covered \cup {t} /\ sq'.notcovered = sq.notcovered
    BY <1>2, <1>3, <1>4, OperatorFields DEF RQInv
  <1>6. OnceInv'
    BY <1>2, <1>5, OnceScene
  <1>7. t \notin restored /\ ~Present(t) /\ t \notin sq.notcovered
    BY <1>2 DEF OnceInv, RQInv, Scene, Apart, Decided
  <1>8. VariantLife(t)' = "needless"
    BY <1>2, <1>5, <1>7 DEF VariantLife, Live, Present
  <1>9. Order!Change(t, "needless")
    BY <1>2, <1>5, <1>8, VariantBecomes DEF runq, work
  <1>10. VariantLives[t] = "open"
    BY <1>2, VariantLifeFacts DEF VariantLives, Live
  <1>11. sqdata.revdeps[t] # {} /\ sqdata.revdeps[t] \subseteq sq.covered
    BY DEF SkipNotNeeded, NotNeeded
  <1>12. ASSUME NEW u \in sqdata.revdeps[t] PROVE VariantLives[u] \in {"there", "needless"}
    <2>1. u \in sq.covered /\ u \in Setscene
      BY <1>11, <1>12 DEF RQInv, Scene, SQType
    <2> QED
      BY <2>1, VariantLifeFacts DEF VariantLives
  <1>13. Order!Forgo(t)
    BY <1>9, <1>10, <1>11, <1>12, OrderFields DEF Order!Forgo, Order!Restorable
  <1> QED
    BY <1>2, <1>6, <1>13, OrderFields DEF OrderStep, Order!Next, Order!VariantStep

LEMMA AskForHardOrder ==
  ASSUME RQInv, OnceInv, NEW t, AskForHard(t)
  PROVE  OnceInv' /\ OrderStep
  <1>1. PICK q \in Passing :
          sq' = [q EXCEPT !.buildable = @ \cup rqdata.harddeps[t],
                          !.needed_harddeps = @ \cup rqdata.harddeps[t],
                          !.harddeferred = @ \cup {t}]
    BY DEF AskForHard
  <1>2. q \in SQType /\ q.live = sq.live /\ q.covered = sq.covered /\ q.notcovered = sq.notcovered
    BY PassingScene
  <1>3. sq'.live = sq.live /\ sq'.covered = sq.covered /\ sq'.notcovered = sq.notcovered
    BY <1>1, <1>2 DEF SQType
  <1> QED
    BY <1>3, NoTaskOrder DEF AskForHard, OnlyScene, runq

LEMMA FailNowOrder ==
  ASSUME RQInv, OnceInv, NEW t, FailNow(t)
  PROVE  OnceInv' /\ OrderStep
  <1>1. PICK q \in Passing : sq' = sq_task_failoutright([q EXCEPT !.deferred = Without(@, t)], t)
    BY DEF FailNow
  <1> DEFINE p == [q EXCEPT !.deferred = Without(@, t)]
  <1>2. /\ t \in Setscene /\ t \notin sq.live /\ t \notin Decided(sq)
        /\ UNCHANGED <<rqdata, sqdata, runq, work, restored>>
    BY CandidateFree DEF FailNow, Chosen, OnlyScene
  <1>3. Scene(p, restored) /\ p.live = sq.live /\ p.covered = sq.covered /\ p.notcovered = sq.notcovered
    BY NoLongerDeferred
  <1>4. sq' = sq_task_failoutright(p, t) /\ p.live = sq.live \ {t}
    BY <1>1, <1>2, <1>3
  <1> HIDE DEF p
  <1> QED
    BY <1>2, <1>3, <1>4, FailOrder

LEMMA StartSceneOrder ==
  ASSUME RQInv, OnceInv, NEW t, StartScene(t)
  PROVE  OnceInv' /\ OrderStep
  <1>1. PICK q \in Passing :
          sq' = [q EXCEPT !.deferred = Without(@, t), !.running = @ \cup {t}, !.live = @ \cup {t}]
    BY DEF StartScene
  <1>2. /\ t \in Setscene /\ t \notin sq.live /\ t \notin Decided(sq)
        /\ UNCHANGED <<rqdata, sqdata, runq, work, restored>>
    BY CandidateFree DEF StartScene, Chosen, OnlyScene
  <1>3. q \in SQType /\ q.live = sq.live /\ q.covered = sq.covered /\ q.notcovered = sq.notcovered
    BY PassingScene
  <1>4. sq'.live = sq.live \cup {t} /\ sq'.covered = sq.covered /\ sq'.notcovered = sq.notcovered
    BY <1>1, <1>3 DEF SQType
  <1>5. OnceInv'
    BY <1>2, <1>4, OnceScene
  <1>6. VariantLife(t)' = "restoring"
    BY <1>2, <1>4 DEF VariantLife, Live, Decided
  <1>7. Order!Change(t, "restoring")
    BY <1>2, <1>4, <1>6, VariantBecomes DEF runq, work
  <1>8. VariantLives[t] = "open"
    BY <1>2, VariantLifeFacts DEF VariantLives, Live
  <1>9. rqdata.harddeps[t] \subseteq sq.covered
    <2>1. HardKept(sq)'
      BY StartSceneStep DEF RQInv, Scene
    <2> QED
      BY <1>2, <1>4, <2>1 DEF HardKept
  <1>10. ASSUME NEW h \in rqdata.harddeps[t] PROVE VariantLives[h] \in {"there", "needless"}
    <2>1. h \in sq.covered /\ h \in Setscene
      BY <1>9, <1>10 DEF RQInv, Scene, SQType
    <2> QED
      BY <2>1, VariantLifeFacts DEF VariantLives
  <1>11. Order!Restore(t)
    BY <1>7, <1>8, <1>10, OrderFields DEF Order!Restore, Order!Restorable
  <1> QED
    BY <1>2, <1>5, <1>11, OrderFields DEF OrderStep, Order!Next, Order!VariantStep

LEMMA OrderInit == Init => Order!Init
  <1>1. SUFFICES ASSUME Init PROVE Order!Init
    OBVIOUS
  <1>2. RQInv /\ OnceInv
    BY <1>1, RQInvInit, OnceInit
  <1>3. \A t \in Tasks : TaskLife(t) = "waiting"
    BY <1>1 DEF Init, TaskLife
  <1>4. PICK valid \in SUBSET Setscene : sq = InitialScene(valid)
    BY <1>1 DEF Init
  <1> DEFINE P == {s \in Setscene : Present(s)}
             p == [EmptyScene EXCEPT
                     !.running = P, !.covered = P, !.buildable = @ \cup P,
                     !.outrightfail = Setscene \ (P \cup valid \cup DOMAIN sqdata.deferred)]
  <1>5. sq = scenequeue_updatecounters(p, P)
    BY <1>4 DEF InitialScene
  <1>6. /\ p \in SQType /\ p.live = {} /\ p.covered = P /\ p.notcovered = {}
    BY <1>2 DEF EmptyScene, SQType, RQInv, Graph, SQDataType
  <1>7. sq.live = {} /\ sq.covered = P /\ sq.notcovered = {}
    <2> HIDE DEF p
    <2> QED
      BY <1>5, <1>6, UpdateFields
  <1>8. \A s \in Setscene : VariantLife(s) \in {"open", "there"}
    BY <1>7 DEF VariantLife, Live
  <1> QED
    BY <1>3, <1>8, OrderFields DEF Order!Init, TaskLives, VariantLives

LEMMA OrderNext == RQInv /\ OnceInv /\ [Next]_vars => OnceInv' /\ OrderStep
  <1>1. SUFFICES ASSUME RQInv, OnceInv, [Next]_vars PROVE OnceInv' /\ OrderStep
    OBVIOUS
  <1>2. ASSUME NEW t \in Candidates, ScenePart(t) PROVE OnceInv' /\ OrderStep
    BY <1>1, <1>2, SkipNotNeededOrder, AskForHardOrder, FailNowOrder, StartSceneOrder DEF ScenePart
  <1>3. Sq.live = sq.live /\ Sq.covered = sq.covered /\ Sq.notcovered = sq.notcovered
    BY <1>1 DEF Sq, RQInv, Scene, SQType
  <1>4. CASE SceneEnds
    <2>1. UNCHANGED <<rqdata, sqdata, restored, runq_running, runq_complete, runq_tasksrun, work>> /\ sq' = Sq
      BY <1>4 DEF SceneEnds
    <2> QED
      BY <1>1, <1>3, <2>1, NoTaskOrder
  <1>5. CASE Schedule
    <2>1. ASSUME NEW t \in Eligible, TaskPart(t) PROVE OnceInv' /\ OrderStep
      BY <1>1, <1>5, <2>1, CompleteNowOrder, StartTaskOrder, FailUnexpectedOrder DEF TaskPart, Schedule
    <2>2. ASSUME NoTask, sq' = Sq \/ \E t \in Setscene : sq' = [Sq EXCEPT !.deferred = Without(@, t)]
          PROVE  OnceInv' /\ OrderStep
      <3>1. sq'.live = sq.live /\ sq'.covered = sq.covered /\ sq'.notcovered = sq.notcovered
        <4>1. Sq \in SQType
          BY <1>1, SqScene
        <4> HIDE DEF Sq
        <4> QED
          BY <1>3, <2>2, <4>1 DEF SQType
      <3> QED
        BY <1>1, <1>5, <2>2, <3>1, NoTaskOrder DEF Schedule, Scheduling, NoTask
    <2> QED
      BY <1>5, <2>1, <2>2 DEF Schedule, ForceDeferred, Wait, EndBuild, Idle
  <1>6. ASSUME NEW t \in Tasks, Answers(t) PROVE OnceInv' /\ OrderStep
    BY <1>1, <1>6, SceneAnswerOrder, TaskAnswerOrder DEF Answers
  <1>7. CASE Stop \/ StopNow \/ Finish \/ Over \/ UNCHANGED vars
    <2>1. UNCHANGED <<rqdata, sqdata, sq, restored, runq_running, runq_complete, runq_tasksrun, work>>
      BY <1>7 DEF Stop, StopNow, Finish, Over, vars, runq
    <2> QED
      BY <1>1, <2>1, NoTaskOrder
  <1> QED
    BY <1>1, <1>2, <1>4, <1>5, <1>6, <1>7 DEF Next, Pass

(* Whatever the graph, the answers and the settings: no task is carried out *)
(* and no variant restored twice or out of turn, and what has been decided  *)
(* of one is never taken back.                                              *)
THEOREM ImplementsOrder == Spec => ImplementsBuildOrder
  <1>1. Init => OnceInv
    BY OnceInit
  <1>2. RQInv /\ OnceInv /\ [Next]_vars => OnceInv' /\ [Order!Next]_(Order!vars)
    BY OrderNext DEF OrderStep
  <1> QED
    BY <1>1, <1>2, OrderInit, RunQueueInvariant, PTL DEF Spec, ImplementsBuildOrder, Order!Spec
=============================================================================
