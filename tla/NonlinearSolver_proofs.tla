----------------------- MODULE NonlinearSolver_proofs -----------------------
(***************************************************************************)
(* What the nonlinear solvers, their convergence criteria and the provider *)
(* do for every project, every number of processes and of iterations, and  *)
(* all norms and tolerances.                                               *)
(***************************************************************************)
EXTENDS NonlinearSolver, WellFoundedInduction, TLAPS

(* Inside solve(), its loop, and before or between solves.                 *)
Working == phase \in {"assemble", "linear", "finish"}
Looping == phase \in {"assemble", "linear"}
Resting == phase \in {"residuum", "idle"}

(* The iterates: x, and x_new of Picard, are the last one kept, which is   *)
(* older than the iteration under way.                                     *)
IteratesInv ==
  /\ Resting => x = 0 /\ xNew = 0 /\ kept = 0
  /\ Looping => /\ iteration \in 1 .. MaxIter
                /\ kept < iteration
                /\ x = kept
                /\ Picard(proc) => xNew = kept
  /\ phase = "linear" => assembledAt = kept

(* r is the norm that the norms of the sequence s are compared with: of    *)
(* the criterion Residual, the first one that is not zero.                 *)
IsReference(kind, s, r) ==
  IF kind = "Residual"
  THEN \/ r = 0 /\ \A i \in 1 .. Len(s) : s[i] = 0
       \/ \E i \in 1 .. Len(s) : /\ s[i] = r /\ r # 0
                                 /\ \A j \in 1 .. i - 1 : s[j] = 0
  ELSE r = s[1]

(* The check of the residual passes, judged from the norms s alone.        *)
ResidualPasses(s, r) ==
  \/ s[Len(s)] < AbsTol
  \/ Len(s) > 1 /\ RelativePasses(s[Len(s)], r)

(* The criterion: it is in its first iteration as long as no residual has  *)
(* been seen, it holds the reference of the solve's own residuals, and     *)
(* after the check of the residual it passes only if that check does.      *)
CriterionInv ==
  LET c == crit[proc] kind == Criterion(proc) IN
  /\ Resting => seen = <<>> /\ ~met
  /\ Looping => ~met
  /\ Looping /\ ChecksResidual(proc) =>
       /\ phase = "assemble" => (c.first <=> seen = <<>>)
       /\ phase = "linear" => seen # <<>> /\ (c.first <=> Len(seen) = 1)
       /\ seen # <<>> => IsReference(kind, seen, c.norm0)
  /\ phase = "linear" /\ ChecksResidual(proc) /\ c.satisfied =>
       ResidualPasses(seen, c.norm0)
  /\ phase = "finish" /\ met => LastChecksPass

(* In later iterations nothing else makes the criterion fail.              *)
ForgettingInv ==
  LET c == crit[proc] IN
  /\ phase = "assemble" /\ iteration > 1 => c.satisfied
  /\ phase = "linear" /\ iteration > 1 =>
       (c.satisfied <=> (ChecksResidual(proc) => ResidualPasses(seen, c.norm0)))
  /\ phase = "assemble" /\ kept > 1 /\ kept + 1 = iteration => ~LastChecksPass
  /\ phase = "finish" /\ kept > 1 /\ kept = iteration /\ ~met => ~LastChecksPass

(* The number of residuals seen.                                           *)
CountInv ==
  /\ phase = "assemble" => Len(seen) < iteration
  /\ phase = "linear" => Len(seen) <= iteration
  /\ Len(seen) <= MaxIter

(* The objects: those in use by the solve and by the residua differ.       *)
HasResiduum(s) == neq[s].of # 0

ResiduaInv ==
  /\ \A s \in Procs : HasResiduum(s) => neq[s].id \in pool.used
  /\ \A s, t \in Procs :
       HasResiduum(s) /\ HasResiduum(t) /\ s # t => neq[s].id # neq[t].id

FreeOfResidua(id) == \A s \in Procs : HasResiduum(s) => neq[s].id # id

HeldInv ==
  /\ \A i \in 1 .. 3 : Held(proc)[i] \in pool.used /\ FreeOfResidua(Held(proc)[i])
  /\ \A i, j \in 1 .. 3 : i # j => Held(proc)[i] # Held(proc)[j]

ObjectsInv == IsPool(pool) /\ ResiduaInv /\ (Working => HeldInv)

Inv == TypeOK /\ IteratesInv /\ CriterionInv /\ ForgettingInv /\ CountInv /\ ObjectsInv

-----------------------------------------------------------------------------
(* The provider *)

(* A new object is none of those in use, and is the only one added.        *)
LEMMA GetNewFacts ==
  ASSUME NEW q \in Provider, IsPool(q)
  PROVE  /\ GetNew(q).pool \in Provider /\ IsPool(GetNew(q).pool)
         /\ GetNew(q).id \in Nat /\ GetNew(q).id \notin q.used
         /\ GetNew(q).pool.used = q.used \cup {GetNew(q).id}
<1> DEFINE g == [next |-> q.next + 1, used |-> q.used \cup {q.next}, unused |-> q.unused]
<1>1. GetNew(q) = [pool |-> g, id |-> q.next]
  BY DEF Provider, GetNew
<1>2. g \in Provider /\ IsPool(g) /\ q.next \in Nat /\ q.next \notin q.used
  BY DEF Provider, IsPool
<1> QED BY <1>1, <1>2

(* The same of an object asked for with an id, found or not.               *)
LEMMA GetFacts ==
  ASSUME NEW q \in Provider, IsPool(q), NEW i \in Nat
  PROVE  /\ Get(q, i).pool \in Provider /\ IsPool(Get(q, i).pool)
         /\ Get(q, i).id \in Nat /\ Get(q, i).id \notin q.used
         /\ Get(q, i).pool.used = q.used \cup {Get(q, i).id}
<1>1. CASE i \in q.unused
  BY <1>1 DEF Provider, IsPool, Get
<1>2. CASE i \notin q.unused
  BY <1>2, GetNewFacts DEF Get
<1> QED BY <1>1, <1>2

(* An object that is given back is no longer in use; the others are.       *)
LEMMA ReleaseFacts ==
  ASSUME NEW q \in Provider, IsPool(q), NEW i \in q.used
  PROVE  /\ Release(q, i) \in Provider /\ IsPool(Release(q, i))
         /\ Release(q, i).used = q.used \ {i}
  BY DEF Provider, IsPool, Release

(* The objects taken in an assembly are new, or not in use after it.       *)
LEMMA GetManyFacts ==
  ASSUME NEW q \in Provider, IsPool(q), NEW n \in Nat
  PROVE  /\ GetManyNew(q, n) \in Provider /\ IsPool(GetManyNew(q, n))
         /\ q.used \subseteq GetManyNew(q, n).used
         /\ GetAndReleaseManyNew(q, n) \in Provider
         /\ IsPool(GetAndReleaseManyNew(q, n))
         /\ GetAndReleaseManyNew(q, n).used = q.used
<1> DEFINE new == q.next .. q.next + n - 1
           g == [next |-> q.next + n, used |-> q.used \cup new, unused |-> q.unused]
           r == [next |-> q.next + n, used |-> q.used, unused |-> q.unused \cup new]
<1>1. GetManyNew(q, n) = g /\ GetAndReleaseManyNew(q, n) = r
  BY DEF Provider, GetManyNew, GetAndReleaseManyNew
<1>2. /\ q.next \in Nat \ {0} /\ q.next + n \in Nat \ {0}
      /\ q.used \subseteq 1 .. q.next - 1 /\ q.unused \subseteq 1 .. q.next - 1
      /\ q.used \cap q.unused = {}
  BY DEF Provider, IsPool
<1>3. /\ new \subseteq 1 .. q.next + n - 1 /\ new \subseteq Nat
      /\ new \cap (1 .. q.next - 1) = {}
      /\ 1 .. q.next - 1 \subseteq 1 .. q.next + n - 1
  BY <1>2
<1>4. g \in Provider /\ r \in Provider
  BY <1>2, <1>3 DEF Provider
<1>5. IsPool(g) /\ IsPool(r)
  <2>1. /\ g.next = q.next + n /\ g.used = q.used \cup new /\ g.unused = q.unused
        /\ r.next = q.next + n /\ r.used = q.used /\ r.unused = q.unused \cup new
    OBVIOUS
  <2>2. /\ q.used \cup new \subseteq 1 .. q.next + n - 1
        /\ q.unused \cup new \subseteq 1 .. q.next + n - 1
        /\ (q.used \cup new) \cap q.unused = {}
        /\ q.used \cap (q.unused \cup new) = {}
        /\ q.used \subseteq 1 .. q.next + n - 1
        /\ q.unused \subseteq 1 .. q.next + n - 1
    <3> DEFINE old == 1 .. q.next - 1
               all == 1 .. q.next + n - 1
    <3> HIDE DEF new, old, all
    <3>1. /\ q.used \subseteq old /\ q.unused \subseteq old /\ q.used \cap q.unused = {}
          /\ new \subseteq all /\ new \cap old = {} /\ old \subseteq all
      BY <1>2, <1>3 DEF old, all
    <3>2. /\ q.used \cup new \subseteq all /\ q.unused \cup new \subseteq all
          /\ (q.used \cup new) \cap q.unused = {}
          /\ q.used \cap (q.unused \cup new) = {}
          /\ q.used \subseteq all /\ q.unused \subseteq all
      BY <3>1
    <3> QED BY <3>2 DEF all
  <2> HIDE DEF g, r
  <2>3. IsPool(g)
    BY <1>2, <2>1, <2>2 DEF IsPool
  <2>4. IsPool(r)
    BY <1>2, <2>1, <2>2 DEF IsPool
  <2> QED BY <2>3, <2>4
<1> QED BY <1>1, <1>4, <1>5

(* An object that is borrowed leaves those in use as they are.             *)
LEMMA BorrowFacts ==
  ASSUME NEW q \in Provider, IsPool(q), NEW i \in Nat
  PROVE  /\ Borrow(q, i).pool \in Provider /\ IsPool(Borrow(q, i).pool)
         /\ Borrow(q, i).id \in Nat
         /\ Borrow(q, i).pool.used = q.used
<1> DEFINE g == Get(q, i)
<1>1. /\ g.pool \in Provider /\ IsPool(g.pool) /\ g.id \in Nat
      /\ g.id \notin q.used /\ g.pool.used = q.used \cup {g.id}
  BY GetFacts
<1>2. Borrow(q, i) = [pool |-> Release(g.pool, g.id), id |-> g.id]
  BY DEF Borrow
<1> HIDE DEF g
<1>3. /\ Release(g.pool, g.id) \in Provider /\ IsPool(Release(g.pool, g.id))
      /\ Release(g.pool, g.id).used = g.pool.used \ {g.id}
  BY <1>1, ReleaseFacts
<1> QED BY <1>1, <1>2, <1>3

-----------------------------------------------------------------------------
(* The solver's use of the provider *)

(* What the project file says of a process.                                *)
LEMMA ProjectFacts ==
  ASSUME TypeOK, NEW p \in Procs
  PROVE  /\ Solver(p) \in Procs /\ Picard(p) \in BOOLEAN /\ Linear(p) \in BOOLEAN
         /\ Criterion(p) \in DeltaXKinds \cup ResidualKinds
         /\ ids[Solver(p)] \in ObjectIds /\ xdotId[p] \in Nat
<1>1. project \in Project
  BY ProjectsAssumption DEF TypeOK
<1>2. project.procs[p] \in Process
  BY <1>1 DEF Project
<1>3. Solver(p) \in Procs
  BY <1>2 DEF Process, Solver
<1> QED BY <1>2, <1>3 DEF Process, Criterion, Linear, Picard, TypeOK

(* An assembly takes nothing away from those in use.                       *)
LEMMA AfterAssembleFacts ==
  ASSUME NEW p \in Procs, NEW q \in Provider, IsPool(q)
  PROVE  /\ AfterAssemble(p, q) \in Provider /\ IsPool(AfterAssemble(p, q))
         /\ q.used \subseteq AfterAssemble(p, q).used
         /\ ~Picard(p) => AfterAssemble(p, q).used = q.used
<1>1. NumProcs \in Nat
  BY NumbersAssumption
<1> QED BY <1>1, GetManyFacts DEF AfterAssemble

(* The three objects acquired for a solve are new to those in use.         *)
LEMMA AcquireFacts ==
  ASSUME TypeOK, IsPool(pool), NEW p \in Procs, Acquire(p), project' = project
  PROVE  /\ pool' \in Provider /\ IsPool(pool') /\ pool.used \subseteq pool'.used
         /\ ids' \in [Procs -> ObjectIds]
         /\ \A i \in 1 .. 3 : Held(p)'[i] \in pool'.used \ pool.used
         /\ \A i, j \in 1 .. 3 : i # j => Held(p)'[i] # Held(p)'[j]
         /\ pool'.used = pool.used \cup {Held(p)'[1], Held(p)'[2], Held(p)'[3]}
<1> DEFINE s == Solver(p)
<1>1. /\ s \in Procs /\ ids[s] \in ObjectIds /\ pool \in Provider
      /\ ids \in [Procs -> ObjectIds] /\ Solver(p)' = s /\ Picard(p)' = Picard(p)
  BY ProjectFacts DEF TypeOK, Solver, Picard
<1>2. CASE Picard(p)
  <2> DEFINE i == ids[s]
             a == Get(pool, i.matrix)
             r == Get(a.pool, i.rhs)
             n == Get(r.pool, i.x_new)
  <2>1. /\ pool' = n.pool
        /\ ids' = [ids EXCEPT ![s] = [i EXCEPT !.matrix = a.id, !.rhs = r.id, !.x_new = n.id]]
    BY <1>2 DEF Acquire, AcquirePicard
  <2>2. i.matrix \in Nat /\ i.rhs \in Nat /\ i.x_new \in Nat /\ i.update \in Nat
    BY <1>1 DEF ObjectIds
  <2> HIDE DEF i
  <2>3. /\ a.pool \in Provider /\ IsPool(a.pool) /\ a.id \in Nat
        /\ a.id \notin pool.used /\ a.pool.used = pool.used \cup {a.id}
    BY <1>1, <2>2, GetFacts
  <2> HIDE DEF a
  <2>4. /\ r.pool \in Provider /\ IsPool(r.pool) /\ r.id \in Nat
        /\ r.id \notin a.pool.used /\ r.pool.used = a.pool.used \cup {r.id}
    BY <2>2, <2>3, GetFacts
  <2> HIDE DEF r
  <2>5. /\ n.pool \in Provider /\ IsPool(n.pool) /\ n.id \in Nat
        /\ n.id \notin r.pool.used /\ n.pool.used = r.pool.used \cup {n.id}
    BY <2>2, <2>4, GetFacts
  <2> HIDE DEF n
  <2>6. /\ ids' \in [Procs -> ObjectIds]
        /\ ids'[s].matrix = a.id /\ ids'[s].rhs = r.id /\ ids'[s].x_new = n.id
    BY <1>1, <2>1, <2>3, <2>4, <2>5 DEF ObjectIds, i
  <2>7. Held(p)' = <<a.id, r.id, n.id>>
    BY <1>1, <1>2, <2>6 DEF Held, ThirdHeld
  <2>8. /\ Held(p)'[1] = a.id /\ Held(p)'[2] = r.id /\ Held(p)'[3] = n.id
    BY <2>7
  <2>9. \A k \in 1 .. 3 : k = 1 \/ k = 2 \/ k = 3
    OBVIOUS
  <2> QED BY <2>1, <2>3, <2>4, <2>5, <2>6, <2>8, <2>9
<1>3. CASE ~Picard(p)
  <2> DEFINE i == ids[s]
             r == Get(pool, i.rhs)
             u == Get(r.pool, i.update)
             j == Get(u.pool, i.matrix)
  <2>1. /\ pool' = j.pool
        /\ ids' = [ids EXCEPT ![s] = [i EXCEPT !.rhs = r.id, !.update = u.id, !.matrix = j.id]]
    BY <1>3 DEF Acquire, AcquireNewton
  <2>2. i.matrix \in Nat /\ i.rhs \in Nat /\ i.x_new \in Nat /\ i.update \in Nat
    BY <1>1 DEF ObjectIds
  <2> HIDE DEF i
  <2>3. /\ r.pool \in Provider /\ IsPool(r.pool) /\ r.id \in Nat
        /\ r.id \notin pool.used /\ r.pool.used = pool.used \cup {r.id}
    BY <1>1, <2>2, GetFacts
  <2> HIDE DEF r
  <2>4. /\ u.pool \in Provider /\ IsPool(u.pool) /\ u.id \in Nat
        /\ u.id \notin r.pool.used /\ u.pool.used = r.pool.used \cup {u.id}
    BY <2>2, <2>3, GetFacts
  <2> HIDE DEF u
  <2>5. /\ j.pool \in Provider /\ IsPool(j.pool) /\ j.id \in Nat
        /\ j.id \notin u.pool.used /\ j.pool.used = u.pool.used \cup {j.id}
    BY <2>2, <2>4, GetFacts
  <2> HIDE DEF j
  <2>6. /\ ids' \in [Procs -> ObjectIds]
        /\ ids'[s].matrix = j.id /\ ids'[s].rhs = r.id /\ ids'[s].update = u.id
    BY <1>1, <2>1, <2>3, <2>4, <2>5 DEF ObjectIds, i
  <2>7. Held(p)' = <<j.id, r.id, u.id>>
    BY <1>1, <1>3, <2>6 DEF Held, ThirdHeld
  <2>8. /\ Held(p)'[1] = j.id /\ Held(p)'[2] = r.id /\ Held(p)'[3] = u.id
    BY <2>7
  <2>9. \A k \in 1 .. 3 : k = 1 \/ k = 2 \/ k = 3
    OBVIOUS
  <2> QED BY <2>1, <2>3, <2>4, <2>5, <2>6, <2>8, <2>9
<1> QED BY <1>2, <1>3

(* A residuum is made of an object that was not in use; the Newton variant *)
(* takes nothing else.                                                     *)
LEMMA ResiduumNewtonFacts ==
  ASSUME TypeOK, IsPool(pool), NEW p \in Procs, ResiduumNewton(p)
  PROVE  /\ pool' \in Provider /\ IsPool(pool') /\ pool.used \subseteq pool'.used
         /\ ids' \in [Procs -> ObjectIds] /\ xdotId' \in [Procs -> Nat]
         /\ \E id \in pool'.used \ pool.used :
              /\ id \in Nat /\ neq' = [neq EXCEPT ![Solver(p)] = [of |-> p, id |-> id]]
              /\ ~Picard(p) => pool'.used = pool.used \cup {id}
<1> DEFINE s == Solver(p)
           q == AfterAssemble(p, pool)
           n == GetNew(q)
           b == Borrow(n.pool, xdotId[p])
<1>1. /\ s \in Procs /\ ids[s] \in ObjectIds /\ pool \in Provider /\ xdotId[p] \in Nat
      /\ ids \in [Procs -> ObjectIds] /\ xdotId \in [Procs -> Nat]
  BY ProjectFacts DEF TypeOK
<1>2. /\ pool' = b.pool /\ xdotId' = [xdotId EXCEPT ![p] = b.id] /\ ids' = ids
      /\ neq' = [neq EXCEPT ![s] = [of |-> p, id |-> n.id]]
  BY DEF ResiduumNewton
<1>3. /\ q \in Provider /\ IsPool(q) /\ pool.used \subseteq q.used
      /\ ~Picard(p) => q.used = pool.used
  BY <1>1, AfterAssembleFacts
<1> HIDE DEF q
<1>4. /\ n.pool \in Provider /\ IsPool(n.pool) /\ n.id \in Nat
      /\ n.id \notin q.used /\ n.pool.used = q.used \cup {n.id}
  BY <1>3, GetNewFacts
<1> HIDE DEF n
<1>5. /\ b.pool \in Provider /\ IsPool(b.pool) /\ b.id \in Nat
      /\ b.pool.used = n.pool.used
  BY <1>1, <1>4, BorrowFacts
<1> HIDE DEF b
<1>6. n.id \in pool'.used \ pool.used /\ pool.used \subseteq pool'.used
  BY <1>2, <1>3, <1>4, <1>5
<1>7. ~Picard(p) => pool'.used = pool.used \cup {n.id}
  BY <1>2, <1>3, <1>4, <1>5
<1> QED BY <1>1, <1>2, <1>4, <1>5, <1>6, <1>7

(* A residuum is made of an object that was not in use.                    *)
LEMMA ResiduumFacts ==
  ASSUME TypeOK, IsPool(pool), NEW p \in Procs,
         ResiduumPicard(p) \/ ResiduumNewton(p)
  PROVE  /\ pool' \in Provider /\ IsPool(pool') /\ pool.used \subseteq pool'.used
         /\ ids' \in [Procs -> ObjectIds] /\ xdotId' \in [Procs -> Nat]
         /\ \E id \in pool'.used \ pool.used :
              id \in Nat /\ neq' = [neq EXCEPT ![Solver(p)] = [of |-> p, id |-> id]]
<1> DEFINE s == Solver(p)
<1>1. /\ s \in Procs /\ ids[s] \in ObjectIds /\ pool \in Provider /\ xdotId[p] \in Nat
      /\ ids \in [Procs -> ObjectIds] /\ xdotId \in [Procs -> Nat]
  BY ProjectFacts DEF TypeOK
<1>2. CASE ResiduumPicard(p)
  <2> DEFINE i == ids[s]
             a == Get(pool, i.matrix)
             r == Get(a.pool, i.rhs)
             q == AfterAssemble(p, r.pool)
             n == GetNew(q)
  <2>1. /\ pool' = n.pool /\ xdotId' = xdotId
        /\ ids' = [ids EXCEPT ![s] = [i EXCEPT !.matrix = a.id, !.rhs = r.id]]
        /\ neq' = [neq EXCEPT ![s] = [of |-> p, id |-> n.id]]
    BY <1>2 DEF ResiduumPicard
  <2>2. i.matrix \in Nat /\ i.rhs \in Nat /\ i.x_new \in Nat /\ i.update \in Nat
    BY <1>1 DEF ObjectIds
  <2> HIDE DEF i
  <2>3. /\ a.pool \in Provider /\ IsPool(a.pool) /\ a.id \in Nat
        /\ a.pool.used = pool.used \cup {a.id}
    BY <1>1, <2>2, GetFacts
  <2> HIDE DEF a
  <2>4. /\ r.pool \in Provider /\ IsPool(r.pool) /\ r.id \in Nat
        /\ r.pool.used = a.pool.used \cup {r.id}
    BY <2>2, <2>3, GetFacts
  <2> HIDE DEF r
  <2>5. q \in Provider /\ IsPool(q) /\ r.pool.used \subseteq q.used
    BY <2>4, AfterAssembleFacts
  <2> HIDE DEF q
  <2>6. /\ n.pool \in Provider /\ IsPool(n.pool) /\ n.id \in Nat
        /\ n.id \notin q.used /\ n.pool.used = q.used \cup {n.id}
    BY <2>5, GetNewFacts
  <2> HIDE DEF n
  <2>7. ids' \in [Procs -> ObjectIds]
    BY <1>1, <2>1, <2>3, <2>4 DEF ObjectIds, i
  <2>8. n.id \in pool'.used \ pool.used /\ pool.used \subseteq pool'.used
    BY <2>1, <2>3, <2>4, <2>5, <2>6
  <2> QED BY <1>1, <2>1, <2>6, <2>7, <2>8
<1>3. CASE ResiduumNewton(p)
  BY <1>3, ResiduumNewtonFacts
<1> QED BY <1>2, <1>3

(* An assembly, and what its caller borrows for the residual.              *)
LEMMA AssembleFacts ==
  ASSUME TypeOK, IsPool(pool), NEW p \in Procs, AssembleFrom(p, pool)
  PROVE  /\ pool' \in Provider /\ IsPool(pool') /\ pool.used \subseteq pool'.used
         /\ xdotId' \in [Procs -> Nat]
         /\ ~Picard(p) => pool'.used = pool.used
<1> DEFINE q == AfterAssemble(p, pool)
           b == Borrow(q, xdotId[p])
<1>1. /\ pool \in Provider /\ xdotId[p] \in Nat /\ xdotId \in [Procs -> Nat]
  BY ProjectFacts DEF TypeOK
<1>2. /\ q \in Provider /\ IsPool(q) /\ pool.used \subseteq q.used
      /\ ~Picard(p) => q.used = pool.used
  BY <1>1, AfterAssembleFacts
<1>3. \/ pool' = q /\ xdotId' = xdotId
      \/ pool' = b.pool /\ xdotId' = [xdotId EXCEPT ![p] = b.id]
  BY DEF AssembleFrom
<1> HIDE DEF q
<1>4. b.pool \in Provider /\ IsPool(b.pool) /\ b.id \in Nat /\ b.pool.used = q.used
  BY <1>1, <1>2, BorrowFacts
<1> HIDE DEF b
<1> QED BY <1>1, <1>2, <1>3, <1>4

(* x_new of the Newton method comes and goes; the rest stays in use.       *)
LEMMA BorrowXNewFacts ==
  ASSUME TypeOK, IsPool(pool), BorrowXNew, project' = project, proc' = proc
  PROVE  /\ pool' \in Provider /\ IsPool(pool') /\ pool'.used = pool.used
         /\ ids' \in [Procs -> ObjectIds]
         /\ Held(proc)' = Held(proc)
<1> DEFINE s == Solver(proc)
<1>1. /\ s \in Procs /\ ids[s] \in ObjectIds /\ pool \in Provider
      /\ ids \in [Procs -> ObjectIds] /\ Solver(proc)' = s /\ Picard(proc)' = Picard(proc)
  BY ProjectFacts DEF TypeOK, Solver, Picard
<1>2. CASE Picard(proc)
  BY <1>1, <1>2 DEF BorrowXNew, Held, ThirdHeld
<1>3. CASE ~Picard(proc)
  <2> DEFINE b == Borrow(pool, ids[s].x_new)
  <2>1. pool' = b.pool /\ ids' = [ids EXCEPT ![s].x_new = b.id]
    BY <1>3 DEF BorrowXNew
  <2>2. ids[s].x_new \in Nat
    BY <1>1 DEF ObjectIds
  <2>3. b.pool \in Provider /\ IsPool(b.pool) /\ b.id \in Nat /\ b.pool.used = pool.used
    BY <1>1, <2>2, BorrowFacts
  <2> HIDE DEF b
  <2>4. /\ ids' \in [Procs -> ObjectIds]
        /\ ids'[s].matrix = ids[s].matrix /\ ids'[s].rhs = ids[s].rhs
        /\ ids'[s].update = ids[s].update
    BY <1>1, <2>1, <2>3 DEF ObjectIds
  <2> QED BY <1>1, <1>3, <2>1, <2>3, <2>4 DEF Held, ThirdHeld
<1> QED BY <1>2, <1>3

(* The three objects of a solve are given back, and nothing else.          *)
LEMMA ReleaseHeldFacts ==
  ASSUME TypeOK, IsPool(pool), HeldInv
  PROVE  /\ ReleaseHeld(proc) \in Provider /\ IsPool(ReleaseHeld(proc))
         /\ ReleaseHeld(proc).used =
              pool.used \ {Held(proc)[1], Held(proc)[2], Held(proc)[3]}
<1> DEFINE a == Held(proc)[1]
           b == Held(proc)[2]
           c == Held(proc)[3]
           q == Release(pool, a)
           r == Release(q, b)
<1>1. /\ a \in pool.used /\ b \in pool.used /\ c \in pool.used
      /\ a # b /\ a # c /\ b # c
  <2>1. 1 \in 1 .. 3 /\ 2 \in 1 .. 3 /\ 3 \in 1 .. 3
    OBVIOUS
  <2> QED BY <2>1 DEF HeldInv
<1>2. ReleaseHeld(proc) = Release(r, c)
  BY DEF ReleaseHeld
<1>3. pool \in Provider
  BY DEF TypeOK
<1> HIDE DEF a, b, c
<1>4. q \in Provider /\ IsPool(q) /\ q.used = pool.used \ {a}
  BY <1>1, <1>3, ReleaseFacts
<1> HIDE DEF q
<1>5. r \in Provider /\ IsPool(r) /\ r.used = q.used \ {b}
  BY <1>1, <1>4, ReleaseFacts
<1> HIDE DEF r
<1>6. /\ Release(r, c) \in Provider /\ IsPool(Release(r, c))
      /\ Release(r, c).used = r.used \ {c}
  BY <1>1, <1>4, <1>5, ReleaseFacts
<1>7. ReleaseHeld(proc).used = pool.used \ {a, b, c}
  BY <1>2, <1>4, <1>5, <1>6
<1> QED BY <1>2, <1>6, <1>7 DEF a, b, c

-----------------------------------------------------------------------------
(* The convergence criterion *)

CriterionState == [satisfied: BOOLEAN, first: BOOLEAN, norm0: Nat]

(* What the operations of a criterion do to its state.                     *)
LEMMA CriterionFacts ==
  ASSUME NEW c \in CriterionState, NEW kind
  PROVE  /\ PreFirstIteration(c) \in CriterionState
         /\ PreFirstIteration(c).first
         /\ Reset(kind, c) \in CriterionState
         /\ Reset(kind, c).satisfied
         /\ Reset(kind, c).first <=> c.first /\ kind \in DeltaXKinds
         /\ Reset(kind, c).norm0 = c.norm0
<1>1. PreFirstIteration(c) \in CriterionState /\ PreFirstIteration(c).first
  BY DEF CriterionState, PreFirstIteration
<1>2. Reset(kind, c) \in CriterionState
  BY DEF CriterionState, Reset
<1>3. Reset(kind, c).satisfied /\ Reset(kind, c).norm0 = c.norm0
  BY DEF CriterionState, Reset
<1>4. Reset(kind, c).first <=> c.first /\ kind \in DeltaXKinds
  BY DEF CriterionState, Reset
<1> QED BY <1>1, <1>2, <1>3, <1>4

(* The check of the residual.                                              *)
LEMMA CheckResidualFacts ==
  ASSUME NEW c \in CriterionState, NEW kind, NEW norm \in Nat
  PROVE  /\ CheckResidual(kind, c, norm) \in CriterionState
         /\ CheckResidual(kind, c, norm).first = c.first
         /\ CheckResidual(kind, c, norm).norm0 = ReferenceNorm(kind, c, norm)
         /\ CheckResidual(kind, c, norm).satisfied <=>
              c.satisfied /\ \/ norm < AbsTol
                             \/ ~c.first /\ RelativePasses(norm, ReferenceNorm(kind, c, norm))
<1> DEFINE n0 == ReferenceNorm(kind, c, norm)
           ok == norm < AbsTol \/ (~c.first /\ RelativePasses(norm, n0))
           r == [c EXCEPT !.norm0 = n0, !.satisfied = @ /\ ok]
<1>1. n0 \in Nat
  BY DEF ReferenceNorm, CriterionState
<1>2. CheckResidual(kind, c, norm) = r
  BY DEF CheckResidual
<1> HIDE DEF n0, ok
<1>3. r \in CriterionState
  BY <1>1 DEF CriterionState
<1>4. r.first = c.first /\ r.norm0 = n0
  BY DEF CriterionState
<1>5. r.satisfied <=> c.satisfied /\ ok
  BY DEF CriterionState
<1> HIDE DEF r
<1> QED BY <1>2, <1>3, <1>4, <1>5 DEF n0, ok

(* The check of delta x.                                                   *)
LEMMA CheckDeltaXFacts ==
  ASSUME NEW c \in CriterionState, NEW kind, NEW passes \in BOOLEAN
  PROVE  /\ CheckDeltaX(kind, c, passes) \in CriterionState
         /\ CheckDeltaX(kind, c, passes).first = c.first
         /\ CheckDeltaX(kind, c, passes).norm0 = c.norm0
         /\ CheckDeltaX(kind, c, passes).satisfied <=>
              c.satisfied /\ (passes \/ kind \in ResidualKinds)
<1>1. CheckDeltaX(kind, c, passes) \in CriterionState
  BY DEF CriterionState, CheckDeltaX
<1>2. /\ CheckDeltaX(kind, c, passes).first = c.first
      /\ CheckDeltaX(kind, c, passes).norm0 = c.norm0
  BY DEF CriterionState, CheckDeltaX
<1>3. CheckDeltaX(kind, c, passes).satisfied <=>
        c.satisfied /\ (passes \/ kind \in ResidualKinds)
  BY DEF CriterionState, CheckDeltaX
<1> QED BY <1>1, <1>2, <1>3

-----------------------------------------------------------------------------
(* Types *)

LEMMA TypesInit == Init => TypeOK /\ IsPool(pool)
<1> SUFFICES ASSUME Init PROVE TypeOK /\ IsPool(pool)
  OBVIOUS
<1>1. 1 \in Procs /\ MaxIter \in Nat
  BY NumbersAssumption DEF Procs
<1>2. pool \in Provider /\ IsPool(pool)
  BY DEF Init, EmptyPool, Provider, IsPool
<1>3. /\ ids \in [Procs -> ObjectIds] /\ xdotId \in [Procs -> Nat]
      /\ neq \in [Procs -> [of: Nat, id: Nat]]
  BY DEF Init, NoIds, ObjectIds
<1>4. crit \in [Procs -> [satisfied: BOOLEAN, first: BOOLEAN, norm0: Nat]]
  BY DEF Init
<1>5. /\ iteration \in 0 .. MaxIter + 1 /\ met \in BOOLEAN /\ solves \in Nat
      /\ x \in Nat /\ xNew \in Nat /\ assembledAt \in Nat /\ kept \in Nat
      /\ seen \in Seq(Nat) /\ dxPassed \in BOOLEAN
  <2>1. 0 \in 0 .. MaxIter + 1 /\ <<>> \in Seq(Nat)
    BY <1>1
  <2>2. met \in BOOLEAN /\ dxPassed \in BOOLEAN
    BY DEF Init
  <2> QED BY <2>1, <2>2 DEF Init
<1>6. /\ project \in Projects /\ proc \in Procs
      /\ phase \in {"residuum", "idle", "assemble", "linear", "finish", "aborted"}
  BY <1>1 DEF Init
<1> QED BY <1>2, <1>3, <1>4, <1>5, <1>6 DEF TypeOK

(* The state of the criterion of the process under way.                    *)
LEMMA CriterionOfProc ==
  ASSUME TypeOK
  PROVE  crit[proc] \in CriterionState
  BY DEF TypeOK, CriterionState

LEMMA NextIterationTypes ==
  ASSUME TypeOK, iteration \in 1 .. MaxIter, NEW c \in CriterionState, NextIteration(c)
  PROVE  /\ iteration' \in 0 .. MaxIter + 1
         /\ crit' \in [Procs -> CriterionState]
         /\ phase' \in {"assemble", "finish"}
<1>1. Reset(Criterion(proc), c) \in CriterionState
  BY CriterionFacts
<1>2. MaxIter \in Nat
  BY NumbersAssumption
<1> QED BY <1>1, <1>2 DEF NextIteration, Incremented, TypeOK, CriterionState

LEMMA TypesStep ==
  ASSUME Inv, Next
  PROVE  TypeOK' /\ IsPool(pool)'
<1> USE DEF Inv
<1>0. /\ TypeOK /\ IsPool(pool) /\ MaxIter \in Nat /\ NumProcs \in Nat \ {0}
      /\ Looping => iteration \in 1 .. MaxIter
      /\ pool \in Provider /\ crit[proc] \in CriterionState
  BY NumbersAssumption, CriterionOfProc DEF ObjectsInv, IteratesInv, TypeOK
<1>1. CASE InitialResiduum
  <2>1. /\ pool' \in Provider /\ IsPool(pool)'
        /\ ids' \in [Procs -> ObjectIds] /\ xdotId' \in [Procs -> Nat]
        /\ neq' \in [Procs -> [of: Nat, id: Nat]]
    <3>1. CASE UNCHANGED objects
      BY <3>1, <1>0 DEF objects, TypeOK
    <3>2. CASE ResiduumPicard(proc) \/ ResiduumNewton(proc)
      <4>1. PICK id \in Nat : neq' = [neq EXCEPT ![Solver(proc)] = [of |-> proc, id |-> id]]
        BY <3>2, <1>0, ResiduumFacts DEF TypeOK
      <4>2. [of |-> proc, id |-> id] \in [of: Nat, id: Nat]
        BY DEF TypeOK, Procs
      <4>3. neq' \in [Procs -> [of: Nat, id: Nat]]
        BY <4>1, <4>2, <1>0 DEF TypeOK
      <4> QED BY <3>2, <4>3, <1>0, ResiduumFacts DEF TypeOK
    <3> QED BY <1>1, <3>1, <3>2 DEF InitialResiduum
  <2>2. proc' \in Procs /\ phase' \in {"residuum", "idle"}
    <3>1. proc \in 1 .. NumProcs
      BY <1>0 DEF TypeOK, Procs
    <3>2. CASE proc = NumProcs
      BY <1>1, <1>0, <3>1, <3>2 DEF InitialResiduum, Procs
    <3>3. CASE proc # NumProcs
      <4>1. proc' = proc + 1 /\ phase' = "residuum"
        BY <1>1, <3>3 DEF InitialResiduum
      <4> QED BY <4>1, <1>0, <3>1, <3>3 DEF Procs
    <3> QED BY <3>2, <3>3
  <2> QED BY <1>1, <2>1, <2>2 DEF TypeOK, InitialResiduum, checks, iterates
<1>2. CASE StartSolve
  <2>1. PICK p \in Procs : /\ proc' = p /\ Acquire(p)
                           /\ crit' = [crit EXCEPT ![p] = PreFirstIteration(@)]
    BY <1>2 DEF StartSolve
  <2>2. project' = project
    BY <1>2 DEF StartSolve
  <2>3. pool' \in Provider /\ IsPool(pool)' /\ ids' \in [Procs -> ObjectIds]
    BY <1>0, <2>1, <2>2, AcquireFacts
  <2>4. crit[p] \in CriterionState
    BY <2>1 DEF TypeOK, CriterionState
  <2>5. crit' \in [Procs -> [satisfied: BOOLEAN, first: BOOLEAN, norm0: Nat]]
    BY <2>1, <2>4, CriterionFacts DEF TypeOK, CriterionState
  <2>6. iteration' \in 0 .. MaxIter + 1 /\ solves' \in Nat /\ phase' \in {"assemble", "finish"}
    BY <1>0, <1>2 DEF StartSolve, TypeOK
  <2> QED BY <1>2, <2>1, <2>3, <2>5, <2>6 DEF TypeOK, StartSolve, iterates
<1>3. CASE Assemble
  <2>1. pool' \in Provider /\ IsPool(pool)' /\ xdotId' \in [Procs -> Nat]
    BY <1>0, <1>3, AssembleFacts DEF Assemble, TypeOK
  <2>2. seen' \in Seq(Nat) /\ crit' \in [Procs -> CriterionState]
    <3>1. CASE UNCHANGED <<seen, crit>>
      BY <3>1 DEF TypeOK, CriterionState
    <3>2. ASSUME NEW norm \in Norms, seen' = Append(seen, norm),
                 crit' = [crit EXCEPT ![proc] = CheckResidual(Criterion(proc), @, norm)]
          PROVE  seen' \in Seq(Nat) /\ crit' \in [Procs -> CriterionState]
      <4>1. norm \in Nat
        BY NumbersAssumption
      <4>2. CheckResidual(Criterion(proc), crit[proc], norm) \in CriterionState
        BY <1>0, <4>1, CheckResidualFacts
      <4> QED BY <3>2, <4>1, <4>2 DEF TypeOK, CriterionState
    <3> QED BY <1>3, <3>1, <3>2 DEF Assemble
  <2>3. assembledAt' \in Nat /\ phase' = "linear"
    BY <1>3 DEF Assemble, TypeOK
  <2> QED BY <1>3, <2>1, <2>2, <2>3 DEF TypeOK, Assemble, CriterionState
<1>4. CASE AssemblyFails
  <2>1. pool' \in Provider /\ IsPool(pool)'
    BY <1>0, <1>4, AfterAssembleFacts DEF AssemblyFails, TypeOK
  <2>2. /\ met' \in BOOLEAN /\ iteration' \in 0 .. MaxIter + 1
        /\ phase' \in {"finish", "aborted"}
    <3>1. \/ met' = FALSE /\ iteration' = MaxIter /\ phase' = "finish"
          \/ met' = met /\ iteration' = iteration /\ phase' = "aborted"
      BY <1>4 DEF AssemblyFails
    <3>2. met \in BOOLEAN /\ iteration \in 0 .. MaxIter + 1
      BY DEF TypeOK
    <3>3. met' \in BOOLEAN
      BY <3>1, <3>2, Zenon
    <3> HIDE DEF Inv
    <3>4. iteration' \in 0 .. MaxIter + 1 /\ phase' \in {"finish", "aborted"}
      BY <1>0, <3>1, <3>2
    <3> QED BY <3>3, <3>4
  <2> QED BY <1>4, <2>1, <2>2 DEF TypeOK, AssemblyFails, checks, iterates
<1>5. CASE LinearSolverFails
  BY <1>0, <1>5 DEF TypeOK, LinearSolverFails, checks, iterates, objects
<1>6. CASE IterationSucceeds
  <2>1. pool' \in Provider /\ IsPool(pool)' /\ ids' \in [Procs -> ObjectIds]
    BY <1>0, <1>6, BorrowXNewFacts DEF IterationSucceeds
  <2>2. PICK passes \in BOOLEAN, c \in CriterionState :
          /\ dxPassed' = passes
          /\ met' = (Linear(proc) \/ c.satisfied)
          /\ IF met' \/ iteration >= MaxIter
             THEN /\ crit' = [crit EXCEPT ![proc] = c]
                  /\ phase' = "finish"
                  /\ UNCHANGED iteration
             ELSE NextIteration(c)
    <3>1. PICK passes \in BOOLEAN :
            LET c == IF Linear(proc) THEN crit[proc]
                     ELSE CheckDeltaX(Criterion(proc), crit[proc], passes)
            IN /\ dxPassed' = passes
               /\ met' = (Linear(proc) \/ c.satisfied)
               /\ IF met' \/ iteration >= MaxIter
                  THEN /\ crit' = [crit EXCEPT ![proc] = c]
                       /\ phase' = "finish"
                       /\ UNCHANGED iteration
                  ELSE NextIteration(c)
      BY <1>6 DEF IterationSucceeds
    <3>2. CheckDeltaX(Criterion(proc), crit[proc], passes) \in CriterionState
      BY <1>0, CheckDeltaXFacts
    <3> QED BY <1>0, <3>1, <3>2
  <2>3. iteration \in 1 .. MaxIter
    BY <1>0, <1>6 DEF IterationSucceeds, Looping
  <2>4. /\ iteration' \in 0 .. MaxIter + 1 /\ crit' \in [Procs -> CriterionState]
        /\ phase' \in {"assemble", "finish"}
    <3>1. CASE NextIteration(c)
      BY <1>0, <2>3, <3>1, NextIterationTypes
    <3>2. CASE crit' = [crit EXCEPT ![proc] = c] /\ phase' = "finish" /\ UNCHANGED iteration
      BY <1>0, <3>2, <2>2 DEF TypeOK, CriterionState
    <3> QED BY <2>2, <3>1, <3>2
  <2>5. met' \in BOOLEAN /\ dxPassed' \in BOOLEAN
    BY <2>2
  <2>6. x' \in Nat /\ kept' \in Nat /\ xNew' \in Nat
    BY <1>6, <2>3 DEF IterationSucceeds, TypeOK
  <2> QED BY <1>6, <2>1, <2>4, <2>5, <2>6 DEF TypeOK, IterationSucceeds, CriterionState
<1>7. CASE IterationFails
  <2>1. pool' \in Provider /\ IsPool(pool)' /\ ids' \in [Procs -> ObjectIds]
    BY <1>0, <1>7, BorrowXNewFacts DEF IterationFails
  <2>2. x' \in Nat /\ xNew' \in Nat /\ phase' = "finish"
    BY <1>0, <1>7 DEF IterationFails, Looping, TypeOK
  <2>3. met' \in BOOLEAN
    BY <1>7 DEF IterationFails
  <2> QED BY <1>7, <2>1, <2>2, <2>3 DEF TypeOK, IterationFails, checks
<1>8. CASE IterationRepeats
  <2>1. pool' \in Provider /\ IsPool(pool)' /\ ids' \in [Procs -> ObjectIds]
    BY <1>0, <1>8, BorrowXNewFacts DEF IterationRepeats
  <2>2. iteration \in 1 .. MaxIter
    BY <1>0, <1>8 DEF IterationRepeats, Looping
  <2>3. /\ iteration' \in 0 .. MaxIter + 1 /\ crit' \in [Procs -> CriterionState]
        /\ phase' \in {"assemble", "finish"} /\ xNew' \in Nat
    BY <1>0, <1>8, <2>2, NextIterationTypes DEF IterationRepeats, ThrownAway, TypeOK
  <2> QED BY <1>8, <2>1, <2>3 DEF TypeOK, IterationRepeats, CriterionState
<1>9. CASE EndSolve
  <2>1. HeldInv
    BY <1>9 DEF EndSolve, ObjectsInv, Working
  <2>2. pool' \in Provider /\ IsPool(pool)'
    BY <1>0, <1>9, <2>1, ReleaseHeldFacts DEF EndSolve
  <2>3. /\ met' \in BOOLEAN /\ dxPassed' \in BOOLEAN
    BY <1>9 DEF EndSolve
  <2>4. iteration' \in 0 .. MaxIter + 1 /\ seen' \in Seq(Nat)
    BY <1>0, <1>9 DEF EndSolve
  <2> QED BY <1>9, <2>2, <2>3, <2>4 DEF TypeOK, EndSolve
<1>10. CASE Finished
  BY <1>0, <1>10 DEF TypeOK, Finished, vars, objects, checks, iterates
<1> QED BY <1>1, <1>2, <1>3, <1>4, <1>5, <1>6, <1>7, <1>8, <1>9, <1>10 DEF Next

-----------------------------------------------------------------------------
(* Who uses which object *)

(* The residua and the objects of a solve stay apart while the provider    *)
(* only hands out more.                                                    *)
LEMMA ResiduaKept ==
  ASSUME ResiduaInv, neq' = neq, pool.used \subseteq pool'.used
  PROVE  ResiduaInv'
  BY DEF ResiduaInv, HasResiduum

LEMMA HeldKept ==
  ASSUME HeldInv, neq' = neq, pool.used \subseteq pool'.used,
         Held(proc)' = Held(proc)
  PROVE  HeldInv'
  BY DEF HeldInv, FreeOfResidua, HasResiduum

LEMMA SameHeld ==
  ASSUME project' = project, proc' = proc, ids' = ids
  PROVE  Held(proc)' = Held(proc)
  BY DEF Held, ThirdHeld, Picard, Solver

LEMMA ObjectsInit == Init => ObjectsInv
<1> SUFFICES ASSUME Init PROVE ObjectsInv
  OBVIOUS
<1>1. IsPool(pool)
  BY TypesInit
<1>2. ResiduaInv
  BY DEF Init, ResiduaInv, HasResiduum
<1>3. ~Working
  BY DEF Init, Working
<1> QED BY <1>1, <1>2, <1>3 DEF ObjectsInv

LEMMA ObjectsStep ==
  ASSUME Inv, Next
  PROVE  ObjectsInv'
<1>1. TypeOK /\ IsPool(pool) /\ ResiduaInv /\ (Working => HeldInv) /\ pool \in Provider
  BY DEF Inv, ObjectsInv, TypeOK
<1>2. IsPool(pool)'
  BY TypesStep
<1>3. SUFFICES ResiduaInv' /\ (Working' => HeldInv')
  BY <1>2 DEF ObjectsInv
<1>4. CASE InitialResiduum
  <2>1. ~Working'
    BY <1>4 DEF InitialResiduum, Working
  <2>2. CASE UNCHANGED objects
    BY <1>1, <2>1, <2>2, ResiduaKept DEF objects
  <2>3. CASE ResiduumPicard(proc) \/ ResiduumNewton(proc)
    <3>1. proc \in Procs
      BY <1>1 DEF TypeOK
    <3>2. /\ pool.used \subseteq pool'.used
          /\ \E id \in pool'.used \ pool.used :
               id \in Nat /\ neq' = [neq EXCEPT ![Solver(proc)] = [of |-> proc, id |-> id]]
      BY <1>1, <2>3, <3>1, ResiduumFacts
    <3>3. PICK id \in pool'.used \ pool.used :
            neq' = [neq EXCEPT ![Solver(proc)] = [of |-> proc, id |-> id]]
      BY <3>2
    <3>4. Solver(proc) \in Procs /\ neq \in [Procs -> [of: Nat, id: Nat]]
      BY <1>1, <3>1, ProjectFacts DEF TypeOK
    <3>5. /\ neq'[Solver(proc)].id = id
          /\ \A s \in Procs : s # Solver(proc) => neq'[s] = neq[s]
      BY <3>3, <3>4
    <3> QED BY <1>1, <2>1, <3>2, <3>5 DEF ResiduaInv, HasResiduum
  <2> QED BY <1>4, <2>2, <2>3 DEF InitialResiduum
<1>5. CASE StartSolve
  <2>1. PICK p \in Procs : proc' = p /\ Acquire(p)
    BY <1>5 DEF StartSolve
  <2>2. project' = project /\ neq' = neq
    BY <1>5 DEF StartSolve
  <2>3. /\ pool.used \subseteq pool'.used
        /\ \A i \in 1 .. 3 : Held(p)'[i] \in pool'.used \ pool.used
        /\ \A i, j \in 1 .. 3 : i # j => Held(p)'[i] # Held(p)'[j]
    BY <1>1, <2>1, <2>2, AcquireFacts
  <2>4. Held(proc)' = Held(p)'
    BY <2>1 DEF Held, ThirdHeld, Picard, Solver
  <2>5. ResiduaInv'
    BY <1>1, <2>2, <2>3, ResiduaKept
  <2>6. \A i \in 1 .. 3 : FreeOfResidua(Held(p)[i])'
    BY <1>1, <2>2, <2>3 DEF ResiduaInv, FreeOfResidua, HasResiduum
  <2>7. HeldInv'
    BY <2>3, <2>4, <2>6 DEF HeldInv
  <2> QED BY <2>5, <2>7
<1>6. ASSUME Working, neq' = neq, pool.used \subseteq pool'.used,
             Held(proc)' = Held(proc)
      PROVE  ResiduaInv' /\ (Working' => HeldInv')
  BY <1>1, <1>6, ResiduaKept, HeldKept
<1>7. CASE Assemble
  <2>1. pool.used \subseteq pool'.used
    BY <1>1, <1>7, AssembleFacts DEF Assemble, TypeOK
  <2> QED BY <1>6, <1>7, <2>1, SameHeld DEF Assemble, Working
<1>8. CASE AssemblyFails
  <2>1. pool.used \subseteq pool'.used /\ neq' = neq
    BY <1>1, <1>8, AfterAssembleFacts DEF AssemblyFails, TypeOK
  <2>2. CASE Working
    BY <1>6, <1>8, <2>1, <2>2, SameHeld DEF AssemblyFails
  <2>3. CASE ~Working
    BY <1>1, <1>8, <2>1, <2>3, ResiduaKept DEF AssemblyFails, Working
  <2> QED BY <2>2, <2>3
<1>9. CASE LinearSolverFails
  BY <1>6, <1>9, SameHeld DEF LinearSolverFails, Working, objects
<1>10. CASE IterationSucceeds \/ IterationFails \/ IterationRepeats
  <2>1. /\ phase = "linear" /\ BorrowXNew /\ neq' = neq
        /\ project' = project /\ proc' = proc
    BY <1>10 DEF IterationSucceeds, IterationFails, IterationRepeats
  <2>2. pool'.used = pool.used /\ Held(proc)' = Held(proc)
    BY <1>1, <2>1, BorrowXNewFacts
  <2> QED BY <1>6, <2>1, <2>2 DEF Working
<1>11. CASE EndSolve
  <2>1. HeldInv /\ ~Working'
    BY <1>1, <1>11 DEF EndSolve, Working
  <2>2. pool'.used = pool.used \ {Held(proc)[1], Held(proc)[2], Held(proc)[3]}
    BY <1>1, <1>11, <2>1, ReleaseHeldFacts DEF EndSolve
  <2>3. neq' = neq
    BY <1>11 DEF EndSolve
  <2>4. /\ FreeOfResidua(Held(proc)[1]) /\ FreeOfResidua(Held(proc)[2])
        /\ FreeOfResidua(Held(proc)[3])
    <3>1. 1 \in 1 .. 3 /\ 2 \in 1 .. 3 /\ 3 \in 1 .. 3
      OBVIOUS
    <3> QED BY <2>1, <3>1 DEF HeldInv
  <2> QED BY <1>1, <2>1, <2>2, <2>3, <2>4 DEF ResiduaInv, FreeOfResidua, HasResiduum
<1>12. CASE Finished
  <2>1. pool' = pool /\ neq' = neq /\ ids' = ids /\ project' = project /\ proc' = proc
    BY <1>12 DEF Finished, vars, objects
  <2>2. Working' = Working
    BY <1>12 DEF Finished, vars, Working
  <2>3. Held(proc)' = Held(proc)
    BY <2>1, SameHeld
  <2> QED BY <1>1, <2>1, <2>2, <2>3, ResiduaKept, HeldKept
<1> QED BY <1>4, <1>5, <1>7, <1>8, <1>9, <1>10, <1>11, <1>12 DEF Next

-----------------------------------------------------------------------------
(* The iterates, and the number of iterations *)

LEMMA IteratesInit == Init => IteratesInv /\ CountInv
<1> SUFFICES ASSUME Init PROVE IteratesInv /\ CountInv
  OBVIOUS
<1>1. MaxIter \in Nat /\ Len(seen) = 0
  BY NumbersAssumption DEF Init
<1> QED BY <1>1 DEF Init, IteratesInv, CountInv, Resting, Looping

(* The actions within an iteration: what they leave of the iteration and   *)
(* of the iterates.                                                        *)
LEMMA SuccessOrNext ==
  ASSUME Inv, IterationSucceeds
  PROVE  /\ met' \in BOOLEAN
         /\ \/ phase' = "finish" /\ UNCHANGED iteration /\ (met' \/ iteration >= MaxIter)
            \/ ~met' /\ iteration < MaxIter /\ iteration' = iteration + 1 /\ phase' = "assemble"
<1>1. iteration \in 1 .. MaxIter /\ MaxIter \in Nat
  BY NumbersAssumption DEF Inv, IteratesInv, Looping, IterationSucceeds
<1>2. PICK c :
        IF met' \/ iteration >= MaxIter
        THEN phase' = "finish" /\ UNCHANGED iteration
        ELSE NextIteration(c)
  BY DEF IterationSucceeds
<1>3. CASE ~(met' \/ iteration >= MaxIter)
  BY <1>1, <1>2, <1>3, TypesStep DEF NextIteration, Incremented, InLoop, Next, TypeOK
<1>4. CASE met' \/ iteration >= MaxIter
  BY <1>2, <1>4, TypesStep DEF Next, TypeOK
<1> QED BY <1>3, <1>4

LEMMA RepeatNext ==
  ASSUME Inv, IterationRepeats
  PROVE  /\ iteration \in 1 .. MaxIter /\ iteration' = iteration + 1
         /\ \/ phase' = "finish" /\ iteration = MaxIter
            \/ phase' = "assemble" /\ iteration < MaxIter
<1>1. iteration \in 1 .. MaxIter /\ MaxIter \in Nat
  BY NumbersAssumption DEF Inv, IteratesInv, Looping, IterationRepeats
<1> QED BY <1>1 DEF IterationRepeats, NextIteration, Incremented, InLoop

LEMMA IteratesStep ==
  ASSUME Inv, Next
  PROVE  IteratesInv'
<1>1. IteratesInv /\ TypeOK /\ MaxIter \in Nat
  BY NumbersAssumption DEF Inv
<1>2. project' = project
  BY DEF Next, InitialResiduum, StartSolve, Assemble, AssemblyFails, LinearSolverFails,
         IterationSucceeds, IterationFails, IterationRepeats, EndSolve, Finished, vars
<1>3. CASE InitialResiduum
  <2>1. Resting /\ Resting' /\ ~Looping' /\ phase' # "linear"
    BY <1>3 DEF InitialResiduum, Resting, Looping
  <2> QED BY <1>1, <1>3, <2>1 DEF InitialResiduum, iterates, IteratesInv
<1>4. CASE StartSolve
  <2>1. x' = 0 /\ xNew' = 0 /\ kept' = 0 /\ iteration' = 1
    BY <1>1, <1>4 DEF StartSolve, iterates, IteratesInv, Resting
  <2>2. phase' = "assemble" => 1 \in 1 .. MaxIter
    BY <1>1, <1>4 DEF StartSolve, InLoop
  <2>3. phase' \in {"assemble", "finish"}
    BY <1>4 DEF StartSolve
  <2> QED BY <2>1, <2>2, <2>3 DEF IteratesInv, Resting, Looping
<1>5. CASE Assemble
  <2>1. Picard(proc)' = Picard(proc)
    BY <1>2, <1>5 DEF Assemble, Picard, Solver
  <2> QED BY <1>1, <1>5, <2>1 DEF Assemble, IteratesInv, Resting, Looping
<1>6. CASE AssemblyFails \/ LinearSolverFails \/ IterationFails
  <2>1. ~Resting' /\ ~Looping' /\ phase' # "linear"
    BY <1>6 DEF AssemblyFails, LinearSolverFails, IterationFails, Resting, Looping
  <2> QED BY <2>1 DEF IteratesInv
<1>7. CASE IterationSucceeds
  <2>1. /\ phase' = "finish" \/ (phase' = "assemble" /\ iteration' = iteration + 1
                                 /\ iteration < MaxIter)
        /\ iteration \in 1 .. MaxIter
    BY <1>1, <1>7, SuccessOrNext DEF IteratesInv, Looping, IterationSucceeds
  <2>2. /\ x' = iteration /\ kept' = iteration
        /\ Picard(proc)' => xNew' = iteration
    BY <1>2, <1>7 DEF IterationSucceeds, Picard, Solver
  <2> QED BY <1>1, <2>1, <2>2 DEF IteratesInv, Resting, Looping
<1>8. CASE IterationRepeats
  <2>1. /\ iteration \in 1 .. MaxIter /\ iteration' = iteration + 1
        /\ phase' = "finish" \/ (phase' = "assemble" /\ iteration < MaxIter)
    BY <1>8, RepeatNext
  <2>2. /\ x' = x /\ kept' = kept /\ kept < iteration /\ x = kept
        /\ Picard(proc)' => xNew' = x
    BY <1>1, <1>2, <1>8
    DEF IterationRepeats, Picard, Solver, ThrownAway, IteratesInv, Looping
  <2> QED BY <1>1, <2>1, <2>2 DEF IteratesInv, Resting, Looping, TypeOK
<1>9. CASE EndSolve
  BY <1>9 DEF EndSolve, IteratesInv, Resting, Looping
<1>10. CASE Finished
  <2>1. Picard(proc)' = Picard(proc)
    BY <1>10 DEF Finished, vars, Picard, Solver
  <2> QED BY <1>1, <1>10, <2>1 DEF Finished, vars, iterates, IteratesInv, Resting, Looping
<1> QED BY <1>3, <1>4, <1>5, <1>6, <1>7, <1>8, <1>9, <1>10 DEF Next

LEMMA CountStep ==
  ASSUME Inv, Next
  PROVE  CountInv'
<1>1. /\ CountInv /\ TypeOK /\ MaxIter \in Nat /\ Len(seen) \in Nat
      /\ Looping => iteration \in 1 .. MaxIter
      /\ Resting => seen = <<>>
  BY NumbersAssumption DEF Inv, IteratesInv, CriterionInv, TypeOK
<1>2. CASE InitialResiduum
  BY <1>1, <1>2 DEF InitialResiduum, checks, CountInv
<1>3. CASE StartSolve
  <2>1. seen' = <<>> /\ iteration' = 1 /\ phase' # "linear"
    BY <1>1, <1>3 DEF StartSolve, Resting
  <2> QED BY <1>1, <2>1 DEF CountInv
<1>4. CASE Assemble
  <2>1. seen' = seen \/ \E norm \in Norms : seen' = Append(seen, norm)
    BY <1>4 DEF Assemble
  <2>2. Len(seen') = Len(seen) \/ Len(seen') = Len(seen) + 1
    BY <2>1, NumbersAssumption DEF TypeOK
  <2>3. phase' = "linear" /\ iteration' = iteration /\ phase = "assemble"
    BY <1>4 DEF Assemble
  <2> QED BY <1>1, <2>2, <2>3 DEF CountInv, Looping
<1>5. CASE AssemblyFails \/ LinearSolverFails \/ IterationFails
  <2>1. seen' = seen /\ phase' \notin {"assemble", "linear"}
    BY <1>5 DEF AssemblyFails, LinearSolverFails, IterationFails, checks
  <2> QED BY <1>1, <2>1 DEF CountInv
<1>6. CASE IterationSucceeds \/ IterationRepeats
  <2>1. /\ seen' = seen /\ phase = "linear"
        /\ phase' = "finish" \/ (phase' = "assemble" /\ iteration' = iteration + 1)
    BY <1>6, SuccessOrNext, RepeatNext DEF IterationSucceeds, IterationRepeats
  <2> QED BY <1>1, <2>1 DEF CountInv, Looping
<1>7. CASE EndSolve
  BY <1>1, <1>7 DEF EndSolve, CountInv
<1>8. CASE Finished
  BY <1>1, <1>8 DEF Finished, vars, checks, CountInv
<1> QED BY <1>2, <1>3, <1>4, <1>5, <1>6, <1>7, <1>8 DEF Next

-----------------------------------------------------------------------------
(* The reference norm *)

(* The reference after one more norm is what ReferenceNorm says it is.     *)
LEMMA ReferenceOfFirst ==
  ASSUME NEW kind, NEW norm \in Nat
  PROVE  IsReference(kind, <<norm>>, norm)
  BY DEF IsReference

LEMMA ReferenceOfLater ==
  ASSUME NEW kind, NEW c \in CriterionState, ~c.first,
         NEW s \in Seq(Nat), s # <<>>, IsReference(kind, s, c.norm0),
         NEW norm \in Nat
  PROVE  IsReference(kind, Append(s, norm), ReferenceNorm(kind, c, norm))
<1> DEFINE t == Append(s, norm)
           n == Len(s)
<1>1. /\ n \in Nat \ {0} /\ Len(t) = n + 1 /\ t[n + 1] = norm
      /\ \A i \in 1 .. n : t[i] = s[i]
  OBVIOUS
<1> HIDE DEF t
<1>2. CASE kind # "Residual"
  BY <1>1, <1>2 DEF IsReference, ReferenceNorm, t
<1>3. CASE kind = "Residual" /\ c.norm0 # 0
  <2>1. PICK i \in 1 .. n : s[i] = c.norm0 /\ \A j \in 1 .. i - 1 : s[j] = 0
    BY <1>3 DEF IsReference
  <2>2. i \in 1 .. Len(t) /\ t[i] = c.norm0 /\ \A j \in 1 .. i - 1 : t[j] = 0
    BY <1>1, <2>1
  <2>3. ReferenceNorm(kind, c, norm) = c.norm0
    BY <1>3 DEF ReferenceNorm
  <2> QED BY <1>3, <2>2, <2>3 DEF IsReference, t
<1>4. CASE kind = "Residual" /\ c.norm0 = 0
  <2>1. \A i \in 1 .. n : s[i] = 0
    BY <1>4 DEF IsReference
  <2>2. ReferenceNorm(kind, c, norm) = norm
    BY <1>4 DEF ReferenceNorm
  <2>3. CASE norm = 0
    <3>1. \A i \in 1 .. Len(t) : t[i] = 0
      BY <1>1, <2>1, <2>3
    <3> QED BY <1>4, <2>2, <2>3, <3>1 DEF IsReference, t
  <2>4. CASE norm # 0
    <3>1. /\ n + 1 \in 1 .. Len(t) /\ t[n + 1] = norm
          /\ \A j \in 1 .. (n + 1) - 1 : t[j] = 0
      BY <1>1, <2>1
    <3> QED BY <1>4, <2>2, <2>4, <3>1 DEF IsReference, t
  <2> QED BY <2>3, <2>4
<1> QED BY <1>2, <1>3, <1>4

(* There is one reference only.                                            *)
LEMMA ReferenceIsOwn ==
  ASSUME TypeOK, seen # <<>>, NEW r, IsReference(Criterion(proc), seen, r)
  PROVE  r = OwnReference
<1> DEFINE nonzero == {i \in DOMAIN seen : seen[i] # 0}
<1>1. seen \in Seq(Nat) /\ Len(seen) \in Nat \ {0} /\ DOMAIN seen = 1 .. Len(seen)
  BY DEF TypeOK
<1>2. CASE Criterion(proc) # "Residual"
  BY <1>2 DEF IsReference, OwnReference
<1>3. CASE Criterion(proc) = "Residual" /\ r = 0 /\ \A i \in 1 .. Len(seen) : seen[i] = 0
  BY <1>1, <1>3 DEF OwnReference
<1>4. CASE Criterion(proc) = "Residual" /\ \E i \in 1 .. Len(seen) :
             /\ seen[i] = r /\ r # 0 /\ \A j \in 1 .. i - 1 : seen[j] = 0
  <2>1. PICK i \in 1 .. Len(seen) :
          /\ seen[i] = r /\ r # 0 /\ \A j \in 1 .. i - 1 : seen[j] = 0
    BY <1>4
  <2>2. i \in nonzero /\ \A j \in nonzero : i <= j
    BY <1>1, <2>1
  <2>3. \A k \in nonzero : (\A j \in nonzero : k <= j) => k = i
    BY <1>1, <2>2
  <2>4. Min(nonzero) = i
    BY <2>2, <2>3 DEF Min
  <2> QED BY <1>4, <2>1, <2>2, <2>4 DEF OwnReference
<1> QED BY <1>2, <1>3, <1>4 DEF IsReference

(* Of a system whose residual is checked, what LastChecksPass says.        *)
LEMMA ChecksOfResidual ==
  ASSUME TypeOK, ChecksResidual(proc), seen # <<>>,
         NEW r, IsReference(Criterion(proc), seen, r)
  PROVE  LastChecksPass <=> ResidualPasses(seen, r)
<1>1. r = OwnReference
  BY ReferenceIsOwn
<1>2. ~Linear(proc) /\ Criterion(proc) \in ResidualKinds /\ Criterion(proc) \notin DeltaXKinds
  BY DEF ChecksResidual, ResidualKinds, DeltaXKinds
<1> QED BY <1>1, <1>2 DEF LastChecksPass, ResidualPasses

-----------------------------------------------------------------------------
(* The criterion and the solve *)

LEMMA CriterionInit == Init => CriterionInv /\ ForgettingInv
  BY DEF Init, CriterionInv, ForgettingInv, Resting, Looping

(* The checks of an iteration that is completed: it converges only if they *)
(* pass, and after the first iteration if they do.  The next iteration     *)
(* starts with a criterion that is reset.                                  *)
LEMMA ChecksOfSuccess ==
  ASSUME Inv, IterationSucceeds
  PROVE  /\ met' => LastChecksPass'
         /\ iteration > 1 /\ ~met' => ~LastChecksPass'
         /\ phase' = "assemble" =>
              /\ crit'[proc].satisfied /\ crit'[proc].norm0 = crit[proc].norm0
              /\ ChecksResidual(proc) => ~crit'[proc].first
<1> DEFINE kind == Criterion(proc)
           k == crit[proc]
<1>1. /\ TypeOK /\ CriterionInv /\ ForgettingInv /\ phase = "linear"
      /\ k \in CriterionState /\ proc \in Procs
      /\ crit \in [Procs -> CriterionState] /\ seen' = seen
      /\ project' = project /\ proc' = proc
  BY CriterionOfProc DEF Inv, IterationSucceeds, TypeOK, CriterionState
<1>2. Criterion(proc)' = kind /\ Linear(proc)' = Linear(proc)
  BY <1>1 DEF Criterion, Linear
<1>3. PICK passes \in BOOLEAN :
        LET c == IF Linear(proc) THEN k ELSE CheckDeltaX(kind, k, passes)
        IN /\ dxPassed' = passes
           /\ met' = (Linear(proc) \/ c.satisfied)
           /\ IF met' \/ iteration >= MaxIter
              THEN crit' = [crit EXCEPT ![proc] = c] /\ phase' = "finish"
              ELSE NextIteration(c)
  BY DEF IterationSucceeds
<1> DEFINE c == IF Linear(proc) THEN k ELSE CheckDeltaX(kind, k, passes)
<1>4. /\ dxPassed' = passes
      /\ met' = (Linear(proc) \/ c.satisfied)
      /\ phase' = "assemble" => NextIteration(c)
  BY <1>3
<1>5. /\ c \in CriterionState /\ c.norm0 = k.norm0
      /\ ~Linear(proc) => (c.satisfied <=> k.satisfied /\ (passes \/ kind \in ResidualKinds))
  BY <1>1, CheckDeltaXFacts
<1>6. met' <=> Linear(proc) \/ c.satisfied
  BY <1>4
<1> HIDE DEF c, k
<1>7. kind \in DeltaXKinds \/ kind \in ResidualKinds
  BY <1>1, ProjectFacts
<1>8. ASSUME phase' = "assemble"
      PROVE  /\ crit'[proc].satisfied /\ crit'[proc].norm0 = k.norm0
             /\ ChecksResidual(proc) => ~crit'[proc].first
  <2>1. crit'[proc] = Reset(kind, c)
    BY <1>1, <1>4, <1>8 DEF NextIteration
  <2>2. ChecksResidual(proc) => kind \notin DeltaXKinds
    BY DEF ChecksResidual, ResidualKinds, DeltaXKinds
  <2> QED BY <1>5, <2>1, <2>2, CriterionFacts
<1> SUFFICES /\ met' => LastChecksPass'
             /\ iteration > 1 /\ ~met' => ~LastChecksPass'
  BY <1>8 DEF k
<1>9. CASE Linear(proc)
  BY <1>2, <1>6, <1>9 DEF LastChecksPass
<1>10. CASE ~Linear(proc) /\ kind \in ResidualKinds
  <2>1. ChecksResidual(proc) /\ kind \notin DeltaXKinds
    BY <1>10 DEF ChecksResidual, ResidualKinds, DeltaXKinds
  <2>2. seen # <<>> /\ IsReference(kind, seen, k.norm0)
    BY <1>1, <2>1 DEF CriterionInv, Looping, k
  <2>3. LastChecksPass <=> ResidualPasses(seen, k.norm0)
    BY <1>1, <2>1, <2>2, ChecksOfResidual
  <2>4. LastChecksPass' <=> LastChecksPass
    BY <1>1, <1>2, <1>10, <2>1 DEF LastChecksPass, OwnReference
  <2>5. met' <=> k.satisfied
    BY <1>5, <1>6, <1>10
  <2>6. k.satisfied => ResidualPasses(seen, k.norm0)
    BY <1>1, <2>1 DEF CriterionInv, k
  <2>7. iteration > 1 /\ ResidualPasses(seen, k.norm0) => k.satisfied
    BY <1>1, <2>1 DEF ForgettingInv, k
  <2> QED BY <2>3, <2>4, <2>5, <2>6, <2>7
<1>11. CASE ~Linear(proc) /\ kind \in DeltaXKinds
  <2>1. ~ChecksResidual(proc) /\ kind \notin ResidualKinds
    BY <1>11 DEF ChecksResidual, ResidualKinds, DeltaXKinds
  <2>2. LastChecksPass' <=> passes
    BY <1>2, <1>4, <1>11, <2>1 DEF LastChecksPass
  <2>3. met' <=> k.satisfied /\ passes
    BY <1>5, <1>6, <1>11, <2>1
  <2>4. iteration > 1 => k.satisfied
    BY <1>1, <2>1 DEF ForgettingInv, k
  <2> QED BY <2>2, <2>3, <2>4
<1> QED BY <1>7, <1>9, <1>10, <1>11

(* The check of the residual keeps track of what was seen.                 *)
LEMMA ChecksOfAssembly ==
  ASSUME Inv, Assemble
  PROVE  CriterionInv' /\ ForgettingInv'
<1> DEFINE kind == Criterion(proc)
           k == crit[proc]
<1>1. /\ TypeOK /\ CriterionInv /\ ForgettingInv /\ phase = "assemble" /\ phase' = "linear"
      /\ k \in CriterionState /\ proc \in Procs /\ seen \in Seq(Nat)
      /\ crit \in [Procs -> CriterionState]
      /\ project' = project /\ proc' = proc /\ iteration' = iteration /\ met' = met
  BY CriterionOfProc DEF Inv, Assemble, TypeOK, CriterionState
<1>2. Criterion(proc)' = kind /\ ChecksResidual(proc)' = ChecksResidual(proc)
  BY <1>1 DEF Criterion, Linear, ChecksResidual
<1>3. CASE ~ChecksResidual(proc)
  <2>1. crit' = crit
    BY <1>3 DEF Assemble
  <2> QED BY <1>1, <1>2, <1>3, <2>1 DEF CriterionInv, ForgettingInv, Resting, Looping
<1>4. CASE ChecksResidual(proc)
  <2>1. PICK norm \in Norms :
          /\ seen' = Append(seen, norm)
          /\ crit' = [crit EXCEPT ![proc] = CheckResidual(kind, @, norm)]
    BY <1>4 DEF Assemble
  <2>2. norm \in Nat
    BY NumbersAssumption
  <2> DEFINE c == crit'[proc]
             ref == ReferenceNorm(kind, k, norm)
  <2>3. c = CheckResidual(kind, k, norm)
    BY <1>1, <2>1
  <2> HIDE DEF c, k
  <2>4. /\ c.first = k.first /\ c.norm0 = ref
        /\ c.satisfied <=> k.satisfied /\ (norm < AbsTol \/ (~k.first /\ RelativePasses(norm, ref)))
    <3>1. k \in CriterionState
      BY <1>1
    <3> HIDE DEF kind
    <3>2. /\ CheckResidual(kind, k, norm).first = k.first
          /\ CheckResidual(kind, k, norm).norm0 = ref
          /\ CheckResidual(kind, k, norm).satisfied <=>
               k.satisfied /\ (norm < AbsTol \/ (~k.first /\ RelativePasses(norm, ref)))
      BY <2>2, <3>1, CheckResidualFacts
    <3> QED BY <2>3, <3>2
  <2>5. /\ Len(seen') = Len(seen) + 1 /\ seen'[Len(seen')] = norm
        /\ seen' # <<>> /\ Len(seen) \in Nat /\ (Len(seen) = 0 <=> seen = <<>>)
    BY <1>1, <2>1, <2>2
  <2>6. k.first <=> seen = <<>>
    BY <1>1, <1>4 DEF CriterionInv, Looping, k
  <2>7. c.first <=> Len(seen') = 1
    BY <2>4, <2>5, <2>6
  <2>8. IsReference(kind, seen', ref)
    <3>1. CASE seen = <<>>
      <4>1. seen' = <<norm>> /\ ref = norm
        BY <2>1, <2>6, <3>1 DEF ReferenceNorm
      <4> QED BY <2>2, <4>1, ReferenceOfFirst
    <3>2. CASE seen # <<>>
      <4>1. IsReference(kind, seen, k.norm0)
        BY <1>1, <1>4, <3>2 DEF CriterionInv, Looping, k
      <4> QED BY <1>1, <2>1, <2>2, <2>6, <3>2, <4>1, ReferenceOfLater
    <3> QED BY <3>1, <3>2
  <2> HIDE DEF ref
  <2>9. c.satisfied <=> k.satisfied /\ ResidualPasses(seen', ref)
    <3>1. ~k.first <=> Len(seen') > 1
      BY <2>5, <2>6
    <3>2. seen'[Len(seen')] = norm
      BY <2>5
    <3>3. ResidualPasses(seen', ref) <=> norm < AbsTol \/ (~k.first /\ RelativePasses(norm, ref))
      BY <3>1, <3>2 DEF ResidualPasses
    <3> QED BY <2>4, <3>3
  <2>10. iteration > 1 => k.satisfied
    BY <1>1 DEF ForgettingInv, k
  <2>11. CriterionInv'
    BY <1>1, <1>2, <2>4, <2>5, <2>7, <2>8, <2>9 DEF CriterionInv, Resting, Looping, c
  <2>12. ForgettingInv'
    BY <1>1, <1>2, <1>4, <2>4, <2>9, <2>10 DEF ForgettingInv, c
  <2> QED BY <2>11, <2>12
<1> QED BY <1>3, <1>4

(* A solve that has ended without convergence: what is left to show.       *)
LEMMA ChecksOfFailure ==
  ASSUME phase' \in {"finish", "aborted"},
         phase' = "finish" => ~met' /\ kept' # iteration'
  PROVE  CriterionInv' /\ ForgettingInv'
  BY DEF CriterionInv, ForgettingInv, Resting, Looping

LEMMA CriterionStep ==
  ASSUME Inv, Next
  PROVE  CriterionInv' /\ ForgettingInv'
<1>1. /\ TypeOK /\ IteratesInv /\ CriterionInv /\ ForgettingInv
      /\ MaxIter \in Nat /\ iteration \in Int /\ kept \in Nat
  BY NumbersAssumption DEF Inv, TypeOK
<1>2. Looping => kept < iteration /\ iteration \in 1 .. MaxIter
  BY <1>1 DEF IteratesInv
<1>3. CASE InitialResiduum
  <2>1. Resting /\ phase' \notin {"assemble", "linear", "finish"}
        /\ seen' = seen /\ met' = met
    BY <1>3 DEF InitialResiduum, Resting, checks
  <2> QED BY <1>1, <2>1 DEF CriterionInv, ForgettingInv, Looping
<1>4. CASE StartSolve
  <2>1. PICK p \in Procs : /\ proc' = p
                           /\ crit' = [crit EXCEPT ![p] = PreFirstIteration(@)]
    BY <1>4 DEF StartSolve
  <2>2. crit'[p].first
    <3>1. crit[p] \in CriterionState /\ crit'[p] = PreFirstIteration(crit[p])
      BY <1>1, <2>1 DEF TypeOK, CriterionState
    <3> QED BY <3>1, CriterionFacts
  <2>3. /\ seen = <<>> /\ ~met /\ seen' = seen /\ met' = met /\ kept' = 0
        /\ iteration' = 1 /\ phase' \in {"assemble", "finish"}
    BY <1>1, <1>4 DEF StartSolve, iterates, CriterionInv, IteratesInv, Resting
  <2> QED BY <2>1, <2>2, <2>3 DEF CriterionInv, ForgettingInv, Resting, Looping
<1>5. CASE Assemble
  BY <1>5, ChecksOfAssembly
<1>6. CASE AssemblyFails
  <2>1. \/ phase' = "aborted"
        \/ phase = "assemble" /\ phase' = "finish" /\ ~met' /\ iteration' = MaxIter
    BY <1>6 DEF AssemblyFails
  <2>2. kept' = kept
    BY <1>6 DEF AssemblyFails, iterates
  <2> QED BY <1>1, <1>2, <2>1, <2>2, ChecksOfFailure DEF Looping
<1>7. CASE LinearSolverFails \/ IterationFails
  <2>1. /\ phase = "linear" /\ phase' = "finish" /\ ~met'
        /\ iteration' = iteration /\ kept' = kept
    BY <1>7 DEF LinearSolverFails, IterationFails, iterates
  <2> QED BY <1>1, <1>2, <2>1, ChecksOfFailure DEF Looping
<1>8. CASE IterationSucceeds
  <2>1. /\ phase = "linear" /\ seen' = seen /\ kept' = iteration
        /\ project' = project /\ proc' = proc /\ proc \in Procs
    BY <1>1, <1>8 DEF IterationSucceeds, TypeOK
  <2>2. /\ met' => LastChecksPass'
        /\ iteration > 1 /\ ~met' => ~LastChecksPass'
        /\ phase' = "assemble" =>
             /\ crit'[proc].satisfied /\ crit'[proc].norm0 = crit[proc].norm0
             /\ ChecksResidual(proc) => ~crit'[proc].first
    BY <1>8, ChecksOfSuccess
  <2>3. \/ phase' = "finish" /\ iteration' = iteration
        \/ phase' = "assemble" /\ ~met' /\ iteration' = iteration + 1
    BY <1>8, SuccessOrNext
  <2>4. Criterion(proc)' = Criterion(proc) /\ ChecksResidual(proc)' = ChecksResidual(proc)
    BY <2>1 DEF Criterion, Linear, ChecksResidual
  <2>5. ChecksResidual(proc) =>
          seen # <<>> /\ IsReference(Criterion(proc), seen, crit[proc].norm0)
    BY <1>1, <2>1 DEF CriterionInv, Looping
  <2>6. CASE phase' = "finish" /\ iteration' = iteration
    BY <2>1, <2>2, <2>6 DEF CriterionInv, ForgettingInv, Resting, Looping
  <2>7. CASE phase' = "assemble" /\ ~met' /\ iteration' = iteration + 1
    <3>1. CriterionInv'
      BY <2>1, <2>2, <2>4, <2>5, <2>7 DEF CriterionInv, Resting, Looping
    <3>2. ForgettingInv'
      BY <1>1, <2>1, <2>2, <2>7 DEF ForgettingInv
    <3> QED BY <3>1, <3>2
  <2> QED BY <2>3, <2>6, <2>7
<1>9. CASE IterationRepeats
  <2>1. /\ phase = "linear" /\ seen' = seen /\ kept' = kept /\ met' = met
        /\ project' = project /\ proc' = proc /\ proc \in Procs
        /\ NextIteration(crit[proc])
    BY <1>1, <1>9 DEF IterationRepeats, TypeOK
  <2>2. /\ iteration \in 1 .. MaxIter /\ iteration' = iteration + 1
        /\ phase' = "finish" \/ phase' = "assemble"
    BY <1>9, RepeatNext
  <2>3. Criterion(proc)' = Criterion(proc) /\ ChecksResidual(proc)' = ChecksResidual(proc)
    BY <2>1 DEF Criterion, Linear, ChecksResidual
  <2>4. crit'[proc] = Reset(Criterion(proc), crit[proc])
    BY <1>1, <2>1 DEF NextIteration, TypeOK
  <2>5. /\ crit'[proc].satisfied /\ crit'[proc].norm0 = crit[proc].norm0
        /\ ChecksResidual(proc) => ~crit'[proc].first
    <3>1. ChecksResidual(proc) => Criterion(proc) \notin DeltaXKinds
      BY DEF ChecksResidual, ResidualKinds, DeltaXKinds
    <3> QED BY <1>1, <2>4, <3>1, CriterionFacts, CriterionOfProc
  <2>6. ChecksResidual(proc) =>
          seen # <<>> /\ IsReference(Criterion(proc), seen, crit[proc].norm0)
    BY <1>1, <2>1 DEF CriterionInv, Looping
  <2>7. ~met'
    BY <1>1, <2>1 DEF CriterionInv, Looping
  <2>8. CASE phase' = "finish"
    BY <1>1, <1>2, <2>1, <2>2, <2>7, <2>8, ChecksOfFailure DEF Looping
  <2>9. CASE phase' = "assemble"
    <3>1. CriterionInv'
      BY <2>1, <2>3, <2>5, <2>6, <2>7, <2>9 DEF CriterionInv, Resting, Looping
    <3>2. kept < iteration
      BY <1>2, <2>1 DEF Looping
    <3>3. ForgettingInv'
      BY <1>1, <2>1, <2>2, <2>5, <2>9, <3>2 DEF ForgettingInv
    <3> QED BY <3>1, <3>3
  <2> QED BY <2>2, <2>8, <2>9
<1>10. CASE EndSolve
  BY <1>10 DEF EndSolve, CriterionInv, ForgettingInv, Resting, Looping
<1>11. CASE Finished
  <2>1. UNCHANGED <<phase, proc, project, crit, seen, met, dxPassed, kept, iteration>>
    BY <1>11 DEF Finished, vars, checks, iterates
  <2> QED BY <1>1, <2>1
      DEF CriterionInv, ForgettingInv, Resting, Looping, ChecksResidual, Criterion, Linear,
          LastChecksPass, OwnReference
<1> QED BY <1>3, <1>4, <1>5, <1>6, <1>7, <1>8, <1>9, <1>10, <1>11 DEF Next

-----------------------------------------------------------------------------
(* The theorems *)

LEMMA InvInit == Init => Inv
  BY TypesInit, IteratesInit, CriterionInit, ObjectsInit DEF Inv

LEMMA InvStep == Inv /\ [Next]_vars => Inv'
<1> SUFFICES ASSUME Inv, [Next]_vars PROVE Inv'
  OBVIOUS
<1>1. CASE Next
  BY <1>1, TypesStep, IteratesStep, CriterionStep, CountStep, ObjectsStep DEF Inv
<1>2. CASE UNCHANGED vars
  <2>1. TypeOK' /\ IteratesInv' /\ CountInv'
    BY <1>2 DEF vars, objects, checks, iterates, Inv, TypeOK, IteratesInv, CountInv,
                Resting, Looping, Picard, Solver
  <2>2. CriterionInv' /\ ForgettingInv'
    BY <1>2 DEF vars, checks, iterates, Inv, CriterionInv, ForgettingInv, Resting, Looping,
                ChecksResidual, Criterion, Linear, LastChecksPass, OwnReference
  <2>3. ObjectsInv'
    BY <1>2 DEF vars, objects, Inv, ObjectsInv, ResiduaInv, HeldInv, HasResiduum,
                FreeOfResidua, Working, Held, ThirdHeld, Picard, Solver
  <2> QED BY <2>1, <2>2, <2>3 DEF Inv
<1> QED BY <1>1, <1>2

(* The invariant the theorems below follow from.                           *)
THEOREM InvHolds == Spec => []Inv
  BY InvInit, InvStep, PTL DEF Spec

(* Every variable has its type: the iteration of solve() never passes      *)
(* _maxiter + 1.                                                           *)
THEOREM TypeCorrect == Spec => []TypeOK
<1>1. Inv => TypeOK
  BY DEF Inv
<1> QED BY <1>1, InvHolds, PTL

(* A solve reports convergence only if the checks of its own last          *)
(* iteration pass, against the first residual (that is not zero) of this   *)
(* very solve, although norm_r0 and the flags of the criterion are kept    *)
(* from one solve to the next.                                             *)
THEOREM ConvergedMeansChecked == Spec => []ConvergedIsChecked
<1>1. Inv => ConvergedIsChecked
  BY DEF Inv, CriterionInv, ConvergedIsChecked
<1> QED BY <1>1, InvHolds, PTL

(* After the first iteration, one whose checks pass converges: reset()     *)
(* forgets whatever was checked before.                                    *)
THEOREM LaterIterationsForget == Spec => []LaterIterationsForgetChecks
<1>1. Inv => LaterIterationsForgetChecks
  <2> SUFFICES ASSUME Inv, CompletedIteration > 1, ~met
               PROVE  ~LastChecksPass
    BY DEF LaterIterationsForgetChecks
  <2>1. iteration \in Nat /\ kept \in Nat
    BY NumbersAssumption DEF Inv, TypeOK
  <2>2. \/ phase = "finish" /\ kept = iteration /\ kept > 1
        \/ phase = "assemble" /\ kept + 1 = iteration /\ kept > 1
    BY <2>1 DEF CompletedIteration
  <2> QED BY <2>2 DEF Inv, ForgettingInv
<1> QED BY <1>1, InvHolds, PTL

(* However often iterations are repeated, the equations are assembled at   *)
(* the iterate that was kept last, with either method.                     *)
THEOREM AssembledAtKept == Spec => []AssembledAtKeptIterate
<1>1. Inv => AssembledAtKeptIterate
  BY DEF Inv, IteratesInv, AssembledAtKeptIterate
<1> QED BY <1>1, InvHolds, PTL

(* A solve assembles and checks the residual at most _maxiter times.       *)
THEOREM SolveIsBounded == Spec => []AssemblesAtMostMaxIter
<1>1. Inv => AssemblesAtMostMaxIter
  BY DEF Inv, CountInv, AssemblesAtMostMaxIter
<1> QED BY <1>1, InvHolds, PTL

(* Two users of the provider never have the same object, however many      *)
(* processes share a solver: the objects of the solve under way and the    *)
(* residua of all solvers are distinct, and in use.                        *)
THEOREM ObjectsHaveOneUser == Spec => []OneUserPerObject
<1>1. Inv => OneUserPerObject
  <2> SUFFICES ASSUME Inv PROVE OneUserPerObject
    OBVIOUS
  <2> DEFINE residua == [s \in {s \in Procs : neq[s].of # 0} |-> neq[s].id]
  <2>1. ResiduaInv /\ (Working => HeldInv)
    BY DEF Inv, ObjectsInv
  <2>2. IsInjective(residua) /\ Range(residua) \subseteq pool.used
    BY <2>1 DEF ResiduaInv, HasResiduum, IsInjective, Range
  <2>3. ASSUME Working
        PROVE  IsInjective(Held(proc)) /\ Range(Held(proc)) \subseteq pool.used \ Range(residua)
    <3>1. DOMAIN Held(proc) = 1 .. 3
      BY DEF Held
    <3>2. IsInjective(Held(proc))
      BY <2>1, <2>3, <3>1 DEF HeldInv, IsInjective
    <3>3. \A i \in 1 .. 3 : Held(proc)[i] \in pool.used \ Range(residua)
      BY <2>1, <2>3 DEF HeldInv, FreeOfResidua, HasResiduum, Range
    <3> QED BY <3>1, <3>2, <3>3 DEF Range
  <2> QED BY <2>2, <2>3 DEF OneUserPerObject, Working
<1> QED BY <1>1, InvHolds, PTL

-----------------------------------------------------------------------------
(***************************************************************************)
(* Solvers that are not shared by processes of which one has a residuum.   *)
(* The flag a solver keeps is then the one of each process that names it.  *)
(***************************************************************************)
ResiduaUnshared ==
  \A pr \in Projects : \A p, q \in Procs :
    p # q /\ pr.procs[p].solver = pr.procs[q].solver => ~pr.procs[p].compensate

LEMMA GreatestInProcs ==
  ASSUME NEW S, S \subseteq Procs, S # {}
  PROVE  Max(S) \in S
<1> DEFINE D == {NumProcs - y : y \in S}
<1>1. NumProcs \in Nat /\ \A y \in S : y \in 1 .. NumProcs
  BY NumbersAssumption DEF Procs
<1>2. D \subseteq Nat /\ D # {}
  BY <1>1
<1>3. PICK d \in D : \A e \in D : ~(<<e, d>> \in OpToRel(<, Nat))
  BY <1>2, NatLessThanWellFounded, WFMin
<1>4. PICK g \in S : d = NumProcs - g
  BY <1>3
<1>5. ASSUME NEW y \in S PROVE g >= y
  <2>1. NumProcs - y \in D /\ NumProcs - y \in Nat /\ d \in Nat
    BY <1>2
  <2>2. ~(NumProcs - y < d)
    BY <1>3, <2>1 DEF OpToRel
  <2> QED BY <1>1, <1>4, <2>2
<1> QED BY <1>4, <1>5 DEF Max

LEMMA OwnFlag ==
  ASSUME TypeOK, ResiduaUnshared, NEW p \in Procs
  PROVE  Compensates(p) = project.procs[p].compensate
<1> DEFINE same == {q \in Procs : Solver(q) = Solver(p)}
           g == Max(same)
<1>1. g \in same
  BY GreatestInProcs
<1>2. Compensates(p) = project.procs[g].compensate
  BY DEF Compensates
<1> HIDE DEF g
<1>3. project \in Projects /\ project.procs[p] \in Process /\ project.procs[g] \in Process
  BY <1>1, ProjectsAssumption DEF TypeOK, Project
<1>4. CASE g = p
  BY <1>2, <1>4
<1>5. CASE g # p
  <2>1. ~project.procs[p].compensate /\ ~project.procs[g].compensate
    BY <1>1, <1>3, <1>5 DEF ResiduaUnshared, Solver
  <2> QED BY <1>2, <1>3, <2>1 DEF Process
<1> QED BY <1>4, <1>5

(* A solver's residuum is that of a process that names it and asks for it, *)
(* and each such process has one as soon as it has been initialised.       *)
OwnerInv ==
  /\ \A s \in Procs : HasResiduum(s) =>
       LET q == neq[s].of IN
       /\ q \in Procs /\ Solver(q) = s /\ project.procs[q].compensate
       /\ phase = "residuum" => q < proc
  /\ \A p \in Procs :
       project.procs[p].compensate /\ phase # "aborted" /\ (phase = "residuum" => p < proc)
       => neq[Solver(p)].of = p

LEMMA OwnerInit == Init => OwnerInv
  BY DEF Init, OwnerInv, HasResiduum, Procs

LEMMA OwnerResiduum ==
  ASSUME TypeOK, IsPool(pool), ResiduaUnshared, OwnerInv, InitialResiduum
  PROVE  OwnerInv'
<1>1. /\ project' = project /\ proc \in Procs /\ NumProcs \in Nat /\ phase = "residuum"
      /\ \/ proc = NumProcs /\ phase' = "idle"
         \/ proc' = proc + 1 /\ phase' = "residuum"
  BY NumbersAssumption DEF InitialResiduum, TypeOK
<1>2. /\ \A p \in Procs : Solver(p) \in Procs /\ Solver(p)' = Solver(p)
      /\ neq \in [Procs -> [of: Nat, id: Nat]]
      /\ Compensates(proc) = project.procs[proc].compensate
  BY <1>1, ProjectFacts, OwnFlag DEF TypeOK, Solver
<1>3. \A p \in Procs : (phase' = "residuum" => p < proc') <=> p < proc \/ p = proc
  BY <1>1 DEF Procs
<1>4. CASE ~Compensates(proc)
  <2>1. neq' = neq
    BY <1>4 DEF InitialResiduum, objects
  <2>2. \A p \in Procs : project.procs[p].compensate => p # proc
    BY <1>2, <1>4
  <2> QED BY <1>1, <1>2, <1>3, <2>1, <2>2 DEF OwnerInv, HasResiduum
<1>5. CASE Compensates(proc)
  <2>1. PICK id \in Nat : neq' = [neq EXCEPT ![Solver(proc)] = [of |-> proc, id |-> id]]
    BY <1>1, <1>5, ResiduumFacts DEF InitialResiduum
  <2>2. /\ neq'[Solver(proc)].of = proc
        /\ \A s \in Procs : s # Solver(proc) => neq'[s] = neq[s]
    BY <1>1, <1>2, <2>1
  <2>3. \A p \in Procs : p # proc /\ project.procs[p].compensate => Solver(p) # Solver(proc)
    BY <1>1 DEF ResiduaUnshared, Solver, TypeOK
  <2>4. ASSUME NEW s \in Procs, HasResiduum(s)'
        PROVE  LET q == neq'[s].of IN
               /\ q \in Procs /\ Solver(q) = s /\ project.procs[q].compensate
               /\ phase' = "residuum" => q < proc'
    <3>1. CASE s = Solver(proc)
      BY <1>1, <1>2, <1>3, <1>5, <2>2, <3>1
    <3>2. CASE s # Solver(proc)
      <4>1. HasResiduum(s) /\ neq'[s] = neq[s]
        BY <2>2, <2>4, <3>2 DEF HasResiduum
      <4> QED BY <1>1, <1>3, <4>1 DEF OwnerInv
    <3> QED BY <3>1, <3>2
  <2>5. ASSUME NEW p \in Procs, project.procs[p].compensate, p < proc \/ p = proc
        PROVE  neq'[Solver(p)].of = p
    <3>1. CASE p = proc
      BY <2>2, <3>1
    <3>2. CASE p # proc
      BY <1>1, <1>2, <2>2, <2>3, <2>5, <3>2 DEF OwnerInv
    <3> QED BY <3>1, <3>2
  <2> HIDE DEF HasResiduum
  <2> QED BY <1>1, <1>2, <1>3, <2>4, <2>5 DEF OwnerInv
<1> QED BY <1>4, <1>5

LEMMA OwnerStep ==
  ASSUME ResiduaUnshared
  PROVE  Inv /\ OwnerInv /\ [Next]_vars => OwnerInv'
<1> SUFFICES ASSUME Inv, OwnerInv, [Next]_vars PROVE OwnerInv'
  OBVIOUS
<1>1. CASE InitialResiduum
  BY <1>1, OwnerResiduum DEF Inv, ObjectsInv
<1>2. CASE ~InitialResiduum
  <2>1. /\ neq' = neq /\ project' = project
        /\ \/ phase' = phase /\ proc' = proc
           \/ phase # "residuum" /\ phase' # "residuum" /\ phase # "aborted"
           \/ phase' = "aborted"
    BY <1>2
    DEF Next, StartSolve, Assemble, AssemblyFails, LinearSolverFails, IterationSucceeds,
        IterationFails, IterationRepeats, NextIteration, EndSolve, Finished, vars, objects
  <2> QED BY <2>1 DEF OwnerInv, HasResiduum, Solver
<1> QED BY <1>1, <1>2

(* What is subtracted in a solve is the residuum of the process being      *)
(* solved, and nothing if this process does not ask for it, unless solvers *)
(* are shared where it is asked for.                                       *)
THEOREM ResiduumIsOwn ==
  ASSUME ResiduaUnshared PROVE Spec => []OwnResiduumSubtracted
<1>1. Inv /\ OwnerInv => OwnResiduumSubtracted
  <2> SUFFICES ASSUME Inv, OwnerInv, phase = "linear"
               PROVE  neq[Solver(proc)].of
                        = IF project.procs[proc].compensate THEN proc ELSE 0
    BY DEF OwnResiduumSubtracted
  <2>1. proc \in Procs /\ Solver(proc) \in Procs /\ project \in Projects
    BY ProjectFacts DEF Inv, TypeOK
  <2>2. CASE project.procs[proc].compensate
    BY <2>1, <2>2 DEF OwnerInv
  <2>3. CASE ~project.procs[proc].compensate
    BY <2>1, <2>3 DEF OwnerInv, HasResiduum, ResiduaUnshared, Solver
  <2> QED BY <2>2, <2>3
<1>2. Inv /\ OwnerInv /\ [Next]_vars => OwnerInv'
  BY OwnerStep
<1> QED BY <1>1, <1>2, OwnerInit, InvHolds, PTL DEF Spec

(* All that Newton solvers have in use.                                    *)
AllNewton == \A p \in Procs : ~Picard(p)
Residua == {neq[s].id : s \in {s \in Procs : neq[s].of # 0}}
HeldNow == IF Working THEN {Held(proc)[1], Held(proc)[2], Held(proc)[3]} ELSE {}
NewtonInv == AllNewton /\ phase # "aborted" => pool.used = Residua \cup HeldNow

LEMMA NewtonInit == Init => NewtonInv
  BY DEF Init, NewtonInv, Residua, HeldNow, Working, EmptyPool

LEMMA NewtonResiduum ==
  ASSUME TypeOK, IsPool(pool), ResiduaUnshared, OwnerInv, NewtonInv, InitialResiduum
  PROVE  NewtonInv'
<1>1. /\ project' = project /\ proc \in Procs /\ phase = "residuum"
      /\ ~Working /\ ~Working'
  BY DEF InitialResiduum, TypeOK, Working
<1> SUFFICES ASSUME AllNewton PROVE pool'.used = Residua'
  BY <1>1 DEF NewtonInv, AllNewton, Picard, Solver, HeldNow
<1>2. pool.used = Residua
  BY <1>1 DEF NewtonInv, HeldNow
<1>3. CASE UNCHANGED objects
  BY <1>2, <1>3 DEF objects, Residua
<1>4. CASE Compensates(proc) /\ ResiduumNewton(proc)
  <2>1. PICK id \in Nat :
          /\ neq' = [neq EXCEPT ![Solver(proc)] = [of |-> proc, id |-> id]]
          /\ pool'.used = pool.used \cup {id}
    BY <1>1, <1>4, ResiduumNewtonFacts DEF AllNewton
  <2>2. /\ Solver(proc) \in Procs /\ neq \in [Procs -> [of: Nat, id: Nat]]
        /\ project.procs[proc].compensate /\ project \in Projects
    BY <1>1, <1>4, ProjectFacts, OwnFlag DEF TypeOK
  <2>3. neq[Solver(proc)].of = 0
    <3> SUFFICES ASSUME neq[Solver(proc)].of # 0 PROVE FALSE
      OBVIOUS
    <3> DEFINE q == neq[Solver(proc)].of
    <3>1. q \in Procs /\ Solver(q) = Solver(proc) /\ q < proc
      BY <1>1, <2>2 DEF OwnerInv, HasResiduum
    <3>2. q # proc
      BY <1>1, <3>1 DEF Procs
    <3>3. project.procs[proc].solver = project.procs[q].solver
      BY <3>1 DEF Solver
    <3> HIDE DEF q
    <3> QED BY <1>1, <2>2, <3>1, <3>2, <3>3 DEF ResiduaUnshared
  <2>4. /\ neq'[Solver(proc)].of # 0 /\ neq'[Solver(proc)].id = id
        /\ \A s \in Procs : s # Solver(proc) => neq'[s] = neq[s]
    BY <1>1, <2>1, <2>2 DEF Procs
  <2>5. Residua' = Residua \cup {id}
    BY <2>2, <2>3, <2>4 DEF Residua
  <2> QED BY <1>2, <2>1, <2>5
<1> QED BY <1>1, <1>3, <1>4 DEF InitialResiduum, AllNewton

LEMMA NewtonStep ==
  ASSUME ResiduaUnshared
  PROVE  Inv /\ OwnerInv /\ NewtonInv /\ [Next]_vars => NewtonInv'
<1> SUFFICES ASSUME Inv, OwnerInv, NewtonInv, [Next]_vars PROVE NewtonInv'
  OBVIOUS
<1>1. TypeOK /\ IsPool(pool) /\ (Working => HeldInv) /\ proc \in Procs /\ pool \in Provider
  BY DEF Inv, ObjectsInv, TypeOK
<1>2. CASE InitialResiduum
  BY <1>1, <1>2, NewtonResiduum
<1>3. ASSUME Working, Working', project' = project, neq' = neq,
             AllNewton => pool'.used = pool.used, Held(proc)' = Held(proc)
      PROVE  NewtonInv'
  BY <1>3 DEF NewtonInv, AllNewton, Picard, Solver, Residua, HeldNow, Working
<1>4. CASE StartSolve
  <2>1. PICK p \in Procs : proc' = p /\ Acquire(p)
    BY <1>4 DEF StartSolve
  <2>2. project' = project /\ neq' = neq /\ phase = "idle" /\ ~Working /\ Working'
    BY <1>4 DEF StartSolve, Working
  <2>3. pool'.used = pool.used \cup {Held(p)'[1], Held(p)'[2], Held(p)'[3]}
    BY <1>1, <2>1, <2>2, AcquireFacts
  <2>4. Held(proc)' = Held(p)'
    BY <2>1 DEF Held, ThirdHeld, Picard, Solver
  <2>5. HeldNow' = {Held(p)'[1], Held(p)'[2], Held(p)'[3]} /\ HeldNow = {}
    BY <2>2, <2>4 DEF HeldNow
  <2>6. Residua' = Residua /\ AllNewton' = AllNewton
    BY <2>2 DEF Residua, AllNewton, Picard, Solver
  <2> QED BY <2>2, <2>3, <2>5, <2>6 DEF NewtonInv
<1>5. CASE Assemble
  <2>1. /\ Working /\ Working' /\ project' = project /\ neq' = neq
        /\ Held(proc)' = Held(proc)
    BY <1>5, SameHeld DEF Assemble, Working
  <2>2. ~Picard(proc) => pool'.used = pool.used
    BY <1>1, <1>5, AssembleFacts DEF Assemble
  <2> QED BY <1>1, <1>3, <2>1, <2>2 DEF AllNewton
<1>6. CASE AssemblyFails
  <2>1. CASE phase' = "aborted"
    BY <2>1 DEF NewtonInv
  <2>2. CASE phase' # "aborted"
    <3>1. /\ Working /\ Working' /\ project' = project /\ neq' = neq
          /\ Held(proc)' = Held(proc)
          /\ pool' = AfterAssemble(proc, pool) /\ ~Picard(proc)
      BY <1>6, <2>2, SameHeld DEF AssemblyFails, Working
    <3>2. pool'.used = pool.used
      BY <1>1, <3>1, AfterAssembleFacts
    <3> QED BY <1>3, <3>1, <3>2
  <2> QED BY <2>1, <2>2
<1>7. CASE LinearSolverFails
  <2>1. /\ Working /\ Working' /\ project' = project /\ UNCHANGED objects
        /\ Held(proc)' = Held(proc)
    BY <1>7, SameHeld DEF LinearSolverFails, Working, objects
  <2> QED BY <1>3, <2>1 DEF objects
<1>8. CASE IterationSucceeds \/ IterationFails \/ IterationRepeats
  <2>1. /\ Working /\ Working' /\ BorrowXNew /\ neq' = neq
        /\ project' = project /\ proc' = proc
    BY <1>8
    DEF IterationSucceeds, IterationFails, IterationRepeats, NextIteration, Working
  <2>2. pool'.used = pool.used /\ Held(proc)' = Held(proc)
    BY <1>1, <2>1, BorrowXNewFacts
  <2> QED BY <1>3, <2>1, <2>2
<1>9. CASE EndSolve
  <2>1. HeldInv /\ Working /\ ~Working' /\ neq' = neq /\ project' = project
        /\ phase # "aborted"
    BY <1>1, <1>9 DEF EndSolve, Working
  <2>2. pool'.used = pool.used \ {Held(proc)[1], Held(proc)[2], Held(proc)[3]}
    BY <1>1, <1>9, <2>1, ReleaseHeldFacts DEF EndSolve
  <2>3. \A r \in Residua : r \notin {Held(proc)[1], Held(proc)[2], Held(proc)[3]}
    <3>1. 1 \in 1 .. 3 /\ 2 \in 1 .. 3 /\ 3 \in 1 .. 3
      OBVIOUS
    <3> QED BY <2>1, <3>1 DEF HeldInv, FreeOfResidua, HasResiduum, Residua
  <2>4. Residua' = Residua /\ AllNewton' = AllNewton
    BY <2>1 DEF Residua, AllNewton, Picard, Solver
  <2> QED BY <2>1, <2>2, <2>3, <2>4 DEF NewtonInv, HeldNow
<1>10. CASE Finished \/ UNCHANGED vars
  <2>1. UNCHANGED <<project, phase, proc, pool, ids, neq>>
    BY <1>10 DEF Finished, vars, objects
  <2> QED
    BY <2>1 DEF NewtonInv, AllNewton, Residua, HeldNow, Working, Held, ThirdHeld, Picard,
                Solver
<1> QED BY <1>2, <1>4, <1>5, <1>6, <1>7, <1>8, <1>9, <1>10 DEF Next

(* Solvers of the Newton type, unless shared where a residuum is asked     *)
(* for, have between solves nothing in use but their residua, whichever    *)
(* way their solves have ended.                                            *)
THEOREM NewtonReturnsAll ==
  ASSUME ResiduaUnshared PROVE Spec => []NewtonReturnsObjects
<1>1. NewtonInv => NewtonReturnsObjects
  BY DEF NewtonInv, AllNewton, Residua, HeldNow, Working, NewtonReturnsObjects
<1>2. Inv /\ OwnerInv /\ [Next]_vars => OwnerInv'
  BY OwnerStep
<1>3. Inv /\ OwnerInv /\ NewtonInv /\ [Next]_vars => NewtonInv'
  BY NewtonStep
<1> QED BY <1>1, <1>2, <1>3, OwnerInit, NewtonInit, InvHolds, PTL DEF Spec
=============================================================================
