------------------------ MODULE MatrixVectorProvider ------------------------
(***************************************************************************)
(* NumLib::SimpleMatrixVectorProvider, which all of NumLib takes its       *)
(* matrices and vectors from.  The id given to an object when it is made   *)
(* stays with it, so that the objects are identified with their ids; the   *)
(* maps for matrices and for vectors are taken together, since they share  *)
(* _next_id and no user mixes the ids of the two.                          *)
(***************************************************************************)
EXTENDS Integers

(* A provider: _next_id and the objects in use and not in use.             *)
IsPool(p) ==
  /\ p.next \in Nat \ {0}
  /\ p.used \subseteq 1 .. p.next - 1
  /\ p.unused \subseteq 1 .. p.next - 1
  /\ p.used \cap p.unused = {}

Provider == [next: Nat \ {0}, used: SUBSET Nat, unused: SUBSET Nat]

EmptyPool == [next |-> 1, used |-> {}, unused |-> {}]

SameIdAgain(pool) ==   \* a mutant of GetNew
  [pool |-> [pool EXCEPT !.used = @ \cup {pool.next}], id |-> pool.next]

(* Every get returns the provider afterwards and the id of the object.     *)
(* Without an id, or with one that is not found, a new object is made.     *)
GetNew(pool) ==
  [pool |-> [next |-> pool.next + 1, used |-> pool.used \cup {pool.next},
             unused |-> pool.unused],
   id   |-> pool.next]

(* With an id: the unused object of that id, if there is one.              *)
Get(pool, id) ==
  IF id \in pool.unused
  THEN [pool |-> [pool EXCEPT !.used = @ \cup {id}, !.unused = @ \ {id}], id |-> id]
  ELSE GetNew(pool)

ForgottenRelease(pool, id) == pool   \* a mutant of Release

(* releaseMatrix, releaseVector; fatal if the object is not in use.        *)
Release(pool, id) ==
  [pool EXCEPT !.used = @ \ {id}, !.unused = @ \cup {id}]

(* n objects taken at once without an id, and n of them given back.        *)
GetManyNew(pool, n) ==
  [next |-> pool.next + n, unused |-> pool.unused,
   used |-> pool.used \cup (pool.next .. pool.next + n - 1)]

GetAndReleaseManyNew(pool, n) ==
  [next |-> pool.next + n, used |-> pool.used,
   unused |-> pool.unused \cup (pool.next .. pool.next + n - 1)]
=============================================================================
