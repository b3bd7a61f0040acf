------------------------ MODULE MeshPartition_proofs ------------------------
(***************************************************************************)
(* What the partition of a mesh is right about for every mesh, boundary    *)
(* mesh and number of partitions: the owners of the nodes, the elements    *)
(* and nodes that a rank has, the indices of the degrees of freedom, and   *)
(* the references of a boundary mesh.                                      *)
(*                                                                         *)
(* The sequences of the model are made by recursive functions.  What holds *)
(* of them for sequences of every length is shown by the least             *)
(* counterexample (NatSetInduction).                                       *)
(***************************************************************************)
EXTENDS MeshPartition, TLAPS, WellFoundedInduction, FiniteSetTheorems, SequenceTheorems

-----------------------------------------------------------------------------
(* Functions defined by recursion *)

(* A set of numbers that has 0, and with a number the next, has them all.  *)
LEMMA NatSetInduction ==
  ASSUME NEW S, 0 \in S, \A n \in Nat : n \in S => n + 1 \in S
  PROVE  Nat \subseteq S
<1> SUFFICES ASSUME Nat \ S # {} PROVE FALSE
  OBVIOUS
<1>1. PICK n \in Nat \ S : \A m \in Nat \ S : ~(<<m, n>> \in OpToRel(<, Nat))
  BY NatLessThanWellFounded, WFMin
<1>2. n - 1 \in Nat /\ n - 1 < n
  OBVIOUS
<1>3. <<n - 1, n>> \in OpToRel(<, Nat)
  BY <1>2, Zenon DEF OpToRel
<1>4. n - 1 \in S
  BY <1>1, <1>2, <1>3
<1> QED BY <1>2, <1>4

(* F gives the value at i from i and the value at i - 1.                   *)
StepsWithin(F, n, T) == \A i \in 1 .. n, x \in T : F[<<i, x>>] \in T
IsRecursion(g, n, T, base, F) ==
  /\ g \in [0 .. n -> T] /\ g[0] = base
  /\ \A i \in 1 .. n : g[i] = F[<<i, g[i - 1]>>]

(* A function defined by recursion over 0 .. n exists.                     *)
LEMMA Recursion ==
  ASSUME NEW n \in Nat, NEW T, NEW base \in T, NEW F, StepsWithin(F, n, T)
  PROVE  \E g : IsRecursion(g, n, T, base, F)
<1> USE DEF StepsWithin, IsRecursion
<1> DEFINE Good(k, g) == g[0] = base /\ \A i \in 1 .. k : g[i] = F[<<i, g[i - 1]>>]
           S == {k \in Nat : k <= n => \E g \in [0 .. k -> T] : Good(k, g)}
<1>1. 0 \in S
  <2>1. [i \in 0 .. 0 |-> base] \in [0 .. 0 -> T] /\ Good(0, [i \in 0 .. 0 |-> base])
    OBVIOUS
  <2> QED BY <2>1
<1>2. ASSUME NEW k \in Nat, k \in S PROVE k + 1 \in S
  <2> SUFFICES ASSUME k + 1 <= n PROVE \E g \in [0 .. k + 1 -> T] : Good(k + 1, g)
    OBVIOUS
  <2>1. PICK g \in [0 .. k -> T] : Good(k, g)
    BY <1>2
  <2> DEFINE h == [i \in 0 .. k + 1 |-> IF i = k + 1 THEN F[<<k + 1, g[k]>>] ELSE g[i]]
  <2>2. F[<<k + 1, g[k]>>] \in T
    OBVIOUS
  <2>3. h \in [0 .. k + 1 -> T]
    BY <2>2
  <2>4. Good(k + 1, h)
    <3>1. h[0] = base
      BY <2>1
    <3>2. ASSUME NEW i \in 1 .. k + 1 PROVE h[i] = F[<<i, h[i - 1]>>]
      <4>1. CASE i = k + 1
        <5>1. i - 1 = k /\ k \in 0 .. k + 1 /\ k + 1 \in 0 .. k + 1 /\ k # k + 1
          BY <4>1
        <5>2. h[k] = g[k] /\ h[k + 1] = F[<<k + 1, g[k]>>]
          BY <5>1
        <5> HIDE DEF h
        <5> QED BY <4>1, <5>1, <5>2
      <4>2. CASE i # k + 1
        BY <2>1, <4>2
      <4> QED BY <4>1, <4>2
    <3> QED BY <3>1, <3>2
  <2> QED BY <2>3, <2>4
<1> HIDE DEF S
<1>3. n \in S
  BY <1>1, <1>2, NatSetInduction
<1> QED BY <1>3 DEF S

(* What holds at 0 and is kept by each step holds of the whole function.   *)
LEMMA RecursionType ==
  ASSUME NEW n \in Nat, NEW T, NEW f, f[0] \in T,
         \A i \in 1 .. n : f[i - 1] \in T => f[i] \in T
  PROVE  \A i \in 0 .. n : f[i] \in T
<1> DEFINE S == {i \in Nat : i <= n => f[i] \in T}
<1>1. 0 \in S
  OBVIOUS
<1>2. ASSUME NEW k \in Nat, k \in S PROVE k + 1 \in S
  <2> SUFFICES ASSUME k + 1 <= n PROVE f[k + 1] \in T
    OBVIOUS
  <2>1. k + 1 \in 1 .. n /\ f[k] \in T /\ (k + 1) - 1 = k
    BY <1>2
  <2> QED BY <2>1
<1> HIDE DEF S
<1>3. Nat \subseteq S
  BY <1>1, <1>2, NatSetInduction
<1> QED BY <1>3 DEF S

(* Those is the last element of the sequence of what has been copied.      *)
LEMMA ThoseFold ==
  ASSUME NEW A, NEW s \in Seq(A), NEW S
  PROVE  \E g \in [0 .. Len(s) -> Seq(A)] :
           /\ g[0] = << >> /\ Those(s, S) = g[Len(s)]
           /\ \A i \in 1 .. Len(s) :
                g[i] = IF s[i] \in S THEN Append(g[i - 1], s[i]) ELSE g[i - 1]
<1>1. PICK T : T = Seq(A)
  OBVIOUS
<1> DEFINE n == Len(s)
           none == << >>
           F == [p \in (1 .. n) \X T |->
                   IF s[p[1]] \in S THEN Append(p[2], s[p[1]]) ELSE p[2]]
           Is(g) == g = [i \in 0 .. n |->
              IF i = 0 THEN none
              ELSE IF s[i] \in S THEN Append(g[i - 1], s[i]) ELSE g[i - 1]]
           those == CHOOSE g : Is(g)
<1>2. n \in Nat /\ none \in T /\ \A i \in 1 .. n : s[i] \in A
  BY <1>1
<1>3. F \in [(1 .. n) \X T -> T]
  <2>1. ASSUME NEW p \in (1 .. n) \X T
        PROVE  (IF s[p[1]] \in S THEN Append(p[2], s[p[1]]) ELSE p[2]) \in T
    BY <1>1, <1>2
  <2> QED BY <2>1
<1>4. \A i \in 1 .. n, x \in T :
        F[<<i, x>>] = IF s[i] \in S THEN Append(x, s[i]) ELSE x
  OBVIOUS
<1>5. Those(s, S) = those[n]
  BY DEF Those
<1>6. \A g : Is(g) <=> g = [i \in 0 .. n |->
              IF i = 0 THEN none
              ELSE IF s[i] \in S THEN Append(g[i - 1], s[i]) ELSE g[i - 1]]
  OBVIOUS
<1> HIDE DEF F, n, Is, none
<1>7. PICK g : IsRecursion(g, n, T, none, F)
  <2>1. n \in Nat /\ none \in T
    BY <1>2
  <2>2. StepsWithin(F, n, T)
    BY <1>3 DEF StepsWithin
  <2> QED BY <2>1, <2>2, Recursion
<1>8. \A i \in 1 .. n : i - 1 \in 0 .. n /\ i \in 0 .. n /\ i # 0 /\ 0 \in 0 .. n
  BY <1>2
<1>9. Is(g)
  <2>1. ASSUME NEW i \in 0 .. n
        PROVE g[i] = IF i = 0 THEN none
                     ELSE IF s[i] \in S THEN Append(g[i - 1], s[i]) ELSE g[i - 1]
    <3>1. CASE i = 0
      BY <1>7, <3>1 DEF IsRecursion
    <3>2. CASE i # 0
      <4>1. i \in 1 .. n
        BY <1>2, <3>2
      <4> QED BY <1>4, <1>7, <1>8, <3>2, <4>1 DEF IsRecursion
    <3> QED BY <3>1, <3>2
  <2> QED BY <1>6, <1>7, <2>1 DEF IsRecursion
<1>10. Is(those)
  BY <1>9
<1> HIDE DEF those
<1>11. /\ those[0] = none
       /\ \A i \in 1 .. n :
            those[i] = IF s[i] \in S THEN Append(those[i - 1], s[i]) ELSE those[i - 1]
       /\ those \in [0 .. n -> {those[i] : i \in 0 .. n}]
  <2>1. 0 \in 0 .. n
    BY <1>2
  <2>2. those = [i \in 0 .. n |->
              IF i = 0 THEN none
              ELSE IF s[i] \in S THEN Append(those[i - 1], s[i]) ELSE those[i - 1]]
    BY <1>6, <1>10
  <2> QED BY <1>8, <2>1, <2>2
<1>12. \A i \in 0 .. n : those[i] \in T
  <2>1. \A i \in 1 .. n : those[i - 1] \in T => those[i] \in T
    <3>1. \A i \in 1 .. n : those[i - 1] \in Seq(A) => Append(those[i - 1], s[i]) \in Seq(A)
      BY <1>2, AppendProperties
    <3> QED BY <1>1, <1>11, <3>1
  <2> QED BY <1>2, <1>11, <2>1, RecursionType
<1>13. those \in [0 .. n -> Seq(A)]
  BY <1>1, <1>11, <1>12
<1> QED BY <1>5, <1>11, <1>13 DEF n, none

(* FlattenSeq is the last element of the sequence of what has been joined. *)
LEMMA FlattenFold ==
  ASSUME NEW A, NEW seqs \in Seq(Seq(A))
  PROVE  \E g : /\ g[0] = << >> /\ FlattenSeq(seqs) = g[Len(seqs)]
                /\ \A i \in 0 .. Len(seqs) : g[i] \in Seq(A)
                /\ \A i \in 1 .. Len(seqs) : g[i] = g[i - 1] \o seqs[i]
<1>1. PICK T : T = Seq(A)
  OBVIOUS
<1> DEFINE n == Len(seqs)
           none == << >>
           F == [p \in (1 .. n) \X T |-> p[2] \o seqs[p[1]]]
           Is(g) == g = [i \in 1 .. n |-> IF i = 1 THEN seqs[i] ELSE g[i - 1] \o seqs[i]]
           flatten == CHOOSE g : Is(g)
<1>2. n \in Nat /\ none \in T /\ \A i \in 1 .. n : seqs[i] \in T
  BY <1>1
<1>3. CASE n = 0
  <2>1. FlattenSeq(seqs) = << >>
    BY <1>3 DEF FlattenSeq
  <2> DEFINE e == [j \in 0 .. 0 |-> << >>]
  <2>2. e[0] = << >> /\ << >> \in Seq(A)
    OBVIOUS
  <2>3. (\A i \in 0 .. n : i = 0) /\ (\A i \in 1 .. n : FALSE)
    BY <1>3
  <2> HIDE DEF e
  <2>4. e[0] = << >> /\ FlattenSeq(seqs) = e[n] /\ \A i \in 0 .. n : e[i] \in Seq(A)
    BY <1>3, <2>1, <2>2, <2>3
  <2> QED BY <2>3, <2>4
<1>4. CASE n # 0
  <2>1. \A x, y \in T : x \o y \in T
    BY <1>1
  <2>2. \A i \in 1 .. n, x \in T : F[<<i, x>>] = x \o seqs[i]
    OBVIOUS
  <2>3. FlattenSeq(seqs) = flatten[n]
    BY <1>4 DEF FlattenSeq
  <2>4. \A g : Is(g) <=> g = [i \in 1 .. n |-> IF i = 1 THEN seqs[i] ELSE g[i - 1] \o seqs[i]]
    OBVIOUS
  <2>5. \A x \in T : none \o x = x
    BY <1>1
  <2> HIDE DEF F, n, Is, none
  <2>6. PICK h : IsRecursion(h, n, T, none, F)
    <3>1. StepsWithin(F, n, T)
      BY <1>2, <2>1, <2>2 DEF StepsWithin
    <3> QED BY <1>2, <3>1, Recursion
  <2>7. \A i \in 1 .. n : i - 1 \in 0 .. n /\ i \in 0 .. n /\ h[i - 1] \in T
    BY <1>2, <2>6 DEF IsRecursion
  <2>8. \A i \in 1 .. n : h[i] = h[i - 1] \o seqs[i]
    BY <2>2, <2>6, <2>7 DEF IsRecursion
  <2>9. \A i \in 1 .. n : i # 1 => i - 1 \in 1 .. n
    BY <1>2
  <2>10. \A i \in 1 .. n : h[i] = IF i = 1 THEN seqs[i] ELSE h[i - 1] \o seqs[i]
    <3>1. 1 \in 1 .. n /\ 1 - 1 = 0
      BY <1>2, <1>4
    <3>2. h[1] = seqs[1]
      <4>1. h[0] = none /\ h[1] = h[0] \o seqs[1]
        BY <2>6, <2>8, <3>1 DEF IsRecursion
      <4> QED BY <1>2, <2>5, <3>1, <4>1
    <3> QED BY <2>8, <3>2
  <2>11. Is([i \in 1 .. n |-> h[i]])
    <3> DEFINE f == [i \in 1 .. n |-> h[i]]
    <3>1. \A i \in 1 .. n : f[i] = h[i] /\ (i # 1 => f[i - 1] = h[i - 1])
      BY <2>9
    <3>2. f = [i \in 1 .. n |-> f[i]]
      OBVIOUS
    <3> HIDE DEF f
    <3>3. \A i \in 1 .. n : f[i] = IF i = 1 THEN seqs[i] ELSE f[i - 1] \o seqs[i]
      BY <2>10, <3>1
    <3>4. f = [i \in 1 .. n |-> IF i = 1 THEN seqs[i] ELSE f[i - 1] \o seqs[i]]
      BY <3>2, <3>3, Zenon
    <3>5. Is(f)
      BY <2>4, <3>4
    <3> QED BY <3>5 DEF f
  <2>12. Is(flatten)
    BY <2>11
  <2> HIDE DEF flatten
  <2>13. \A i \in 1 .. n : flatten[i] = IF i = 1 THEN seqs[i] ELSE flatten[i - 1] \o seqs[i]
    <3>1. flatten = [i \in 1 .. n |-> IF i = 1 THEN seqs[i] ELSE flatten[i - 1] \o seqs[i]]
      BY <2>4, <2>12
    <3> QED BY <3>1
  <2> DEFINE g == [i \in 0 .. n |-> IF i = 0 THEN none ELSE flatten[i]]
  <2>14. /\ g[0] = none
         /\ \A i \in 1 .. n : g[i] = flatten[i] /\ (i # 1 => g[i - 1] = flatten[i - 1])
    <3>1. 0 \in 0 .. n /\ \A i \in 1 .. n : i # 0 /\ (i # 1 => i - 1 # 0)
      BY <1>2
    <3> QED BY <2>7, <3>1
  <2> HIDE DEF g
  <2>15. \A i \in 1 .. n : g[i] = g[i - 1] \o seqs[i]
    <3>1. 1 \in 1 .. n /\ 1 - 1 = 0 /\ flatten[1] = none \o seqs[1]
      BY <1>2, <1>4, <2>5, <2>13
    <3>2. ASSUME NEW i \in 1 .. n, i # 1 PROVE g[i] = g[i - 1] \o seqs[i]
      BY <2>13, <2>14, <3>2
    <3>3. g[1] = g[1 - 1] \o seqs[1]
      BY <2>14, <3>1
    <3> QED BY <3>2, <3>3
  <2>16. \A i \in 0 .. n : g[i] \in T
    <3>1. \A i \in 1 .. n : g[i - 1] \in T => g[i] \in T
      BY <1>2, <2>1, <2>15
    <3> QED BY <1>2, <2>14, <3>1, RecursionType
  <2>17. n \in 1 .. n
    BY <1>2, <1>4
  <2>18. /\ g[0] = none /\ FlattenSeq(seqs) = g[n]
         /\ \A i \in 0 .. n : g[i] \in Seq(A)
         /\ \A i \in 1 .. n : g[i] = g[i - 1] \o seqs[i]
    BY <1>1, <2>3, <2>14, <2>15, <2>16, <2>17
  <2> QED BY <2>18 DEF n, none
<1> QED BY <1>3, <1>4

-----------------------------------------------------------------------------
(* Sequences *)

LEMMA AppendElements ==
  ASSUME NEW A, NEW u \in Seq(A), NEW x \in A
  PROVE  /\ ToSet(Append(u, x)) = ToSet(u) \cup {x}
         /\ IsInjective(u) /\ x \notin ToSet(u) => IsInjective(Append(u, x))
<1> DEFINE v == Append(u, x)
<1>1. /\ Len(u) \in Nat /\ DOMAIN u = 1 .. Len(u)
      /\ DOMAIN v = 1 .. Len(u) + 1 /\ v[Len(u) + 1] = x
      /\ \A i \in 1 .. Len(u) : v[i] = u[i]
  OBVIOUS
<1> HIDE DEF v
<1>2. ToSet(v) = ToSet(u) \cup {x}
  <2>1. \A i \in 1 .. Len(u) + 1 : i = Len(u) + 1 \/ i \in 1 .. Len(u)
    BY <1>1
  <2>2. \A i \in 1 .. Len(u) : i \in 1 .. Len(u) + 1
    BY <1>1
  <2>3. Len(u) + 1 \in 1 .. Len(u) + 1
    BY <1>1
  <2> QED BY <1>1, <2>1, <2>2, <2>3 DEF ToSet
<1>3. IsInjective(u) /\ x \notin ToSet(u) => IsInjective(v)
  BY <1>1 DEF IsInjective, ToSet
<1> QED BY <1>2, <1>3 DEF v

LEMMA ConcatElements ==
  ASSUME NEW A, NEW u \in Seq(A), NEW w \in Seq(A)
  PROVE  /\ ToSet(u \o w) = ToSet(u) \cup ToSet(w)
         /\ IsInjective(u) /\ IsInjective(w) /\ ToSet(u) \cap ToSet(w) = {}
              => IsInjective(u \o w)
<1> DEFINE v == u \o w
<1>1. /\ Len(u) \in Nat /\ DOMAIN u = 1 .. Len(u)
      /\ Len(w) \in Nat /\ DOMAIN w = 1 .. Len(w)
      /\ DOMAIN v = 1 .. Len(u) + Len(w)
      /\ \A i \in 1 .. Len(u) : v[i] = u[i]
      /\ \A i \in 1 .. Len(w) : v[Len(u) + i] = w[i]
  OBVIOUS
<1> HIDE DEF v
<1>2. \A i \in DOMAIN v : i \in DOMAIN u \/ \E k \in DOMAIN w : i = Len(u) + k
  <2> SUFFICES ASSUME NEW i \in DOMAIN v, i \notin DOMAIN u
               PROVE  \E k \in DOMAIN w : i = Len(u) + k
    OBVIOUS
  <2>1. i - Len(u) \in DOMAIN w /\ i = Len(u) + (i - Len(u))
    BY <1>1
  <2> QED BY <2>1
<1>3. /\ \A i \in DOMAIN u : i \in DOMAIN v
      /\ \A k \in DOMAIN w : Len(u) + k \in DOMAIN v
  BY <1>1
<1>4. ToSet(v) = ToSet(u) \cup ToSet(w)
  <2>1. \A k \in DOMAIN w : v[Len(u) + k] = w[k]
    BY <1>1
  <2>2. \A i \in DOMAIN u : v[i] = u[i]
    BY <1>1
  <2>3. ASSUME NEW i \in DOMAIN v PROVE v[i] \in ToSet(u) \cup ToSet(w)
    BY <1>2, <2>1, <2>2 DEF ToSet
  <2>4. ASSUME NEW i \in DOMAIN u PROVE u[i] \in ToSet(v)
    BY <1>3, <2>2 DEF ToSet
  <2>5. ASSUME NEW k \in DOMAIN w PROVE w[k] \in ToSet(v)
    BY <1>3, <2>1 DEF ToSet
  <2> QED BY <2>3, <2>4, <2>5, Zenon DEF ToSet
<1>5. ASSUME IsInjective(u), IsInjective(w), ToSet(u) \cap ToSet(w) = {}
      PROVE  IsInjective(v)
  <2> SUFFICES ASSUME NEW a \in DOMAIN v, NEW b \in DOMAIN v, v[a] = v[b] PROVE a = b
    BY DEF IsInjective
  <2>1. CASE a \in DOMAIN u /\ b \in DOMAIN u
    BY <1>1, <1>5, <2>1 DEF IsInjective
  <2>2. CASE a \notin DOMAIN u /\ b \notin DOMAIN u
    <3>1. PICK k \in DOMAIN w : a = Len(u) + k
      BY <1>2, <2>2
    <3>2. PICK l \in DOMAIN w : b = Len(u) + l
      BY <1>2, <2>2
    <3>3. w[k] = w[l]
      BY <1>1, <3>1, <3>2
    <3> QED BY <1>5, <3>1, <3>2, <3>3 DEF IsInjective
  <2>3. \A i \in DOMAIN u, k \in DOMAIN w : v[i] # v[Len(u) + k]
    BY <1>1, <1>5 DEF ToSet
  <2> QED BY <1>2, <2>1, <2>2, <2>3
<1> QED BY <1>4, <1>5 DEF v

(* What copy_if copies: the elements in the set, and twice only if twice   *)
(* in the sequence.                                                        *)
LEMMA ThoseElements ==
  ASSUME NEW A, NEW s \in Seq(A), NEW S
  PROVE  /\ Those(s, S) \in Seq(A)
         /\ ToSet(Those(s, S)) = ToSet(s) \cap S
         /\ IsInjective(s) => IsInjective(Those(s, S))
<1>1. PICK g \in [0 .. Len(s) -> Seq(A)] :
           /\ g[0] = << >> /\ Those(s, S) = g[Len(s)]
           /\ \A i \in 1 .. Len(s) :
                g[i] = IF s[i] \in S THEN Append(g[i - 1], s[i]) ELSE g[i - 1]
  BY ThoseFold
<1>2. Len(s) \in Nat /\ DOMAIN s = 1 .. Len(s) /\ \A i \in 1 .. Len(s) : s[i] \in A
  OBVIOUS
<1> DEFINE n == Len(s)
           Seen(i) == {s[j] : j \in 1 .. i}
           Good(i) == /\ ToSet(g[i]) = Seen(i) \cap S
                      /\ IsInjective(s) => IsInjective(g[i])
           N == {i \in Nat : i <= n => Good(i)}
<1>3. 0 \in N
  <2>1. ToSet(<< >>) = {} /\ IsInjective(<< >>) /\ Seen(0) = {}
    BY DEF ToSet, IsInjective
  <2> QED BY <1>1, <2>1
<1>4. ASSUME NEW k \in Nat, k \in N PROVE k + 1 \in N
  <2> SUFFICES ASSUME k + 1 <= n PROVE Good(k + 1)
    OBVIOUS
  <2>1. Good(k) /\ k + 1 \in 1 .. n /\ (k + 1) - 1 = k /\ k \in 0 .. n /\ g[k] \in Seq(A)
    BY <1>2, <1>4
  <2>2. Seen(k + 1) = Seen(k) \cup {s[k + 1]}
    <3>1. \A j \in 1 .. k + 1 : j = k + 1 \/ j \in 1 .. k
      OBVIOUS
    <3>2. \A j \in 1 .. k : j \in 1 .. k + 1
      OBVIOUS
    <3> QED BY <3>1, <3>2
  <2>3. IsInjective(s) => s[k + 1] \notin Seen(k)
    <3>1. \A j \in 1 .. k : j \in DOMAIN s /\ k + 1 \in DOMAIN s /\ j # k + 1
      BY <1>2, <2>1
    <3> QED BY <3>1, Zenon DEF IsInjective
  <2>4. s[k + 1] \in A
    BY <1>2, <2>1
  <2>5. /\ ToSet(Append(g[k], s[k + 1])) = ToSet(g[k]) \cup {s[k + 1]}
        /\ IsInjective(g[k]) /\ s[k + 1] \notin ToSet(g[k])
             => IsInjective(Append(g[k], s[k + 1]))
    BY <2>1, <2>4, AppendElements
  <2>6. g[k + 1] = IF s[k + 1] \in S THEN Append(g[k], s[k + 1]) ELSE g[k]
    BY <1>1, <2>1
  <2> HIDE DEF Seen
  <2> QED BY <2>1, <2>2, <2>3, <2>5, <2>6
<1> HIDE DEF N
<1>5. n \in N
  BY <1>2, <1>3, <1>4, NatSetInduction
<1>6. Good(n) /\ g[n] \in Seq(A)
  BY <1>2, <1>5 DEF N
<1>7. Seen(n) = ToSet(s)
  BY <1>2 DEF ToSet
<1> QED BY <1>1, <1>6, <1>7

(* EachOnce leaves an element out that has occurred, and no other.         *)
LEMMA EachOnceElements ==
  ASSUME NEW A, NEW s \in Seq(A)
  PROVE  /\ EachOnce(s) \in Seq(A) /\ ToSet(EachOnce(s)) = ToSet(s)
         /\ IsInjective(EachOnce(s))
<1> DEFINE places == [i \in DOMAIN s |-> i]
           at == Those(places, Firsts(s))
           D == DOMAIN s
<1>1. Len(s) \in Nat /\ D = 1 .. Len(s) /\ \A i \in D : s[i] \in A
  OBVIOUS
<1>2. places \in Seq(D) /\ ToSet(places) = D /\ IsInjective(places)
  BY <1>1 DEF ToSet, IsInjective
<1>3. at \in Seq(D) /\ ToSet(at) = D \cap Firsts(s) /\ IsInjective(at)
  <2> HIDE DEF places, D
  <2> QED BY <1>2, ThoseElements
<1>4. EachOnce(s) = [k \in DOMAIN at |-> s[at[k]]]
  BY DEF EachOnce
<1> HIDE DEF at
<1>5. /\ Len(at) \in Nat /\ DOMAIN at = 1 .. Len(at)
      /\ \A k \in DOMAIN at : at[k] \in Firsts(s) /\ at[k] \in D
  BY <1>3 DEF ToSet
<1>6. EachOnce(s) \in Seq(A)
  BY <1>1, <1>4, <1>5
<1>7. IsInjective(EachOnce(s))
  <2> SUFFICES ASSUME NEW a \in DOMAIN at, NEW b \in DOMAIN at, s[at[a]] = s[at[b]]
               PROVE  a = b
    BY <1>4 DEF IsInjective
  <2>1. \A i, j \in Firsts(s) : s[i] = s[j] => i = j
    <3> SUFFICES ASSUME NEW i \in Firsts(s), NEW j \in Firsts(s), s[i] = s[j], i # j
                 PROVE  FALSE
      OBVIOUS
    <3>1. i \in 1 .. j - 1 \/ j \in 1 .. i - 1
      BY <1>1 DEF Firsts
    <3> QED BY <3>1 DEF Firsts
  <2> QED BY <1>3, <1>5, <2>1 DEF IsInjective
<1>8. \A i \in D : \E j \in Firsts(s) \cap D : s[j] = s[i]
  <2> SUFFICES ASSUME NEW i \in D PROVE \E j \in Firsts(s) \cap D : s[j] = s[i]
    OBVIOUS
  <2> DEFINE Same == {j \in D : s[j] = s[i]}
  <2>1. i \in Same /\ Same \subseteq Nat
    BY <1>1
  <2>2. PICK j \in Same : \A k \in Same : ~(<<k, j>> \in OpToRel(<, Nat))
    <3> HIDE DEF Same
    <3> QED BY <2>1, NatLessThanWellFounded, WFMin
  <2>3. \A k \in 1 .. j - 1 : k \in Nat /\ j \in Nat /\ k < j /\ k \in D
    BY <1>1
  <2>4. \A k \in 1 .. j - 1 : <<k, j>> \in OpToRel(<, Nat)
    BY <2>3, Zenon DEF OpToRel
  <2>5. \A k \in 1 .. j - 1 : s[k] # s[j]
    BY <2>2, <2>3, <2>4
  <2>6. j \in Firsts(s)
    BY <2>5 DEF Firsts
  <2> QED BY <2>6
<1>9. ToSet(EachOnce(s)) = {s[j] : j \in Firsts(s) \cap D}
  BY <1>3, <1>4 DEF ToSet
<1>10. {s[j] : j \in Firsts(s) \cap D} = ToSet(s)
  BY <1>8 DEF ToSet
<1> QED BY <1>6, <1>7, <1>9, <1>10

(* Where each sequence begins in the sequence that joins them.             *)
IsOffset(o, seqs) ==
  /\ o \in [0 .. Len(seqs) -> Nat] /\ o[0] = 0
  /\ \A i \in 1 .. Len(seqs) : o[i] = o[i - 1] + Len(seqs[i])

(* The place p of the joined sequence is the k-th of the i-th sequence.    *)
IsPlace(o, seqs, p, i, k) == i \in DOMAIN seqs /\ k \in DOMAIN seqs[i] /\ p = o[i - 1] + k

LEMMA FlattenPlaces ==
  ASSUME NEW A, NEW seqs \in Seq(Seq(A))
  PROVE  /\ FlattenSeq(seqs) \in Seq(A)
         /\ \E o : /\ IsOffset(o, seqs) /\ Len(FlattenSeq(seqs)) = o[Len(seqs)]
                   /\ \A i \in 1 .. Len(seqs) : \A k \in 1 .. Len(seqs[i]) :
                        /\ o[i - 1] + k \in 1 .. o[Len(seqs)]
                        /\ FlattenSeq(seqs)[o[i - 1] + k] = seqs[i][k]
                   /\ \A p \in 1 .. o[Len(seqs)] : \E i, k : IsPlace(o, seqs, p, i, k)
<1>1. PICK g : /\ g[0] = << >> /\ FlattenSeq(seqs) = g[Len(seqs)]
               /\ \A i \in 0 .. Len(seqs) : g[i] \in Seq(A)
               /\ \A i \in 1 .. Len(seqs) : g[i] = g[i - 1] \o seqs[i]
  BY FlattenFold
<1> DEFINE n == Len(seqs)
           o == [i \in 0 .. n |-> Len(g[i])]
<1>2. n \in Nat /\ DOMAIN seqs = 1 .. n /\ \A i \in 1 .. n : seqs[i] \in Seq(A)
  OBVIOUS
<1>3. \A i \in 1 .. n : i - 1 \in 0 .. n /\ i \in 0 .. n
  BY <1>2
<1>4. \A i \in 0 .. n : o[i] = Len(g[i]) /\ Len(g[i]) \in Nat
  <2>1. ASSUME NEW i \in 0 .. n PROVE Len(g[i]) \in Nat
    BY <1>1, <2>1
  <2> QED BY <2>1
<1>5. ASSUME NEW i \in 1 .. n
      PROVE  /\ DOMAIN seqs[i] = 1 .. Len(seqs[i]) /\ Len(seqs[i]) \in Nat
             /\ o[i] = o[i - 1] + Len(seqs[i])
             /\ \A p \in 1 .. o[i - 1] : g[i][p] = g[i - 1][p]
             /\ \A k \in 1 .. Len(seqs[i]) : g[i][o[i - 1] + k] = seqs[i][k]
  <2> DEFINE u == g[i - 1]
             w == seqs[i]
  <2>1. u \in Seq(A) /\ w \in Seq(A) /\ g[i] = u \o w /\ o[i] = Len(u \o w) /\ o[i - 1] = Len(u)
    BY <1>1, <1>2, <1>3, <1>4
  <2> HIDE DEF u, w, o
  <2>2. /\ Len(u \o w) = Len(u) + Len(w) /\ Len(u) \in Nat /\ Len(w) \in Nat
        /\ DOMAIN w = 1 .. Len(w)
        /\ \A p \in 1 .. Len(u) : (u \o w)[p] = u[p]
        /\ \A k \in 1 .. Len(w) : (u \o w)[Len(u) + k] = w[k]
    BY <2>1
  <2>3. \A p \in 1 .. o[i - 1] : g[i][p] = u[p]
    BY <2>1, <2>2
  <2>4. \A k \in 1 .. Len(w) : g[i][o[i - 1] + k] = w[k]
    BY <2>1, <2>2
  <2> QED BY <2>1, <2>2, <2>3, <2>4 DEF u, w
<1>6. IsOffset(o, seqs)
  <2>1. o \in [0 .. n -> Nat]
    BY <1>4
  <2>2. o[0] = 0
    BY <1>1, <1>2, <1>4
  <2> HIDE DEF o
  <2> QED BY <1>5, <2>1, <2>2 DEF IsOffset
<1> HIDE DEF o
<1> DEFINE Place(p, j) == \E i \in 1 .. j : \E k : IsPlace(o, seqs, p, i, k)
           Kept(j) == \A i \in 1 .. j : /\ o[i] <= o[j]
                                        /\ \A p \in 1 .. o[i] : g[j][p] = g[i][p]
           Known(j) == \A p \in 1 .. o[j] : Place(p, j)
           N == {j \in Nat : j <= n => Kept(j) /\ Known(j)}
<1>7. 0 \in N
  BY <1>1, <1>2, <1>6 DEF IsOffset
<1>8. ASSUME NEW j \in Nat, j \in N PROVE j + 1 \in N
  <2> SUFFICES ASSUME j + 1 <= n PROVE Kept(j + 1) /\ Known(j + 1)
    OBVIOUS
  <2>1. /\ Kept(j) /\ Known(j) /\ j + 1 \in 1 .. n /\ j \in 0 .. n /\ (j + 1) - 1 = j
        /\ \A i \in 1 .. j : i \in 0 .. n /\ i \in 1 .. n
    BY <1>2, <1>8
  <2>2. /\ o[j] \in Nat /\ o[j + 1] \in Nat /\ \A i \in 1 .. j : o[i] \in Nat
    BY <1>3, <1>6, <2>1 DEF IsOffset
  <2>3. /\ o[j + 1] = o[j] + Len(seqs[j + 1]) /\ Len(seqs[j + 1]) \in Nat
        /\ DOMAIN seqs[j + 1] = 1 .. Len(seqs[j + 1])
        /\ \A p \in 1 .. o[j] : g[j + 1][p] = g[j][p]
    BY <1>5, <2>1
  <2>4. Kept(j + 1)
    <3>1. ASSUME NEW i \in 1 .. j
          PROVE  o[i] <= o[j + 1] /\ \A p \in 1 .. o[i] : g[j + 1][p] = g[i][p]
      <4>1. o[i] <= o[j] /\ \A p \in 1 .. o[i] : g[j][p] = g[i][p]
        BY <2>1
      <4>2. \A p \in 1 .. o[i] : p \in 1 .. o[j]
        BY <2>2, <4>1
      <4> QED BY <2>2, <2>3, <4>1, <4>2
    <3>2. \A i \in 1 .. j + 1 : i \in 1 .. j \/ i = j + 1
      OBVIOUS
    <3> QED BY <2>2, <3>1, <3>2
  <2>5. Known(j + 1)
    <3> SUFFICES ASSUME NEW p \in 1 .. o[j + 1] PROVE Place(p, j + 1)
      OBVIOUS
    <3>1. CASE p <= o[j]
      <4>1. PICK i \in 1 .. j : \E k : IsPlace(o, seqs, p, i, k)
        <5>1. p \in 1 .. o[j]
          BY <2>2, <3>1
        <5> QED BY <2>1, <5>1
      <4>2. i \in 1 .. j + 1
        OBVIOUS
      <4> QED BY <4>1, <4>2
    <3>2. CASE ~(p <= o[j])
      <4>1. p - o[j] \in 1 .. Len(seqs[j + 1]) /\ p = o[j] + (p - o[j]) /\ j + 1 \in 1 .. j + 1
        BY <2>2, <2>3, <3>2
      <4>2. IsPlace(o, seqs, p, j + 1, p - o[j])
        BY <1>2, <2>1, <2>3, <4>1 DEF IsPlace
      <4> QED BY <4>1, <4>2
    <3> QED BY <3>1, <3>2
  <2> QED BY <2>4, <2>5
<1> HIDE DEF N
<1>9. n \in N
  BY <1>2, <1>7, <1>8, NatSetInduction
<1>10. Kept(n) /\ Known(n)
  <2> HIDE DEF Kept, Known
  <2> QED BY <1>2, <1>9 DEF N
<1>11. Len(FlattenSeq(seqs)) = o[n] /\ FlattenSeq(seqs) \in Seq(A)
  BY <1>1, <1>2, <1>4
<1>12. ASSUME NEW i \in 1 .. n, NEW k \in 1 .. Len(seqs[i])
       PROVE  o[i - 1] + k \in 1 .. o[n] /\ FlattenSeq(seqs)[o[i - 1] + k] = seqs[i][k]
  <2>1. /\ o[i] = o[i - 1] + Len(seqs[i]) /\ o[i] <= o[n] /\ Len(seqs[i]) \in Nat
        /\ o[i - 1] \in Nat /\ o[n] \in Nat
    <3>1. o[i] <= o[n]
      BY <1>10
    <3>2. o[i - 1] \in Nat /\ o[n] \in Nat
      <4>1. o \in [0 .. n -> Nat]
        BY <1>6 DEF IsOffset
      <4>2. n \in 0 .. n /\ i - 1 \in 0 .. n
        BY <1>2, <1>3
      <4> QED BY <4>1, <4>2
    <3> QED BY <1>5, <3>1, <3>2
  <2>2. o[i - 1] + k \in 1 .. o[i] /\ o[i - 1] + k \in 1 .. o[n]
    BY <2>1
  <2>3. g[n][o[i - 1] + k] = g[i][o[i - 1] + k]
    BY <1>10, <2>2
  <2> QED BY <1>1, <1>5, <2>2, <2>3
<1>13. \A p \in 1 .. o[n] : \E i, k : IsPlace(o, seqs, p, i, k)
  BY <1>10
<1> QED BY <1>6, <1>11, <1>12, <1>13

LEMMA FlattenElements ==
  ASSUME NEW A, NEW seqs \in Seq(Seq(A))
  PROVE  /\ FlattenSeq(seqs) \in Seq(A)
         /\ \A x : x \in ToSet(FlattenSeq(seqs)) <=> \E i \in DOMAIN seqs : x \in ToSet(seqs[i])
<1> DEFINE f == FlattenSeq(seqs)
           n == Len(seqs)
<1>1. PICK o : /\ IsOffset(o, seqs) /\ Len(f) = o[n]
               /\ \A i \in 1 .. n : \A k \in 1 .. Len(seqs[i]) :
                        o[i - 1] + k \in 1 .. o[n] /\ f[o[i - 1] + k] = seqs[i][k]
               /\ \A p \in 1 .. o[n] : \E i, k : IsPlace(o, seqs, p, i, k)
  BY FlattenPlaces
<1>2. f \in Seq(A)
  BY FlattenPlaces
<1>3. DOMAIN seqs = 1 .. n /\ \A i \in 1 .. n : DOMAIN seqs[i] = 1 .. Len(seqs[i])
  OBVIOUS
<1> HIDE DEF f, n
<1>4. DOMAIN f = 1 .. o[n]
  BY <1>1, <1>2
<1>5. ASSUME NEW x \in ToSet(f) PROVE \E i \in DOMAIN seqs : x \in ToSet(seqs[i])
  <2>1. PICK p \in 1 .. o[n] : x = f[p]
    BY <1>4 DEF ToSet
  <2>2. PICK i, k : IsPlace(o, seqs, p, i, k)
    BY <1>1
  <2>3. i \in 1 .. n /\ k \in 1 .. Len(seqs[i]) /\ p = o[i - 1] + k
    BY <1>3, <2>2 DEF IsPlace
  <2>4. x = seqs[i][k]
    BY <1>1, <2>1, <2>3
  <2> QED BY <1>3, <2>3, <2>4 DEF ToSet
<1>6. ASSUME NEW i \in DOMAIN seqs, NEW x \in ToSet(seqs[i]) PROVE x \in ToSet(f)
  <2>1. PICK k \in 1 .. Len(seqs[i]) : x = seqs[i][k]
    BY <1>3 DEF ToSet
  <2> QED BY <1>1, <1>3, <1>4, <2>1 DEF ToSet
<1> QED BY <1>2, <1>5, <1>6 DEF f

(* The elements of a sequence without repetition are as many as it is long. *)
LEMMA InjectiveLength ==
  ASSUME NEW A, NEW s \in Seq(A), IsInjective(s)
  PROVE  IsFiniteSet(ToSet(s)) /\ Cardinality(ToSet(s)) = Len(s)
<1>1. Len(s) \in Nat /\ DOMAIN s = 1 .. Len(s)
  OBVIOUS
<1>2. s \in [1 .. Len(s) -> ToSet(s)]
  BY DEF ToSet
<1>3. s \in Bijection(1 .. Len(s), ToSet(s))
  BY <1>1, <1>2 DEF Bijection, Injection, Surjection, IsInjective, ToSet
<1>4. ExistsBijection(1 .. Len(s), ToSet(s))
  BY <1>3 DEF ExistsBijection
<1> QED BY <1>1, <1>4, FS_CountingElements, FS_NatBijection

-----------------------------------------------------------------------------
(* One partition *)

WholeElements(m, part) ==
  {e \in DOMAIN m.elements : /\ RegularNodes(m, e, part) # {}
                             /\ RegularNodes(m, e, part) = ToSet(m.elements[e])}
SplitElements(m, part) ==
  {e \in DOMAIN m.elements : RegularNodes(m, e, part) \notin {{}, ToSet(m.elements[e])}}
NeighbourNodes(m, part) ==
  {n \in Ids(m.numNodes) \ OwnNodes(m, part) :
     \E e \in SplitElements(m, part) : n \in ToSet(m.elements[e])}

LEMMA MeshType ==
  ASSUME NEW m, IsMesh(m)
  PROVE  /\ m.numNodes \in Nat \ {0} /\ m.elements \in Seq(Seq(Ids(m.numNodes)))
         /\ m.bulkNode \in [Ids(m.numNodes) -> Ids(Bulk.numNodes)]
         /\ m.bulkElement \in [DOMAIN m.elements -> DOMAIN Bulk.elements]
         /\ Len(m.elements) \in Nat /\ DOMAIN m.elements = 1 .. Len(m.elements)
         /\ \A e \in DOMAIN m.elements :
              /\ m.elements[e] \in Seq(Ids(m.numNodes))
              /\ ToSet(m.elements[e]) \subseteq Ids(m.numNodes)
<1>1. /\ m.numNodes \in Nat \ {0} /\ m.elements \in Seq(Seq(Ids(m.numNodes)))
      /\ m.bulkNode \in [Ids(m.numNodes) -> Ids(Bulk.numNodes)]
      /\ m.bulkElement \in [DOMAIN m.elements -> DOMAIN Bulk.elements]
  BY DEF IsMesh
<1>2. Len(m.elements) \in Nat /\ DOMAIN m.elements = 1 .. Len(m.elements)
  BY <1>1
<1>3. ASSUME NEW e \in DOMAIN m.elements
      PROVE  /\ m.elements[e] \in Seq(Ids(m.numNodes))
             /\ ToSet(m.elements[e]) \subseteq Ids(m.numNodes)
  <2>1. m.elements[e] \in Seq(Ids(m.numNodes))
    BY <1>1, <1>2
  <2> QED BY <2>1 DEF ToSet
<1> QED BY <1>1, <1>2, <1>3

LEMMA ElementsFound ==
  ASSUME NEW m, IsMesh(m), NEW part
  PROVE  LET D == DOMAIN m.elements IN
         /\ RegularElements(m, part) \in Seq(D) /\ IsInjective(RegularElements(m, part))
         /\ ToSet(RegularElements(m, part)) = WholeElements(m, part)
         /\ GhostElements(m, part) \in Seq(D) /\ IsInjective(GhostElements(m, part))
         /\ ToSet(GhostElements(m, part)) = SplitElements(m, part)
<1> DEFINE D == DOMAIN m.elements
           all == [e \in D |-> e]
<1>1. all \in Seq(D) /\ ToSet(all) = D /\ IsInjective(all)
  BY MeshType DEF ToSet, IsInjective
<1>2. RegularElements(m, part) = Those(all, WholeElements(m, part))
  BY DEF RegularElements, WholeElements
<1>3. GhostElements(m, part) = Those(all, SplitElements(m, part))
  BY DEF GhostElements, SplitElements
<1>4. WholeElements(m, part) \subseteq D /\ SplitElements(m, part) \subseteq D
  BY DEF WholeElements, SplitElements
<1> HIDE DEF all, D
<1>5. /\ Those(all, WholeElements(m, part)) \in Seq(D)
      /\ ToSet(Those(all, WholeElements(m, part))) = D \cap WholeElements(m, part)
      /\ IsInjective(Those(all, WholeElements(m, part)))
  BY <1>1, ThoseElements
<1>6. /\ Those(all, SplitElements(m, part)) \in Seq(D)
      /\ ToSet(Those(all, SplitElements(m, part))) = D \cap SplitElements(m, part)
      /\ IsInjective(Those(all, SplitElements(m, part)))
  BY <1>1, ThoseElements
<1> QED BY <1>2, <1>3, <1>4, <1>5, <1>6 DEF D

LEMMA OwnNodesFound ==
  ASSUME NEW m, IsMesh(m), NEW part
  PROVE  /\ FindNonGhostNodes(m, part) \in Seq(Ids(m.numNodes))
         /\ IsInjective(FindNonGhostNodes(m, part))
         /\ ToSet(FindNonGhostNodes(m, part)) = OwnNodes(m, part)
<1> DEFINE N == m.numNodes
           all == Ascending(N)
<1>1. N \in Nat
  BY MeshType
<1>2. all \in Seq(Ids(N)) /\ ToSet(all) = Ids(N) /\ IsInjective(all)
  <2>1. all = [i \in 1 .. N |-> i - 1]
    BY DEF Ascending
  <2> HIDE DEF all, N
  <2>2. DOMAIN all = 1 .. N /\ \A i \in 1 .. N : all[i] = i - 1 /\ i - 1 \in Ids(N)
    BY <1>1, <2>1 DEF Ids
  <2>3. \A n \in Ids(N) : n + 1 \in 1 .. N /\ n = (n + 1) - 1
    BY <1>1 DEF Ids
  <2>4. all \in Seq(Ids(N))
    BY <1>1, <2>1, <2>2
  <2>5. IsInjective(all)
    BY <2>2 DEF IsInjective
  <2>6. ToSet(all) = Ids(N)
    <3>1. \A n \in Ids(N) : all[n + 1] = n /\ n + 1 \in DOMAIN all
      BY <2>2, <2>3
    <3> QED BY <2>2, <3>1, Zenon DEF ToSet
  <2> QED BY <2>4, <2>5, <2>6
<1>3. OwnNodes(m, part) \subseteq Ids(N)
  BY DEF OwnNodes
<1> HIDE DEF all
<1>4. /\ Those(all, OwnNodes(m, part)) \in Seq(Ids(N))
      /\ ToSet(Those(all, OwnNodes(m, part))) = Ids(N) \cap OwnNodes(m, part)
      /\ IsInjective(Those(all, OwnNodes(m, part)))
  BY <1>2, ThoseElements
<1>5. FindNonGhostNodes(m, part) = Those(all, OwnNodes(m, part))
  BY DEF FindNonGhostNodes, all
<1> QED BY <1>3, <1>4, <1>5

(* A rank gets all the nodes of its ghost elements.                        *)
LEMMA GhostNodesFound ==
  ASSUME NEW m, IsMesh(m), NEW part
  PROVE  /\ FindGhostNodes(m, part) \in Seq(Ids(m.numNodes))
         /\ IsInjective(FindGhostNodes(m, part))
         /\ ToSet(FindGhostNodes(m, part)) = NeighbourNodes(m, part)
<1> DEFINE D == DOMAIN m.elements
           I == Ids(m.numNodes)
           ghosts == GhostElements(m, part)
           seqs == [i \in DOMAIN ghosts |-> m.elements[ghosts[i]]]
           walked == FlattenSeq(seqs)
           foreign == Those(walked, I \ OwnNodes(m, part))
<1>1. FindGhostNodes(m, part) = EachOnce(foreign)
  BY DEF FindGhostNodes
<1>2. /\ ghosts \in Seq(D) /\ ToSet(ghosts) = SplitElements(m, part)
      /\ \A e \in D : m.elements[e] \in Seq(I)
  BY ElementsFound, MeshType
<1>3. seqs \in Seq(Seq(I)) /\ DOMAIN seqs = DOMAIN ghosts
  <2> HIDE DEF ghosts, I, D
  <2>1. Len(ghosts) \in Nat /\ DOMAIN ghosts = 1 .. Len(ghosts)
    BY <1>2
  <2>2. \A i \in 1 .. Len(ghosts) : ghosts[i] \in D
    BY <1>2
  <2>3. \A i \in 1 .. Len(ghosts) : m.elements[ghosts[i]] \in Seq(I)
    BY <1>2, <2>2
  <2> QED BY <2>1, <2>3
<1>4. \A i \in DOMAIN seqs : seqs[i] = m.elements[ghosts[i]]
  OBVIOUS
<1> HIDE DEF seqs, ghosts, I
<1>5. /\ walked \in Seq(I)
      /\ \A n : n \in ToSet(walked) <=> \E i \in DOMAIN seqs : n \in ToSet(seqs[i])
  BY <1>3, FlattenElements
<1>6. \A n : n \in ToSet(walked) <=> \E e \in SplitElements(m, part) : n \in ToSet(m.elements[e])
  <2>1. \A i \in DOMAIN seqs : ghosts[i] \in SplitElements(m, part)
    BY <1>2, <1>3 DEF ToSet
  <2>2. \A e \in SplitElements(m, part) : \E i \in DOMAIN seqs : e = ghosts[i]
    BY <1>2, <1>3 DEF ToSet
  <2> QED BY <1>4, <1>5, <2>1, <2>2
<1> HIDE DEF walked
<1>7. foreign \in Seq(I) /\ ToSet(foreign) = ToSet(walked) \cap (I \ OwnNodes(m, part))
  BY <1>5, ThoseElements
<1> HIDE DEF foreign
<1>8. /\ EachOnce(foreign) \in Seq(I) /\ ToSet(EachOnce(foreign)) = ToSet(foreign)
      /\ IsInjective(EachOnce(foreign))
  BY <1>7, EachOnceElements
<1>9. ToSet(foreign) = NeighbourNodes(m, part)
  BY <1>6, <1>7 DEF NeighbourNodes, I
<1> QED BY <1>1, <1>8, <1>9 DEF I

(* What a rank is given.  A place of nodes is the rank's own as the three  *)
(* numbers say.                                                            *)
IsOwnPlace(p, i) ==
  i <= p.numActiveBase \/ (p.numBase < i /\ i <= EndOfActiveExtras(p))

IsPartOf(p, m, part) ==
  /\ p.nodes \in Seq(Ids(m.numNodes)) /\ IsInjective(p.nodes)
  /\ ToSet(p.nodes) = OwnNodes(m, part) \cup NeighbourNodes(m, part)
  /\ p.numActiveBase \in Nat /\ p.numActive \in Nat /\ p.numBase \in Nat
  /\ p.numActiveBase <= p.numActive /\ p.numActiveBase <= p.numBase
  /\ EndOfActiveExtras(p) <= Len(p.nodes)
  /\ \A i \in DOMAIN p.nodes : p.nodes[i] \in OwnNodes(m, part) <=> IsOwnPlace(p, i)
  /\ ~mixed => p.numActiveBase = p.numActive /\ p.numBase = Len(p.nodes)
  /\ p.regular \in Seq(DOMAIN m.elements) /\ IsInjective(p.regular)
  /\ p.ghost \in Seq(DOMAIN m.elements) /\ IsInjective(p.ghost)
  /\ ToSet(p.regular) = WholeElements(m, part)
  /\ ToSet(p.ghost) = SplitElements(m, part)

LEMMA ConcatPlaces ==
  ASSUME NEW T, NEW u \in Seq(T), NEW w \in Seq(T)
  PROVE  /\ u \o w \in Seq(T) /\ Len(u \o w) = Len(u) + Len(w)
         /\ DOMAIN (u \o w) = 1 .. Len(u) + Len(w)
         /\ \A i \in 1 .. Len(u) : (u \o w)[i] = u[i]
         /\ \A i \in 1 .. Len(u) + Len(w) : i > Len(u) =>
              (u \o w)[i] = w[i - Len(u)] /\ i - Len(u) \in DOMAIN w
<1>1. /\ u \o w \in Seq(T) /\ Len(u \o w) = Len(u) + Len(w)
      /\ Len(u) \in Nat /\ Len(w) \in Nat
      /\ DOMAIN (u \o w) = 1 .. Len(u) + Len(w) /\ DOMAIN w = 1 .. Len(w)
  OBVIOUS
<1>2. \A i \in 1 .. Len(u) : (u \o w)[i] = u[i]
  OBVIOUS
<1>3. ASSUME NEW i \in 1 .. Len(u) + Len(w), i > Len(u)
      PROVE  (u \o w)[i] = w[i - Len(u)] /\ i - Len(u) \in DOMAIN w
  BY <1>1, <1>3
<1> QED BY <1>1, <1>2, <1>3

(* Four sequences one after the other.                                     *)
LEMMA FourParts ==
  ASSUME NEW T, NEW a \in Seq(T), NEW b \in Seq(T), NEW c \in Seq(T), NEW d \in Seq(T),
         IsInjective(a), IsInjective(b), IsInjective(c), IsInjective(d),
         NEW O, ToSet(a) \subseteq O, ToSet(c) \subseteq O,
         ToSet(b) \cap O = {}, ToSet(d) \cap O = {},
         ToSet(a) \cap ToSet(c) = {}, ToSet(b) \cap ToSet(d) = {}
  PROVE  LET w == a \o b \o c \o d IN
         /\ w \in Seq(T) /\ IsInjective(w)
         /\ ToSet(w) = ToSet(a) \cup ToSet(b) \cup ToSet(c) \cup ToSet(d)
         /\ Len(w) = Len(a) + Len(b) + Len(c) + Len(d)
         /\ \A i \in DOMAIN w : w[i] \in O <=>
              \/ i <= Len(a)
              \/ Len(a) + Len(b) < i /\ i <= Len(a) + Len(b) + Len(c)
<1> DEFINE u == a \o b
           v == u \o c
           w == v \o d
<1>1. /\ u \in Seq(T) /\ ToSet(u) = ToSet(a) \cup ToSet(b) /\ IsInjective(u)
      /\ Len(u) = Len(a) + Len(b)
      /\ \A i \in 1 .. Len(a) : u[i] = a[i]
      /\ \A i \in 1 .. Len(u) : i > Len(a) => u[i] = b[i - Len(a)] /\ i - Len(a) \in DOMAIN b
  <2>1. ToSet(a) \cap ToSet(b) = {}
    OBVIOUS
  <2>2. ToSet(u) = ToSet(a) \cup ToSet(b) /\ IsInjective(u)
    BY <2>1, ConcatElements
  <2> QED BY <2>2, ConcatPlaces
<1> HIDE DEF u
<1>2. /\ v \in Seq(T) /\ ToSet(v) = ToSet(u) \cup ToSet(c) /\ IsInjective(v)
      /\ Len(v) = Len(u) + Len(c)
      /\ \A i \in 1 .. Len(u) : v[i] = u[i]
      /\ \A i \in 1 .. Len(v) : i > Len(u) => v[i] = c[i - Len(u)] /\ i - Len(u) \in DOMAIN c
  <2>1. ToSet(u) \cap ToSet(c) = {}
    BY <1>1
  <2>2. ToSet(v) = ToSet(u) \cup ToSet(c) /\ IsInjective(v)
    BY <1>1, <2>1, ConcatElements
  <2>3. u \in Seq(T)
    BY <1>1
  <2> QED BY <2>2, <2>3, ConcatPlaces
<1> HIDE DEF v
<1>3. /\ w \in Seq(T) /\ ToSet(w) = ToSet(v) \cup ToSet(d) /\ IsInjective(w)
      /\ Len(w) = Len(v) + Len(d) /\ DOMAIN w = 1 .. Len(w)
      /\ \A i \in 1 .. Len(v) : w[i] = v[i]
      /\ \A i \in 1 .. Len(w) : i > Len(v) => w[i] = d[i - Len(v)] /\ i - Len(v) \in DOMAIN d
  <2>1. ToSet(v) \cap ToSet(d) = {}
    BY <1>1, <1>2
  <2>2. ToSet(w) = ToSet(v) \cup ToSet(d) /\ IsInjective(w)
    BY <1>2, <2>1, ConcatElements
  <2>3. v \in Seq(T)
    BY <1>2
  <2> QED BY <2>2, <2>3, ConcatPlaces
<1> HIDE DEF w
<1>4. /\ Len(a) \in Nat /\ Len(b) \in Nat /\ Len(c) \in Nat /\ Len(d) \in Nat
      /\ DOMAIN a = 1 .. Len(a) /\ DOMAIN b = 1 .. Len(b)
      /\ DOMAIN c = 1 .. Len(c) /\ DOMAIN d = 1 .. Len(d)
  OBVIOUS
<1>5. ASSUME NEW i \in DOMAIN w
      PROVE  w[i] \in O <=> \/ i <= Len(a)
                            \/ Len(a) + Len(b) < i /\ i <= Len(a) + Len(b) + Len(c)
  <2>1. CASE i <= Len(a)
    <3>1. i \in DOMAIN a /\ w[i] = a[i]
      BY <1>1, <1>2, <1>3, <1>4, <2>1
    <3> QED BY <2>1, <3>1 DEF ToSet
  <2>2. CASE Len(a) < i /\ i <= Len(a) + Len(b)
    <3>1. i - Len(a) \in DOMAIN b /\ w[i] = b[i - Len(a)]
      BY <1>1, <1>2, <1>3, <1>4, <2>2
    <3>2. w[i] \notin O
      BY <3>1 DEF ToSet
    <3> QED BY <1>3, <1>4, <2>2, <3>2
  <2>3. CASE Len(a) + Len(b) < i /\ i <= Len(a) + Len(b) + Len(c)
    <3>1. i - Len(u) \in DOMAIN c /\ w[i] = c[i - Len(u)]
      BY <1>1, <1>2, <1>3, <1>4, <2>3
    <3> QED BY <2>3, <3>1 DEF ToSet
  <2>4. CASE Len(a) + Len(b) + Len(c) < i
    <3>1. i - Len(v) \in DOMAIN d /\ w[i] = d[i - Len(v)]
      BY <1>1, <1>2, <1>3, <1>4, <2>4
    <3>2. w[i] \notin O
      BY <3>1 DEF ToSet
    <3> QED BY <1>3, <1>4, <2>4, <3>2
  <2> QED BY <1>3, <1>4, <2>1, <2>2, <2>3, <2>4
<1>6. ToSet(w) = ToSet(a) \cup ToSet(b) \cup ToSet(c) \cup ToSet(d)
  BY <1>1, <1>2, <1>3
<1>7. Len(w) = Len(a) + Len(b) + Len(c) + Len(d)
  BY <1>1, <1>2, <1>3
<1>8. w = a \o b \o c \o d
  BY DEF w, v, u
<1> QED BY <1>3, <1>5, <1>6, <1>7, <1>8

LEMMA PartitionIsPart ==
  ASSUME NEW m, IsMesh(m), NEW part
  PROVE  IsPartOf(Partition(m, part), m, part)
<1> DEFINE I == Ids(m.numNodes)
           own == FindNonGhostNodes(m, part)
           ghosts == FindGhostNodes(m, part)
           a == BasesOf(m, own)
           b == BasesOf(m, ghosts)
           c == ExtrasOf(m, own)
           d == ExtrasOf(m, ghosts)
           O == OwnNodes(m, part)
           p == Partition(m, part)
<1>1. own \in Seq(I) /\ IsInjective(own) /\ ToSet(own) = O
  BY OwnNodesFound
<1>2. ghosts \in Seq(I) /\ IsInjective(ghosts) /\ ToSet(ghosts) = NeighbourNodes(m, part)
  BY GhostNodesFound
<1>3. /\ p.nodes = a \o b \o c \o d
      /\ p.numBase = Len(a) + Len(b) /\ p.numActiveBase = Len(a) /\ p.numActive = Len(own)
      /\ p.regular = RegularElements(m, part) /\ p.ghost = GhostElements(m, part)
  BY DEF Partition
<1>4. ASSUME NEW s \in Seq(I), IsInjective(s)
      PROVE  /\ BasesOf(m, s) \in Seq(I) /\ IsInjective(BasesOf(m, s))
             /\ ToSet(BasesOf(m, s)) = ToSet(s) \cap BaseNodes(m)
             /\ ExtrasOf(m, s) \in Seq(I) /\ IsInjective(ExtrasOf(m, s))
             /\ ToSet(ExtrasOf(m, s)) = ToSet(s) \ BaseNodes(m)
             /\ Len(BasesOf(m, s)) + Len(ExtrasOf(m, s)) = Len(s)
             /\ ~mixed => Len(ExtrasOf(m, s)) = 0
  <2> DEFINE x == BasesOf(m, s)
             y == ExtrasOf(m, s)
  <2>1. /\ x \in Seq(I) /\ IsInjective(x) /\ ToSet(x) = ToSet(s) \cap BaseNodes(m)
    BY <1>4, ThoseElements DEF BasesOf
  <2>2. /\ y \in Seq(I) /\ IsInjective(y) /\ ToSet(y) = ToSet(s) \cap (I \ BaseNodes(m))
    BY <1>4, ThoseElements DEF ExtrasOf
  <2>3. ToSet(s) \subseteq I
    BY <1>4 DEF ToSet
  <2> HIDE DEF x, y, I
  <2>4. ToSet(y) = ToSet(s) \ BaseNodes(m)
    BY <2>2, <2>3
  <2>5. /\ IsFiniteSet(ToSet(x)) /\ Cardinality(ToSet(x)) = Len(x)
        /\ IsFiniteSet(ToSet(y)) /\ Cardinality(ToSet(y)) = Len(y)
        /\ IsFiniteSet(ToSet(s)) /\ Cardinality(ToSet(s)) = Len(s)
    BY <1>4, <2>1, <2>2, InjectiveLength
  <2>6. ToSet(s) = ToSet(x) \cup ToSet(y) /\ ToSet(x) \cap ToSet(y) = {}
    BY <2>1, <2>4
  <2>7. Len(x) \in Nat /\ Len(y) \in Nat
    BY <2>1, <2>2
  <2>8. Len(x) + Len(y) = Len(s)
    <3>1. Cardinality(ToSet(x) \cup ToSet(y))
            = Cardinality(ToSet(x)) + Cardinality(ToSet(y)) - Cardinality(ToSet(x) \cap ToSet(y))
      BY <2>5, FS_Union
    <3>2. Cardinality(ToSet(x) \cap ToSet(y)) = 0
      BY <2>6, FS_EmptySet
    <3> QED BY <2>5, <2>6, <2>7, <3>1, <3>2
  <2>9. ASSUME ~mixed PROVE Len(y) = 0
    <3>1. BaseNodes(m) = I
      BY <2>9 DEF BaseNodes, I
    <3> QED BY <2>3, <2>4, <2>5, <3>1, FS_EmptySet
  <2> QED BY <2>1, <2>2, <2>4, <2>8, <2>9 DEF x, y, I
<1>5. O \cap NeighbourNodes(m, part) = {}
  BY DEF NeighbourNodes
<1> HIDE DEF I, own, ghosts, O
<1>6. /\ a \in Seq(I) /\ IsInjective(a) /\ ToSet(a) = O \cap BaseNodes(m)
      /\ c \in Seq(I) /\ IsInjective(c) /\ ToSet(c) = O \ BaseNodes(m)
      /\ Len(a) + Len(c) = Len(own) /\ (~mixed => Len(c) = 0)
  BY <1>1, <1>4
<1>7. /\ b \in Seq(I) /\ IsInjective(b) /\ ToSet(b) = NeighbourNodes(m, part) \cap BaseNodes(m)
      /\ d \in Seq(I) /\ IsInjective(d) /\ ToSet(d) = NeighbourNodes(m, part) \ BaseNodes(m)
      /\ ~mixed => Len(d) = 0
  BY <1>2, <1>4
<1> HIDE DEF a, b, c, d, p
<1>8. /\ Len(a) \in Nat /\ Len(b) \in Nat /\ Len(c) \in Nat /\ Len(d) \in Nat
      /\ Len(own) \in Nat
  BY <1>1, <1>6, <1>7
<1>9. /\ p.nodes \in Seq(I) /\ IsInjective(p.nodes)
      /\ ToSet(p.nodes) = ToSet(a) \cup ToSet(b) \cup ToSet(c) \cup ToSet(d)
      /\ Len(p.nodes) = Len(a) + Len(b) + Len(c) + Len(d)
      /\ \A i \in DOMAIN p.nodes : p.nodes[i] \in O <=>
              \/ i <= Len(a)
              \/ Len(a) + Len(b) < i /\ i <= Len(a) + Len(b) + Len(c)
  <2>1. /\ ToSet(a) \subseteq O /\ ToSet(c) \subseteq O
        /\ ToSet(b) \cap O = {} /\ ToSet(d) \cap O = {}
        /\ ToSet(a) \cap ToSet(c) = {} /\ ToSet(b) \cap ToSet(d) = {}
    BY <1>5, <1>6, <1>7
  <2> DEFINE w == a \o b \o c \o d
  <2>2. /\ w \in Seq(I) /\ IsInjective(w)
        /\ ToSet(w) = ToSet(a) \cup ToSet(b) \cup ToSet(c) \cup ToSet(d)
        /\ Len(w) = Len(a) + Len(b) + Len(c) + Len(d)
        /\ \A i \in DOMAIN w : w[i] \in O <=>
              \/ i <= Len(a)
              \/ Len(a) + Len(b) < i /\ i <= Len(a) + Len(b) + Len(c)
    BY <1>6, <1>7, <2>1, FourParts
  <2> QED BY <1>3, <2>2
<1>10. ToSet(p.nodes) = O \cup NeighbourNodes(m, part)
  BY <1>6, <1>7, <1>9
<1>11. EndOfActiveExtras(p) = Len(a) + Len(b) + Len(c)
  <2>1. EndOfActiveExtras(p) = (Len(a) + Len(b)) + Len(own) - Len(a)
    BY <1>3 DEF EndOfActiveExtras
  <2> QED BY <1>6, <1>8, <2>1
<1>12. \A i \in DOMAIN p.nodes : p.nodes[i] \in O <=> IsOwnPlace(p, i)
  BY <1>3, <1>9, <1>11 DEF IsOwnPlace
<1>13. ~mixed => p.numActiveBase = p.numActive /\ p.numBase = Len(p.nodes)
  BY <1>3, <1>6, <1>7, <1>8, <1>9
<1>14. /\ p.numActiveBase \in Nat /\ p.numActive \in Nat /\ p.numBase \in Nat
       /\ p.numActiveBase <= p.numActive /\ p.numActiveBase <= p.numBase
       /\ EndOfActiveExtras(p) <= Len(p.nodes)
  BY <1>3, <1>6, <1>8, <1>9, <1>11
<1>15. /\ p.regular \in Seq(DOMAIN m.elements) /\ IsInjective(p.regular)
       /\ p.ghost \in Seq(DOMAIN m.elements) /\ IsInjective(p.ghost)
       /\ ToSet(p.regular) = WholeElements(m, part)
       /\ ToSet(p.ghost) = SplitElements(m, part)
  BY <1>3, ElementsFound
<1> QED BY <1>9, <1>10, <1>12, <1>13, <1>14, <1>15 DEF IsPartOf, p, O, I

-----------------------------------------------------------------------------
(* The inductive invariant: what has been made is made from the partition  *)
(* of METIS in the one way the actions make it.                            *)

Numbers ==
  [n \in Ids(Bulk.numNodes) |->
     Max({0} \cup {i - 1 : i \in {j \in DOMAIN NumberingOrder : NumberingOrder[j] = n}})]

InvType ==
  /\ phase \in {"partitioning", "renumbered", "partitioned", "written"}
  /\ mixed \in BOOLEAN
  /\ partitionIds \in [Ids(Bulk.numNodes) -> Ranks]

InvPartitions ==
  \E k \in 0 .. NumParts :
    /\ partitions = [r \in 1 .. k |-> Partition(Bulk, r)]
    /\ phase # "partitioning" => k = NumParts

InvNumbers == phase # "partitioning" => globalIds = Numbers

InvOthers ==
  phase \in {"partitioned", "written"} => others = [r \in Ranks |-> Partition(Boundary, r)]

(* The ids of the bulk mesh's nodes and elements, then their positions.    *)
InvBulkIds ==
  /\ phase = "partitioned" =>
       /\ bulkNodeIds = [r \in Ranks |->
            [j \in Ids(Len(others[r].nodes)) |-> Boundary.bulkNode[NodeAt(others[r], j)]]]
       /\ bulkElementIds = [r \in Ranks |->
            [i \in DOMAIN ElementsOf(others[r]) |-> Boundary.bulkElement[ElementsOf(others[r])[i]]]]
  /\ phase = "written" =>
       /\ bulkNodeIds = [r \in Ranks |->
            [j \in Ids(Len(others[r].nodes)) |->
               LocalNode(r, Boundary.bulkNode[NodeAt(others[r], j)])]]
       /\ bulkElementIds = [r \in Ranks |->
            [i \in DOMAIN ElementsOf(others[r]) |->
               PositionOf(Boundary.bulkElement[ElementsOf(others[r])[i]],
                          ElementsOf(partitions[r]))]]

InvMaps ==
  /\ DOMAIN dofs \subseteq Ranks /\ DOMAIN subset \subseteq DOMAIN dofs
  /\ phase # "written" => DOMAIN dofs = {}
  /\ \A r \in DOMAIN dofs : dofs[r] = MapOf(r)
  /\ \A r \in DOMAIN subset : subset[r] = SubsetOf(r)

Inv ==
  /\ InvType /\ InvPartitions /\ InvNumbers
  /\ InvOthers /\ InvBulkIds /\ InvMaps

LEMMA PartitionUnchanged ==
  ASSUME mixed' = mixed, partitionIds' = partitionIds, NEW m, NEW part
  PROVE  Partition(m, part)' = Partition(m, part)
<1>1. OwnNodes(m, part)' = OwnNodes(m, part) /\ BaseNodes(m)' = BaseNodes(m)
  BY DEF OwnNodes, OwnerOf, BaseNodes
<1>3. /\ RegularElements(m, part)' = RegularElements(m, part)
      /\ GhostElements(m, part)' = GhostElements(m, part)
  BY <1>1 DEF RegularElements, GhostElements, RegularNodes
<1>4. FindNonGhostNodes(m, part)' = FindNonGhostNodes(m, part)
  BY <1>1 DEF FindNonGhostNodes
<1>5. FindGhostNodes(m, part)' = FindGhostNodes(m, part)
  BY <1>1, <1>3 DEF FindGhostNodes
<1>6. ASSUME NEW s
      PROVE  BasesOf(m, s)' = BasesOf(m, s) /\ ExtrasOf(m, s)' = ExtrasOf(m, s)
  BY <1>1 DEF BasesOf, ExtrasOf
<1> QED BY <1>1, <1>3, <1>4, <1>5 DEF Partition, BasesOf, ExtrasOf

(* The constructor of the map of a rank reads what the tool has written.   *)
LEMMA MapUnchanged ==
  ASSUME UNCHANGED tool, NEW r
  PROVE  MapOf(r)' = MapOf(r)
<1>1. partitions' = partitions /\ globalIds' = globalIds
  BY DEF tool
<1>2. Locals(r)' = Locals(r) /\ (\A j : IsGhostNode(r, j)' = IsGhostNode(r, j))
  BY <1>1 DEF Locals, NumberOfNodes, IsGhostNode, EndOfActiveExtras
<1>3. \A j, c : GlobalIndex(r, j, c)' = GlobalIndex(r, j, c)
  BY <1>1 DEF GlobalIndex, GlobalNodeID, NodeAt
<1>4. Ghosts(r)' = Ghosts(r)
  BY <1>1, <1>2 DEF Ghosts, NumberOfNodes
<1> QED BY <1>2, <1>3, <1>4 DEF MapOf, GhostIndex, NumUnknowns

LEMMA InvInit == Init => Inv
<1> SUFFICES ASSUME Init PROVE Inv
  OBVIOUS
<1>1. InvType
  BY DEF Init, InvType
<1>2. InvPartitions
  <2>1. 0 \in 0 .. NumParts /\ partitions = [r \in 1 .. 0 |-> Partition(Bulk, r)]
    BY SizesAssumption DEF Init
  <2> QED BY <2>1 DEF Init, InvPartitions
<1>3. InvNumbers /\ InvOthers /\ InvBulkIds
  BY DEF Init, InvNumbers, InvOthers, InvBulkIds
<1>4. InvMaps
  <2>1. DOMAIN dofs = {} /\ DOMAIN subset = {}
    BY DEF Init
  <2> QED BY <2>1 DEF InvMaps
<1> QED BY <1>1, <1>2, <1>3, <1>4 DEF Inv

LEMMA InvProcessPartition ==
  ASSUME Inv, ProcessPartition
  PROVE  Inv'
<1> USE DEF Inv
<1>1. /\ phase = "partitioning" /\ phase' = phase /\ mixed' = mixed
      /\ partitionIds' = partitionIds /\ dofs' = dofs /\ subset' = subset
  BY DEF ProcessPartition
<1>2. InvType'
  BY <1>1 DEF InvType
<1>3. InvPartitions'
  <2>1. PICK k \in 0 .. NumParts : partitions = [r \in 1 .. k |-> Partition(Bulk, r)]
    BY DEF InvPartitions
  <2> DEFINE All == {Partition(Bulk, r) : r \in 1 .. k + 1}
             more == [r \in 1 .. k + 1 |-> Partition(Bulk, r)]
  <2>2. partitions \in Seq(All) /\ Len(partitions) = k /\ k \in Nat
    BY <2>1, SizesAssumption
  <2>3. k + 1 \in 0 .. NumParts
    BY <2>2, SizesAssumption DEF ProcessPartition
  <2>4. partitions' = more
    <3> DEFINE x == Partition(Bulk, k + 1)
    <3>1. partitions' = Append(partitions, x) /\ x \in All /\ more \in Seq(All)
      BY <2>2 DEF ProcessPartition
    <3>2. \A r \in 1 .. k : more[r] = partitions[r]
      BY <2>1
    <3>3. more[k + 1] = x /\ Len(more) = k + 1
      BY <2>2
    <3> HIDE DEF x, more, All
    <3>4. /\ Append(partitions, x) \in Seq(All) /\ Len(Append(partitions, x)) = k + 1
          /\ \A r \in 1 .. k : Append(partitions, x)[r] = partitions[r]
          /\ Append(partitions, x)[k + 1] = x
      BY <2>2, <3>1, AppendProperties
    <3>5. \A r \in 1 .. k + 1 : r \in 1 .. k \/ r = k + 1
      BY <2>2
    <3>6. \A r \in 1 .. k + 1 : Append(partitions, x)[r] = more[r]
      BY <3>2, <3>3, <3>4, <3>5
    <3> QED BY <3>1, <3>3, <3>4, <3>6, SeqEqual
  <2>5. \A r : Partition(Bulk, r)' = Partition(Bulk, r)
    BY <1>1, PartitionUnchanged
  <2> QED BY <1>1, <2>3, <2>4, <2>5 DEF InvPartitions
<1>4. InvNumbers' /\ InvOthers' /\ InvBulkIds'
  BY <1>1 DEF InvNumbers, InvOthers, InvBulkIds
<1>5. InvMaps'
  BY <1>1 DEF InvMaps
<1> QED BY <1>2, <1>3, <1>4, <1>5

LEMMA InvRenumberNodeIndices ==
  ASSUME Inv, RenumberNodeIndices
  PROVE  Inv'
<1> USE DEF Inv
<1>1. /\ phase = "partitioning" /\ phase' = "renumbered" /\ mixed' = mixed
      /\ partitionIds' = partitionIds /\ partitions' = partitions
      /\ Len(partitions) = NumParts
      /\ dofs' = dofs /\ subset' = subset /\ globalIds' = Numbers
  BY DEF RenumberNodeIndices, Numbers
<1>2. InvType'
  BY <1>1 DEF InvType
<1>3. InvPartitions'
  <2>1. PICK k \in 0 .. NumParts : partitions = [r \in 1 .. k |-> Partition(Bulk, r)]
    BY DEF InvPartitions
  <2>2. k = NumParts
    BY <1>1, <2>1, SizesAssumption
  <2>3. \A r : Partition(Bulk, r)' = Partition(Bulk, r)
    BY <1>1, PartitionUnchanged
  <2> QED BY <1>1, <2>1, <2>2, <2>3 DEF InvPartitions
<1>4. InvNumbers'
  <2>1. NumberingOrder' = NumberingOrder
    BY <1>1 DEF NumberingOrder, EndOfActiveExtras
  <2>2. Numbers' = Numbers
    BY <2>1 DEF Numbers
  <2> QED BY <1>1, <2>2 DEF InvNumbers
<1>5. InvOthers' /\ InvBulkIds'
  BY <1>1 DEF InvOthers, InvBulkIds
<1>6. InvMaps'
  BY <1>1 DEF InvMaps
<1> QED BY <1>2, <1>3, <1>4, <1>5, <1>6

LEMMA InvPartitionOtherMesh ==
  ASSUME Inv, PartitionOtherMesh
  PROVE  Inv'
<1> USE DEF Inv
<1>1. /\ phase = "renumbered" /\ phase' = "partitioned" /\ mixed' = mixed
      /\ partitionIds' = partitionIds /\ partitions' = partitions /\ globalIds' = globalIds
      /\ dofs' = dofs /\ subset' = subset
      /\ others' = [r \in Ranks |-> Partition(Boundary, r)]
  BY DEF PartitionOtherMesh
<1>2. InvType'
  BY <1>1 DEF InvType
<1>3. InvPartitions'
  <2>1. \A r : Partition(Bulk, r)' = Partition(Bulk, r)
    BY <1>1, PartitionUnchanged
  <2> QED BY <1>1, <2>1 DEF InvPartitions
<1>4. InvNumbers'
  <2>1. NumberingOrder' = NumberingOrder
    BY <1>1 DEF NumberingOrder, EndOfActiveExtras
  <2> QED BY <1>1, <2>1 DEF InvNumbers, Numbers
<1>5. InvOthers'
  <2>1. \A r : Partition(Boundary, r)' = Partition(Boundary, r)
    BY <1>1, PartitionUnchanged
  <2> QED BY <1>1, <2>1 DEF InvOthers
<1>6. InvBulkIds'
  <2>1. bulkNodeIds' = [r \in Ranks |->
          [j \in Ids(Len(others'[r].nodes)) |-> Boundary.bulkNode[NodeAt(others'[r], j)]]]
    BY DEF PartitionOtherMesh
  <2>2. bulkElementIds' = [r \in Ranks |->
          [i \in DOMAIN ElementsOf(others'[r]) |-> Boundary.bulkElement[ElementsOf(others'[r])[i]]]]
    BY DEF PartitionOtherMesh
  <2> QED BY <1>1, <2>1, <2>2 DEF InvBulkIds, NodeAt, ElementsOf
<1>7. InvMaps'
  BY <1>1 DEF InvMaps
<1> QED BY <1>2, <1>3, <1>4, <1>5, <1>6, <1>7

LEMMA InvRenumberBulkIds ==
  ASSUME Inv, RenumberBulkIds
  PROVE  Inv'
<1> USE DEF Inv
<1>1. /\ phase = "partitioned" /\ phase' = "written" /\ mixed' = mixed
      /\ partitionIds' = partitionIds /\ partitions' = partitions /\ globalIds' = globalIds
      /\ dofs' = dofs /\ subset' = subset /\ others' = others
  BY DEF RenumberBulkIds
<1>2. InvType'
  BY <1>1 DEF InvType
<1>3. InvPartitions'
  <2>1. \A r : Partition(Bulk, r)' = Partition(Bulk, r)
    BY <1>1, PartitionUnchanged
  <2> QED BY <1>1, <2>1 DEF InvPartitions
<1>4. InvNumbers'
  <2>1. NumberingOrder' = NumberingOrder
    BY <1>1 DEF NumberingOrder, EndOfActiveExtras
  <2> QED BY <1>1, <2>1 DEF InvNumbers, Numbers
<1>5. InvOthers'
  <2>1. \A r : Partition(Boundary, r)' = Partition(Boundary, r)
    BY <1>1, PartitionUnchanged
  <2> QED BY <1>1, <2>1 DEF InvOthers
<1>6. InvBulkIds'
  <2>1. ASSUME NEW r \in Ranks
        PROVE  [j \in DOMAIN bulkNodeIds[r] |-> LocalNode(r, bulkNodeIds[r][j])]
                 = [j \in Ids(Len(others[r].nodes)) |->
                      LocalNode(r, Boundary.bulkNode[NodeAt(others[r], j)])]
    <3>1. bulkNodeIds[r] =
            [j \in Ids(Len(others[r].nodes)) |-> Boundary.bulkNode[NodeAt(others[r], j)]]
      BY <1>1 DEF InvBulkIds
    <3> QED BY <3>1
  <2>2. ASSUME NEW r \in Ranks
        PROVE  [i \in DOMAIN bulkElementIds[r] |->
                  PositionOf(bulkElementIds[r][i], ElementsOf(partitions[r]))]
                 = [i \in DOMAIN ElementsOf(others[r]) |->
                      PositionOf(Boundary.bulkElement[ElementsOf(others[r])[i]],
                                 ElementsOf(partitions[r]))]
    <3>1. bulkElementIds[r] =
            [i \in DOMAIN ElementsOf(others[r]) |-> Boundary.bulkElement[ElementsOf(others[r])[i]]]
      BY <1>1 DEF InvBulkIds
    <3> QED BY <3>1
  <2>3. bulkNodeIds' = [r \in Ranks |->
            [j \in Ids(Len(others[r].nodes)) |->
               LocalNode(r, Boundary.bulkNode[NodeAt(others[r], j)])]]
    BY <2>1, Zenon DEF RenumberBulkIds
  <2>4. bulkElementIds' = [r \in Ranks |->
            [i \in DOMAIN ElementsOf(others[r]) |->
               PositionOf(Boundary.bulkElement[ElementsOf(others[r])[i]],
                          ElementsOf(partitions[r]))]]
    BY <2>2, Zenon DEF RenumberBulkIds
  <2> QED BY <1>1, <2>3, <2>4 DEF InvBulkIds, LocalNode
<1>7. InvMaps'
  BY <1>1 DEF InvMaps
<1> QED BY <1>2, <1>3, <1>4, <1>5, <1>6, <1>7

(* A rank changes only its map and its subset.                             *)
LEMMA InvToolUnchanged ==
  ASSUME Inv, UNCHANGED <<phase, tool>>
  PROVE  InvType' /\ InvPartitions' /\ InvNumbers' /\ InvOthers' /\ InvBulkIds'
<1> USE DEF Inv
<1>1. /\ phase' = phase /\ mixed' = mixed /\ partitionIds' = partitionIds
      /\ partitions' = partitions /\ globalIds' = globalIds /\ others' = others
      /\ bulkNodeIds' = bulkNodeIds /\ bulkElementIds' = bulkElementIds
  BY DEF tool
<1>2. InvType'
  BY <1>1 DEF InvType
<1>3. \A r : Partition(Bulk, r)' = Partition(Bulk, r)
  BY <1>1, PartitionUnchanged
<1>4. \A r : Partition(Boundary, r)' = Partition(Boundary, r)
  BY <1>1, PartitionUnchanged
<1>5. InvPartitions' /\ InvOthers'
  BY <1>1, <1>3, <1>4 DEF InvPartitions, InvOthers
<1>6. NumberingOrder' = NumberingOrder
  BY <1>1 DEF NumberingOrder, EndOfActiveExtras
<1>7. InvNumbers'
  BY <1>1, <1>6 DEF InvNumbers, Numbers
<1>8. InvBulkIds'
  BY <1>1 DEF InvBulkIds, LocalNode
<1> QED BY <1>2, <1>5, <1>7, <1>8

LEMMA InvRank ==
  ASSUME Inv, NEW r \in Ranks, CreateMap(r) \/ GetSubset(r)
  PROVE  Inv'
<1> USE DEF Inv
<1>1. /\ UNCHANGED <<phase, tool>> /\ bulkNodeIds' = bulkNodeIds /\ others' = others
      /\ InvType' /\ InvPartitions' /\ InvNumbers' /\ InvOthers' /\ InvBulkIds'
  <2>1. UNCHANGED <<phase, tool>>
    BY DEF CreateMap, GetSubset
  <2> QED BY <2>1, InvToolUnchanged DEF tool
<1>2. \A q : MapOf(q)' = MapOf(q)
  BY <1>1, MapUnchanged
<1>3. CASE CreateMap(r)
  <2>1. /\ phase = "written" /\ r \notin DOMAIN dofs /\ subset' = subset
        /\ dofs' = [q \in DOMAIN dofs \cup {r} |-> IF q = r THEN MapOf(r) ELSE dofs[q]]
    BY <1>3 DEF CreateMap
  <2>2. DOMAIN dofs' = DOMAIN dofs \cup {r}
    BY <2>1
  <2>3. \A q \in DOMAIN dofs' : dofs'[q] = MapOf(q)
    BY <2>1 DEF InvMaps
  <2>4. ASSUME NEW q \in DOMAIN subset PROVE SubsetOf(q)' = SubsetOf(q)
    <3>1. q \in DOMAIN dofs /\ dofs'[q] = dofs[q]
      BY <2>1, <2>4 DEF InvMaps
    <3> QED BY <1>1, <3>1 DEF SubsetOf
  <2>5. InvMaps'
    BY <1>1, <1>2, <2>1, <2>2, <2>3, <2>4 DEF InvMaps
  <2> QED BY <1>1, <2>5
<1>4. CASE GetSubset(r)
  <2>1. /\ r \in DOMAIN dofs /\ r \notin DOMAIN subset /\ dofs' = dofs
        /\ subset' = [q \in DOMAIN subset \cup {r} |-> IF q = r THEN SubsetOf(r) ELSE subset[q]]
    BY <1>4 DEF GetSubset
  <2>2. DOMAIN subset' = DOMAIN subset \cup {r}
    BY <2>1
  <2>3. \A q \in DOMAIN subset' : subset'[q] = SubsetOf(q)
    BY <2>1 DEF InvMaps
  <2>4. \A q : SubsetOf(q)' = SubsetOf(q)
    BY <1>1, <2>1 DEF SubsetOf
  <2>5. InvMaps'
    BY <1>1, <1>2, <2>1, <2>2, <2>3, <2>4 DEF InvMaps
  <2> QED BY <1>1, <2>5
<1> QED BY <1>3, <1>4

LEMMA InvStutter ==
  ASSUME Inv, UNCHANGED vars
  PROVE  Inv'
<1> USE DEF Inv
<1>1. UNCHANGED <<phase, tool>> /\ dofs' = dofs /\ subset' = subset
  BY DEF vars
<1>2. \A q : MapOf(q)' = MapOf(q)
  BY <1>1, MapUnchanged
<1>3. \A q : SubsetOf(q)' = SubsetOf(q)
  BY <1>1 DEF SubsetOf, tool
<1>4. InvMaps'
  BY <1>1, <1>2, <1>3 DEF InvMaps
<1> QED BY <1>1, <1>4, InvToolUnchanged

LEMMA Invariance == Spec => []Inv
<1>1. Init => Inv
  BY InvInit
<1>2. Inv /\ [Next]_vars => Inv'
  <2> SUFFICES ASSUME Inv, [Next]_vars PROVE Inv'
    OBVIOUS
  <2>1. CASE ProcessPartition
    BY <2>1, InvProcessPartition
  <2>2. CASE RenumberNodeIndices
    BY <2>2, InvRenumberNodeIndices
  <2>3. CASE PartitionOtherMesh
    BY <2>3, InvPartitionOtherMesh
  <2>4. CASE RenumberBulkIds
    BY <2>4, InvRenumberBulkIds
  <2>5. CASE \E r \in Ranks : CreateMap(r) \/ GetSubset(r)
    BY <2>5, InvRank
  <2>6. CASE UNCHANGED vars
    BY <2>6, InvStutter
  <2> QED BY <2>1, <2>2, <2>3, <2>4, <2>5, <2>6 DEF Next
<1> QED BY <1>1, <1>2, PTL DEF Spec

-----------------------------------------------------------------------------
(* Owners and elements *)

LEMMA WrittenParts ==
  ASSUME Inv, phase = "written", NEW r \in Ranks
  PROVE  /\ IsPartOf(partitions[r], Bulk, r) /\ IsPartOf(others[r], Boundary, r)
         /\ NumParts \in Nat /\ partitions = [q \in 1 .. NumParts |-> Partition(Bulk, q)]
         /\ globalIds = Numbers
<1>1. partitions = [q \in 1 .. NumParts |-> Partition(Bulk, q)]
  BY DEF Inv, InvPartitions
<1>2. partitions[r] = Partition(Bulk, r) /\ others[r] = Partition(Boundary, r)
  BY <1>1 DEF Inv, InvOthers, Ranks
<1>3. IsMesh(Bulk) /\ IsMesh(Boundary)
  BY BulkAssumption, BoundaryAssumption
<1>4. IsPartOf(Partition(Bulk, r), Bulk, r) /\ IsPartOf(Partition(Boundary, r), Boundary, r)
  BY <1>3, PartitionIsPart
<1> QED BY <1>1, <1>2, <1>4, SizesAssumption DEF Inv, InvNumbers

LEMMA OwnBulkNodes ==
  ASSUME NEW r
  PROVE  /\ OwnNodes(Bulk, r) = {n \in Ids(Bulk.numNodes) : partitionIds[n] = r}
         /\ Bulk.numNodes \in Nat \ {0}
  BY BulkAssumption, MeshType DEF OwnNodes, OwnerOf

(* The three numbers tell a rank the nodes that METIS gave to it.          *)
LEMMA OwnsItsNodes ==
  ASSUME NEW r \in Ranks, IsPartOf(partitions[r], Bulk, r), NEW j \in Locals(r)
  PROVE  /\ Owns(r, j) <=> NodeAt(partitions[r], j) \in OwnNodes(Bulk, r)
         /\ j \in Nat /\ j + 1 \in DOMAIN partitions[r].nodes
         /\ NodeAt(partitions[r], j) = partitions[r].nodes[j + 1]
         /\ NodeAt(partitions[r], j) \in Ids(Bulk.numNodes)
<1> DEFINE p == partitions[r]
<1>1. /\ p.nodes \in Seq(Ids(Bulk.numNodes))
      /\ p.numActiveBase \in Nat /\ p.numActive \in Nat /\ p.numBase \in Nat
      /\ \A i \in DOMAIN p.nodes : p.nodes[i] \in OwnNodes(Bulk, r) <=> IsOwnPlace(p, i)
  BY DEF IsPartOf
<1>2. Locals(r) = 0 .. Len(p.nodes) - 1
  BY DEF Locals, NumberOfNodes, Ids
<1> HIDE DEF p
<1>3. Len(p.nodes) \in Nat /\ DOMAIN p.nodes = 1 .. Len(p.nodes)
  BY <1>1
<1>4. j \in Nat /\ j + 1 \in DOMAIN p.nodes
  BY <1>2, <1>3
<1>5. EndOfActiveExtras(p) \in Int
  BY <1>1 DEF EndOfActiveExtras
<1>6. Owns(r, j) <=> IsOwnPlace(p, j + 1)
  BY <1>1, <1>4, <1>5 DEF Owns, IsGhostNode, IsOwnPlace, p
<1>7. NodeAt(p, j) = p.nodes[j + 1]
  BY DEF NodeAt
<1> QED BY <1>1, <1>4, <1>6, <1>7 DEF p

(* Every node of the mesh is owned by the rank METIS chose, and no other.  *)
THEOREM OneOwner == Spec => []EveryNodeHasOneOwner
<1>1. ASSUME Inv PROVE EveryNodeHasOneOwner
  <2> SUFFICES ASSUME phase = "written", NEW n \in Ids(Bulk.numNodes), NEW r \in Ranks
               PROVE  Cardinality({j \in Locals(r) : NodeAt(partitions[r], j) = n /\ Owns(r, j)})
                        = IF partitionIds[n] = r THEN 1 ELSE 0
    BY DEF EveryNodeHasOneOwner, Written
  <2> DEFINE p == partitions[r]
             S == {j \in Locals(r) : NodeAt(p, j) = n /\ Owns(r, j)}
  <2>1. IsPartOf(p, Bulk, r)
    BY <1>1, WrittenParts
  <2>2. n \in OwnNodes(Bulk, r) <=> partitionIds[n] = r
    BY OwnBulkNodes
  <2>3. \A j \in Locals(r) : /\ Owns(r, j) <=> NodeAt(p, j) \in OwnNodes(Bulk, r)
                             /\ j \in Nat /\ j + 1 \in DOMAIN p.nodes
                             /\ NodeAt(p, j) = p.nodes[j + 1]
    BY <2>1, OwnsItsNodes
  <2>4. CASE partitionIds[n] = r
    <3>1. n \in ToSet(p.nodes) /\ p.nodes \in Seq(Ids(Bulk.numNodes)) /\ IsInjective(p.nodes)
      BY <2>1, <2>2, <2>4 DEF IsPartOf
    <3>2. PICK i \in DOMAIN p.nodes : p.nodes[i] = n
      BY <3>1 DEF ToSet
    <3>3. i \in Nat /\ i - 1 \in Locals(r) /\ (i - 1) + 1 = i
      <4>1. Len(p.nodes) \in Nat /\ i \in 1 .. Len(p.nodes)
        BY <3>1
      <4> QED BY <4>1 DEF Locals, NumberOfNodes, Ids
    <3>4. i - 1 \in S
      BY <2>2, <2>3, <2>4, <3>2, <3>3
    <3>5. \A j \in S : j = i - 1
      BY <2>3, <3>1, <3>2, <3>3 DEF IsInjective
    <3>6. S = {i - 1}
      BY <3>4, <3>5
    <3> QED BY <2>4, <3>6, FS_Singleton
  <2>5. CASE partitionIds[n] # r
    <3>1. S = {}
      BY <2>2, <2>3, <2>5
    <3> QED BY <2>5, <3>1, FS_EmptySet
  <2> QED BY <2>4, <2>5
<1> QED BY <1>1, Invariance, PTL

(* An element at a node that a part has is one of its elements.            *)
LEMMA ElementsOfPart ==
  ASSUME NEW m, IsMesh(m), NEW part, NEW p, IsPartOf(p, m, part)
  PROVE  /\ ElementsOf(p) \in Seq(DOMAIN m.elements) /\ IsInjective(ElementsOf(p))
         /\ \A e : e \in ToSet(ElementsOf(p)) <=>
              e \in DOMAIN m.elements /\ \E n \in ToSet(m.elements[e]) : n \in OwnNodes(m, part)
         /\ \A e \in ToSet(ElementsOf(p)) : ToSet(m.elements[e]) \subseteq ToSet(p.nodes)
<1> DEFINE D == DOMAIN m.elements
<1>1. /\ p.regular \in Seq(D) /\ IsInjective(p.regular)
      /\ p.ghost \in Seq(D) /\ IsInjective(p.ghost)
      /\ ToSet(p.regular) = WholeElements(m, part)
      /\ ToSet(p.ghost) = SplitElements(m, part)
      /\ ToSet(p.nodes) = OwnNodes(m, part) \cup NeighbourNodes(m, part)
  BY DEF IsPartOf
<1>2. WholeElements(m, part) \cap SplitElements(m, part) = {}
  BY DEF WholeElements, SplitElements
<1>3. ElementsOf(p) = p.regular \o p.ghost
  BY DEF ElementsOf
<1>4. /\ ElementsOf(p) \in Seq(D) /\ IsInjective(ElementsOf(p))
      /\ ToSet(ElementsOf(p)) = WholeElements(m, part) \cup SplitElements(m, part)
  <2> HIDE DEF D
  <2>1. p.regular \o p.ghost \in Seq(D)
    BY <1>1, ConcatProperties
  <2>2. /\ IsInjective(p.regular \o p.ghost)
        /\ ToSet(p.regular \o p.ghost) = ToSet(p.regular) \cup ToSet(p.ghost)
    BY <1>1, <1>2, ConcatElements
  <2> QED BY <1>1, <1>3, <2>1, <2>2
<1>5. \A e : e \in WholeElements(m, part) \cup SplitElements(m, part) <=>
               e \in D /\ \E n \in ToSet(m.elements[e]) : n \in OwnNodes(m, part)
  BY DEF WholeElements, SplitElements, RegularNodes
<1>6. ASSUME NEW e \in WholeElements(m, part) \cup SplitElements(m, part)
      PROVE  ToSet(m.elements[e]) \subseteq ToSet(p.nodes)
  <2>1. e \in DOMAIN m.elements
    BY <1>6 DEF WholeElements, SplitElements
  <2>2. ToSet(m.elements[e]) \subseteq Ids(m.numNodes)
    BY <2>1, MeshType
  <2>3. CASE e \in WholeElements(m, part)
    BY <1>1, <2>3 DEF WholeElements, RegularNodes
  <2>4. CASE e \in SplitElements(m, part)
    BY <1>1, <2>2, <2>4 DEF NeighbourNodes
  <2> QED BY <1>6, <2>3, <2>4
<1> QED BY <1>4, <1>5, <1>6

(* A rank has every element at a node it owns, once, and all the nodes of  *)
(* it, each once; and an element is regular on one rank only.              *)
THEOREM CompleteAssembly == Spec => []AssemblyIsComplete
<1>1. ASSUME Inv PROVE AssemblyIsComplete
  <2> SUFFICES ASSUME phase = "written" PROVE AssemblyIsComplete
    BY DEF AssemblyIsComplete, Written
  <2> USE <1>1
  <2>1. IsMesh(Bulk)
    BY BulkAssumption
  <2>2. ASSUME NEW r \in Ranks
        PROVE  LET p == partitions[r] IN
               /\ IsInjective(p.nodes) /\ IsInjective(ElementsOf(p))
               /\ \A e \in DOMAIN Bulk.elements :
                    (\E n \in ToSet(Bulk.elements[e]) : partitionIds[n] = r) =>
                      /\ e \in ToSet(ElementsOf(p))
                      /\ ToSet(Bulk.elements[e]) \subseteq ToSet(p.nodes)
    <3>1. IsPartOf(partitions[r], Bulk, r)
      BY WrittenParts
    <3>2. IsInjective(partitions[r].nodes)
      BY <3>1 DEF IsPartOf
    <3>3. /\ IsInjective(ElementsOf(partitions[r]))
          /\ \A e : e \in ToSet(ElementsOf(partitions[r])) <=>
               /\ e \in DOMAIN Bulk.elements
               /\ \E n \in ToSet(Bulk.elements[e]) : n \in OwnNodes(Bulk, r)
          /\ \A e \in ToSet(ElementsOf(partitions[r])) :
               ToSet(Bulk.elements[e]) \subseteq ToSet(partitions[r].nodes)
      BY <2>1, <3>1, ElementsOfPart
    <3>4. ASSUME NEW e \in DOMAIN Bulk.elements, NEW n \in ToSet(Bulk.elements[e]),
                 partitionIds[n] = r
          PROVE  n \in OwnNodes(Bulk, r)
      BY <2>1, <3>4, MeshType, OwnBulkNodes
    <3> QED BY <3>2, <3>3, <3>4
  <2>3. ASSUME NEW r \in Ranks, NEW q \in Ranks, r # q
        PROVE  ToSet(partitions[r].regular) \cap ToSet(partitions[q].regular) = {}
    <3>1. /\ ToSet(partitions[r].regular) = WholeElements(Bulk, r)
          /\ ToSet(partitions[q].regular) = WholeElements(Bulk, q)
      BY WrittenParts DEF IsPartOf
    <3>2. OwnNodes(Bulk, r) \cap OwnNodes(Bulk, q) = {}
      BY <2>3, OwnBulkNodes
    <3> QED BY <3>1, <3>2 DEF WholeElements, RegularNodes
  <2> QED BY <2>2, <2>3 DEF AssemblyIsComplete
<1> QED BY <1>1, Invariance, PTL

-----------------------------------------------------------------------------
(* The boundary mesh *)

LEMMA PositionFound ==
  ASSUME NEW T, NEW s \in Seq(T), NEW x \in ToSet(s)
  PROVE  /\ PositionOf(x, s) \in Ids(Len(s)) /\ PositionOf(x, s) + 1 \in DOMAIN s
         /\ s[PositionOf(x, s) + 1] = x
<1> DEFINE i == CHOOSE k \in DOMAIN s : s[k] = x
<1>1. i \in DOMAIN s /\ s[i] = x
  BY DEF ToSet
<1> HIDE DEF i
<1>2. PositionOf(x, s) = i - 1
  BY DEF PositionOf, i
<1>3. Len(s) \in Nat /\ DOMAIN s = 1 .. Len(s)
  OBVIOUS
<1> QED BY <1>1, <1>2, <1>3 DEF Ids

(* A rank that has a node or an element of the boundary mesh has that of   *)
(* the bulk mesh to which it refers.                                       *)
LEMMA BulkHasBoundary ==
  ASSUME NEW part, NEW p, IsPartOf(p, Bulk, part), NEW o, IsPartOf(o, Boundary, part)
  PROVE  /\ \A e \in ToSet(ElementsOf(o)) : Boundary.bulkElement[e] \in ToSet(ElementsOf(p))
         /\ \A n \in ToSet(o.nodes) : Boundary.bulkNode[n] \in ToSet(p.nodes)
<1>1. IsMesh(Bulk) /\ IsMesh(Boundary)
  BY BulkAssumption, BoundaryAssumption
<1>2. /\ \A e : e \in ToSet(ElementsOf(p)) <=>
           /\ e \in DOMAIN Bulk.elements
           /\ \E n \in ToSet(Bulk.elements[e]) : n \in OwnNodes(Bulk, part)
      /\ \A e \in ToSet(ElementsOf(p)) : ToSet(Bulk.elements[e]) \subseteq ToSet(p.nodes)
  BY <1>1, ElementsOfPart
<1>3. \A e : e \in ToSet(ElementsOf(o)) <=>
        /\ e \in DOMAIN Boundary.elements
        /\ \E n \in ToSet(Boundary.elements[e]) : n \in OwnNodes(Boundary, part)
  BY <1>1, ElementsOfPart
<1>4. \A n \in OwnNodes(Boundary, part) : Boundary.bulkNode[n] \in OwnNodes(Bulk, part)
  BY <1>1, MeshType, OwnBulkNodes DEF OwnNodes, OwnerOf
<1>5. ASSUME NEW e \in DOMAIN Boundary.elements, NEW n \in ToSet(Boundary.elements[e])
      PROVE  /\ Boundary.bulkElement[e] \in DOMAIN Bulk.elements
             /\ Boundary.bulkNode[n] \in ToSet(Bulk.elements[Boundary.bulkElement[e]])
  BY <1>1, MeshType, BoundaryAssumption
<1>6. ASSUME NEW e \in ToSet(ElementsOf(o))
      PROVE  Boundary.bulkElement[e] \in ToSet(ElementsOf(p))
  <2>1. PICK n \in ToSet(Boundary.elements[e]) : n \in OwnNodes(Boundary, part)
    BY <1>3
  <2> QED BY <1>2, <1>3, <1>4, <1>5, <2>1
<1>7. ASSUME NEW n \in ToSet(o.nodes)
      PROVE  Boundary.bulkNode[n] \in ToSet(p.nodes)
  <2>1. /\ ToSet(o.nodes) = OwnNodes(Boundary, part) \cup NeighbourNodes(Boundary, part)
        /\ ToSet(p.nodes) = OwnNodes(Bulk, part) \cup NeighbourNodes(Bulk, part)
        /\ ToSet(o.ghost) = SplitElements(Boundary, part)
    BY DEF IsPartOf
  <2>2. CASE n \in OwnNodes(Boundary, part)
    BY <1>4, <2>1, <2>2
  <2>3. CASE n \in NeighbourNodes(Boundary, part)
    <3>1. PICK e \in SplitElements(Boundary, part) : n \in ToSet(Boundary.elements[e])
      BY <2>3 DEF NeighbourNodes
    <3>2. e \in DOMAIN Boundary.elements
      BY DEF SplitElements
    <3>3. PICK k \in ToSet(Boundary.elements[e]) : k \in OwnNodes(Boundary, part)
      BY DEF SplitElements, RegularNodes
    <3>4. e \in ToSet(ElementsOf(o))
      BY <1>3, <3>2, <3>3
    <3> QED BY <1>2, <1>5, <1>6, <3>1, <3>2, <3>4
  <2> QED BY <2>1, <2>2, <2>3
<1> QED BY <1>6, <1>7

(* What a rank knows of a boundary mesh refers to the bulk mesh's nodes    *)
(* and elements that it is made of, for every boundary mesh.               *)
THEOREM BoundaryReference == Spec => []BoundaryRefersToBulk
<1>1. ASSUME Inv PROVE BoundaryRefersToBulk
  <2> SUFFICES ASSUME NEW r \in DOMAIN subset
               PROVE  /\ \A k \in Ids(Len(others[r].nodes)) : \E j \in Locals(r) :
                           /\ NodeAt(partitions[r], j) = Boundary.bulkNode[NodeAt(others[r], k)]
                           /\ subset[r][k] = dofs[r].index[j]
                      /\ \A i \in DOMAIN bulkElementIds[r] :
                           ElementsOf(partitions[r])[bulkElementIds[r][i] + 1]
                             = Boundary.bulkElement[ElementsOf(others[r])[i]]
    BY DEF BoundaryRefersToBulk
  <2> DEFINE p == partitions[r]
             o == others[r]
  <2>1. /\ r \in Ranks /\ r \in DOMAIN dofs /\ phase = "written"
        /\ subset[r] = SubsetOf(r) /\ dofs[r] = MapOf(r)
    BY <1>1 DEF Inv, InvMaps
  <2>2. IsPartOf(p, Bulk, r) /\ IsPartOf(o, Boundary, r)
    BY <1>1, <2>1, WrittenParts
  <2>3. /\ bulkNodeIds[r] = [j \in Ids(Len(o.nodes)) |->
             LocalNode(r, Boundary.bulkNode[NodeAt(o, j)])]
        /\ bulkElementIds[r] = [i \in DOMAIN ElementsOf(o) |->
             PositionOf(Boundary.bulkElement[ElementsOf(o)[i]], ElementsOf(p))]
    BY <1>1, <2>1 DEF Inv, InvBulkIds
  <2>4. /\ \A e \in ToSet(ElementsOf(o)) : Boundary.bulkElement[e] \in ToSet(ElementsOf(p))
        /\ \A n \in ToSet(o.nodes) : Boundary.bulkNode[n] \in ToSet(p.nodes)
    BY <2>2, BulkHasBoundary
  <2>5. p.nodes \in Seq(Ids(Bulk.numNodes)) /\ o.nodes \in Seq(Ids(Boundary.numNodes))
    BY <2>2 DEF IsPartOf
  <2>6. ElementsOf(p) \in Seq(DOMAIN Bulk.elements)
    BY <2>2, ElementsOfPart, BulkAssumption
  <2>7. ASSUME NEW k \in Ids(Len(o.nodes))
        PROVE  \E j \in Locals(r) : /\ NodeAt(p, j) = Boundary.bulkNode[NodeAt(o, k)]
                                    /\ subset[r][k] = dofs[r].index[j]
    <3> DEFINE b == Boundary.bulkNode[NodeAt(o, k)]
               j == PositionOf(b, p.nodes)
    <3>1. NodeAt(o, k) \in ToSet(o.nodes)
      <4>1. Len(o.nodes) \in Nat /\ DOMAIN o.nodes = 1 .. Len(o.nodes)
        BY <2>5
      <4>2. k + 1 \in DOMAIN o.nodes
        BY <4>1 DEF Ids
      <4> QED BY <4>2 DEF NodeAt, ToSet
    <3>2. b \in ToSet(p.nodes)
      BY <2>4, <3>1
    <3>3. j \in Locals(r) /\ NodeAt(p, j) = b
      BY <2>5, <3>2, PositionFound DEF Locals, NumberOfNodes, NodeAt
    <3>4. bulkNodeIds[r][k] = j
      BY <2>3 DEF LocalNode
    <3>5. subset[r][k] = [c \in Components |-> dofs[r].index[j][c]]
      BY <2>1, <3>4 DEF SubsetOf
    <3> HIDE DEF j, b
    <3>6. \E f : dofs[r].index[j] = [c \in Components |-> f[c]]
      <4>1. dofs[r].index[j] = [c \in Components |->
              IF IsGhostNode(r, j) THEN GhostIndex(GlobalIndex(r, j, c)) ELSE GlobalIndex(r, j, c)]
        BY <2>1, <3>3 DEF MapOf
      <4> QED BY <4>1
    <3>7. subset[r][k] = dofs[r].index[j]
      BY <3>5, <3>6
    <3> QED BY <3>3, <3>7 DEF b
  <2>8. ASSUME NEW i \in DOMAIN bulkElementIds[r]
        PROVE  ElementsOf(p)[bulkElementIds[r][i] + 1] = Boundary.bulkElement[ElementsOf(o)[i]]
    <3>1. i \in DOMAIN ElementsOf(o)
      BY <2>3
    <3>2. Boundary.bulkElement[ElementsOf(o)[i]] \in ToSet(ElementsOf(p))
      BY <2>4, <3>1 DEF ToSet
    <3>3. bulkElementIds[r][i] = PositionOf(Boundary.bulkElement[ElementsOf(o)[i]], ElementsOf(p))
      BY <2>3, <3>1
    <3> QED BY <2>6, <3>2, <3>3, PositionFound
  <2> QED BY <2>7, <2>8
<1> QED BY <1>1, Invariance, PTL

-----------------------------------------------------------------------------
(* The indices of the degrees of freedom *)

(* Number and component determine an index, and the other way round.       *)
LEMMA Radix ==
  ASSUME NEW N \in Nat \ {0}, NEW x \in Nat, NEW y \in Nat, NEW c \in Ids(N), NEW d \in Ids(N)
  PROVE  /\ N * x + c = N * y + d => x = y /\ c = d
         /\ N * x + c \in Nat
         /\ x < y => N * x + c < N * y
<1>1. ASSUME NEW a \in Nat, NEW b \in Nat, a < b PROVE N * a + N <= N * b
  <2>1. PICK e \in Nat : b = a + 1 + e
    <3>1. b - a - 1 \in Nat /\ b = a + 1 + (b - a - 1)
      BY <1>1
    <3> QED BY <3>1
  <2>2. N * (a + 1 + e) = N * a + N + N * e
    OBVIOUS
  <2>3. N * e \in Nat /\ N * a \in Nat
    OBVIOUS
  <2> QED BY <2>1, <2>2, <2>3
<1>2. c \in Nat /\ d \in Nat /\ c < N /\ d < N
  BY DEF Ids
<1>3. N * x \in Nat /\ N * y \in Nat
  OBVIOUS
<1>4. CASE x < y
  <2>1. N * x + N <= N * y
    BY <1>1, <1>4
  <2> QED BY <1>2, <1>3, <1>4, <2>1
<1>5. CASE y < x
  <2>1. N * y + N <= N * x
    BY <1>1, <1>5
  <2> QED BY <1>2, <1>3, <1>5, <2>1
<1>6. CASE x = y
  BY <1>2, <1>3, <1>6
<1> QED BY <1>4, <1>5, <1>6

(* On a mesh without extra nodes the nodes a rank owns come first.         *)
LEMMA OwnComeFirst ==
  ASSUME Inv, phase = "written", ~mixed, NEW r \in Ranks
  PROVE  LET p == partitions[r] IN
         /\ p.nodes \in Seq(Ids(Bulk.numNodes)) /\ IsInjective(p.nodes)
         /\ p.numActiveBase \in Nat /\ p.numActiveBase <= Len(p.nodes)
         /\ OwnNodes(Bulk, r) \subseteq ToSet(p.nodes)
         /\ \A i \in DOMAIN p.nodes : p.nodes[i] \in OwnNodes(Bulk, r) <=> i <= p.numActiveBase
         /\ \A j \in Locals(r) : Owns(r, j) <=> j < p.numActiveBase
         /\ LocalSize(r) = NumComponents * p.numActiveBase
<1> DEFINE p == partitions[r]
<1>1. IsPartOf(p, Bulk, r)
  BY WrittenParts
<1>2. /\ p.nodes \in Seq(Ids(Bulk.numNodes)) /\ IsInjective(p.nodes)
      /\ ToSet(p.nodes) = OwnNodes(Bulk, r) \cup NeighbourNodes(Bulk, r)
      /\ p.numActiveBase \in Nat /\ p.numBase = Len(p.nodes) /\ p.numActive = p.numActiveBase
      /\ p.numActiveBase <= p.numBase
      /\ \A i \in DOMAIN p.nodes : p.nodes[i] \in OwnNodes(Bulk, r) <=> IsOwnPlace(p, i)
  BY <1>1 DEF IsPartOf
<1>3. Len(p.nodes) \in Nat /\ DOMAIN p.nodes = 1 .. Len(p.nodes)
  BY <1>2
<1>4. Locals(r) = 0 .. Len(p.nodes) - 1
  BY DEF Locals, NumberOfNodes, Ids
<1>5. \A j \in Locals(r) : /\ Owns(r, j) <=> p.nodes[j + 1] \in OwnNodes(Bulk, r)
                           /\ j + 1 \in DOMAIN p.nodes
  BY <1>1, OwnsItsNodes
<1> HIDE DEF p
<1>6. \A i \in DOMAIN p.nodes : IsOwnPlace(p, i) <=> i <= p.numActiveBase
  BY <1>2, <1>3 DEF IsOwnPlace
<1>7. \A i \in DOMAIN p.nodes : p.nodes[i] \in OwnNodes(Bulk, r) <=> i <= p.numActiveBase
  BY <1>2, <1>6
<1>8. \A j \in Locals(r) : Owns(r, j) <=> j < p.numActiveBase
  <2> SUFFICES ASSUME NEW j \in Locals(r) PROVE Owns(r, j) <=> j < p.numActiveBase
    OBVIOUS
  <2>1. Owns(r, j) <=> j + 1 <= p.numActiveBase
    BY <1>5, <1>7
  <2> QED BY <1>2, <1>3, <1>4, <2>1
<1>9. {j \in Locals(r) : ~IsGhostNode(r, j)} = 0 .. p.numActiveBase - 1
  <2>1. \A j \in Locals(r) : ~IsGhostNode(r, j) <=> j < p.numActiveBase
    BY <1>8 DEF Owns
  <2> QED BY <1>2, <1>3, <1>4, <2>1
<1>10. Cardinality(0 .. p.numActiveBase - 1) = p.numActiveBase
  BY <1>2, FS_Interval
<1>11. LocalSize(r) = NumComponents * p.numActiveBase
  BY <1>9, <1>10 DEF LocalSize
<1> QED BY <1>2, <1>3, <1>7, <1>8, <1>11 DEF p

(* The nodes are numbered one rank after the other, each once.             *)
IsNumbering(o) ==
  /\ o \in [0 .. NumParts -> Nat] /\ o[0] = 0
  /\ \A r \in Ranks : o[r] = o[r - 1] + partitions[r].numActiveBase
  /\ \A r \in Ranks : \A j \in Locals(r) : Owns(r, j) => GlobalNodeID(r, j) = o[r - 1] + j
  /\ \A n \in Ids(Bulk.numNodes) : globalIds[n] \in Ids(Bulk.numNodes)
  /\ \A n, l \in Ids(Bulk.numNodes) : globalIds[n] = globalIds[l] => n = l

LEMMA Numbering ==
  ASSUME Inv, phase = "written", ~mixed
  PROVE  \E o : IsNumbering(o)
<1> DEFINE I == Ids(Bulk.numNodes)
           own(r) == SubSeq(partitions[r].nodes, 1, partitions[r].numActiveBase)
           seqs == [r \in Ranks |-> own(r)]
           order == FlattenSeq(seqs)
<1>1. /\ NumParts \in Nat /\ Bulk.numNodes \in Nat \ {0}
      /\ partitionIds \in [I -> Ranks]
  BY SizesAssumption, OwnBulkNodes DEF Inv, InvType
<1>2. ASSUME NEW r \in Ranks
      PROVE  /\ own(r) \in Seq(I) /\ Len(own(r)) = partitions[r].numActiveBase
             /\ Len(own(r)) \in Nat /\ DOMAIN own(r) = 1 .. Len(own(r))
             /\ \A k \in 1 .. Len(own(r)) : /\ own(r)[k] = partitions[r].nodes[k]
                                            /\ k \in DOMAIN partitions[r].nodes
  <2> DEFINE p == partitions[r]
  <2>1. p.nodes \in Seq(I) /\ p.numActiveBase \in Nat /\ p.numActiveBase <= Len(p.nodes)
    BY OwnComeFirst
  <2> HIDE DEF p, I
  <2>2. /\ Len(p.nodes) \in Nat /\ DOMAIN p.nodes = 1 .. Len(p.nodes)
        /\ \A k \in 1 .. Len(p.nodes) : p.nodes[k] \in I
    BY <2>1
  <2>3. \A k \in 1 .. p.numActiveBase : p.nodes[k] \in I /\ k \in DOMAIN p.nodes
    BY <2>1, <2>2
  <2>4. /\ SubSeq(p.nodes, 1, p.numActiveBase) \in Seq(I)
        /\ Len(SubSeq(p.nodes, 1, p.numActiveBase))
             = IF 1 <= p.numActiveBase THEN p.numActiveBase - 1 + 1 ELSE 0
        /\ \A k \in 1 .. p.numActiveBase - 1 + 1 :
             SubSeq(p.nodes, 1, p.numActiveBase)[k] = p.nodes[1 + k - 1]
    BY <2>1, <2>3, SubSeqProperties
  <2>5. /\ Len(SubSeq(p.nodes, 1, p.numActiveBase)) = p.numActiveBase
        /\ \A k \in 1 .. p.numActiveBase : SubSeq(p.nodes, 1, p.numActiveBase)[k] = p.nodes[k]
    BY <2>1, <2>4
  <2> QED BY <2>1, <2>3, <2>4, <2>5 DEF p
<1>3. ASSUME NEW r \in Ranks, NEW k \in 1 .. Len(own(r))
      PROVE  own(r)[k] \in I /\ partitionIds[own(r)[k]] = r
  <2>1. own(r)[k] = partitions[r].nodes[k] /\ k \in DOMAIN partitions[r].nodes
        /\ k <= partitions[r].numActiveBase
    BY <1>2
  <2>2. own(r)[k] \in OwnNodes(Bulk, r)
    BY <2>1, OwnComeFirst
  <2> QED BY <2>2, OwnBulkNodes
<1>4. \A r \in Ranks : \A k, l \in 1 .. Len(own(r)) : own(r)[k] = own(r)[l] => k = l
  BY <1>2, OwnComeFirst DEF IsInjective
<1>5. \A n \in I : \E k \in 1 .. Len(own(partitionIds[n])) : own(partitionIds[n])[k] = n
  <2> SUFFICES ASSUME NEW n \in I
               PROVE  \E k \in 1 .. Len(own(partitionIds[n])) : own(partitionIds[n])[k] = n
    OBVIOUS
  <2> DEFINE r == partitionIds[n]
             p == partitions[r]
  <2>1. r \in Ranks /\ n \in OwnNodes(Bulk, r)
    BY <1>1, OwnBulkNodes
  <2>2. PICK k \in DOMAIN p.nodes : p.nodes[k] = n
    BY <2>1, OwnComeFirst DEF ToSet
  <2>3. k <= p.numActiveBase /\ k \in 1 .. Len(p.nodes) /\ p.numActiveBase \in Nat
    <3>1. p.nodes \in Seq(I)
      BY <2>1, OwnComeFirst
    <3> QED BY <2>1, <2>2, <3>1, OwnComeFirst
  <2>4. k \in 1 .. Len(own(r))
    BY <1>2, <2>1, <2>3
  <2> QED BY <1>2, <2>1, <2>2, <2>4
<1>6. /\ seqs \in Seq(Seq(I)) /\ Len(seqs) = NumParts /\ DOMAIN seqs = Ranks
      /\ \A r \in Ranks : seqs[r] = own(r)
  <2> HIDE DEF own
  <2> QED BY <1>1, <1>2 DEF Ranks
<1> HIDE DEF seqs
<1>7. PICK o : /\ IsOffset(o, seqs) /\ Len(order) = o[NumParts] /\ order \in Seq(I)
               /\ \A i \in 1 .. NumParts : \A k \in 1 .. Len(own(i)) :
                    o[i - 1] + k \in 1 .. o[NumParts] /\ order[o[i - 1] + k] = own(i)[k]
               /\ \A p \in 1 .. o[NumParts] : \E i, k : IsPlace(o, seqs, p, i, k)
  <2>1. order \in Seq(I)
    BY <1>6, FlattenPlaces
  <2>2. PICK o : /\ IsOffset(o, seqs) /\ Len(FlattenSeq(seqs)) = o[Len(seqs)]
                 /\ \A i \in 1 .. Len(seqs) : \A k \in 1 .. Len(seqs[i]) :
                        /\ o[i - 1] + k \in 1 .. o[Len(seqs)]
                        /\ FlattenSeq(seqs)[o[i - 1] + k] = seqs[i][k]
                 /\ \A p \in 1 .. o[Len(seqs)] : \E i, k : IsPlace(o, seqs, p, i, k)
    BY <1>6, FlattenPlaces
  <2> HIDE DEF own, order
  <2>3. order = FlattenSeq(seqs)
    BY DEF order
  <2>4. \A i \in 1 .. NumParts : seqs[i] = own(i)
    BY <1>6 DEF Ranks
  <2>5. \A i \in 1 .. NumParts : \A k \in 1 .. Len(own(i)) :
          o[i - 1] + k \in 1 .. o[NumParts] /\ order[o[i - 1] + k] = own(i)[k]
    <3> SUFFICES ASSUME NEW i \in 1 .. NumParts, NEW k \in 1 .. Len(own(i))
                 PROVE  o[i - 1] + k \in 1 .. o[NumParts] /\ order[o[i - 1] + k] = own(i)[k]
      OBVIOUS
    <3>1. seqs[i] = own(i) /\ i \in 1 .. Len(seqs) /\ k \in 1 .. Len(seqs[i])
      BY <1>6, <2>4
    <3> QED BY <1>6, <2>2, <2>3, <3>1
  <2> QED BY <1>6, <2>1, <2>2, <2>3, <2>5
<1> HIDE DEF order, own
<1>8. /\ o \in [0 .. NumParts -> Nat] /\ o[0] = 0
      /\ \A r \in Ranks : o[r] = o[r - 1] + Len(own(r)) /\ r - 1 \in 0 .. NumParts
  BY <1>1, <1>6, <1>7 DEF IsOffset, Ranks
<1>9. o[NumParts] \in Nat /\ DOMAIN order = 1 .. o[NumParts]
  BY <1>1, <1>7, <1>8
<1>10. IsInjective(order)
  <2> SUFFICES ASSUME NEW x \in 1 .. o[NumParts], NEW y \in 1 .. o[NumParts], order[x] = order[y]
               PROVE  x = y
    BY <1>9 DEF IsInjective
  <2>1. PICK i, k : IsPlace(o, seqs, x, i, k)
    BY <1>7
  <2>2. PICK h, l : IsPlace(o, seqs, y, h, l)
    BY <1>7
  <2>3. /\ i \in Ranks /\ k \in 1 .. Len(own(i)) /\ x = o[i - 1] + k
        /\ h \in Ranks /\ l \in 1 .. Len(own(h)) /\ y = o[h - 1] + l
    <3>1. i \in Ranks /\ k \in DOMAIN own(i) /\ x = o[i - 1] + k
      BY <1>6, <2>1 DEF IsPlace
    <3>2. h \in Ranks /\ l \in DOMAIN own(h) /\ y = o[h - 1] + l
      BY <1>6, <2>2 DEF IsPlace
    <3> QED BY <1>2, <3>1, <3>2
  <2>4. own(i)[k] = own(h)[l]
    BY <1>7, <2>3 DEF Ranks
  <2>5. i = h
    BY <1>3, <2>3, <2>4
  <2>6. k = l
    BY <1>4, <2>3, <2>4, <2>5
  <2> QED BY <2>3, <2>5, <2>6
<1>11. o[NumParts] <= Bulk.numNodes
  <2>1. ToSet(order) \subseteq I
    BY <1>7 DEF ToSet
  <2>2. IsFiniteSet(I) /\ Cardinality(I) = Bulk.numNodes
    BY <1>1, FS_Interval DEF I, Ids
  <2>3. Cardinality(ToSet(order)) = o[NumParts]
    BY <1>7, <1>10, InjectiveLength
  <2>4. Cardinality(ToSet(order)) <= Cardinality(I)
    BY <2>1, <2>2, FS_Subset
  <2> QED BY <2>2, <2>3, <2>4
<1>12. NumberingOrder = order
  <2>1. NumberingOrder = order \o << >>
    BY DEF NumberingOrder, order, seqs, own
  <2> QED BY <1>7, <2>1, ConcatEmptySeq
<1>13. ASSUME NEW x \in 1 .. o[NumParts]
       PROVE  order[x] \in I /\ globalIds[order[x]] = x - 1
  <2>1. order[x] \in I
    BY <1>7, <1>9
  <2>2. {j \in DOMAIN order : order[j] = order[x]} = {x}
    BY <1>9, <1>10 DEF IsInjective
  <2>3. globalIds = Numbers
    BY WrittenParts, SizesAssumption DEF Inv, InvNumbers
  <2>4. globalIds[order[x]] = Max({0} \cup {i - 1 : i \in {x}})
    BY <1>12, <2>1, <2>2, <2>3 DEF Numbers
  <2>5. {0} \cup {i - 1 : i \in {x}} = {0, x - 1}
    OBVIOUS
  <2>6. Max({0, x - 1}) = x - 1
    <3>1. x - 1 \in Nat
      BY <1>9
    <3> QED BY <3>1 DEF Max
  <2> QED BY <2>1, <2>4, <2>5, <2>6
<1>14. \A n \in I : \E x \in 1 .. o[NumParts] : order[x] = n
  <2> SUFFICES ASSUME NEW n \in I PROVE \E x \in 1 .. o[NumParts] : order[x] = n
    OBVIOUS
  <2>1. PICK k \in 1 .. Len(own(partitionIds[n])) : own(partitionIds[n])[k] = n
    BY <1>5
  <2>2. partitionIds[n] \in 1 .. NumParts
    BY <1>1 DEF Ranks
  <2> QED BY <1>7, <2>1, <2>2
<1>15. ASSUME NEW r \in Ranks, NEW j \in Locals(r), Owns(r, j)
       PROVE  GlobalNodeID(r, j) = o[r - 1] + j
  <2>1. j \in Nat /\ NodeAt(partitions[r], j) = partitions[r].nodes[j + 1]
    BY WrittenParts, OwnsItsNodes
  <2>2. j + 1 \in 1 .. Len(own(r))
    BY <1>2, <1>15, <2>1, OwnComeFirst
  <2>3. partitions[r].nodes[j + 1] = own(r)[j + 1]
    BY <1>2, <2>2
  <2>4. /\ o[r - 1] + (j + 1) \in 1 .. o[NumParts]
        /\ order[o[r - 1] + (j + 1)] = own(r)[j + 1]
    BY <1>7, <2>2 DEF Ranks
  <2>5. GlobalNodeID(r, j) = (o[r - 1] + (j + 1)) - 1
    BY <1>13, <2>1, <2>3, <2>4 DEF GlobalNodeID
  <2> QED BY <1>8, <2>1, <2>5
<1>16. \A n \in I : globalIds[n] \in I
  BY <1>1, <1>9, <1>11, <1>13, <1>14 DEF I, Ids
<1>17. \A n, l \in I : globalIds[n] = globalIds[l] => n = l
  <2> SUFFICES ASSUME NEW n \in I, NEW l \in I, globalIds[n] = globalIds[l] PROVE n = l
    OBVIOUS
  <2>1. PICK x \in 1 .. o[NumParts] : order[x] = n
    BY <1>14
  <2>2. PICK y \in 1 .. o[NumParts] : order[y] = l
    BY <1>14
  <2>3. x - 1 = y - 1
    BY <1>13, <2>1, <2>2
  <2>4. x = y
    BY <1>9, <2>3
  <2> QED BY <2>1, <2>2, <2>4
<1>18. \A r \in Ranks : o[r] = o[r - 1] + partitions[r].numActiveBase
  BY <1>2, <1>8
<1> QED BY <1>8, <1>15, <1>16, <1>17, <1>18 DEF IsNumbering, I

(* The rows of a rank begin after those of the nodes that the ranks before *)
(* it own.                                                                 *)
LEMMA RowsBegin ==
  ASSUME Inv, phase = "written", ~mixed, NEW o, IsNumbering(o), NEW r \in Ranks
  PROVE  RangeBegin(r) = NumComponents * o[r - 1]
<1> DEFINE T == Nat
           size == [q \in Ranks |-> LocalSize(q)]
           F == [x \in Ranks \X Nat |-> x[2] + size[x[1]]]
           Is(g) == g = [q \in 0 .. NumParts |-> IF q = 0 THEN 0 ELSE g[q - 1] + LocalSize(q)]
           end == CHOOSE g : Is(g)
           zero == 0
<1>1. NumParts \in Nat /\ NumComponents \in Nat /\ Ranks = 1 .. NumParts /\ zero \in Nat
  BY SizesAssumption DEF Ranks
<1>2. ASSUME NEW q \in Ranks
      PROVE  /\ size[q] = LocalSize(q) /\ size[q] = NumComponents * partitions[q].numActiveBase
             /\ partitions[q].numActiveBase \in Nat /\ size[q] \in Nat
  BY <1>1, OwnComeFirst
<1>3. RangeBegin(r) = end[r - 1]
  BY DEF RangeBegin
<1>4. \A g : Is(g) <=>
        g = [q \in 0 .. NumParts |-> IF q = 0 THEN 0 ELSE g[q - 1] + LocalSize(q)]
  OBVIOUS
<1>5. \A q \in 1 .. NumParts, x \in Nat : F[<<q, x>>] = x + size[q]
  BY <1>1
<1> HIDE DEF Is, F, size
<1>6. PICK g : IsRecursion(g, NumParts, Nat, zero, F)
  <2>1. StepsWithin(F, NumParts, Nat)
    <3>1. ASSUME NEW q \in 1 .. NumParts, NEW x \in Nat PROVE x + size[q] \in Nat
      BY <1>1, <1>2
    <3> QED BY <1>5, <3>1 DEF StepsWithin
  <2> HIDE DEF zero
  <2> QED BY <1>1, <2>1, Recursion
<1>7. Is(g)
  <2>1. g \in [0 .. NumParts -> Nat] /\ g[0] = 0
        /\ \A q \in 1 .. NumParts : g[q] = F[<<q, g[q - 1]>>]
    BY <1>6 DEF IsRecursion
  <2>2. ASSUME NEW q \in 0 .. NumParts
        PROVE  g[q] = IF q = 0 THEN 0 ELSE g[q - 1] + LocalSize(q)
    <3>1. CASE q = 0
      BY <2>1, <3>1
    <3>2. CASE q # 0
      <4>1. q \in 1 .. NumParts /\ q - 1 \in 0 .. NumParts
        BY <1>1, <3>2
      <4> QED BY <1>1, <1>2, <1>5, <2>1, <3>2, <4>1
    <3> QED BY <3>1, <3>2
  <2> QED BY <1>4, <2>1, <2>2
<1>8. Is(end)
  BY <1>7
<1> HIDE DEF end
<1>9. end[0] = 0 /\ \A q \in 1 .. NumParts : end[q] = end[q - 1] + LocalSize(q)
  <2>1. 0 \in 0 .. NumParts /\ \A q \in 1 .. NumParts : q \in 0 .. NumParts /\ q # 0
    BY <1>1
  <2>2. end = [q \in 0 .. NumParts |-> IF q = 0 THEN 0 ELSE end[q - 1] + LocalSize(q)]
    BY <1>4, <1>8
  <2> QED BY <2>1, <2>2
<1> DEFINE N == {q \in Nat : q <= NumParts => end[q] = NumComponents * o[q]}
<1>10. 0 \in N
  BY <1>1, <1>9 DEF IsNumbering
<1>11. ASSUME NEW q \in Nat, q \in N PROVE q + 1 \in N
  <2> SUFFICES ASSUME q + 1 <= NumParts PROVE end[q + 1] = NumComponents * o[q + 1]
    OBVIOUS
  <2>1. q + 1 \in Ranks /\ (q + 1) - 1 = q /\ q \in 0 .. NumParts /\ end[q] = NumComponents * o[q]
    BY <1>1, <1>11
  <2>2. end[q + 1] = NumComponents * o[q] + NumComponents * partitions[q + 1].numActiveBase
    BY <1>1, <1>2, <1>9, <2>1
  <2>3. o[q + 1] = o[q] + partitions[q + 1].numActiveBase /\ o[q] \in Nat
    BY <2>1 DEF IsNumbering
  <2>4. \A x, y, z \in Nat : x * (y + z) = x * y + x * z
    OBVIOUS
  <2> QED BY <1>1, <1>2, <2>1, <2>2, <2>3, <2>4
<1> HIDE DEF N
<1>12. r - 1 \in N
  <2>1. Nat \subseteq N
    BY <1>10, <1>11, NatSetInduction
  <2> QED BY <1>1, <2>1
<1> QED BY <1>1, <1>3, <1>12 DEF N

(* The global index of a degree of freedom is below the number of unknowns *)
(* and its mark as a ghost is negative.                                    *)
LEMMA GlobalIndices ==
  ASSUME Inv, phase = "written", ~mixed, NEW o, IsNumbering(o),
         NEW r \in Ranks, NEW j \in Locals(r), NEW c \in Components
  PROVE  LET g == GlobalIndex(r, j, c) IN
         /\ GlobalNodeID(r, j) \in Nat /\ j \in Nat
         /\ g = NumComponents * GlobalNodeID(r, j) + c
         /\ g \in Nat /\ g < NumUnknowns /\ NumUnknowns \in Nat
         /\ GhostIndex(g) \in Int /\ GhostIndex(g) < 0
         /\ g = IF -GhostIndex(g) = NumUnknowns THEN 0 ELSE -GhostIndex(g)
<1> DEFINE n == GlobalNodeID(r, j)
           g == GlobalIndex(r, j, c)
           b == Bulk.numNodes
<1>1. NumComponents \in Nat \ {0} /\ c \in Ids(NumComponents) /\ b \in Nat \ {0}
  BY SizesAssumption, OwnBulkNodes DEF Components
<1>2. n \in Ids(b) /\ j \in Nat
  BY WrittenParts, OwnsItsNodes DEF GlobalNodeID, IsNumbering
<1>3. n \in Nat /\ n < b
  BY <1>1, <1>2 DEF Ids
<1>4. g = NumComponents * n + c
  BY DEF GlobalIndex
<1>5. NumUnknowns = NumComponents * b
  BY DEF NumUnknowns
<1> HIDE DEF n, g, b
<1>6. 0 \in Ids(NumComponents)
  BY <1>1 DEF Ids
<1>7. g \in Nat /\ NumComponents * n + c < NumComponents * b + 0
  BY <1>1, <1>3, <1>4, <1>6, Radix
<1>8. NumComponents * b \in Nat
  BY <1>1
<1>9. g < NumUnknowns /\ NumUnknowns \in Nat
  BY <1>4, <1>5, <1>7, <1>8
<1>10. /\ GhostIndex(g) \in Int /\ GhostIndex(g) < 0
       /\ g = IF -GhostIndex(g) = NumUnknowns THEN 0 ELSE -GhostIndex(g)
  <2>1. GhostIndex(g) = IF g = 0 THEN -NumUnknowns ELSE -g
    BY DEF GhostIndex
  <2> HIDE DEF NumUnknowns
  <2> QED BY <1>7, <1>9, <2>1
<1> QED BY <1>2, <1>3, <1>4, <1>7, <1>9, <1>10 DEF n, g

(* The places of the ghosts in the list of a rank.                         *)
LEMMA GhostsListed ==
  ASSUME Inv, phase = "written", ~mixed, NEW o, IsNumbering(o), NEW r \in Ranks
  PROVE  /\ MapOf(r).ghosts \in Seq(Nat)
         /\ \A j \in Locals(r), c \in Components :
              ~Owns(r, j) => GlobalIndex(r, j, c) \in ToSet(MapOf(r).ghosts)
<1> DEFINE G == Ghosts(r)
           L == Locals(r)
           part(c) == [i \in DOMAIN G |-> GlobalIndex(r, G[i], c - 1)]
           seqs == [c \in 1 .. NumComponents |-> part(c)]
<1>1. G \in Seq(L) /\ ToSet(G) = {j \in L : ~Owns(r, j)}
  <2> DEFINE n == NumberOfNodes(r)
             all == Ascending(n)
  <2>1. n \in Nat
    <3>1. partitions[r].nodes \in Seq(Ids(Bulk.numNodes))
      BY OwnComeFirst
    <3> QED BY <3>1 DEF NumberOfNodes
  <2>2. L = 0 .. n - 1
    BY DEF Locals, Ids
  <2>3. all \in Seq(L) /\ L \subseteq ToSet(all)
    <3>1. all = [i \in 1 .. n |-> i - 1]
      BY DEF Ascending
    <3> HIDE DEF n, all, L
    <3>2. all \in Seq(L) /\ DOMAIN all = 1 .. n
      BY <2>1, <2>2, <3>1
    <3>3. \A j \in L : j + 1 \in DOMAIN all /\ all[j + 1] = j
      BY <2>1, <2>2, <3>1
    <3> QED BY <3>2, <3>3 DEF ToSet
  <2> HIDE DEF all, L
  <2>4. /\ Those(all, {j \in L : IsGhostNode(r, j)}) \in Seq(L)
        /\ ToSet(Those(all, {j \in L : IsGhostNode(r, j)}))
             = ToSet(all) \cap {j \in L : IsGhostNode(r, j)}
    BY <2>3, ThoseElements
  <2>5. G = Those(all, {j \in L : IsGhostNode(r, j)})
    BY DEF Ghosts, all, L
  <2> QED BY <2>3, <2>4, <2>5 DEF Owns
<1>2. NumComponents \in Nat /\ \A c \in 1 .. NumComponents : c - 1 \in Components
  BY SizesAssumption DEF Components, Ids
<1>3. \A j \in L, c \in Components : GlobalIndex(r, j, c) \in Nat
  BY GlobalIndices
<1>4. MapOf(r).ghosts = FlattenSeq(seqs)
  BY DEF MapOf
<1> HIDE DEF G, L
<1>5. Len(G) \in Nat /\ DOMAIN G = 1 .. Len(G) /\ \A i \in DOMAIN G : G[i] \in L
  BY <1>1
<1>6. \A c \in 1 .. NumComponents : part(c) \in Seq(Nat)
  BY <1>2, <1>3, <1>5
<1>7. seqs \in Seq(Seq(Nat)) /\ DOMAIN seqs = 1 .. NumComponents
  <2> HIDE DEF part
  <2> QED BY <1>2, <1>6
<1>8. ASSUME NEW j \in L, NEW c \in Components, ~Owns(r, j)
      PROVE  \E d \in DOMAIN seqs : GlobalIndex(r, j, c) \in ToSet(seqs[d])
  <2>1. PICK i \in DOMAIN G : G[i] = j
    BY <1>1, <1>8 DEF ToSet
  <2>2. c + 1 \in 1 .. NumComponents /\ (c + 1) - 1 = c
    BY <1>2 DEF Components, Ids
  <2>3. seqs[c + 1] = part(c + 1)
    BY <2>2
  <2>4. part(c + 1)[i] = GlobalIndex(r, j, c) /\ i \in DOMAIN part(c + 1)
    BY <2>1, <2>2
  <2> HIDE DEF part, seqs
  <2> QED BY <1>7, <2>2, <2>3, <2>4 DEF ToSet
<1> HIDE DEF seqs
<1>9. /\ FlattenSeq(seqs) \in Seq(Nat)
      /\ \A x : x \in ToSet(FlattenSeq(seqs)) <=> \E d \in DOMAIN seqs : x \in ToSet(seqs[d])
  BY <1>7, FlattenElements
<1> QED BY <1>4, <1>8, <1>9 DEF L

(* Where getLocalIndex puts a degree of freedom: an own one by its place,  *)
(* a ghost behind them by its place in the list.                           *)
LEMMA LocalIndex ==
  ASSUME Inv, ~mixed, DOMAIN dofs = Ranks, NEW o, IsNumbering(o), phase = "written",
         NEW r \in Ranks, NEW j \in Locals(r), NEW c \in Components
  PROVE  LET p == GetLocalIndex(r, j, c) - LocalSize(r) IN
         /\ LocalSize(r) = NumComponents * partitions[r].numActiveBase /\ LocalSize(r) \in Nat
         /\ partitions[r].numActiveBase \in Nat
         /\ GetLocalIndex(r, j, c) \in Int
         /\ Owns(r, j) => /\ j < partitions[r].numActiveBase
                          /\ GetLocalIndex(r, j, c) = NumComponents * j + c
                          /\ dofs[r].index[j][c] = GlobalIndex(r, j, c)
         /\ ~Owns(r, j) => /\ p \in Ids(Len(dofs[r].ghosts))
                           /\ dofs[r].ghosts[p + 1] = GlobalIndex(r, j, c)
<1> DEFINE a == partitions[r].numActiveBase
           g == GlobalIndex(r, j, c)
           index == dofs[r].index[j][c]
           ghosts == dofs[r].ghosts
           local == GetLocalIndex(r, j, c)
<1>1. NumComponents \in Nat \ {0} /\ c \in Ids(NumComponents) /\ Ranks = 1 .. NumParts /\ NumParts \in Nat
  BY SizesAssumption DEF Components, Ranks
<1>2. /\ a \in Nat /\ LocalSize(r) = NumComponents * a /\ (Owns(r, j) <=> j < a)
      /\ LocalSize(r) \in Nat
  <2>1. a \in Nat /\ LocalSize(r) = NumComponents * a /\ (Owns(r, j) <=> j < a)
    BY OwnComeFirst
  <2> HIDE DEF a
  <2> QED BY <1>1, <2>1
<1>3. dofs[r] = MapOf(r)
  BY DEF Inv, InvMaps
<1>4. index = IF Owns(r, j) THEN g ELSE GhostIndex(g)
  BY <1>3 DEF MapOf, Owns
<1>5. /\ GlobalNodeID(r, j) \in Nat /\ j \in Nat
      /\ g = NumComponents * GlobalNodeID(r, j) + c
      /\ g \in Nat /\ g < NumUnknowns /\ NumUnknowns \in Nat
      /\ GhostIndex(g) \in Int /\ GhostIndex(g) < 0
      /\ g = IF -GhostIndex(g) = NumUnknowns THEN 0 ELSE -GhostIndex(g)
  BY GlobalIndices
<1>6. RangeBegin(r) = NumComponents * o[r - 1] /\ o[r - 1] \in Nat
  <2>1. r - 1 \in 0 .. NumParts /\ o \in [0 .. NumParts -> Nat]
    BY <1>1 DEF IsNumbering
  <2> QED BY <2>1, RowsBegin
<1>7. local = LET real == IF -index = NumUnknowns THEN 0 ELSE -index
              IN IF index >= 0 THEN index - RangeBegin(r)
                 ELSE LocalSize(r) + PositionOf(real, ghosts)
  BY DEF GetLocalIndex
<1> HIDE DEF a, g, index, local, ghosts
<1>8. CASE Owns(r, j)
  <2>1. GlobalNodeID(r, j) = o[r - 1] + j
    BY <1>8 DEF IsNumbering
  <2>2. index = g /\ local = g - RangeBegin(r)
    BY <1>4, <1>5, <1>7, <1>8
  <2>3. \A x, y, z \in Nat : x * (y + z) = x * y + x * z
    OBVIOUS
  <2>4. g = NumComponents * o[r - 1] + NumComponents * j + c
    BY <1>1, <1>5, <1>6, <2>1, <2>3
  <2>5. c \in Nat /\ NumComponents * o[r - 1] \in Nat /\ NumComponents * j \in Nat
    BY <1>1, <1>5, <1>6 DEF Ids
  <2>6. local = NumComponents * j + c /\ local \in Int
    BY <1>6, <2>2, <2>4, <2>5
  <2> QED BY <1>2, <1>8, <2>2, <2>6 DEF a, g, index, local
<1>9. CASE ~Owns(r, j)
  <2>1. g \in ToSet(ghosts) /\ ghosts \in Seq(Nat)
    BY <1>3, <1>9, GhostsListed DEF ghosts, g
  <2>2. index = GhostIndex(g) /\ local = LocalSize(r) + PositionOf(g, ghosts)
    BY <1>4, <1>5, <1>7, <1>9
  <2>3. /\ PositionOf(g, ghosts) \in Ids(Len(ghosts))
        /\ ghosts[PositionOf(g, ghosts) + 1] = g
    BY <2>1, PositionFound
  <2>4. Len(ghosts) \in Nat
    BY <2>1
  <2>5. PositionOf(g, ghosts) \in Int
    BY <2>3, <2>4 DEF Ids
  <2>6. local - LocalSize(r) = PositionOf(g, ghosts) /\ local \in Int
    BY <1>2, <2>2, <2>5
  <2> QED BY <1>2, <1>9, <2>3, <2>6 DEF a, g, ghosts, local
<1> QED BY <1>8, <1>9

(* What a rank owns goes to its rows and the ghosts go behind them, no two *)
(* to one place, and the owner of a ghost uses the index that the ghost    *)
(* has: for every mesh without extra nodes.                                *)
THEOREM LocalIndices == Spec => []LocalIndicesAreConsistent
<1>1. ASSUME Inv PROVE LocalIndicesAreConsistent
  <2> USE <1>1
  <2> SUFFICES ASSUME ~mixed, DOMAIN dofs = Ranks PROVE LocalIndicesAreConsistent
    BY DEF LocalIndicesAreConsistent
  <2>1. phase = "written"
    <3>1. 1 \in Ranks
      BY SizesAssumption DEF Ranks
    <3> QED BY <3>1 DEF Inv, InvMaps
  <2>2. PICK o : IsNumbering(o)
    BY <2>1, Numbering
  <2>3. NumComponents \in Nat \ {0} /\ Components = Ids(NumComponents)
    BY SizesAssumption DEF Components
  <2>4. ASSUME NEW r \in Ranks, NEW j \in Locals(r), NEW c \in Components
        PROVE  IF Owns(r, j) THEN GetLocalIndex(r, j, c) \in Ids(LocalSize(r))
               ELSE GetLocalIndex(r, j, c) - LocalSize(r) \in Ids(Len(dofs[r].ghosts))
    <3> DEFINE a == partitions[r].numActiveBase
               local == GetLocalIndex(r, j, c)
    <3>1. CASE Owns(r, j)
      <4>1. /\ j < a /\ a \in Nat /\ local = NumComponents * j + c
            /\ LocalSize(r) = NumComponents * a /\ LocalSize(r) \in Nat
        BY <2>1, <2>2, <3>1, LocalIndex
      <4>2. j \in Nat /\ 0 \in Ids(NumComponents)
        BY <2>1, <2>2, <2>3, GlobalIndices DEF Ids
      <4> HIDE DEF a, local
      <4>3. NumComponents * j + c < NumComponents * a + 0 /\ NumComponents * j + c \in Nat
        BY <2>3, <4>1, <4>2, Radix
      <4>4. local \in Ids(LocalSize(r))
        BY <4>1, <4>3 DEF Ids
      <4> QED BY <3>1, <4>4 DEF local
    <3>2. CASE ~Owns(r, j)
      BY <2>1, <2>2, <3>2, LocalIndex
    <3> QED BY <3>1, <3>2
  <2>5. ASSUME NEW r \in Ranks, NEW j \in Locals(r), NEW c \in Components,
               NEW i \in Locals(r), NEW d \in Components,
               GetLocalIndex(r, i, d) = GetLocalIndex(r, j, c)
        PROVE  <<i, d>> = <<j, c>>
    <3> DEFINE local == GetLocalIndex(r, j, c)
    <3>1. i \in Nat /\ j \in Nat
      BY <2>1, <2>2, GlobalIndices
    <3>2. CASE Owns(r, j) /\ Owns(r, i)
      <4>1. NumComponents * i + d = NumComponents * j + c
        BY <2>1, <2>2, <2>5, <3>2, LocalIndex
      <4> QED BY <2>3, <3>1, <4>1, Radix
    <3>3. ASSUME NEW k \in Locals(r), NEW e \in Components, GetLocalIndex(r, k, e) = local,
                 NEW l \in Locals(r), NEW f \in Components, GetLocalIndex(r, l, f) = local,
                 Owns(r, k), ~Owns(r, l)
          PROVE  FALSE
      <4>1. LocalSize(r) \in Nat /\ local \in Int
        BY <2>1, <2>2, LocalIndex
      <4>2. local \in Ids(LocalSize(r)) /\ local - LocalSize(r) \in Ids(Len(dofs[r].ghosts))
        BY <2>4, <3>3
      <4> HIDE DEF local
      <4> QED BY <4>1, <4>2 DEF Ids
    <3>4. CASE ~Owns(r, j) /\ ~Owns(r, i)
      <4>1. GlobalIndex(r, i, d) = GlobalIndex(r, j, c)
        BY <2>1, <2>2, <2>5, <3>4, LocalIndex
      <4>2. /\ GlobalIndex(r, j, c) = NumComponents * GlobalNodeID(r, j) + c
            /\ GlobalIndex(r, i, d) = NumComponents * GlobalNodeID(r, i) + d
            /\ GlobalNodeID(r, j) \in Nat /\ GlobalNodeID(r, i) \in Nat
        BY <2>1, <2>2, GlobalIndices
      <4>3. c = d /\ GlobalNodeID(r, j) = GlobalNodeID(r, i)
        <5>1. NumComponents * GlobalNodeID(r, j) + c = NumComponents * GlobalNodeID(r, i) + d
          BY <4>1, <4>2
        <5>2. c \in Ids(NumComponents) /\ d \in Ids(NumComponents)
          BY <2>3
        <5>3. PICK x \in Nat, y \in Nat : x = GlobalNodeID(r, j) /\ y = GlobalNodeID(r, i)
          BY <4>2
        <5>4. NumComponents * x + c = NumComponents * y + d
          BY <5>1, <5>3
        <5>5. x = y /\ c = d
          BY <2>3, <5>2, <5>4, Radix
        <5> QED BY <5>3, <5>5
      <4>4. /\ NodeAt(partitions[r], j) = partitions[r].nodes[j + 1]
            /\ NodeAt(partitions[r], j) \in Ids(Bulk.numNodes)
            /\ NodeAt(partitions[r], i) = partitions[r].nodes[i + 1]
            /\ NodeAt(partitions[r], i) \in Ids(Bulk.numNodes)
            /\ j + 1 \in DOMAIN partitions[r].nodes /\ i + 1 \in DOMAIN partitions[r].nodes
        BY <2>1, WrittenParts, OwnsItsNodes
      <4>5. NodeAt(partitions[r], j) = NodeAt(partitions[r], i)
        BY <2>2, <4>3, <4>4 DEF GlobalNodeID, IsNumbering
      <4>6. j + 1 = i + 1
        BY <2>1, <4>4, <4>5, OwnComeFirst DEF IsInjective
      <4> QED BY <3>1, <4>3, <4>6
    <3> QED BY <2>5, <3>2, <3>3, <3>4
  <2>6. ASSUME NEW r \in Ranks, NEW q \in Ranks, NEW j \in Locals(r), NEW i \in Locals(q),
               NEW c \in Components, ~Owns(r, j), Owns(q, i),
               NodeAt(partitions[r], j) = NodeAt(partitions[q], i)
        PROVE  dofs[r].ghosts[GetLocalIndex(r, j, c) - LocalSize(r) + 1] = dofs[q].index[i][c]
    <3>1. GlobalIndex(r, j, c) = GlobalIndex(q, i, c)
      BY <2>6 DEF GlobalIndex, GlobalNodeID
    <3>2. dofs[r].ghosts[GetLocalIndex(r, j, c) - LocalSize(r) + 1] = GlobalIndex(r, j, c)
      BY <2>1, <2>2, <2>6, LocalIndex
    <3>3. dofs[q].index[i][c] = GlobalIndex(q, i, c)
      BY <2>1, <2>2, <2>6, LocalIndex
    <3> QED BY <3>1, <3>2, <3>3
  <2> QED BY <2>4, <2>5, <2>6 DEF LocalIndicesAreConsistent
<1> QED BY <1>1, Invariance, PTL
=============================================================================
