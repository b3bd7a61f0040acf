-------------------------- MODULE ConfigTree_proofs --------------------------
(***************************************************************************)
(* Proofs about ConfigTree for every document: the counts of the objects   *)
(* agree with what was really read, and therefore what is reported of an   *)
(* element is exactly what was not read once.                              *)
(***************************************************************************)
EXTENDS ConfigTree, TLAPS

Kid(n, t, i) == Children[n][t][i]
Places(n, t) == 1 .. Len(Children[n][t])
Readings == [Nodes -> [Parts -> Nat]]

(* The counts of an object are possible, and agree with the readings r.    *)
WellCounted(obj) ==
  \A k \in Keys : /\ obj.count[k] > 0 => k \in obj.visited
                  /\ obj.count[k] <= Occurrences(obj.tree, k)
Agrees(r, obj) ==
  /\ \A t \in Tags : \A i \in Places(obj.tree, t) :
       r[Kid(obj.tree, t, i)][Element] = IF i <= obj.count[t] THEN 1 ELSE 0
  /\ \A a \in Attributes : r[obj.tree][a] = obj.count[a]
  /\ r[obj.tree][Data] = IF obj.readData THEN 1 ELSE 0

(* Nothing of what an object of node n would count has been read.          *)
Unread(r, n) ==
  /\ \A t \in Tags : \A i \in Places(n, t) : r[Kid(n, t, i)][Element] = 0
  /\ \A p \in Parts \ {Element} : r[n][p] = 0

(* Misread with the readings r.                                            *)
MisreadIn(r, n) ==
  {t \in Tags : \E i \in Places(n, t) : r[Kid(n, t, i)][Element] # 1}
    \cup {a \in HasAttribute[n] : r[n][a] # 1}
    \cup {p \in {Data} : n \in HasData /\ r[n][Data] # 1}

(* The readings r and s differ in nothing that an object of n counts.      *)
SameAccount(r, s, n) ==
  /\ \A t \in Tags : \A i \in Places(n, t) :
       s[Kid(n, t, i)][Element] = r[Kid(n, t, i)][Element]
  /\ \A p \in Parts \ {Element} : s[n][p] = r[n][p]

Unreported(n) == n \notin swallowed /\ warned[n] = {}
Reported(n) ==
  IF ruthless THEN n \in swallowed <=> MisreadIn(reads, n) # {}
              ELSE warned[n] = MisreadIn(reads, n)

NodeInv(n) ==
  /\ n \notin opened => Unread(reads, n) /\ Unreported(n)
  /\ n \in opened /\ n # Root => reads[n][Element] > 0
  /\ \A v \in Variables : object[v].tree = n => Agrees(reads, object[v]) /\ Unreported(n)
  /\ n \in opened /\ ~Held(n) => Reported(n)

HeldAreOpened == \A v \in Variables : Holds(v) => object[v].tree \in opened
SuccessIsSilent ==
  phase = "succeeded" => swallowed = {} /\ \A v \in Variables : ~Holds(v)

(* The inductive invariant.  After an error nothing is counted any more.   *)
CountInv ==
  /\ TypeOK
  /\ OneObjectPerElement
  /\ Root \in opened
  /\ phase # "failed" => HeldAreOpened /\ SuccessIsSilent /\ \A n \in Nodes : NodeInv(n)

-----------------------------------------------------------------------------
(* The document and single objects *)

LEMMA KeysAreDistinct ==
  /\ Element # Data /\ Element \notin Keys /\ Data \notin Keys
  /\ \A t \in Tags : t \in Keys /\ t \notin Attributes
  /\ \A a \in Attributes : a \in Keys /\ a \notin Tags /\ a \in Parts
  /\ Element \in Parts /\ Data \in Parts
BY NamesAssumption DEF Element, Data, Keys, Parts

LEMMA KidsAreNodes ==
  ASSUME NEW n \in Nodes, NEW t \in Tags
  PROVE  /\ Len(Children[n][t]) \in Nat
         /\ \A i \in Places(n, t) : Kid(n, t, i) \in Nodes \ {Root}
BY DocumentAssumption DEF Kid, Places

LEMMA KidsAreDistinct ==
  ASSUME NEW m \in Nodes, NEW n \in Nodes, NEW s \in Tags, NEW t \in Tags,
         NEW i \in Places(m, s), NEW j \in Places(n, t), Kid(m, s, i) = Kid(n, t, j)
  PROVE  m = n /\ s = t /\ i = j
BY DocumentAssumption DEF Kid, Places

LEMMA OccurrencesAreCounts ==
  ASSUME NEW n \in Nodes
  PROVE  /\ \A k \in Keys : Occurrences(n, k) \in Nat
         /\ \A t \in Tags : Occurrences(n, t) = Len(Children[n][t])
         /\ \A a \in Attributes :
              Occurrences(n, a) = IF a \in HasAttribute[n] THEN 1 ELSE 0
BY KeysAreDistinct, KidsAreNodes DEF Occurrences

(* What an object complains of, if its counts agree with the readings, is  *)
(* what has been misread.                                                  *)
LEMMA MismatchesAreMisread ==
  ASSUME NEW r \in Readings, NEW obj \in Object, obj.tree \in Nodes,
         WellCounted(obj), Agrees(r, obj)
  PROVE  Mismatches(obj) = MisreadIn(r, obj.tree)
<1> DEFINE n == obj.tree
<1>1. obj.tree # Null
  BY NamesAssumption
<1>2. ASSUME NEW t \in Tags
      PROVE  obj.count[t] # Occurrences(n, t)
               <=> \E i \in Places(n, t) : r[Kid(n, t, i)][Element] # 1
  <2>1. /\ obj.count[t] \in Nat /\ Occurrences(n, t) \in Nat
        /\ Occurrences(n, t) = Len(Children[n][t]) /\ obj.count[t] <= Occurrences(n, t)
    BY KeysAreDistinct, OccurrencesAreCounts DEF WellCounted, Object
  <2>2. CASE obj.count[t] = Occurrences(n, t)
    BY <2>1, <2>2 DEF Agrees, Places
  <2>3. CASE obj.count[t] # Occurrences(n, t)
    <3>1. obj.count[t] + 1 \in Places(n, t) /\ ~(obj.count[t] + 1 <= obj.count[t])
      BY <2>1, <2>3 DEF Places
    <3> QED
      BY <3>1, <2>3 DEF Agrees
  <2> QED
    BY <2>2, <2>3
<1>3. ASSUME NEW a \in Attributes
      PROVE  obj.count[a] # Occurrences(n, a) <=> a \in HasAttribute[n] /\ r[n][a] # 1
  <2>1. /\ obj.count[a] \in Nat /\ r[n][a] = obj.count[a]
        /\ obj.count[a] <= Occurrences(n, a)
    BY KeysAreDistinct DEF WellCounted, Object, Agrees
  <2> QED
    BY <2>1, OccurrencesAreCounts
<1>4. HasAttribute[n] \subseteq Attributes
  BY DocumentAssumption
<1>5. obj.readData <=> r[n][Data] = 1
  BY DEF Agrees
<1>6. {k \in Keys : obj.count[k] # Occurrences(n, k)}
        = {t \in Tags : \E i \in Places(n, t) : r[Kid(n, t, i)][Element] # 1}
            \cup {a \in HasAttribute[n] : r[n][a] # 1}
  BY <1>2, <1>3, <1>4, Zenon DEF Keys
<1>7. Mismatches(obj)
        = {k \in Keys : obj.count[k] # Occurrences(n, k)}
            \cup {k \in {Data} : n \in HasData /\ ~obj.readData}
  BY <1>1 DEF Mismatches
<1> QED
  BY <1>5, <1>6, <1>7 DEF MisreadIn

LEMMA NewObjectCounts ==
  ASSUME NEW n \in Nodes \cup {Null}
  PROVE  /\ NewObject(n) \in Object /\ NewObject(n).tree = n
         /\ \A k \in Keys : NewObject(n).count[k] = 0
         /\ n \in Nodes => WellCounted(NewObject(n))
         /\ \A r \in Readings : n \in Nodes /\ Unread(r, n) => Agrees(r, NewObject(n))
<1>1. /\ NewObject(n) \in Object /\ NewObject(n).tree = n
      /\ \A k \in Keys : NewObject(n).count[k] = 0
      /\ NewObject(n).readData = FALSE
  BY DEF NewObject, Object
<1>2. n \in Nodes => WellCounted(NewObject(n))
  BY <1>1, OccurrencesAreCounts DEF WellCounted
<1>3. ASSUME NEW r \in Readings, n \in Nodes, Unread(r, n)
      PROVE  Agrees(r, NewObject(n))
  <2>1. \A t \in Tags : \A i \in Places(n, t) : ~(i <= NewObject(n).count[t])
    BY <1>1, KeysAreDistinct DEF Places
  <2>2. \A a \in Attributes : r[n][a] = 0
    BY <1>3, KeysAreDistinct DEF Unread
  <2>3. r[n][Data] = 0
    BY <1>3, KeysAreDistinct DEF Unread
  <2> QED
    BY <1>1, <1>3, <2>1, <2>2, <2>3, KeysAreDistinct DEF Agrees, Unread
<1> QED
  BY <1>1, <1>2, <1>3

LEMMA SameAccountSameJudgement ==
  ASSUME NEW r \in Readings, NEW s \in Readings, NEW n \in Nodes, SameAccount(r, s, n)
  PROVE  /\ MisreadIn(s, n) = MisreadIn(r, n)
         /\ Unread(r, n) => Unread(s, n)
         /\ \A obj \in Object : obj.tree = n /\ Agrees(r, obj) => Agrees(s, obj)
<1>1. \A p \in Attributes \cup {Data} : s[n][p] = r[n][p]
  BY KeysAreDistinct DEF SameAccount
<1>2. HasAttribute[n] \subseteq Attributes
  BY DocumentAssumption
<1>3. MisreadIn(s, n) = MisreadIn(r, n)
  BY <1>1, <1>2 DEF MisreadIn, SameAccount
<1>4. Unread(r, n) => Unread(s, n)
  BY DEF Unread, SameAccount
<1>5. ASSUME NEW obj \in Object, obj.tree = n, Agrees(r, obj)
      PROVE  Agrees(s, obj)
  BY <1>1, <1>5 DEF Agrees, SameAccount
<1> QED
  BY <1>3, <1>4, <1>5

-----------------------------------------------------------------------------
(* One step, seen from an element it does not concern *)

LEMMA ReadingAdds ==
  ASSUME reads \in Readings, NEW nodes, NEW parts, Read(nodes, parts)
  PROVE  /\ reads' \in Readings
         /\ \A n \in Nodes, p \in Parts :
              reads'[n][p] = IF n \in nodes /\ p \in parts THEN reads[n][p] + 1
                                                           ELSE reads[n][p]
BY DEF Read, Readings

LEMMA ReadingGrows ==
  ASSUME reads \in Readings, NEW nodes, NEW parts, Read(nodes, parts), NEW n \in Nodes
  PROVE  /\ reads'[n][Element] >= reads[n][Element]
         /\ n \in nodes /\ Element \in parts => reads'[n][Element] > 0
<1>1. reads[n][Element] \in Nat
  BY KeysAreDistinct DEF Readings
<1>2. reads'[n][Element] = IF n \in nodes /\ Element \in parts THEN reads[n][Element] + 1
                                                              ELSE reads[n][Element]
  BY ReadingAdds, KeysAreDistinct
<1> QED
  BY <1>1, <1>2

LEMMA ReadingElsewhere ==
  ASSUME reads \in Readings, NEW nodes, NEW parts, Read(nodes, parts), NEW n \in Nodes,
         Element \in parts => \A t \in Tags : \A i \in Places(n, t) : Kid(n, t, i) \notin nodes,
         n \in nodes => parts \subseteq {Element}
  PROVE  SameAccount(reads, reads', n)
<1>1. ASSUME NEW t \in Tags, NEW i \in Places(n, t)
      PROVE  reads'[Kid(n, t, i)][Element] = reads[Kid(n, t, i)][Element]
  BY <1>1, KidsAreNodes, KeysAreDistinct, ReadingAdds
<1>2. ASSUME NEW p \in Parts \ {Element}
      PROVE  reads'[n][p] = reads[n][p]
  BY <1>2, ReadingAdds
<1> QED
  BY <1>1, <1>2 DEF SameAccount

LEMMA OtherNode ==
  ASSUME NEW n \in Nodes, TypeOK, NodeInv(n), ruthless' = ruthless,
         reads' \in Readings, SameAccount(reads, reads', n),
         reads'[n][Element] >= reads[n][Element],
         n \in opened' <=> n \in opened, n \in swallowed' <=> n \in swallowed,
         warned'[n] = warned[n],
         \A v \in Variables : object'[v].tree = n =>
            \E w \in Variables : object'[v] = object[w],
         Held(n) => Held(n)'
  PROVE  NodeInv(n)'
<1>1. reads \in Readings /\ object \in [Variables -> Object]
  BY DEF TypeOK, Readings
<1>2. /\ MisreadIn(reads', n) = MisreadIn(reads, n)
      /\ Unread(reads, n) => Unread(reads', n)
      /\ \A obj \in Object : obj.tree = n /\ Agrees(reads, obj) => Agrees(reads', obj)
  BY <1>1, SameAccountSameJudgement
<1>3. (n \notin opened => Unread(reads, n) /\ Unreported(n))'
  BY <1>2 DEF NodeInv, Unreported
<1>4. (n \in opened /\ n # Root => reads[n][Element] > 0)'
  BY <1>1, KeysAreDistinct DEF NodeInv, Readings
<1>5. ASSUME NEW v \in Variables, object'[v].tree = n
      PROVE  Agrees(reads', object'[v]) /\ Unreported(n)'
  <2>1. PICK w \in Variables : object'[v] = object[w]
    BY <1>5
  <2>2. object[w].tree = n /\ object[w] \in Object
    BY <1>1, <1>5, <2>1
  <2>3. Agrees(reads, object[w]) /\ Unreported(n)
    BY <2>2 DEF NodeInv
  <2> QED
    BY <1>2, <2>1, <2>2, <2>3 DEF Unreported
<1>6. (n \in opened /\ ~Held(n) => Reported(n))'
  BY <1>2 DEF NodeInv, Reported
<1> QED
  BY <1>3, <1>4, <1>5, <1>6 DEF NodeInv

-----------------------------------------------------------------------------
(* The three ways of reading *)

(* An object is read from, and no other is made.                           *)
LEMMA OwnReading ==
  ASSUME CountInv, Parsing, NEW v \in Variables, NEW obj \in Object, Holds(v),
         obj.tree = object[v].tree, WellCounted(obj), Agrees(reads', obj),
         object' = [object EXCEPT ![v] = obj],
         UNCHANGED <<swallowed, warned, opened>>,
         reads' \in Readings,
         \A n \in Nodes : reads'[n][Element] >= reads[n][Element],
         \A n \in Nodes \ {obj.tree} : SameAccount(reads, reads', n)
  PROVE  CountInv'
<1>1. /\ object \in [Variables -> Object] /\ object[v].tree \in Nodes
      /\ object'[v] = obj /\ object' \in [Variables -> Object]
      /\ \A w \in Variables : object'[w].tree = object[w].tree
      /\ \A w \in Variables \ {v} : object'[w] = object[w]
  BY DEF CountInv, TypeOK, Object, Holds
<1>2. /\ phase = "parsing" /\ phase' = "parsing" /\ ruthless' = ruthless
      /\ swallowed' = swallowed /\ warned' = warned /\ opened' = opened
  BY DEF Parsing
<1>3. TypeOK'
  BY <1>1, <1>2 DEF CountInv, TypeOK, WellCounted, Holds, Readings
<1>4. OneObjectPerElement'
  BY <1>1 DEF CountInv, OneObjectPerElement, Holds
<1>5. HeldAreOpened' /\ SuccessIsSilent'
  BY <1>1, <1>2 DEF CountInv, HeldAreOpened, SuccessIsSilent, Holds
<1>6. ASSUME NEW n \in Nodes \ {obj.tree}
      PROVE  NodeInv(n)'
  <2>1. \A w \in Variables : object'[w].tree = n => object'[w] = object[w]
    BY <1>1
  <2>2. Held(n) => Held(n)'
    BY <1>1 DEF Held
  <2> QED
    BY <1>2, <2>1, <2>2, OtherNode DEF CountInv
<1>7. NodeInv(obj.tree)'
  <2> DEFINE m == obj.tree
  <2>1. m \in opened /\ NodeInv(m) /\ Unreported(m)
    BY <1>1, <1>2 DEF CountInv, HeldAreOpened, NodeInv
  <2>2. (m \in opened /\ m # Root => reads[m][Element] > 0)'
    BY <1>1, <1>2, <2>1, KeysAreDistinct DEF NodeInv, Readings, CountInv, TypeOK
  <2>3. \A w \in Variables : object'[w].tree = m => w = v
    BY <1>1 DEF CountInv, OneObjectPerElement, Holds
  <2>4. Held(m)'
    BY <1>1 DEF Held
  <2> QED
    BY <1>1, <1>2, <2>1, <2>2, <2>3, <2>4 DEF NodeInv, Unreported
<1> QED
  BY <1>2, <1>3, <1>4, <1>5, <1>6, <1>7 DEF CountInv

LEMMA MarkedObject ==
  ASSUME NEW obj \in Object, NEW k \in Keys, NEW times \in Nat
  PROVE  /\ Mark(obj, k, times) \in Object /\ Mark(obj, k, times).tree = obj.tree
         /\ Mark(obj, k, times).visited = obj.visited \cup {k}
         /\ Mark(obj, k, times).readData = obj.readData
         /\ Mark(obj, k, times).count[k] = obj.count[k] + times
         /\ \A l \in Keys \ {k} : Mark(obj, k, times).count[l] = obj.count[l]
<1>1. /\ obj.visited \subseteq Keys /\ obj.count \in [Keys -> Nat]
      /\ obj.count[k] + times \in Nat
  BY DEF Object
<1>2. Mark(obj, k, times)
        = [obj EXCEPT !.visited = obj.visited \cup {k},
                      !.count = [obj.count EXCEPT ![k] = obj.count[k] + times]]
  BY DEF Mark
<1> DEFINE new == [obj.count EXCEPT ![k] = obj.count[k] + times]
           all == obj.visited \cup {k}
<1>3. /\ new \in [Keys -> Nat] /\ new[k] = obj.count[k] + times
      /\ \A l \in Keys \ {k} : new[l] = obj.count[l]
  BY <1>1
<1>4. all \in SUBSET Keys
  BY <1>1
<1> HIDE DEF new, all
<1>5. /\ [obj EXCEPT !.visited = all, !.count = new] \in Object
      /\ [obj EXCEPT !.visited = all, !.count = new].tree = obj.tree
      /\ [obj EXCEPT !.visited = all, !.count = new].visited = all
      /\ [obj EXCEPT !.visited = all, !.count = new].readData = obj.readData
      /\ [obj EXCEPT !.visited = all, !.count = new].count = new
  BY <1>3, <1>4 DEF Object
<1> QED
  BY <1>2, <1>3, <1>5 DEF new, all

(* What reading the next child of an object changes for its node, and what *)
(* is known of that child.                                                 *)
LEMMA NextKid ==
  ASSUME CountInv, Parsing, NEW v \in Variables, NEW t \in Tags, Holds(v),
         NEW i \in Places(object[v].tree, t), i = object[v].count[t] + 1,
         NEW parts, parts \in {{Element}, {Element, Data}},
         Read({Kid(object[v].tree, t, i)}, parts)
  PROVE  LET m == object[v].tree
             c == Kid(m, t, i)
             obj == Mark(object[v], t, 1)
         IN /\ m \in opened /\ m # c /\ c \in Nodes \ {Root} /\ c \notin opened
            /\ Unread(reads, c) /\ Unreported(c) /\ Unreported(m)
            /\ obj \in Object /\ obj.tree = m
            /\ WellCounted(obj) /\ Agrees(reads', obj)
            /\ \A n \in Nodes \ {m} :
                 n # c \/ parts = {Element} => SameAccount(reads, reads', n)
<1> DEFINE m == object[v].tree
           c == Kid(m, t, i)
           obj == Mark(object[v], t, 1)
<1>1. /\ object[v] \in Object /\ m \in Nodes /\ reads \in Readings /\ phase # "failed"
  BY DEF CountInv, TypeOK, Holds, Object, Readings, Parsing
<1>2. /\ m \in opened /\ Unreported(m) /\ Agrees(reads, object[v])
      /\ WellCounted(object[v])
  BY <1>1 DEF CountInv, HeldAreOpened, NodeInv, TypeOK, WellCounted
<1>3. c \in Nodes \ {Root}
  BY <1>1, KidsAreNodes
<1>4. reads[c][Element] = 0
  BY <1>1, <1>2, KeysAreDistinct DEF Agrees, Object
<1>5. c \notin opened
  BY <1>1, <1>3, <1>4 DEF CountInv, NodeInv
<1>6. Unread(reads, c) /\ Unreported(c) /\ c # m
  BY <1>1, <1>2, <1>3, <1>5 DEF CountInv, NodeInv
<1>7. /\ obj \in Object /\ obj.tree = m /\ obj.readData = object[v].readData
      /\ obj.visited = object[v].visited \cup {t}
      /\ obj.count[t] = object[v].count[t] + 1
      /\ \A k \in Keys \ {t} : obj.count[k] = object[v].count[k]
  BY <1>1, KeysAreDistinct, MarkedObject
<1>8. WellCounted(obj)
  BY <1>1, <1>2, <1>7, OccurrencesAreCounts, KeysAreDistinct DEF WellCounted, Places, Object
<1>9. /\ reads' \in Readings
      /\ \A n \in Nodes, p \in Parts :
           reads'[n][p] = IF n = c /\ p \in parts THEN reads[n][p] + 1 ELSE reads[n][p]
  BY <1>1, ReadingAdds
<1>10. Agrees(reads', obj)
  <2>1. ASSUME NEW s \in Tags, NEW j \in Places(m, s)
        PROVE  reads'[Kid(m, s, j)][Element] = IF j <= obj.count[s] THEN 1 ELSE 0
    <3>1. /\ Kid(m, s, j) \in Nodes
          /\ reads[Kid(m, s, j)][Element] = IF j <= object[v].count[s] THEN 1 ELSE 0
          /\ object[v].count[s] \in Nat
      BY <1>1, <1>2, KidsAreNodes, KeysAreDistinct DEF Agrees, Object
    <3>2. Kid(m, s, j) = c <=> s = t /\ j = i
      BY <1>1, KidsAreDistinct
    <3>3. CASE s = t /\ j = i
      BY <1>4, <1>7, <1>9, <3>1, <3>2, <3>3, KeysAreDistinct DEF Places
    <3>4. CASE s = t /\ j # i
      BY <1>7, <1>9, <3>1, <3>2, <3>4, KeysAreDistinct DEF Places
    <3>5. CASE s # t
      BY <1>7, <1>9, <3>1, <3>2, <3>5, KeysAreDistinct
    <3> QED
      BY <3>3, <3>4, <3>5
  <2>2. ASSUME NEW a \in Attributes
        PROVE  reads'[m][a] = obj.count[a]
    BY <1>1, <1>2, <1>6, <1>7, <1>9, KeysAreDistinct DEF Agrees
  <2>3. reads'[m][Data] = IF obj.readData THEN 1 ELSE 0
    BY <1>1, <1>2, <1>6, <1>7, <1>9, KeysAreDistinct DEF Agrees
  <2> QED
    BY <1>7, <2>1, <2>2, <2>3 DEF Agrees
<1>11. ASSUME NEW n \in Nodes \ {m}, n # c \/ parts = {Element}
       PROVE  SameAccount(reads, reads', n)
  <2>1. \A s \in Tags : \A j \in Places(n, s) : Kid(n, s, j) \notin {c}
    BY <1>1, KidsAreDistinct
  <2> QED
    BY <1>1, <1>11, <2>1, ReadingElsewhere
<1> QED
  BY <1>2, <1>3, <1>5, <1>6, <1>7, <1>8, <1>10, <1>11

(* An object is made for the next child.                                   *)
LEMMA OpeningKid ==
  ASSUME CountInv, Parsing, NEW v \in Variables, NEW w \in Variables, NEW t \in Tags,
         Holds(v), ~Holds(w),
         NEW i \in Places(object[v].tree, t), i = object[v].count[t] + 1,
         NEW m, m = object[v].tree, NEW c, c = Kid(m, t, i),
         object' = [object EXCEPT ![v] = Mark(@, t, 1), ![w] = NewObject(c)],
         UNCHANGED <<swallowed, warned>>, opened' = opened \cup {c}, Read({c}, {Element})
  PROVE  CountInv'
<1> DEFINE obj == Mark(object[v], t, 1)
<1>1. /\ m \in opened /\ m # c /\ c \in Nodes \ {Root} /\ c \notin opened
      /\ Unread(reads, c) /\ Unreported(c) /\ Unreported(m)
      /\ obj \in Object /\ obj.tree = m /\ WellCounted(obj) /\ Agrees(reads', obj)
      /\ \A n \in Nodes \ {m} : SameAccount(reads, reads', n)
  BY NextKid, Zenon
<1>2. /\ phase = "parsing" /\ phase' = "parsing" /\ ruthless' = ruthless
      /\ swallowed' = swallowed /\ warned' = warned
  BY DEF Parsing
<1>3. /\ object \in [Variables -> Object] /\ m \in Nodes /\ reads \in Readings
      /\ opened \subseteq Nodes
  BY DEF CountInv, TypeOK, Object, Holds, Readings
<1>4. /\ NewObject(c) \in Object /\ NewObject(c).tree = c
      /\ WellCounted(NewObject(c)) /\ Agrees(reads', NewObject(c))
  <2>1. Unread(reads', c) /\ reads' \in Readings
    BY <1>1, <1>3, ReadingAdds, SameAccountSameJudgement
  <2> QED
    BY <1>1, <2>1, NewObjectCounts
<1>5. /\ object'[v] = obj /\ object'[w] = NewObject(c) /\ v # w
      /\ object' \in [Variables -> Object]
      /\ \A u \in Variables \ {v, w} : object'[u] = object[u]
  BY <1>1, <1>3, <1>4
<1>6. /\ reads' \in Readings
      /\ \A n \in Nodes : reads'[n][Element] >= reads[n][Element]
      /\ reads'[c][Element] > 0
  BY <1>1, <1>3, ReadingAdds, ReadingGrows
<1>7. \A u \in Variables : object[u].tree # c
  BY <1>1, <1>2, NamesAssumption DEF CountInv, HeldAreOpened, Holds
<1>8. TypeOK'
  <2>1. ASSUME NEW u \in Variables, NEW k \in Keys
        PROVE  /\ object'[u].count[k] > 0 =>
                    object'[u].tree # Null /\ k \in object'[u].visited
               /\ object'[u].tree # Null =>
                    object'[u].count[k] <= Occurrences(object'[u].tree, k)
    <3>1. CASE u = v
      BY <1>1, <1>3, <1>5, <3>1, NamesAssumption DEF WellCounted
    <3>2. CASE u = w
      BY <1>1, <1>4, <1>5, <3>2, NamesAssumption DEF WellCounted
    <3>3. CASE u \notin {v, w}
      BY <1>5, <3>3 DEF CountInv, TypeOK, Holds
    <3> QED
      BY <3>1, <3>2, <3>3
  <2>2. opened' \subseteq Nodes
    BY <1>1, <1>3
  <2> QED
    BY <1>2, <1>5, <1>6, <2>1, <2>2 DEF CountInv, TypeOK, Holds, Readings
<1>9. OneObjectPerElement'
  BY <1>1, <1>4, <1>5, <1>7 DEF CountInv, OneObjectPerElement, Holds
<1>10. HeldAreOpened' /\ SuccessIsSilent' /\ Root \in opened'
  BY <1>1, <1>2, <1>4, <1>5 DEF CountInv, HeldAreOpened, SuccessIsSilent, Holds
<1>11. ASSUME NEW n \in Nodes \ {m, c}
       PROVE  NodeInv(n)'
  <2>1. \A u \in Variables : object'[u].tree = n => object'[u] = object[u]
    BY <1>1, <1>4, <1>5
  <2>2. Held(n) => Held(n)'
    BY <1>2, <1>5, NamesAssumption DEF Held, Holds
  <2> QED
    BY <1>1, <1>2, <1>6, <2>1, <2>2, OtherNode DEF CountInv
<1>12. NodeInv(m)'
  <2>1. (m \in opened /\ m # Root => reads[m][Element] > 0)'
    BY <1>1, <1>2, <1>3, <1>6, KeysAreDistinct DEF CountInv, NodeInv, Readings
  <2>2. \A u \in Variables : object'[u].tree = m => u = v
    BY <1>1, <1>4, <1>5 DEF CountInv, OneObjectPerElement, Holds
  <2>3. Held(m)'
    BY <1>1, <1>5 DEF Held
  <2> QED
    BY <1>1, <1>2, <1>5, <2>1, <2>2, <2>3 DEF NodeInv, Unreported
<1>13. NodeInv(c)'
  <2>1. \A u \in Variables : object'[u].tree = c => u = w
    BY <1>1, <1>5, <1>7
  <2>2. Held(c)'
    BY <1>4, <1>5 DEF Held
  <2> QED
    BY <1>1, <1>2, <1>4, <1>5, <1>6, <2>1, <2>2 DEF NodeInv, Unreported
<1>14. \A n \in Nodes : NodeInv(n)'
  BY <1>11, <1>12, <1>13, Zenon
<1> QED
  BY <1>8, <1>9, <1>10, <1>14, Zenon DEF CountInv

(* A destructor reports what the object complains of, and of its node only. *)
LEMMA Destroying ==
  ASSUME TypeOK, NEW o \in Object, Destroy({o})
  PROVE  /\ swallowed' \subseteq Nodes /\ warned' \in [Nodes -> SUBSET (Keys \cup {Data})]
         /\ \A n \in Nodes \ {o.tree} :
              (n \in swallowed' <=> n \in swallowed) /\ warned'[n] = warned[n]
         /\ o.tree = Null => swallowed' = swallowed /\ warned' = warned
         /\ o.tree \in Nodes =>
              IF ruthless
              THEN o.tree \in swallowed' <=> o.tree \in swallowed \/ Mismatches(o) # {}
              ELSE warned'[o.tree] = warned[o.tree] \cup Mismatches(o)
<1>1. Mismatches(o) \subseteq Keys \cup {Data} /\ (o.tree = Null => Mismatches(o) = {})
  BY DEF Mismatches
<1>2. /\ warned \in [Nodes -> SUBSET (Keys \cup {Data})] /\ swallowed \subseteq Nodes
      /\ o.tree \in Nodes \cup {Null} /\ Null \notin Nodes
  BY NamesAssumption DEF TypeOK, Object
<1>3. CASE ruthless
  <2>1. warned' = warned
    BY <1>3 DEF Destroy
  <2>2. swallowed' = swallowed \cup {p.tree : p \in {q \in {o} : Mismatches(q) # {}}}
    BY <1>3 DEF Destroy
  <2>3. swallowed' = swallowed \cup (IF Mismatches(o) # {} THEN {o.tree} ELSE {})
    BY <2>2
  <2> QED
    BY <1>1, <1>2, <1>3, <2>1, <2>3
<1>4. CASE ~ruthless
  <2>1. swallowed' = swallowed
    BY <1>4 DEF Destroy
  <2>2. warned' = [n \in Nodes |-> warned[n] \cup
                     UNION {Mismatches(obj) : obj \in {q \in {o} : q.tree = n}}]
    BY <1>4 DEF Destroy, Warn
  <2>3. \A n \in Nodes : UNION {Mismatches(obj) : obj \in {q \in {o} : q.tree = n}}
                            = IF o.tree = n THEN Mismatches(o) ELSE {}
    OBVIOUS
  <2>4. warned' = [n \in Nodes |->
                     warned[n] \cup (IF o.tree = n THEN Mismatches(o) ELSE {})]
    BY <2>2, <2>3
  <2>5. /\ warned' \in [Nodes -> SUBSET (Keys \cup {Data})]
        /\ \A n \in Nodes \ {o.tree} : warned'[n] = warned[n]
        /\ o.tree \in Nodes => warned'[o.tree] = warned[o.tree] \cup Mismatches(o)
    BY <1>1, <1>2, <2>4
  <2>6. o.tree = Null => warned' = warned
    BY <1>2, <2>4
  <2> QED
    BY <1>2, <1>4, <2>1, <2>5, <2>6
<1> QED
  BY <1>3, <1>4

LEMMA DestroyedIsReported ==
  ASSUME TypeOK, NEW o \in Object, Destroy({o}), NEW n \in Nodes, n = o.tree, Unreported(n),
         ruthless' = ruthless, reads' \in Readings, WellCounted(o), Agrees(reads', o)
  PROVE  Reported(n)'
<1>1. Mismatches(o) = MisreadIn(reads', n)
  BY MismatchesAreMisread
<1>2. IF ruthless THEN n \in swallowed' <=> Mismatches(o) # {}
                  ELSE warned'[n] = Mismatches(o)
  BY Destroying DEF Unreported
<1> QED
  BY <1>1, <1>2 DEF Reported

(* An object is made for the next child, and destroyed at once.            *)
LEMMA ReadingKid ==
  ASSUME CountInv, Parsing, NEW v \in Variables, NEW t \in Tags, Holds(v),
         NEW i \in Places(object[v].tree, t), i = object[v].count[t] + 1,
         NEW m, m = object[v].tree, NEW c, c = Kid(m, t, i),
         object' = [object EXCEPT ![v] = Mark(@, t, 1)],
         Destroy({[NewObject(c) EXCEPT !.readData = TRUE]}),
         opened' = opened \cup {c}, Read({c}, {Element, Data})
  PROVE  CountInv'
<1> DEFINE obj == Mark(object[v], t, 1)
           o == [NewObject(c) EXCEPT !.readData = TRUE]
<1>1. /\ m \in opened /\ m # c /\ c \in Nodes \ {Root} /\ c \notin opened
      /\ Unread(reads, c) /\ Unreported(c) /\ Unreported(m)
      /\ obj \in Object /\ obj.tree = m /\ WellCounted(obj) /\ Agrees(reads', obj)
      /\ \A n \in Nodes \ {m, c} : SameAccount(reads, reads', n)
  BY NextKid, Zenon
<1>2. phase = "parsing" /\ phase' = "parsing" /\ ruthless' = ruthless
  BY DEF Parsing
<1>3. /\ object \in [Variables -> Object] /\ m \in Nodes /\ reads \in Readings
      /\ opened \subseteq Nodes /\ TypeOK
  BY DEF CountInv, TypeOK, Object, Holds, Readings
<1>4. /\ reads' \in Readings
      /\ \A n \in Nodes : reads'[n][Element] >= reads[n][Element]
      /\ reads'[c][Element] > 0
      /\ \A n \in Nodes, p \in Parts :
           reads'[n][p] = IF n = c /\ p \in {Element, Data} THEN reads[n][p] + 1
                                                            ELSE reads[n][p]
  <2>1. /\ reads' \in Readings
        /\ \A n \in Nodes, p \in Parts :
             reads'[n][p] = IF n \in {c} /\ p \in {Element, Data} THEN reads[n][p] + 1
                                                                  ELSE reads[n][p]
    BY <1>3, ReadingAdds
  <2>2. \A n \in Nodes : /\ reads'[n][Element] >= reads[n][Element]
                         /\ n \in {c} => reads'[n][Element] > 0
    BY <1>3, ReadingGrows
  <2>3. c \in Nodes /\ c \in {c} /\ \A n : n \in {c} <=> n = c
    BY <1>1
  <2>4. \A n \in Nodes : reads'[n][Element] >= reads[n][Element]
    BY <2>2
  <2>5. reads'[c][Element] > 0
    BY <2>2, <2>3
  <2>6. ASSUME NEW n \in Nodes, NEW p \in Parts
        PROVE  reads'[n][p] = IF n = c /\ p \in {Element, Data} THEN reads[n][p] + 1
                                                               ELSE reads[n][p]
    BY <2>1, <2>3, SMT
  <2> QED
    BY <2>1, <2>4, <2>5, <2>6, Zenon
<1>5. o \in Object /\ o.tree = c /\ WellCounted(o) /\ Agrees(reads', o)
  <2>1. NewObject(c) \in Object /\ NewObject(c).tree = c /\ WellCounted(NewObject(c))
        /\ \A k \in Keys : NewObject(c).count[k] = 0
    BY <1>1, NewObjectCounts
  <2>2. /\ o \in Object /\ o.tree = c /\ o.readData = TRUE
        /\ o.count = NewObject(c).count /\ o.visited = NewObject(c).visited
    BY <2>1 DEF Object
  <2>3. WellCounted(o)
    BY <2>1, <2>2 DEF WellCounted
  <2>4. ASSUME NEW s \in Tags, NEW j \in Places(c, s)
        PROVE  reads'[Kid(c, s, j)][Element] = 0 /\ ~(j <= o.count[s])
    <3>1. Kid(c, s, j) # c /\ Kid(c, s, j) \in Nodes
      BY <1>1, <1>3, KidsAreDistinct, KidsAreNodes
    <3> QED
      BY <1>1, <1>4, <2>1, <2>2, <3>1, KeysAreDistinct DEF Unread, Places
  <2>5. \A a \in Attributes : reads'[c][a] = o.count[a]
    BY <1>1, <1>4, <2>1, <2>2, KeysAreDistinct DEF Unread
  <2>6. reads'[c][Data] = 1
    BY <1>1, <1>4, KeysAreDistinct DEF Unread
  <2> HIDE DEF o
  <2> QED
    BY <2>2, <2>3, <2>4, <2>5, <2>6 DEF Agrees
<1> HIDE DEF o
<1>6. Reported(c)'
  BY <1>1, <1>2, <1>3, <1>4, <1>5, DestroyedIsReported DEF o
<1>7. /\ swallowed' \subseteq Nodes /\ warned' \in [Nodes -> SUBSET (Keys \cup {Data})]
      /\ \A n \in Nodes \ {c} :
           (n \in swallowed' <=> n \in swallowed) /\ warned'[n] = warned[n]
  BY <1>3, <1>5, Destroying DEF o
<1>8. /\ object'[v] = obj /\ object' \in [Variables -> Object]
      /\ \A u \in Variables : object'[u].tree = object[u].tree
      /\ \A u \in Variables \ {v} : object'[u] = object[u]
  BY <1>1, <1>3
<1>9. \A u \in Variables : object[u].tree # c
  BY <1>1, <1>2, NamesAssumption DEF CountInv, HeldAreOpened, Holds
<1>10. TypeOK'
  <2>1. ASSUME NEW u \in Variables, NEW k \in Keys
        PROVE  /\ object'[u].count[k] > 0 =>
                    object'[u].tree # Null /\ k \in object'[u].visited
               /\ object'[u].tree # Null =>
                    object'[u].count[k] <= Occurrences(object'[u].tree, k)
    <3>1. CASE u = v
      BY <1>1, <1>3, <1>8, <3>1, NamesAssumption DEF WellCounted
    <3>2. CASE u # v
      BY <1>8, <3>2 DEF CountInv, TypeOK, Holds
    <3> QED
      BY <3>1, <3>2
  <2>2. opened' \subseteq Nodes
    BY <1>1, <1>3
  <2> QED
    BY <1>2, <1>3, <1>4, <1>7, <1>8, <2>1, <2>2 DEF TypeOK, Holds, Readings
<1>11. OneObjectPerElement'
  BY <1>8 DEF CountInv, OneObjectPerElement, Holds
<1>12. HeldAreOpened' /\ SuccessIsSilent' /\ Root \in opened'
  BY <1>2, <1>8 DEF CountInv, HeldAreOpened, SuccessIsSilent, Holds
<1>13. ASSUME NEW n \in Nodes \ {m, c}
       PROVE  NodeInv(n)'
  <2>1. \A u \in Variables : object'[u].tree = n => object'[u] = object[u]
    BY <1>1, <1>8
  <2>2. Held(n) => Held(n)'
    BY <1>8 DEF Held
  <2> QED
    BY <1>1, <1>2, <1>4, <1>7, <2>1, <2>2, OtherNode DEF CountInv
<1>14. NodeInv(m)'
  <2>1. (m \in opened /\ m # Root => reads[m][Element] > 0)'
    BY <1>1, <1>2, <1>3, <1>4, KeysAreDistinct DEF CountInv, NodeInv, Readings
  <2>2. \A u \in Variables : object'[u].tree = m => u = v
    BY <1>1, <1>8 DEF CountInv, OneObjectPerElement, Holds
  <2>3. Held(m)'
    BY <1>1, <1>8 DEF Held
  <2> QED
    BY <1>1, <1>3, <1>7, <1>8, <2>1, <2>2, <2>3 DEF NodeInv, Unreported
<1>15. NodeInv(c)'
  BY <1>1, <1>4, <1>6, <1>8, <1>9 DEF NodeInv
<1>16. \A n \in Nodes : NodeInv(n)'
  BY <1>13, <1>14, <1>15, Zenon
<1> QED
  BY <1>10, <1>11, <1>12, <1>16, Zenon DEF CountInv

-----------------------------------------------------------------------------
(* The actions *)

LEMMA LiveObject ==
  ASSUME CountInv, phase # "failed", NEW v \in Variables, Holds(v)
  PROVE  /\ object[v] \in Object /\ object[v].tree \in Nodes
         /\ WellCounted(object[v]) /\ Agrees(reads, object[v])
         /\ reads \in Readings /\ TypeOK
         /\ \A k \in Keys : Unique(v, k) => object[v].count[k] = 0
<1>1. object[v] \in Object /\ object[v].tree \in Nodes
  BY DEF CountInv, TypeOK, Object, Holds
<1>2. Agrees(reads, object[v])
  BY <1>1 DEF CountInv, NodeInv
<1>3. \A k \in Keys : object[v].count[k] \in Nat
  BY <1>1 DEF Object
<1> QED
  BY <1>1, <1>2, <1>3 DEF CountInv, TypeOK, WellCounted, Unique, Readings

LEMMA HeldObject ==
  ASSUME CountInv, Parsing, NEW v \in Variables, Holds(v)
  PROVE  /\ object[v] \in Object /\ object[v].tree \in Nodes
         /\ WellCounted(object[v]) /\ Agrees(reads, object[v])
         /\ reads \in Readings /\ TypeOK
         /\ \A k \in Keys : Unique(v, k) => object[v].count[k] = 0
BY LiveObject DEF Parsing

LEMMA UnchangedAccounts ==
  ASSUME TypeOK, UNCHANGED reads
  PROVE  /\ reads' \in Readings
         /\ \A n \in Nodes : SameAccount(reads, reads', n)
         /\ \A n \in Nodes : reads'[n][Element] >= reads[n][Element]
BY KeysAreDistinct DEF TypeOK, Readings, SameAccount

LEMMA GetSubtreeKeeps ==
  ASSUME CountInv, NEW v \in Variables, NEW t \in Tags, NEW w \in Variables,
         GetSubtree(v, t, w)
  PROVE  CountInv'
<1> DEFINE m == object[v].tree
           c == Kid(m, t, 1)
<1>1. /\ Parsing /\ Holds(v) /\ ~Holds(w) /\ Unique(v, t) /\ Kids(v, t) # << >>
      /\ object' = [object EXCEPT ![v] = Mark(@, t, 1), ![w] = NewObject(c)]
      /\ Destroy({Nothing}) /\ Read({NewObject(c).tree}, {Element})
      /\ opened' = opened \cup {NewObject(c).tree}
  BY DEF GetSubtree, CanGet, MovedFrom, Kids, Kid
<1>2. m \in Nodes /\ object[v].count[t] = 0 /\ TypeOK
  BY <1>1, HeldObject, KeysAreDistinct
<1>3. 1 \in Places(m, t) /\ 1 = object[v].count[t] + 1
  BY <1>1, <1>2, DocumentAssumption DEF Kids, Places
<1>4. NewObject(c).tree = c
  BY DEF NewObject
<1>5. Nothing \in Object /\ Nothing.tree = Null
  BY NewObjectCounts DEF Nothing
<1>6. UNCHANGED <<swallowed, warned>>
  BY <1>1, <1>2, <1>5, Destroying
<1> QED
  BY <1>1, <1>3, <1>4, <1>6, OpeningKid

LEMMA NextSubtreeKeeps ==
  ASSUME CountInv, NEW v \in Variables, NEW t \in Tags, NEW w \in Variables,
         NextSubtree(v, t, w)
  PROVE  CountInv'
<1> DEFINE m == object[v].tree
           i == object[v].count[t] + 1
           c == Kid(m, t, i)
<1>1. /\ Parsing /\ Holds(v) /\ ~Holds(w) /\ object[v].count[t] < Len(Kids(v, t))
      /\ object' = [object EXCEPT ![v] = Mark(@, t, 1), ![w] = NewObject(c)]
      /\ UNCHANGED <<swallowed, warned>>
      /\ Read({c}, {Element}) /\ opened' = opened \cup {c}
  BY DEF NextSubtree, HasNext, NextNode, Kids, Kid, reports
<1>2. m \in Nodes /\ object[v].count[t] \in Nat
  BY <1>1, HeldObject, KeysAreDistinct DEF Object
<1>3. i \in Places(m, t)
  BY <1>1, <1>2, KidsAreNodes DEF Kids, Places
<1> QED
  BY <1>1, <1>3, OpeningKid

LEMMA GetParameterKeeps ==
  ASSUME CountInv, NEW v \in Variables, NEW t \in Tags, GetParameter(v, t)
  PROVE  CountInv'
<1> DEFINE m == object[v].tree
           c == Kid(m, t, 1)
<1>1. /\ Parsing /\ Holds(v) /\ Unique(v, t) /\ Kids(v, t) # << >>
      /\ object' = [object EXCEPT ![v] = Mark(@, t, 1)]
      /\ Destroy({[NewObject(c) EXCEPT !.readData = TRUE]})
      /\ Read({c}, {Element, Data}) /\ opened' = opened \cup {c}
  BY DEF GetParameter, CanGet, Kids, Kid
<1>2. m \in Nodes /\ object[v].count[t] = 0
  BY <1>1, HeldObject, KeysAreDistinct
<1>3. 1 \in Places(m, t) /\ 1 = object[v].count[t] + 1
  BY <1>1, <1>2, DocumentAssumption DEF Kids, Places
<1> QED
  BY <1>1, <1>3, ReadingKid

LEMMA NextValueKeeps ==
  ASSUME CountInv, NEW v \in Variables, NEW t \in Tags, NextValue(v, t)
  PROVE  CountInv'
<1> DEFINE m == object[v].tree
           i == object[v].count[t] + 1
           c == Kid(m, t, i)
<1>1. /\ Parsing /\ Holds(v) /\ object[v].count[t] < Len(Kids(v, t))
      /\ object' = [object EXCEPT ![v] = Mark(@, t, 1)]
      /\ Destroy({[NewObject(c) EXCEPT !.readData = TRUE]})
      /\ Read({c}, {Element, Data}) /\ opened' = opened \cup {c}
  BY DEF NextValue, HasNext, NextNode, Kids, Kid
<1>2. m \in Nodes /\ object[v].count[t] \in Nat
  BY <1>1, HeldObject, KeysAreDistinct DEF Object
<1>3. i \in Places(m, t)
  BY <1>1, <1>2, KidsAreNodes DEF Kids, Places
<1> QED
  BY <1>1, <1>3, ReadingKid

(* A key is marked, and nothing is read.                                   *)
LEMMA MarkedObjectAgrees ==
  ASSUME NEW r \in Readings, NEW obj \in Object, obj.tree \in Nodes,
         WellCounted(obj), Agrees(r, obj), NEW k \in Keys
  PROVE  WellCounted(Mark(obj, k, 0)) /\ Agrees(r, Mark(obj, k, 0))
<1>1. /\ Mark(obj, k, 0).tree = obj.tree
      /\ Mark(obj, k, 0).visited = obj.visited \cup {k}
      /\ Mark(obj, k, 0).readData = obj.readData
      /\ Mark(obj, k, 0).count[k] = obj.count[k] + 0
      /\ \A l \in Keys \ {k} : Mark(obj, k, 0).count[l] = obj.count[l]
  BY MarkedObject
<1>2. obj.count[k] + 0 = obj.count[k]
  BY DEF Object
<1>3. \A l \in Keys : Mark(obj, k, 0).count[l] = obj.count[l]
  BY <1>1, <1>2
<1> QED
  BY <1>1, <1>3, KeysAreDistinct DEF WellCounted, Agrees

LEMMA MarkingKeeps ==
  ASSUME CountInv, Parsing, NEW v \in Variables, Holds(v), NEW t \in Tags,
         NEW obj \in Object, obj.tree = object[v].tree,
         obj.count = Mark(object[v], t, 0).count, obj.readData = object[v].readData,
         obj.visited = Mark(object[v], t, 0).visited,
         object' = [object EXCEPT ![v] = obj],
         UNCHANGED <<swallowed, warned, opened, reads>>
  PROVE  CountInv'
<1>1. /\ object[v] \in Object /\ object[v].tree \in Nodes /\ t \in Keys
      /\ WellCounted(object[v]) /\ Agrees(reads, object[v])
      /\ reads \in Readings /\ TypeOK
  BY HeldObject, KeysAreDistinct
<1>2. /\ WellCounted(Mark(object[v], t, 0)) /\ Agrees(reads, Mark(object[v], t, 0))
      /\ Mark(object[v], t, 0).tree = object[v].tree
      /\ Mark(object[v], t, 0).readData = object[v].readData
  BY <1>1, MarkedObjectAgrees, MarkedObject
<1>3. WellCounted(obj) /\ Agrees(reads', obj)
  BY <1>2 DEF WellCounted, Agrees
<1>4. /\ reads' \in Readings
      /\ \A n \in Nodes : SameAccount(reads, reads', n)
      /\ \A n \in Nodes : reads'[n][Element] >= reads[n][Element]
  BY <1>1, UnchangedAccounts
<1> QED
  BY <1>3, <1>4, OwnReading

LEMMA GetAbsentKeeps ==
  ASSUME CountInv, NEW v \in Variables, NEW t \in Tags, GetAbsent(v, t)
  PROVE  CountInv'
<1>1. /\ Parsing /\ Holds(v) /\ object' = [object EXCEPT ![v] = Mark(@, t, 0)]
      /\ UNCHANGED <<swallowed, warned, opened, reads>>
  BY DEF GetAbsent, reports, history
<1>2. /\ Mark(object[v], t, 0) \in Object /\ Mark(object[v], t, 0).tree = object[v].tree
      /\ Mark(object[v], t, 0).readData = object[v].readData
  BY <1>1, HeldObject, MarkedObject, KeysAreDistinct
<1> QED
  BY <1>1, <1>2, MarkingKeeps

LEMMA GetListKeeps ==
  ASSUME CountInv, NEW v \in Variables, NEW t \in Tags, GetList(v, t)
  PROVE  CountInv'
<1> DEFINE mark == Mark(object[v], t, 0)
           obj == Iterated(object[v], t)
<1>1. /\ Parsing /\ Holds(v) /\ object' = [object EXCEPT ![v] = obj]
      /\ UNCHANGED <<swallowed, warned, opened, reads>>
  BY DEF GetList, reports, history
<1>2. /\ mark \in Object /\ mark.tree = object[v].tree
      /\ mark.readData = object[v].readData
  BY <1>1, HeldObject, MarkedObject, KeysAreDistinct
<1> HIDE DEF mark
<1>3. /\ obj \in Object /\ obj.tree = mark.tree /\ obj.readData = mark.readData
      /\ obj.count = mark.count /\ obj.visited = mark.visited
  <2>1. obj = [mark EXCEPT !.lists = @ \cup {t}]
    BY DEF Iterated, mark
  <2> QED
    BY <1>2, <2>1 DEF Object
<1> QED
  BY <1>1, <1>2, <1>3, MarkingKeeps DEF mark

(* The first k children with a tag are ignored.                            *)
LEMMA IgnoringKids ==
  ASSUME CountInv, Parsing, NEW v \in Variables, Holds(v), NEW t \in Tags, Unique(v, t),
         NEW k \in Nat, k <= Len(Kids(v, t)),
         object' = [object EXCEPT ![v] = Mark(@, t, k)],
         Read({Kids(v, t)[i] : i \in 1 .. k}, {Element}),
         UNCHANGED <<swallowed, warned, opened>>
  PROVE  CountInv'
<1> DEFINE m == object[v].tree
           obj == Mark(object[v], t, k)
           kids == {Kid(m, t, i) : i \in 1 .. k}
<1>1. /\ object[v] \in Object /\ m \in Nodes /\ t \in Keys /\ object[v].count[t] = 0
      /\ WellCounted(object[v]) /\ Agrees(reads, object[v]) /\ reads \in Readings
  BY HeldObject, KeysAreDistinct
<1>2. /\ obj \in Object /\ obj.tree = m /\ obj.readData = object[v].readData
      /\ obj.visited = object[v].visited \cup {t} /\ obj.count[t] = k
      /\ \A l \in Keys \ {t} : obj.count[l] = object[v].count[l]
  BY <1>1, MarkedObject
<1>3. k <= Len(Children[m][t]) /\ 1 .. k \subseteq Places(m, t) /\ Read(kids, {Element})
  BY <1>1, KidsAreNodes DEF Kids, Kid, Places
<1>4. /\ reads' \in Readings
      /\ \A n \in Nodes, p \in Parts :
           reads'[n][p] = IF n \in kids /\ p \in {Element} THEN reads[n][p] + 1
                                                           ELSE reads[n][p]
  BY <1>1, <1>3, ReadingAdds
<1>5. WellCounted(obj)
  BY <1>1, <1>2, <1>3, OccurrencesAreCounts DEF WellCounted
<1>6. Agrees(reads', obj)
  <2>1. ASSUME NEW s \in Tags, NEW j \in Places(m, s)
        PROVE  reads'[Kid(m, s, j)][Element] = IF j <= obj.count[s] THEN 1 ELSE 0
    <3>1. /\ Kid(m, s, j) \in Nodes
          /\ reads[Kid(m, s, j)][Element] = IF j <= object[v].count[s] THEN 1 ELSE 0
      BY <1>1, KidsAreNodes DEF Agrees
    <3>2. Kid(m, s, j) \in kids <=> s = t /\ j <= k
      BY <1>1, <1>3, KidsAreDistinct DEF Places
    <3>3. CASE s = t
      BY <1>1, <1>2, <1>4, <3>1, <3>2, <3>3, KeysAreDistinct DEF Places
    <3>4. CASE s # t
      BY <1>2, <1>4, <3>1, <3>2, <3>4, KeysAreDistinct
    <3> QED
      BY <3>3, <3>4
  <2>2. \A p \in Parts \ {Element} : reads'[m][p] = reads[m][p]
    BY <1>1, <1>4
  <2> HIDE DEF obj
  <2> QED
    BY <1>1, <1>2, <2>1, <2>2, KeysAreDistinct DEF Agrees
<1>7. ASSUME NEW n \in Nodes \ {m}
      PROVE  SameAccount(reads, reads', n)
  <2>1. \A s \in Tags : \A j \in Places(n, s) : Kid(n, s, j) \notin kids
    BY <1>1, <1>3, KidsAreDistinct
  <2> QED
    BY <1>1, <1>3, <2>1, ReadingElsewhere
<1>8. \A n \in Nodes : reads'[n][Element] >= reads[n][Element]
  BY <1>1, <1>3, ReadingGrows
<1> HIDE DEF obj
<1> QED
  BY <1>2, <1>4, <1>5, <1>6, <1>7, <1>8, OwnReading DEF obj

LEMMA IgnoreParameterKeeps ==
  ASSUME CountInv, NEW v \in Variables, NEW t \in Tags, IgnoreParameter(v, t)
  PROVE  CountInv'
<1> DEFINE first == {Kids(v, t)[i] : i \in 1 .. Len(Kids(v, t)) \cap {1}}
           k == IF first = {} THEN 0 ELSE 1
<1>1. /\ Parsing /\ Holds(v) /\ Unique(v, t)
      /\ object' = [object EXCEPT ![v] = Mark(@, t, k)]
      /\ Read(first, {Element})
      /\ UNCHANGED <<swallowed, warned, opened>>
  BY DEF IgnoreParameter, reports
<1>2. Len(Kids(v, t)) \in Nat
  BY <1>1, HeldObject, KidsAreNodes DEF Kids
<1>3. k \in Nat /\ k <= Len(Kids(v, t)) /\ first = {Kids(v, t)[i] : i \in 1 .. k}
  <2>1. CASE Len(Kids(v, t)) = 0
    BY <2>1
  <2>2. CASE Len(Kids(v, t)) # 0
    <3>1. 1 .. Len(Kids(v, t)) \cap {1} = {1} /\ 1 .. 1 = {1}
      BY <1>2, <2>2
    <3> QED
      BY <1>2, <2>2, <3>1
  <2> QED
    BY <2>1, <2>2
<1> HIDE DEF k, first
<1> QED
  BY <1>1, <1>3, IgnoringKids

LEMMA IgnoreParameterAllKeeps ==
  ASSUME CountInv, NEW v \in Variables, NEW t \in Tags, IgnoreParameterAll(v, t)
  PROVE  CountInv'
<1>1. /\ Parsing /\ Holds(v) /\ Unique(v, t)
      /\ object' = [object EXCEPT ![v] = Mark(@, t, Len(Kids(v, t)))]
      /\ Read({Kids(v, t)[i] : i \in 1 .. Len(Kids(v, t))}, {Element})
      /\ UNCHANGED <<swallowed, warned, opened>>
  BY DEF IgnoreParameterAll, reports
<1>2. Len(Kids(v, t)) \in Nat /\ Len(Kids(v, t)) <= Len(Kids(v, t))
  BY <1>1, HeldObject, KidsAreNodes DEF Kids
<1> QED
  BY <1>1, <1>2, IgnoringKids

LEMMA GetAttributeKeeps ==
  ASSUME CountInv, NEW v \in Variables, NEW a \in Attributes, GetAttribute(v, a)
  PROVE  CountInv'
<1> DEFINE m == object[v].tree
           obj == Mark(object[v], a, Occurrences(m, a))
           nodes == IF a \in HasAttribute[m] THEN {m} ELSE {}
<1>1. /\ Parsing /\ Holds(v) /\ Unique(v, a)
      /\ object' = [object EXCEPT ![v] = obj]
      /\ Read(nodes, {a}) /\ UNCHANGED <<swallowed, warned, opened>>
  BY DEF GetAttribute, reports
<1>2. /\ object[v] \in Object /\ m \in Nodes /\ a \in Keys /\ object[v].count[a] = 0
      /\ WellCounted(object[v]) /\ Agrees(reads, object[v]) /\ reads \in Readings
  BY <1>1, HeldObject, KeysAreDistinct
<1>3. /\ Occurrences(m, a) \in Nat
      /\ Occurrences(m, a) = IF a \in HasAttribute[m] THEN 1 ELSE 0
  BY <1>2, OccurrencesAreCounts
<1>4. /\ obj \in Object /\ obj.tree = m /\ obj.readData = object[v].readData
      /\ obj.visited = object[v].visited \cup {a} /\ obj.count[a] = Occurrences(m, a)
      /\ \A l \in Keys \ {a} : obj.count[l] = object[v].count[l]
  <2>1. PICK times \in Nat : times = Occurrences(m, a)
    BY <1>3
  <2>2. /\ Mark(object[v], a, times) \in Object
        /\ Mark(object[v], a, times).tree = m
        /\ Mark(object[v], a, times).readData = object[v].readData
    BY <1>2, MarkedObject
  <2>3. /\ Mark(object[v], a, times).visited = object[v].visited \cup {a}
        /\ Mark(object[v], a, times).count[a] = object[v].count[a] + times
    BY <1>2, MarkedObject
  <2>4. \A l \in Keys \ {a} : Mark(object[v], a, times).count[l] = object[v].count[l]
    BY <1>2, MarkedObject
  <2> QED
    BY <1>2, <2>1, <2>2, <2>3, <2>4
<1>5. /\ reads' \in Readings
      /\ \A n \in Nodes, p \in Parts :
           reads'[n][p] = IF n \in nodes /\ p \in {a} THEN reads[n][p] + 1
                                                      ELSE reads[n][p]
  BY <1>1, <1>2, ReadingAdds
<1>6. Element # a /\ Data # a
  BY KeysAreDistinct
<1>7. WellCounted(obj)
  BY <1>2, <1>3, <1>4 DEF WellCounted
<1>8. Agrees(reads', obj)
  <2>1. ASSUME NEW s \in Tags, NEW j \in Places(m, s)
        PROVE  reads'[Kid(m, s, j)][Element] = IF j <= obj.count[s] THEN 1 ELSE 0
    BY <1>2, <1>4, <1>5, <1>6, KidsAreNodes, KeysAreDistinct DEF Agrees
  <2>2. ASSUME NEW b \in Attributes
        PROVE  reads'[m][b] = obj.count[b]
    BY <1>2, <1>3, <1>4, <1>5, KeysAreDistinct DEF Agrees
  <2>3. reads'[m][Data] = reads[m][Data]
    BY <1>2, <1>5, <1>6, KeysAreDistinct
  <2> HIDE DEF obj
  <2> QED
    BY <1>2, <1>4, <2>1, <2>2, <2>3 DEF Agrees
<1>9. ASSUME NEW n \in Nodes \ {m}
      PROVE  SameAccount(reads, reads', n)
  BY <1>1, <1>2, <1>6, ReadingElsewhere
<1>10. \A n \in Nodes : reads'[n][Element] >= reads[n][Element]
  BY <1>1, <1>2, ReadingGrows
<1> HIDE DEF obj
<1> QED
  BY <1>1, <1>4, <1>5, <1>7, <1>8, <1>9, <1>10, OwnReading DEF obj

LEMMA GetValueKeeps ==
  ASSUME CountInv, NEW v \in Variables, GetValue(v)
  PROVE  CountInv'
<1> DEFINE m == object[v].tree
           obj == [object[v] EXCEPT !.readData = TRUE]
<1>1. /\ Parsing /\ Holds(v) /\ ~object[v].readData
      /\ object' = [object EXCEPT ![v] = obj]
      /\ Read({m}, {Data}) /\ UNCHANGED <<swallowed, warned, opened>>
  BY DEF GetValue, reports
<1>2. /\ object[v] \in Object /\ m \in Nodes
      /\ WellCounted(object[v]) /\ Agrees(reads, object[v]) /\ reads \in Readings
  BY <1>1, HeldObject
<1>3. /\ obj \in Object /\ obj.tree = m /\ obj.readData = TRUE
      /\ obj.visited = object[v].visited /\ obj.count = object[v].count
  BY <1>2 DEF Object
<1>4. /\ reads' \in Readings
      /\ \A n \in Nodes, p \in Parts :
           reads'[n][p] = IF n \in {m} /\ p \in {Data} THEN reads[n][p] + 1
                                                       ELSE reads[n][p]
  BY <1>1, <1>2, ReadingAdds
<1> HIDE DEF obj
<1>5. WellCounted(obj)
  BY <1>2, <1>3 DEF WellCounted
<1>6. Agrees(reads', obj)
  <2>1. ASSUME NEW s \in Tags, NEW j \in Places(m, s)
        PROVE  reads'[Kid(m, s, j)][Element] = IF j <= obj.count[s] THEN 1 ELSE 0
    BY <1>2, <1>3, <1>4, KidsAreNodes, KeysAreDistinct DEF Agrees
  <2>2. ASSUME NEW b \in Attributes
        PROVE  reads'[m][b] = obj.count[b]
    BY <1>2, <1>3, <1>4, KeysAreDistinct DEF Agrees
  <2>3. reads'[m][Data] = 1
    BY <1>1, <1>2, <1>4, KeysAreDistinct DEF Agrees
  <2> QED
    BY <1>2, <1>3, <2>1, <2>2, <2>3 DEF Agrees
<1>7. ASSUME NEW n \in Nodes \ {m}
      PROVE  SameAccount(reads, reads', n)
  BY <1>1, <1>2, KeysAreDistinct, ReadingElsewhere
<1>8. \A n \in Nodes : reads'[n][Element] >= reads[n][Element]
  BY <1>1, <1>2, ReadingGrows
<1> QED
  BY <1>1, <1>3, <1>4, <1>5, <1>6, <1>7, <1>8, OwnReading DEF obj

(* Objects are passed on or lost, those of the nodes gone with a report.   *)
LEMMA PassingOn ==
  ASSUME CountInv, phase # "failed", phase' \in Phases \ {"failed", "succeeded"},
         UNCHANGED <<ruthless, opened, reads>>,
         object' \in [Variables -> Object], OneObjectPerElement',
         \A u \in Variables : object'[u] = Nothing \/ \E y \in Variables : object'[u] = object[y],
         NEW gone \in SUBSET opened, \A n \in gone : Reported(n)' /\ ~Held(n)',
         swallowed' \subseteq Nodes, warned' \in [Nodes -> SUBSET (Keys \cup {Data})],
         \A n \in Nodes \ gone : /\ Held(n) => Held(n)'
                                 /\ n \in swallowed' <=> n \in swallowed
                                 /\ warned'[n] = warned[n]
  PROVE  CountInv'
<1>1. /\ TypeOK /\ Root \in opened /\ Null \notin Nodes
      /\ HeldAreOpened /\ \A n \in Nodes : NodeInv(n)
      /\ opened \subseteq Nodes /\ reads \in Readings
  BY NamesAssumption DEF CountInv, TypeOK, Readings
<1>2. /\ Nothing.tree = Null /\ \A k \in Keys : Nothing.count[k] = 0
  BY NewObjectCounts DEF Nothing
<1>3. TypeOK'
  <2>1. ASSUME NEW u \in Variables, NEW k \in Keys
        PROVE  /\ object'[u].count[k] > 0 =>
                    object'[u].tree # Null /\ k \in object'[u].visited
               /\ object'[u].tree # Null =>
                    object'[u].count[k] <= Occurrences(object'[u].tree, k)
    BY <1>1, <1>2 DEF TypeOK, Holds
  <2> QED
    BY <1>1, <2>1 DEF TypeOK, Holds
<1>4. HeldAreOpened' /\ SuccessIsSilent'
  BY <1>1, <1>2 DEF HeldAreOpened, SuccessIsSilent, Holds
<1>5. ASSUME NEW n \in Nodes \ gone
      PROVE  NodeInv(n)'
  <2>1. \A u \in Variables : object'[u].tree = n =>
           \E y \in Variables : object'[u] = object[y]
    BY <1>1, <1>2
  <2>2. /\ reads' \in Readings /\ SameAccount(reads, reads', n)
        /\ reads'[n][Element] >= reads[n][Element]
    BY <1>1, UnchangedAccounts
  <2> QED
    BY <1>1, <2>1, <2>2, OtherNode
<1>6. ASSUME NEW n \in gone
      PROVE  NodeInv(n)'
  <2>1. n \in Nodes /\ n \in opened /\ NodeInv(n)
    BY <1>1
  <2>2. (n # Root => reads[n][Element] > 0)'
    BY <2>1 DEF NodeInv
  <2> QED
    BY <2>1, <2>2 DEF NodeInv, Held
<1> QED
  BY <1>1, <1>3, <1>4, <1>5, <1>6 DEF CountInv

(* A check outside of a destructor reports the same, if it does not throw. *)
LEMMA CheckIsDestroy ==
  ASSUME TypeOK, NEW o \in Object, Check(o)
  PROVE  Destroy({o})
<1>1. CASE ruthless
  <2>1. swallowed' = swallowed /\ Mismatches(o) = {}
    BY <1>1 DEF Check
  <2>2. warned' = [n \in Nodes |-> warned[n] \cup
                     UNION {Mismatches(obj) : obj \in {q \in {} : q.tree = n}}]
    BY <1>1 DEF Check, Warn
  <2>3. warned' = [n \in Nodes |-> warned[n]]
    BY <2>2
  <2>4. warned' = warned
    BY <2>3 DEF TypeOK
  <2>5. {p.tree : p \in {q \in {o} : Mismatches(q) # {}}} = {}
    BY <2>1
  <2> QED
    BY <1>1, <2>1, <2>4, <2>5 DEF Destroy
<1>2. CASE ~ruthless
  BY <1>2, Zenon DEF Check, Destroy
<1> QED
  BY <1>1, <1>2

(* The object of v is destroyed, and its node has no object any more.      *)
LEMMA Losing ==
  ASSUME CountInv, phase # "failed", phase' \in Phases \ {"failed", "succeeded"},
         UNCHANGED <<ruthless, opened, reads>>,
         NEW v \in Variables, Holds(v), Destroy({object[v]}),
         object' \in [Variables -> Object], OneObjectPerElement',
         \A u \in Variables : object'[u] = Nothing \/ \E y \in Variables : object'[u] = object[y],
         NEW n, n = object[v].tree, ~Held(n)',
         \A k \in Nodes \ {n} : Held(k) => Held(k)'
  PROVE  CountInv'
<1>1. /\ object[v] \in Object /\ object[v].tree \in Nodes
      /\ WellCounted(object[v]) /\ Agrees(reads, object[v])
      /\ reads \in Readings /\ TypeOK
  BY LiveObject
<1>2. n \in Nodes
  BY <1>1
<1>3. n \in opened /\ Unreported(n)
  BY <1>2 DEF CountInv, HeldAreOpened, NodeInv
<1>4. Reported(n)'
  BY <1>1, <1>2, <1>3, DestroyedIsReported
<1>5. /\ swallowed' \subseteq Nodes /\ warned' \in [Nodes -> SUBSET (Keys \cup {Data})]
      /\ \A k \in Nodes \ {n} :
           (k \in swallowed' <=> k \in swallowed) /\ warned'[k] = warned[k]
  BY <1>1, <1>2, Destroying
<1>6. /\ {n} \in SUBSET opened
      /\ \A k \in {n} : Reported(k)' /\ ~Held(k)'
      /\ \A k \in Nodes \ {n} : /\ Held(k) => Held(k)'
                                /\ k \in swallowed' <=> k \in swallowed
                                /\ warned'[k] = warned[k]
  BY <1>3, <1>4, <1>5
<1> QED
  BY <1>5, <1>6, PassingOn

LEMMA MoveConstructKeeps ==
  ASSUME CountInv, NEW v \in Variables, NEW w \in Variables, MoveConstruct(v, w)
  PROVE  CountInv'
<1>1. /\ phase = "parsing" /\ phase' = "parsing" /\ Holds(v) /\ ~Holds(w)
      /\ object' = [object EXCEPT ![w] = object[v], ![v] = Nothing]
      /\ UNCHANGED <<ruthless, swallowed, warned, opened, reads>>
  BY DEF MoveConstruct, Movable, MovedFrom, Parsing, reports, history
<1>2. Nothing \in Object /\ Nothing.tree = Null
  BY NewObjectCounts DEF Nothing
<1>3. /\ object \in [Variables -> Object] /\ v # w
      /\ object'[w] = object[v] /\ object'[v] = Nothing
      /\ \A u \in Variables \ {v, w} : object'[u] = object[u]
      /\ object' \in [Variables -> Object]
  BY <1>1, <1>2 DEF CountInv, TypeOK, Holds
<1>4. OneObjectPerElement'
  BY <1>1, <1>2, <1>3 DEF CountInv, OneObjectPerElement, Holds
<1>5. \A n \in Nodes : Held(n) => Held(n)'
  BY <1>1, <1>3, NamesAssumption DEF Held, Holds
<1>6. swallowed' \subseteq Nodes /\ warned' \in [Nodes -> SUBSET (Keys \cup {Data})]
  BY <1>1 DEF CountInv, TypeOK
<1>7. \A u \in Variables : object'[u] = Nothing \/ \E y \in Variables : object'[u] = object[y]
  BY <1>3
<1>8. {} \in SUBSET opened /\ phase' \in Phases \ {"failed", "succeeded"}
  BY <1>1 DEF Phases
<1> QED
  BY <1>1, <1>3, <1>4, <1>5, <1>6, <1>7, <1>8, PassingOn

LEMMA MoveAssignKeeps ==
  ASSUME CountInv, NEW v \in Variables, NEW w \in Variables, MoveAssign(v, w)
  PROVE  CountInv'
<1>1. /\ phase = "parsing" /\ phase' = "parsing" /\ Holds(v) /\ Holds(w) /\ v # w
      /\ object' = [object EXCEPT ![w] = object[v], ![v] = Nothing]
      /\ UNCHANGED <<ruthless, opened, reads>> /\ Check(object[w])
  BY DEF MoveAssign, Movable, MovedFrom, Parsing, history
<1>2. Nothing \in Object /\ Nothing.tree = Null
  BY NewObjectCounts DEF Nothing
<1>3. /\ object \in [Variables -> Object] /\ TypeOK
      /\ object'[w] = object[v] /\ object'[v] = Nothing
      /\ \A u \in Variables \ {v, w} : object'[u] = object[u]
      /\ object' \in [Variables -> Object]
  BY <1>1, <1>2 DEF CountInv, TypeOK
<1>4. OneObjectPerElement'
  BY <1>1, <1>2, <1>3 DEF CountInv, OneObjectPerElement, Holds
<1>5. PICK n \in Nodes : n = object[w].tree
  BY <1>1, <1>3 DEF Object, Holds
<1>6. ~Held(n)'
  BY <1>1, <1>2, <1>3, <1>5, NamesAssumption DEF CountInv, OneObjectPerElement, Held, Holds
<1>7. \A k \in Nodes \ {n} : Held(k) => Held(k)'
  BY <1>1, <1>3, <1>5 DEF Held
<1>8. \A u \in Variables : object'[u] = Nothing \/ \E y \in Variables : object'[u] = object[y]
  BY <1>3
<1>9. Destroy({object[w]})
  BY <1>1, <1>3, CheckIsDestroy
<1>10. phase # "failed" /\ phase' \in Phases \ {"failed", "succeeded"}
  BY <1>1 DEF Phases
<1> QED
  BY <1>1, <1>3, <1>4, <1>5, <1>6, <1>7, <1>8, <1>9, <1>10, Losing

(* Its object is destroyed, and nothing else happens to the objects.       *)
LEMMA DestroyedAlone ==
  ASSUME CountInv, phase # "failed", phase' \in Phases \ {"failed", "succeeded"},
         UNCHANGED <<ruthless, opened, reads>>,
         NEW v \in Variables, Holds(v), Destroy({object[v]}),
         object' = [object EXCEPT ![v] = Nothing]
  PROVE  CountInv'
<1>1. Nothing \in Object /\ Nothing.tree = Null
  BY NewObjectCounts DEF Nothing
<1>2. /\ object \in [Variables -> Object]
      /\ object'[v] = Nothing /\ object' \in [Variables -> Object]
      /\ \A u \in Variables \ {v} : object'[u] = object[u]
  BY <1>1 DEF CountInv, TypeOK
<1>3. OneObjectPerElement'
  BY <1>1, <1>2 DEF CountInv, OneObjectPerElement, Holds
<1>4. PICK n \in Nodes : n = object[v].tree
  BY <1>2 DEF Object, Holds
<1>5. ~Held(n)'
  BY <1>1, <1>2, <1>4, NamesAssumption DEF CountInv, OneObjectPerElement, Held, Holds
<1>6. \A k \in Nodes \ {n} : Held(k) => Held(k)'
  BY <1>2, <1>4 DEF Held
<1>7. \A u \in Variables : object'[u] = Nothing \/ \E y \in Variables : object'[u] = object[y]
  BY <1>2
<1> QED
  BY <1>2, <1>3, <1>4, <1>5, <1>6, <1>7, Losing

LEMMA DestructKeeps ==
  ASSUME CountInv, NEW v \in Variables, Destruct(v)
  PROVE  CountInv'
<1>1. /\ phase # "failed" /\ phase' \in Phases \ {"failed", "succeeded"}
      /\ UNCHANGED <<ruthless, opened, reads>>
      /\ Holds(v) /\ Destroy({object[v]})
      /\ object' = [object EXCEPT ![v] = Nothing]
  BY DEF Destruct, history, Phases
<1> QED
  BY <1>1, DestroyedAlone

LEMMA StartSimulationKeeps ==
  ASSUME CountInv, StartSimulation
  PROVE  CountInv'
<1>1. PICK v \in Variables : /\ object[v].tree = Root /\ Check(object[v])
                             /\ object' = [object EXCEPT ![v] = Nothing]
  BY DEF StartSimulation
<1>2. /\ phase # "failed" /\ phase' \in Phases \ {"failed", "succeeded"}
      /\ UNCHANGED <<ruthless, opened, reads>>
  BY DEF StartSimulation, history, Phases
<1>3. Holds(v) /\ Destroy({object[v]})
  BY <1>1, CheckIsDestroy, NamesAssumption DEF Holds, CountInv, TypeOK
<1> QED
  BY <1>1, <1>2, <1>3, DestroyedAlone

LEMMA FinishKeeps ==
  ASSUME CountInv, Finish
  PROVE  CountInv'
<1>1. /\ phase = "simulating" /\ phase' = "succeeded" /\ swallowed = {}
      /\ \A v \in Variables : ~Holds(v)
      /\ UNCHANGED <<ruthless, object, swallowed, warned, opened, reads>>
  BY DEF Finish, NoSwallowedErrors, reports, history
<1>2. TypeOK' /\ OneObjectPerElement' /\ Root \in opened'
  BY <1>1 DEF CountInv, TypeOK, OneObjectPerElement, Holds, Phases
<1>3. HeldAreOpened' /\ SuccessIsSilent'
  BY <1>1 DEF HeldAreOpened, SuccessIsSilent, Holds
<1>4. \A n \in Nodes : NodeInv(n)'
  BY <1>1 DEF CountInv, NodeInv, Held, Reported, Unreported
<1> QED
  BY <1>2, <1>3, <1>4 DEF CountInv

LEMMA ThrowKeeps ==
  ASSUME CountInv, Throw
  PROVE  CountInv'
<1>1. /\ phase' = "failed" /\ object' = [v \in Variables |-> Nothing]
      /\ UNCHANGED <<ruthless, swallowed, warned, opened, reads>>
  BY DEF Throw, reports, history
<1>2. /\ Nothing \in Object /\ Nothing.tree = Null
      /\ \A k \in Keys : Nothing.count[k] = 0
  BY NewObjectCounts DEF Nothing
<1> QED
  BY <1>1, <1>2 DEF CountInv, TypeOK, OneObjectPerElement, Holds, Phases

LEMMA StutteringKeeps ==
  ASSUME CountInv, UNCHANGED vars
  PROVE  CountInv'
BY DEF CountInv, TypeOK, OneObjectPerElement, HeldAreOpened, SuccessIsSilent, NodeInv,
       Held, Holds, Reported, Unreported, vars, reports, history

-----------------------------------------------------------------------------
(* The theorems *)

LEMMA InitCounts == Init => CountInv
<1> SUFFICES ASSUME Init PROVE CountInv
  OBVIOUS
<1>1. PICK v \in Variables :
        object = [w \in Variables |-> IF w = v THEN NewObject(Root) ELSE Nothing]
  BY DEF Init
<1>2. /\ phase = "parsing" /\ ruthless \in BOOLEAN
      /\ swallowed = {} /\ warned = [n \in Nodes |-> {}]
      /\ opened = {Root} /\ reads = [n \in Nodes |-> [p \in Parts |-> 0]]
  BY DEF Init
<1>3. \A n \in Nodes : Unread(reads, n) /\ Unreported(n)
  BY <1>2, KidsAreNodes, KeysAreDistinct DEF Unread, Unreported
<1>4. reads \in Readings /\ Root \in Nodes /\ Null \notin Nodes
  BY <1>2, NamesAssumption DEF Readings
<1>5. /\ Nothing \in Object /\ Nothing.tree = Null
      /\ \A k \in Keys : Nothing.count[k] = 0
  BY NewObjectCounts DEF Nothing
<1>6. /\ NewObject(Root) \in Object /\ NewObject(Root).tree = Root
      /\ \A k \in Keys : NewObject(Root).count[k] = 0
      /\ WellCounted(NewObject(Root)) /\ Agrees(reads, NewObject(Root))
  BY <1>3, <1>4, NewObjectCounts
<1>7. /\ object[v] = NewObject(Root) /\ object \in [Variables -> Object]
      /\ \A w \in Variables \ {v} : object[w] = Nothing
  BY <1>1, <1>5, <1>6
<1>8. TypeOK
  BY <1>2, <1>4, <1>5, <1>6, <1>7 DEF TypeOK, WellCounted, Holds, Phases, Readings
<1>9. OneObjectPerElement
  BY <1>5, <1>7 DEF OneObjectPerElement, Holds
<1>10. HeldAreOpened /\ SuccessIsSilent
  BY <1>2, <1>5, <1>6, <1>7 DEF HeldAreOpened, SuccessIsSilent, Holds
<1>11. ASSUME NEW n \in Nodes
       PROVE  NodeInv(n)
  BY <1>2, <1>3, <1>4, <1>5, <1>6, <1>7 DEF NodeInv, Held
<1> QED
  BY <1>2, <1>8, <1>9, <1>10, <1>11 DEF CountInv

LEMMA StepCounts == CountInv /\ [Next]_vars => CountInv'
<1> SUFFICES ASSUME CountInv, [Next]_vars PROVE CountInv'
  OBVIOUS
<1>1. CASE UNCHANGED vars
  BY <1>1, StutteringKeeps
<1>2. ASSUME NEW v \in Variables, NEW t \in Tags, NEW w \in Variables,
             GetSubtree(v, t, w) \/ NextSubtree(v, t, w)
      PROVE  CountInv'
  BY <1>2, GetSubtreeKeeps, NextSubtreeKeeps
<1>3. ASSUME NEW v \in Variables, NEW t \in Tags,
             \/ GetParameter(v, t) \/ GetAbsent(v, t) \/ GetList(v, t) \/ NextValue(v, t)
             \/ IgnoreParameter(v, t) \/ IgnoreParameterAll(v, t)
      PROVE  CountInv'
  BY <1>3, GetParameterKeeps, GetAbsentKeeps, GetListKeeps, NextValueKeeps,
     IgnoreParameterKeeps, IgnoreParameterAllKeeps
<1>4. ASSUME NEW v \in Variables, NEW a \in Attributes, GetAttribute(v, a)
      PROVE  CountInv'
  BY <1>4, GetAttributeKeeps
<1>5. ASSUME NEW v \in Variables, NEW w \in Variables,
             MoveConstruct(v, w) \/ MoveAssign(v, w)
      PROVE  CountInv'
  BY <1>5, MoveConstructKeeps, MoveAssignKeeps
<1>6. ASSUME NEW v \in Variables, GetValue(v) \/ Destruct(v)
      PROVE  CountInv'
  BY <1>6, GetValueKeeps, DestructKeeps
<1>7. CASE StartSimulation \/ Finish \/ Throw
  BY <1>7, StartSimulationKeeps, FinishKeeps, ThrowKeeps
<1> QED
  BY <1>1, <1>2, <1>3, <1>4, <1>5, <1>6, <1>7 DEF Next

LEMMA CountsAgree == Spec => []CountInv
BY InitCounts, StepCounts, PTL DEF Spec

LEMMA MisreadIsMisreadIn ==
  ASSUME NEW n \in Nodes
  PROVE  Misread(n) = MisreadIn(reads, n)
BY DEF Misread, MisreadIn, Places, Kid

(* Every variable keeps its type, and no setting is counted more often     *)
(* than it occurs in the document.                                         *)
THEOREM TypeCorrect == Spec => []TypeOK
<1>1. CountInv => TypeOK
  BY DEF CountInv
<1> QED
  BY CountsAgree, <1>1, PTL

(* No two objects ever count for the same element.                         *)
THEOREM OneObject == Spec => []OneObjectPerElement
<1>1. CountInv => OneObjectPerElement
  BY DEF CountInv
<1> QED
  BY CountsAgree, <1>1, PTL

(* An element whose object is gone has been reported if and only if one of *)
(* its settings was not read exactly once.                                 *)
THEOREM ReportsAreExact == Spec => []ReportedIffMisread
<1>1. CountInv => ReportedIffMisread
  <2> SUFFICES ASSUME CountInv, phase # "failed", NEW n \in opened, ~Held(n)
               PROVE  IF ruthless THEN n \in swallowed <=> Misread(n) # {}
                                  ELSE warned[n] = Misread(n)
    BY DEF ReportedIffMisread
  <2>1. n \in Nodes /\ NodeInv(n)
    BY DEF CountInv, TypeOK
  <2> QED
    BY <2>1, MisreadIsMisreadIn DEF NodeInv, Reported
<1> QED
  BY CountsAgree, <1>1, PTL

(* A ruthless program that succeeds has read all it opened exactly once.   *)
THEOREM SuccessIsComplete == Spec => []SuccessMeansReadOnce
<1>1. CountInv => SuccessMeansReadOnce
  <2> SUFFICES ASSUME CountInv, phase = "succeeded", ruthless
               PROVE  Root \in opened /\ \A n \in opened : Misread(n) = {}
    BY DEF SuccessMeansReadOnce
  <2>1. ASSUME NEW n \in opened
        PROVE  Misread(n) = {}
    <3>1. n \in Nodes /\ NodeInv(n) /\ n \notin swallowed
      BY DEF CountInv, TypeOK, SuccessIsSilent
    <3>2. ~Held(n)
      BY <3>1, NamesAssumption DEF CountInv, SuccessIsSilent, Held, Holds
    <3> QED
      BY <3>1, <3>2, MisreadIsMisreadIn DEF NodeInv, Reported
  <2> QED
    BY <2>1 DEF CountInv
<1> QED
  BY CountsAgree, <1>1, PTL

(* A ruthless program begins to simulate only if all it has opened was     *)
(* read exactly once, except what is kept for later.                       *)
THEOREM SimulationIsWellRead == Spec => SimulatesOnlyWellRead
<1> DEFINE WellRead == phase = "parsing" /\ phase' = "simulating" /\ ruthless =>
              \A n \in opened : Misread(n) = {} \/ (Held(n) /\ n # Root)
<1>1. CountInv /\ [Next]_vars => [WellRead]_vars
  <2> SUFFICES ASSUME CountInv, Next, phase = "parsing", phase' = "simulating", ruthless,
                      NEW n \in opened, ~(Held(n) /\ n # Root)
               PROVE  Misread(n) = {}
    OBVIOUS
  <2>1. StartSimulation
    BY DEF Next, GetSubtree, NextSubtree, GetParameter, GetAbsent, GetList, NextValue, CanGet,
           HasNext, IgnoreParameter, IgnoreParameterAll, GetAttribute, MoveConstruct, MoveAssign,
           GetValue, Destruct, Finish, Throw, Parsing
  <2>2. PICK v \in Variables : object[v].tree = Root /\ Check(object[v])
    BY <2>1 DEF StartSimulation
  <2>3. n \in Nodes /\ NodeInv(n) /\ n \notin swallowed
    BY <2>1 DEF CountInv, TypeOK, StartSimulation, NoSwallowedErrors
  <2>4. CASE ~Held(n)
    BY <2>3, <2>4, MisreadIsMisreadIn DEF NodeInv, Reported
  <2>5. CASE n = Root
    <3>1. Holds(v) /\ Mismatches(object[v]) = {}
      BY <2>2, NamesAssumption DEF Holds, Check
    <3>2. Mismatches(object[v]) = MisreadIn(reads, object[v].tree)
      BY <3>1, LiveObject, MismatchesAreMisread
    <3> QED
      BY <2>2, <2>3, <2>5, <3>1, <3>2, MisreadIsMisreadIn
  <2> QED
    BY <2>4, <2>5
<1> QED
  BY CountsAgree, <1>1, PTL DEF Spec, SimulatesOnlyWellRead
=============================================================================
