------------------------------ MODULE ConfigTree ------------------------------
(***************************************************************************)
(* BaseLib::ConfigTree, through which the whole project file is read, and  *)
(* what the command line program does with its reports.  An object counts  *)
(* how often each setting one level below its node was read, and compares  *)
(* the counts with the document when it is destroyed.  In a ruthless       *)
(* program a mismatch is an error, which a destructor can only note.       *)
(*                                                                         *)
(* The creating functions of all components make the calls, in any order.  *)
(* An object does not know its parent and may outlive it: the boundary     *)
(* conditions' objects are kept until after the simulation.                *)
(***************************************************************************)
EXTENDS Integers, Sequences

CONSTANTS
  Nodes,        \* the elements of the document
  Root,         \* its toplevel element
  Null,         \* nullptr
  Tags,
  Attributes,
  Children,     \* of each node, its children with each tag, in their order
  HasAttribute, \* of each node, its attributes
  HasData,      \* the nodes with immediate data
  Convertible,  \* the nodes whose data have the type they are read with
  Variables     \* the variables that may hold a ConfigTree

Keys == Tags \cup Attributes

(* What of an element is read besides its attributes and children.         *)
Element == "element"
Data == "immediate data"
Parts == Attributes \cup {Element, Data}

ASSUME NamesAssumption ==
  /\ Root \in Nodes /\ Null \notin Nodes
  /\ Tags \cap Attributes = {} /\ Keys \cap {Element, Data} = {}

(* The document is a tree: no element occurs twice in it.                  *)
ASSUME DocumentAssumption ==
  /\ Children \in [Nodes -> [Tags -> Seq(Nodes \ {Root})]]
  /\ HasAttribute \in [Nodes -> SUBSET Attributes]
  /\ HasData \subseteq Nodes /\ Convertible \subseteq Nodes
  /\ \A m, n \in Nodes, s, t \in Tags :
       \A i \in 1 .. Len(Children[m][s]), j \in 1 .. Len(Children[n][t]) :
         Children[m][s][i] = Children[n][t][j] => m = n /\ s = t /\ i = j

VARIABLES
  ruthless,   \* whether warnings are errors
  phase,      \* of the program
  object,     \* what each variable holds
  swallowed,  \* configtree_destructor_error_messages: the nodes they are about
  warned,     \* the warnings printed: of each node, the keys they are about
  opened,     \* history: the nodes a ConfigTree was made for
  reads       \* history: how often each part of each element was read or ignored

Phases == {"parsing", "simulating", "succeeded", "failed"}

reports == <<swallowed, warned>>
history == <<opened, reads>>
vars == <<ruthless, phase, object, reports, history>>

(* An object: _tree, the keys of _visited_params and their counts,         *)
(* _have_read_data, and the tags whose list its user is iterating over.    *)
Object == [tree: Nodes \cup {Null}, visited: SUBSET Keys, count: [Keys -> Nat],
           readData: BOOLEAN, lists: SUBSET Tags]

NewObject(n) == [tree |-> n, visited |-> {}, count |-> [k \in Keys |-> 0],
                 readData |-> FALSE, lists |-> {}]

(* A variable out of scope, or whose object is moved from or invalidated.  *)
Nothing == NewObject(Null)

Holds(v) == object[v].tree # Null
Kids(v, t) == Children[object[v].tree][t]

-----------------------------------------------------------------------------
(* One object *)

ReadAgain(v, k) == k \in Keys   \* a mutant of Unique

(* checkUnique and checkUniqueAttr.                                        *)
Unique(v, k) == k \notin object[v].visited

(* markVisited, and what its callers add to the count.                     *)
Mark(obj, k, times) == [obj EXCEPT !.visited = @ \cup {k}, !.count[k] = @ + times]

Occurrences(n, k) ==
  IF k \in Tags THEN Len(Children[n][k])
                ELSE IF k \in HasAttribute[n] THEN 1 ELSE 0

(* What checkAndInvalidate finds: the keys whose count is not 0 after its  *)
(* decrements, and data that were not read.                                *)
Mismatches(obj) ==
  IF obj.tree = Null THEN {}
  ELSE {k \in Keys : obj.count[k] # Occurrences(obj.tree, k)}
         \cup {k \in {Data} : obj.tree \in HasData /\ ~obj.readData}

KeepsTree(obj) == NewObject(obj.tree)   \* a mutant of MovedFrom

MovedFrom(obj) == Nothing

Warn(objs) ==
  warned' = [n \in Nodes |-> warned[n] \cup
               UNION {Mismatches(obj) : obj \in {o \in objs : o.tree = n}}]

OnlyWarn(objs) == Warn(objs) /\ UNCHANGED swallowed   \* a mutant of Destroy

(* The destructors of objs.  An error would be thrown at the first         *)
(* mismatch, is caught and noted; a mere warning is printed for all.       *)
Destroy(objs) ==
  IF ruthless
  THEN /\ swallowed' = swallowed \cup {o.tree : o \in {p \in objs : Mismatches(p) # {}}}
       /\ UNCHANGED warned
  ELSE Warn(objs) /\ UNCHANGED swallowed

NotChecked(obj) == UNCHANGED reports   \* a mutant of Check

(* checkAndInvalidate outside of a destructor, if it does not throw.       *)
Check(obj) ==
  /\ ruthless => Mismatches(obj) = {}
  /\ Warn(IF ruthless THEN {} ELSE {obj})
  /\ UNCHANGED swallowed

-----------------------------------------------------------------------------
(* Reading.  These are the calls that return; see Throw for the others.    *)

Parsing == phase = "parsing" /\ UNCHANGED <<ruthless, phase>>

Read(nodes, parts) ==
  reads' = [n \in Nodes |-> [p \in Parts |->
              reads[n][p] + (IF n \in nodes /\ p \in parts THEN 1 ELSE 0)]]

(* A first read of the only child with a tag, or of the first of several.  *)
CanGet(v, t) == Parsing /\ Holds(v) /\ Unique(v, t) /\ Kids(v, t) # << >>

(* getConfigSubtree, getConfigParameter without a type and their optional  *)
(* versions.  The object is moved out of an optional.                      *)
GetSubtree(v, t, w) ==
  /\ CanGet(v, t) /\ ~Holds(w)
  /\ LET child == NewObject(Kids(v, t)[1]) IN
     /\ object' = [object EXCEPT ![v] = Mark(@, t, 1), ![w] = child]
     /\ Destroy({MovedFrom(child)})
     /\ Read({child.tree}, {Element})
     /\ opened' = opened \cup {child.tree}

(* getConfigParameter<T> and its versions, and checkConfigParameter: the   *)
(* object is destroyed as soon as its data are read.                       *)
GetParameter(v, t) ==
  /\ CanGet(v, t)
  /\ LET n == Kids(v, t)[1] IN
     /\ n \in Convertible
     /\ object' = [object EXCEPT ![v] = Mark(@, t, 1)]
     /\ Destroy({[NewObject(n) EXCEPT !.readData = TRUE]})
     /\ Read({n}, {Element, Data})
     /\ opened' = opened \cup {n}

(* The optional versions and those with a default value, without a child.  *)
GetAbsent(v, t) ==
  /\ Parsing /\ Holds(v) /\ Unique(v, t) /\ Kids(v, t) = << >>
  /\ object' = [object EXCEPT ![v] = Mark(@, t, 0)]
  /\ UNCHANGED <<reports, history>>

Iterated(obj, t) == [Mark(obj, t, 0) EXCEPT !.lists = @ \cup {t}]

(* getConfigSubtreeList, getConfigParameterList: a range of iterators,     *)
(* which refer to the object.                                              *)
GetList(v, t) ==
  /\ Parsing /\ Holds(v) /\ Unique(v, t)
  /\ object' = [object EXCEPT ![v] = Iterated(@, t)]
  /\ UNCHANGED <<reports, history>>

(* The element after those already counted, in a range-based for loop.     *)
HasNext(v, t) ==
  Parsing /\ Holds(v) /\ t \in object[v].lists /\ object[v].count[t] < Len(Kids(v, t))
NextNode(v, t) == Kids(v, t)[object[v].count[t] + 1]

(* operator* of a SubtreeIterator or ParameterIterator.                    *)
NextSubtree(v, t, w) ==
  /\ HasNext(v, t) /\ ~Holds(w)
  /\ object' = [object EXCEPT ![v] = Mark(@, t, 1), ![w] = NewObject(NextNode(v, t))]
  /\ Read({NextNode(v, t)}, {Element})
  /\ opened' = opened \cup {NextNode(v, t)}
  /\ UNCHANGED reports

(* operator* of a ValueIterator.                                           *)
NextValue(v, t) ==
  /\ HasNext(v, t) /\ NextNode(v, t) \in Convertible
  /\ object' = [object EXCEPT ![v] = Mark(@, t, 1)]
  /\ Destroy({[NewObject(NextNode(v, t)) EXCEPT !.readData = TRUE]})
  /\ Read({NextNode(v, t)}, {Element, Data})
  /\ opened' = opened \cup {NextNode(v, t)}

(* ignoreConfigParameter takes one child for read, if there is one.        *)
IgnoreParameter(v, t) ==
  /\ Parsing /\ Holds(v) /\ Unique(v, t)
  /\ LET first == {Kids(v, t)[i] : i \in 1 .. Len(Kids(v, t)) \cap {1}} IN
     /\ object' = [object EXCEPT ![v] = Mark(@, t, IF first = {} THEN 0 ELSE 1)]
     /\ Read(first, {Element})
  /\ UNCHANGED <<reports, opened>>

IgnoreParameterAll(v, t) ==
  /\ Parsing /\ Holds(v) /\ Unique(v, t)
  /\ object' = [object EXCEPT ![v] = Mark(@, t, Len(Kids(v, t)))]
  /\ Read({Kids(v, t)[i] : i \in 1 .. Len(Kids(v, t))}, {Element})
  /\ UNCHANGED <<reports, opened>>

(* getConfigAttribute, its optional versions, and ignoreConfigAttribute.   *)
GetAttribute(v, a) ==
  /\ Parsing /\ Holds(v) /\ Unique(v, a)
  /\ LET n == object[v].tree IN
     /\ object' = [object EXCEPT ![v] = Mark(@, a, Occurrences(n, a))]
     /\ Read(IF a \in HasAttribute[n] THEN {n} ELSE {}, {a})
  /\ UNCHANGED <<reports, opened>>

GetValue(v) ==
  /\ Parsing /\ Holds(v) /\ ~object[v].readData /\ object[v].tree \in Convertible
  /\ object' = [object EXCEPT ![v].readData = TRUE]
  /\ Read({object[v].tree}, {Data})
  /\ UNCHANGED <<reports, opened>>

-----------------------------------------------------------------------------
(* The life of an object *)

(* The toplevel object belongs to a ConfigTreeTopLevel, which shows it as  *)
(* const only.  No list's parent is moved: its iterators refer to it.      *)
Movable(v) == Holds(v) /\ object[v].tree # Root /\ object[v].lists = {}

(* The move constructor.                                                   *)
MoveConstruct(v, w) ==
  /\ Parsing /\ Movable(v) /\ ~Holds(w)
  /\ object' = [object EXCEPT ![w] = object[v], ![v] = MovedFrom(object[v])]
  /\ UNCHANGED <<reports, history>>

(* The move assignment checks the object that is overwritten.              *)
MoveAssign(v, w) ==
  /\ Parsing /\ v # w /\ Movable(v) /\ Movable(w)
  /\ Check(object[w])
  /\ object' = [object EXCEPT ![w] = object[v], ![v] = MovedFrom(object[v])]
  /\ UNCHANGED history

(* The destructor, while no exception is on its way.                       *)
Destruct(v) ==
  /\ phase \in {"parsing", "simulating"} /\ Holds(v) /\ object[v].tree # Root
  /\ object' = [object EXCEPT ![v] = Nothing]
  /\ Destroy({object[v]})
  /\ UNCHANGED <<ruthless, phase, history>>

-----------------------------------------------------------------------------
(* The program *)

NotAsserted == phase \in Phases   \* a mutant of NoSwallowedErrors
NoSwallowedErrors == swallowed = {}

(* checkAndInvalidate of the toplevel object and assertNoSwallowedErrors,  *)
(* if neither throws.                                                      *)
StartSimulation ==
  /\ phase = "parsing" /\ NoSwallowedErrors
  /\ \E v \in Variables :
       /\ object[v].tree = Root
       /\ Check(object[v])
       /\ object' = [object EXCEPT ![v] = Nothing]
  /\ phase' = "simulating"
  /\ UNCHANGED <<ruthless, history>>

(* The final check, after everything that holds an object is destroyed.    *)
Finish ==
  /\ phase = "simulating" /\ \A v \in Variables : ~Holds(v)
  /\ NoSwallowedErrors
  /\ phase' = "succeeded"
  /\ UNCHANGED <<ruthless, object, reports, history>>

(* Every error is thrown up to main(): a key that is read again or is      *)
(* missing, data not convertible or read again, a parameter that has       *)
(* children, a failed check outside of a destructor, and whatever else     *)
(* goes wrong in the creating functions or the simulation.  The            *)
(* destructors called meanwhile check nothing.                             *)
Throw ==
  /\ phase \in {"parsing", "simulating"}
  /\ phase' = "failed"
  /\ object' = [v \in Variables |-> Nothing]
  /\ UNCHANGED <<ruthless, reports, history>>

Init ==
  /\ ruthless \in BOOLEAN
  /\ phase = "parsing"
  /\ \E v \in Variables :
       object = [w \in Variables |-> IF w = v THEN NewObject(Root) ELSE Nothing]
  /\ swallowed = {} /\ warned = [n \in Nodes |-> {}]
  /\ opened = {Root}
  /\ reads = [n \in Nodes |-> [p \in Parts |-> 0]]

Next ==
  \/ \E v \in Variables, t \in Tags :
       \/ \E w \in Variables : GetSubtree(v, t, w) \/ NextSubtree(v, t, w)
       \/ GetParameter(v, t) \/ GetAbsent(v, t)
       \/ GetList(v, t) \/ NextValue(v, t)
       \/ IgnoreParameter(v, t) \/ IgnoreParameterAll(v, t)
  \/ \E v \in Variables, a \in Attributes : GetAttribute(v, a)
  \/ \E v, w \in Variables : MoveConstruct(v, w) \/ MoveAssign(v, w)
  \/ \E v \in Variables : GetValue(v) \/ Destruct(v)
  \/ StartSimulation \/ Finish \/ Throw

Spec == Init /\ [][Next]_vars

-----------------------------------------------------------------------------
(* The type of every variable, and the bounds of the counts: no key is     *)
(* counted unless it was marked, or more often than it occurs.             *)
TypeOK ==
  /\ ruthless \in BOOLEAN /\ phase \in Phases
  /\ object \in [Variables -> Object]
  /\ \A v \in Variables, k \in Keys :
       /\ object[v].count[k] > 0 => Holds(v) /\ k \in object[v].visited
       /\ Holds(v) => object[v].count[k] <= Occurrences(object[v].tree, k)
  /\ swallowed \subseteq Nodes
  /\ warned \in [Nodes -> SUBSET (Keys \cup {Data})]
  /\ opened \subseteq Nodes
  /\ reads \in [Nodes -> [Parts -> Nat]]

(* The settings of an element that were not read exactly once, by the keys *)
(* under which they would be reported.                                     *)
Misread(n) ==
  {t \in Tags : \E i \in 1 .. Len(Children[n][t]) : reads[Children[n][t][i]][Element] # 1}
    \cup {a \in HasAttribute[n] : reads[n][a] # 1}
    \cup {p \in {Data} : n \in HasData /\ reads[n][Data] # 1}

Held(n) == \E v \in Variables : object[v].tree = n

(* However the objects are passed on, an element has one that counts for   *)
(* it: two would each find the other's reads missing.                      *)
OneObjectPerElement ==
  \A v, w \in Variables : Holds(v) /\ object[v].tree = object[w].tree => v = w

(* "Makes sure that every configuration setting in a Property Tree is read *)
(* exactly once": once an element's object is gone, the element is         *)
(* reported if and only if one of its settings was not read exactly once,  *)
(* and where only warnings are given, every such setting is named.         *)
ReportedIffMisread ==
  phase # "failed" => \A n \in opened :
    ~Held(n) => IF ruthless THEN n \in swallowed <=> Misread(n) # {}
                            ELSE warned[n] = Misread(n)

(* A ruthless program that succeeds has read every setting of the document *)
(* exactly once, those below ignored elements excepted.                    *)
SuccessMeansReadOnce ==
  phase = "succeeded" /\ ruthless =>
    /\ Root \in opened
    /\ \A n \in opened : Misread(n) = {}

(* A ruthless program simulates only if all it has read was read exactly   *)
(* once, the elements excepted whose objects are kept for later.           *)
SimulatesOnlyWellRead ==
  [][phase = "parsing" /\ phase' = "simulating" /\ ruthless =>
       \A n \in opened : Misread(n) = {} \/ (Held(n) /\ n # Root)]_vars
=============================================================================
