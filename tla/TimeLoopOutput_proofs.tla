----------------------- MODULE TimeLoopOutput_proofs -----------------------
(***************************************************************************)
(* What a run without rejected steps leaves on disk: its last state, no    *)
(* state twice, and a file for every fixed output time.  The number with   *)
(* which a step is put out after it was accepted and the one with which    *)
(* the last state is put out are the same as long as nothing was rejected, *)
(* so that the two decisions about a state fit together.  How a pair of    *)
(* the project file is found for that number does not matter.  The module  *)
(* ends with what the decision on a step leaves to the next one.           *)
(***************************************************************************)
EXTENDS TimeLoopSuccess_proofs

AllMet == \A p \in Proc : status[p].met

(* Before the first step and within a step the numbers of the step being   *)
(* computed and of the accepted steps are apart by one, afterwards equal.  *)
CountInv ==
  /\ pc = "outputInitial" => AllMet
  /\ pc \in Within => timestep = accepted + 1
  /\ pc \in {"output", "check", "outputLast"} /\ rejected = 0 =>
       timestep = accepted /\ AllMet

LEMMA InitCountInv == Init => CountInv
BY DEF Init, CountInv, Within, AllMet

(* As long as no step is rejected, the decision on a step keeps it.        *)
LEMMA DecisionKeepsStep ==
  ASSUME BeginTogether, TypeInv, ClockInv, ComputeTimeStepping, rejected' = 0
  PROVE  /\ rejected = 0
         /\ UNCHANGED <<t, status, lastStatus, timestep, pending, written>>
         /\ pc = "first" => pc' = "loop" /\ accepted' = accepted
         /\ pc # "first" => pc = "stepping" /\ pc' = "output" /\ accepted' = accepted + 1 /\ AllMet
<1>1. PICK next \in [Proc -> NextResult] : DecideOnStep(next)
  BY NextIsWellFormed
<1> DEFINE accept == AcceptsStep(next)
           reject == ~accept /\ t <= EndTime
<1>2. /\ accepted' = IF accept /\ ~InitialStep THEN accepted + 1 ELSE accepted
      /\ rejected' = IF reject /\ ~InitialStep THEN rejected + 1 ELSE rejected
      /\ lastRejected' = IF InitialStep \/ ~(accept \/ reject) THEN lastRejected
                          ELSE reject
      /\ t' = IF reject /\ ~InitialStep THEN t - prevDt ELSE t
      /\ pc' = IF dt' = prevDt /\ lastRejected' THEN "fatal"
               ELSE CASE pc = "first"                     -> "loop"
                      [] pc = "stepping" /\ lastRejected' -> "check"
                      [] OTHER                            -> "output"
      /\ UNCHANGED <<status, lastStatus, timestep, pending, written>>
  BY <1>1 DEF DecideOnStep, outputVars
<1>3. /\ pc \in {"first", "stepping"} /\ t \in Int /\ prevDt \in Int /\ rejected \in Nat
      /\ t <= EndTime
  BY DEF ComputeTimeStepping, TypeInv, TypeOK, ClockInv, ClockWithinRun
<1>4. rejected = 0 /\ (reject => InitialStep)
  BY <1>2, <1>3
<1>5. CASE pc = "first"
  <2>1. InitialStep /\ ~lastRejected
    BY <1>5, StartTimeIsBegin DEF ClockInv, InitialStep
  <2>2. ~lastRejected' /\ t' = t /\ accepted' = accepted
    BY <1>2, <2>1
  <2>3. pc' = "loop"
    BY <1>2, <1>5, <2>2
  <2>4. QED BY <1>2, <1>4, <1>5, <2>2, <2>3
<1>6. CASE pc = "stepping"
  <2>1. ~InitialStep
    BY <1>3, <1>6, StartTimeIsBegin
    DEF ClockInv, ClockWithinRun, InitialStep, BeginTogether
  <2>2. accept /\ ~reject
    BY <1>3, <1>4, <2>1
  <2>3. AllMet
    BY <2>2 DEF AcceptsStep, AllMet
  <2>4. ~lastRejected' /\ t' = t /\ accepted' = accepted + 1
    BY <1>2, <2>1, <2>2
  <2>5. pc' = "output"
    BY <1>2, <1>6, <2>4
  <2>6. QED BY <1>2, <1>4, <1>6, <2>3, <2>4, <2>5
<1>7. QED BY <1>3, <1>5, <1>6

LEMMA NextCountInv ==
  ASSUME BeginTogether
  PROVE  TypeInv /\ ClockInv /\ CountInv /\ [Next]_vars => CountInv'
<1> SUFFICES ASSUME TypeInv, ClockInv, CountInv, [Next]_vars PROVE CountInv'
  OBVIOUS
<1>1. CASE OutputSolution
  <2>1. /\ pc \in {"outputInitial", "output", "outputLast"}
        /\ UNCHANGED <<status, timestep, accepted, rejected>>
        /\ \/ pc' = pc
           \/ pc = "outputInitial" /\ pc' = "first"
           \/ pc = "output" /\ pc' = "check"
           \/ pc = "outputLast" /\ pc' = "done"
    BY <1>1 DEF OutputSolution, solverVars, countVars
  <2>2. QED BY <2>1 DEF CountInv, AllMet, Within
<1>2. CASE ComputeTimeStepping
  <2>1. PICK next \in [Proc -> NextResult] : DecideOnStep(next)
    BY <1>2, NextIsWellFormed
  <2>2. pc' \notin Within /\ pc' # "outputInitial"
    BY <2>1 DEF DecideOnStep, Within
  <2>3. ASSUME rejected' = 0, pc' \in {"output", "check", "outputLast"}
        PROVE  timestep' = accepted' /\ AllMet'
    <3>1. /\ UNCHANGED <<status, timestep>> /\ pc = "stepping"
          /\ accepted' = accepted + 1 /\ AllMet
      BY <1>2, <2>3, DecisionKeepsStep
    <3>2. timestep = accepted + 1
      BY <3>1 DEF CountInv, Within
    <3>3. QED BY <3>1, <3>2 DEF AllMet
  <2>4. QED BY <2>2, <2>3 DEF CountInv
<1>3. CASE BeginTimestep
  <2>1. pc' \in {"post", "solve"} /\ timestep' = accepted + 1 /\ accepted' = accepted
    BY <1>3 DEF BeginTimestep
  <2>2. QED BY <2>1 DEF CountInv, Within
<1>4. CASE SolveConverged \/ SolveDiverged \/ PostTimestep
  <2>1. /\ pc \in Within /\ pc' \in Within \cup {"fatal"}
        /\ UNCHANGED <<timestep, accepted>>
    BY <1>4 DEF SolveConverged, SolveDiverged, AfterFailure, PostTimestep, Within, countVars
  <2>2. QED BY <2>1 DEF CountInv, Within
<1>5. CASE CheckEnd
  <2>1. /\ pc = "check" /\ pc' \in {"outputLast", "done", "loop"}
        /\ UNCHANGED <<status, timestep, accepted, rejected>>
    BY <1>5 DEF CheckEnd, solverVars, countVars
  <2>2. QED BY <2>1 DEF CountInv, AllMet, Within
<1>6. CASE UNCHANGED vars
  BY <1>6 DEF vars, solverVars, countVars, CountInv, AllMet
<1>7. QED BY <1>1, <1>2, <1>3, <1>4, <1>5, <1>6 DEF Next, Terminated

-----------------------------------------------------------------------------
(* One process's turn at the output *)

FileAt(time) == \E i \in DOMAIN written : written[i].time = time

Due == ShallDoOutput(OutputPairs, IF pc = "outputLast" THEN accepted + rejected ELSE timestep,
                     t, pending)

Writes ==
  /\ status[proc].met
  /\ WritesNow(Due, pc = "outputLast")
  /\ WritesFile(Staggered, proc, NumProcesses)

(* A file appended at the end is a file at its time, after all the others. *)
LEMMA FileAppended ==
  ASSUME written \in Seq(File), NEW file \in File, written' = Append(written, file)
  PROVE  /\ Len(written) \in Nat
         /\ DOMAIN written = 1 .. Len(written)
         /\ DOMAIN written' = 1 .. Len(written) + 1
         /\ \A i \in DOMAIN written : written'[i] = written[i]
         /\ written'[Len(written) + 1].time = file.time
BY AppendProperties, LenProperties

LEMMA FilesStay ==
  ASSUME written \in Seq(File),
         written' = written \/ \E file \in File : written' = Append(written, file),
         NEW f, FileAt(f)
  PROVE  FileAt(f)'
<1>1. CASE written' = written
  BY <1>1 DEF FileAt
<1>2. ASSUME NEW file \in File, written' = Append(written, file) PROVE FileAt(f)'
  <2>1. PICK i \in DOMAIN written : written[i].time = f
    BY DEF FileAt
  <2>2. i \in DOMAIN written' /\ written'[i] = written[i]
    BY <1>2, <2>1, FileAppended
  <2>3. QED BY <2>1, <2>2 DEF FileAt
<1>3. QED BY <1>1, <1>2

LEMMA Turn ==
  ASSUME TypeInv, OutputSolution
  PROVE  /\ ~Writes => written' = written
         /\ Writes => \E file \in File : file.time = t /\ written' = Append(written, file)
         /\ Writes => FileAt(t)'
         /\ FileAt(t) => FileAt(t)'
         /\ \A f : FileAt(f) => FileAt(f)'
         /\ pending' = IF status[proc].met THEN PendingAfter(t, pending) ELSE pending
         /\ UNCHANGED <<t, dt, prevDt, stepper, status, lastStatus, timestep, accepted,
                        rejected>>
         /\ pc \in {"outputInitial", "output", "outputLast"}
         /\ \/ proc < NumProcesses /\ pc' = pc
            \/ /\ proc = NumProcesses
               /\ \/ pc = "outputInitial" /\ pc' = "first"
                  \/ pc = "output" /\ pc' = "check"
                  \/ pc = "outputLast" /\ pc' = "done"
<1> DEFINE last == pc = "outputLast"
           file == [step |-> IF last THEN accepted + rejected ELSE timestep,
                    time |-> t, from |-> solution[proc],
                    kind |-> IF last THEN "last" ELSE "output"]
<1>1. /\ proc \in Proc /\ solution \in [Proc -> Solution] /\ t \in Int
      /\ accepted + rejected \in Nat /\ timestep \in Nat /\ written \in Seq(File)
      /\ NumProcesses \in Nat
  BY ConfigFacts DEF TypeInv, TypeOK
<1>2. file \in File /\ file.time = t
  BY <1>1 DEF File
<1>3. written' = IF Writes THEN Append(written, file) ELSE written
  BY DEF OutputSolution, outputVars, Writes, Due
<1>4. pending' = IF status[proc].met THEN PendingAfter(t, pending) ELSE pending
  BY DEF OutputSolution, outputVars
<1>5. UNCHANGED <<t, dt, prevDt, stepper, status, lastStatus, timestep, accepted, rejected>>
  BY DEF OutputSolution, clockVars, solverVars, countVars
<1>6. /\ pc \in {"outputInitial", "output", "outputLast"}
      /\ \/ proc < NumProcesses /\ pc' = pc
         \/ /\ proc = NumProcesses
            /\ \/ pc = "outputInitial" /\ pc' = "first"
               \/ pc = "output" /\ pc' = "check"
               \/ pc = "outputLast" /\ pc' = "done"
  BY <1>1 DEF OutputSolution, LastProcess, Proc
<1> HIDE DEF file
<1>7. Writes => FileAt(t)'
  <2> SUFFICES ASSUME Writes PROVE FileAt(t)'
    OBVIOUS
  <2>1. /\ Len(written) + 1 \in DOMAIN written'
        /\ written'[Len(written) + 1].time = t
    BY <1>1, <1>2, <1>3, FileAppended
  <2>2. QED BY <1>5, <2>1 DEF FileAt
<1>8. ASSUME NEW f, FileAt(f) PROVE FileAt(f)'
  BY <1>1, <1>2, <1>3, <1>8, FilesStay
<1>9. FileAt(t) => FileAt(t)'
  <2> DEFINE now == t
  <2>1. now' = now
    BY <1>5
  <2> HIDE DEF now
  <2>2. FileAt(now) => FileAt(now)'
    <3>1. PICK f : f = now
      OBVIOUS
    <3>2. FileAt(f) => FileAt(f)'
      BY <1>8
    <3>3. QED BY <2>1, <3>1, <3>2 DEF FileAt
  <2>3. QED BY <2>2 DEF now
<1>10. QED BY <1>2, <1>3, <1>4, <1>5, <1>6, <1>7, <1>8, <1>9

(* A fixed time is found if it is the least of those still to come.        *)
LEMMA TimeFound ==
  ASSUME pending \in SUBSET Nat
  PROVE  IsTimeForOutput(t, pending) <=> t \in pending /\ \A f \in pending : t <= f
<1>1. pending # {} => Min(pending) \in pending /\ \A f \in pending : Min(pending) <= f
  BY MinOfNaturals
<1>2. t \in pending /\ (\A f \in pending : t <= f) => t = Min(pending)
  <2> SUFFICES ASSUME t \in pending, \A f \in pending : t <= f PROVE t = Min(pending)
    OBVIOUS
  <2>1. Min(pending) \in Nat /\ t \in Nat /\ t <= Min(pending) /\ Min(pending) <= t
    BY <1>1
  <2>2. QED BY <2>1
<1>3. QED BY <1>1, <1>2 DEF IsTimeForOutput

-----------------------------------------------------------------------------
(* The last state *)

LastInv ==
  rejected = 0 =>
    /\ pc \in {"check", "outputLast"} => FileAt(t) \/ ~Due
    /\ pc = "done" /\ lastStatus.met => FileAt(t)

LEMMA InitLastInv == Init => LastInv
BY DEF Init, LastInv

(* The last process, which always writes, has written the state if it was  *)
(* due; if not, the fixed times stay as they are and it is not due in the  *)
(* end either, when that makes it be written.                              *)
LEMMA TurnKeepsLast ==
  ASSUME TypeInv, CountInv, LastInv, OutputSolution
  PROVE  LastInv'
<1> SUFFICES ASSUME rejected' = 0,
                    pc' \in {"check", "outputLast"} \/ (pc' = "done" /\ lastStatus'.met)
             PROVE  FileAt(t)' \/ (pc' # "done" /\ ~Due')
  BY DEF LastInv
<1>1. /\ ~Writes => written' = written
      /\ Writes => FileAt(t)'
      /\ FileAt(t) => FileAt(t)'
      /\ pending' = IF status[proc].met THEN PendingAfter(t, pending) ELSE pending
      /\ t' = t /\ timestep' = timestep /\ accepted' = accepted /\ rejected = 0
      /\ \/ pc = "outputLast" /\ pc' = "outputLast"
         \/ proc = NumProcesses /\ pc = "output" /\ pc' = "check"
         \/ proc = NumProcesses /\ pc = "outputLast" /\ pc' = "done"
  BY Turn
<1>2. pc \in {"output", "outputLast"} /\ timestep = accepted /\ status[proc].met
      /\ accepted + rejected = accepted
  BY <1>1 DEF CountInv, AllMet, TypeInv, TypeOK
<1>3. Due <=> ShallDoOutput(OutputPairs, accepted, t, pending)
  BY <1>2 DEF Due
<1>4. Due' <=> ShallDoOutput(OutputPairs, accepted, t, pending')
  BY <1>1, <1>2 DEF Due
<1>5. ~Due => pending' = pending
  BY <1>1, <1>3 DEF ShallDoOutput, PendingAfter
<1>6. proc = NumProcesses => WritesFile(Staggered, proc, NumProcesses)
  BY DEF WritesFile
<1>7. CASE pc = "output"
  <2>1. Writes \/ ~Due
    BY <1>1, <1>2, <1>6, <1>7 DEF Writes, WritesNow
  <2>2. QED BY <1>1, <1>3, <1>4, <1>5, <1>7, <2>1
<1>8. CASE pc = "outputLast"
  <2>1. FileAt(t) \/ ~Due
    BY <1>1, <1>8 DEF LastInv
  <2>2. CASE FileAt(t)
    BY <1>1, <2>2
  <2>3. CASE ~Due
    <3>1. proc = NumProcesses => Writes
      BY <1>2, <1>6, <1>8, <2>3 DEF Writes, WritesNow
    <3>2. QED BY <1>1, <1>3, <1>4, <1>5, <1>8, <2>3, <3>1
  <2>4. QED BY <2>1, <2>2, <2>3
<1>9. QED BY <1>2, <1>7, <1>8

LEMMA NextLastInv ==
  ASSUME BeginTogether
  PROVE  TypeInv /\ ClockInv /\ CountInv /\ LastInv /\ [Next]_vars => LastInv'
<1> SUFFICES ASSUME TypeInv, ClockInv, CountInv, LastInv, [Next]_vars PROVE LastInv'
  OBVIOUS
<1>1. CASE OutputSolution
  BY <1>1, TurnKeepsLast
<1>2. CASE ComputeTimeStepping
  <2>1. rejected' = 0 => pc' \in {"loop", "output"}
    BY <1>2, DecisionKeepsStep
  <2>2. QED BY <2>1 DEF LastInv
<1>3. CASE BeginTimestep \/ SolveConverged \/ SolveDiverged \/ PostTimestep
  <2>1. pc' \in {"solve", "post", "stepping", "fatal"}
    BY <1>3 DEF BeginTimestep, SolveConverged, SolveDiverged, AfterFailure, PostTimestep
  <2>2. QED BY <2>1 DEF LastInv
<1>4. CASE CheckEnd
  <2>1. /\ pc = "check" /\ UNCHANGED <<t, timestep, accepted, rejected, pending, written>>
        /\ \/ pc' = "outputLast"
           \/ pc' = "loop"
           \/ pc' = "done" /\ ~lastStatus'.met
    BY <1>4 DEF CheckEnd, clockVars, solverVars, countVars, outputVars
  <2>2. rejected = 0 => (Due' <=> Due) \/ pc' # "outputLast"
    BY <2>1 DEF Due, CountInv, TypeInv, TypeOK
  <2>3. QED BY <2>1, <2>2 DEF LastInv, FileAt
<1>5. CASE UNCHANGED vars
  BY <1>5 DEF vars, clockVars, solverVars, countVars, outputVars, LastInv, Due, FileAt
<1>6. QED BY <1>1, <1>2, <1>3, <1>4, <1>5 DEF Next, Terminated

(* When the loop has succeeded without rejecting a step, its last state    *)
(* has been written, for every number of processes, whether it is due by   *)
(* its number, by a fixed time or not at all.                              *)
THEOREM LastStateIsWritten ==
  ASSUME BeginTogether PROVE Spec => []LastStateWritten
<1>1. LastInv => LastStateWritten
  BY DEF LastInv, LastStateWritten, FileAt
<1>2. TypeInv /\ ClockInv /\ CountInv /\ [Next]_vars => CountInv'
  BY NextCountInv
<1>3. TypeInv /\ ClockInv /\ CountInv /\ LastInv /\ [Next]_vars => LastInv'
  BY NextLastInv
<1>4. QED
  BY <1>1, <1>2, <1>3, InitTypeInv, NextTypeInv, InitClockInv, NextClockInv, InitCountInv,
     InitLastInv, PTL
  DEF Spec

-----------------------------------------------------------------------------
(***************************************************************************)
(* No state twice.  That holds if one process writes alone, and if the end *)
(* time is no fixed output time: that one is taken from the list by the    *)
(* output of the step, and doOutputLastTimestep does not find it again.    *)
(***************************************************************************)
OneWriter == Staggered \/ NumProcesses = 1

PendingInv == pending \subseteq OutputTimes

TimesDiffer == \A i, j \in DOMAIN written : i # j => written[i].time # written[j].time
NoneYet == \A i \in DOMAIN written : written[i].time < t
NoneLater == \A i \in DOMAIN written : written[i].time <= t

(* While a state may still be put out as a step's, it has no file; in the  *)
(* end it has one only if it is due by its number, so that it will not be  *)
(* written as the last one.                                                *)
OnceInv ==
  rejected = 0 =>
    /\ TimesDiffer
    /\ pc \in Within \cup {"outputInitial", "output"} => NoneYet
    /\ pc \in {"first", "loop", "check", "outputLast"} => NoneLater
    /\ pc \in {"check", "outputLast"} /\ t = EndTime /\ FileAt(t) =>
         IsStepForOutput(OutputPairs, accepted)

LEMMA InitOnceInv == Init => OnceInv /\ PendingInv
<1> SUFFICES ASSUME Init PROVE OnceInv /\ PendingInv
  OBVIOUS
<1>1. written = <<>> /\ pending = OutputTimes /\ pc = "outputInitial"
  BY DEF Init
<1>2. TimesDiffer /\ NoneYet /\ NoneLater
  BY <1>1 DEF TimesDiffer, NoneYet, NoneLater
<1>3. QED BY <1>1, <1>2 DEF OnceInv, PendingInv

LEMMA NextPendingInv == TypeInv /\ PendingInv /\ [Next]_vars => PendingInv'
<1> SUFFICES ASSUME TypeInv, PendingInv, [Next]_vars PROVE PendingInv'
  OBVIOUS
<1>1. CASE OutputSolution
  BY <1>1, Turn DEF PendingAfter, PendingInv
<1>2. CASE ComputeTimeStepping
  <2>1. PICK next \in [Proc -> NextResult] : DecideOnStep(next)
    BY <1>2, NextIsWellFormed
  <2>2. QED BY <2>1 DEF DecideOnStep, outputVars, PendingInv
<1>3. CASE BeginTimestep \/ SolveConverged \/ SolveDiverged \/ PostTimestep \/ CheckEnd
  BY <1>3
  DEF BeginTimestep, SolveConverged, SolveDiverged, PostTimestep, CheckEnd, outputVars,
      PendingInv
<1>4. CASE UNCHANGED vars
  BY <1>4 DEF vars, outputVars, PendingInv
<1>5. QED BY <1>1, <1>2, <1>3, <1>4 DEF Next, Terminated

LEMMA AppendedLater ==
  ASSUME written \in Seq(File), t \in Int, t' = t, TimesDiffer, NoneYet,
         NEW file \in File, file.time = t, written' = Append(written, file)
  PROVE  TimesDiffer' /\ NoneLater'
<1>1. /\ Len(written) \in Nat /\ DOMAIN written = 1 .. Len(written)
      /\ DOMAIN written' = 1 .. Len(written) + 1
      /\ \A i \in DOMAIN written : written'[i] = written[i]
      /\ written'[Len(written) + 1].time = t
  BY FileAppended
<1>2. ASSUME NEW i \in DOMAIN written', i # Len(written) + 1
      PROVE  i \in DOMAIN written /\ written'[i].time = written[i].time /\ written[i].time < t
  <2>1. i \in DOMAIN written
    BY <1>1, <1>2
  <2>2. QED BY <1>1, <2>1 DEF NoneYet
<1>3. \A i \in DOMAIN written : written[i].time \in Int
  <2>1. \A i \in DOMAIN written : written[i] \in File
    BY <1>1, ElementOfSeq
  <2>2. QED BY <2>1 DEF File
<1>4. NoneLater'
  BY <1>1, <1>2, <1>3 DEF NoneLater
<1>5. ASSUME NEW i \in DOMAIN written', NEW j \in DOMAIN written', i # j
      PROVE  written'[i].time # written'[j].time
  <2>1. CASE i # Len(written) + 1 /\ j # Len(written) + 1
    <3>1. /\ i \in DOMAIN written /\ j \in DOMAIN written
          /\ written'[i].time = written[i].time /\ written'[j].time = written[j].time
      BY <1>2, <2>1
    <3>2. QED BY <1>5, <3>1 DEF TimesDiffer
  <2>2. CASE i = Len(written) + 1
    <3>1. written'[i].time = t
      BY <1>1, <2>2
    <3>2. j \in DOMAIN written /\ written'[j].time = written[j].time /\ written[j].time < t
      BY <1>2, <1>5, <2>2
    <3>3. QED BY <1>3, <3>1, <3>2
  <2>3. CASE j = Len(written) + 1
    <3>1. written'[j].time = t
      BY <1>1, <2>3
    <3>2. i \in DOMAIN written /\ written'[i].time = written[i].time /\ written[i].time < t
      BY <1>2, <1>5, <2>3
    <3>3. QED BY <1>3, <3>1, <3>2
  <2>4. QED BY <2>1, <2>2, <2>3
<1>6. QED BY <1>4, <1>5 DEF TimesDiffer

LEMMA TurnKeepsOnce ==
  ASSUME OneWriter, EndTime \notin OutputTimes,
         TypeInv, EndInv, CountInv, PendingInv, OnceInv, OutputSolution
  PROVE  OnceInv'
<1> SUFFICES ASSUME rejected' = 0
             PROVE  /\ TimesDiffer'
                    /\ pc' \in Within \cup {"outputInitial", "output"} => NoneYet'
                    /\ pc' \in {"first", "loop", "check", "outputLast"} => NoneLater'
                    /\ (pc' \in {"check", "outputLast"} /\ t' = EndTime /\ FileAt(t)'
                        => IsStepForOutput(OutputPairs, accepted'))
  BY DEF OnceInv
<1>1. /\ ~Writes => written' = written
      /\ Writes => \E file \in File : file.time = t /\ written' = Append(written, file)
      /\ t' = t /\ accepted' = accepted /\ rejected = 0
      /\ pc \in {"outputInitial", "output", "outputLast"}
      /\ \/ proc < NumProcesses /\ pc' = pc
         \/ /\ proc = NumProcesses
            /\ \/ pc = "outputInitial" /\ pc' = "first"
               \/ pc = "output" /\ pc' = "check"
               \/ pc = "outputLast" /\ pc' = "done"
  BY Turn
<1>2. /\ t \in Int /\ written \in Seq(File) /\ pending \in SUBSET Nat
      /\ proc \in Proc /\ NumProcesses \in Nat
  BY ConfigFacts DEF TypeInv, TypeOK
<1>3. /\ TimesDiffer
      /\ pc \in {"outputInitial", "output"} => NoneYet
      /\ pc = "outputLast" => NoneLater
      /\ pc = "outputLast" /\ t = EndTime /\ FileAt(t)
           => IsStepForOutput(OutputPairs, accepted)
  BY <1>1 DEF OnceInv
<1>4. Writes => proc = NumProcesses
  BY <1>2 DEF Writes, WritesFile, OneWriter, Proc
<1>5. t = EndTime => ~IsTimeForOutput(t, pending)
  BY <1>2, TimeFound DEF PendingInv
<1>6. \A i \in DOMAIN written : written[i].time \in Int
  <2>1. \A i \in DOMAIN written : written[i] \in File
    BY <1>2, LenProperties, ElementOfSeq
  <2>2. QED BY <2>1 DEF File
<1>7. NoneYet => NoneLater /\ ~FileAt(t)
  BY <1>2, <1>6 DEF NoneYet, NoneLater, FileAt
<1>8. CASE ~Writes
  <2>1. /\ TimesDiffer' /\ (NoneYet => NoneYet') /\ (NoneLater => NoneLater')
        /\ (FileAt(t)' => FileAt(t))
    BY <1>1, <1>3, <1>8 DEF TimesDiffer, NoneYet, NoneLater, FileAt
  <2>2. QED BY <1>1, <1>3, <1>7, <2>1 DEF Within
<1>9. CASE Writes
  <2>1. NoneYet
    <3>1. CASE pc # "outputLast"
      BY <1>1, <1>3, <3>1
    <3>2. CASE pc = "outputLast"
      <4>1. /\ t = EndTime /\ accepted + rejected = accepted
        BY <1>1, <3>2 DEF EndInv, TypeInv, TypeOK
      <4>2. ~IsStepForOutput(OutputPairs, accepted)
        BY <1>9, <3>2, <4>1 DEF Writes, WritesNow, Due, ShallDoOutput
      <4>3. ~FileAt(t) /\ NoneLater
        BY <1>3, <3>2, <4>1, <4>2
      <4>4. QED BY <1>2, <1>6, <4>3 DEF FileAt, NoneLater, NoneYet
    <3>3. QED BY <3>1, <3>2
  <2>2. PICK file \in File : file.time = t /\ written' = Append(written, file)
    BY <1>1, <1>9
  <2>3. TimesDiffer' /\ NoneLater'
    BY <1>1, <1>2, <1>3, <2>1, <2>2, AppendedLater
  <2>4. pc' \notin Within \cup {"outputInitial", "output", "outputLast"}
    BY <1>1, <1>2, <1>4, <1>9 DEF Within
  <2>5. ASSUME pc' = "check", t' = EndTime PROVE IsStepForOutput(OutputPairs, accepted')
    <3>1. pc = "output" /\ t = EndTime
      BY <1>1, <2>5
    <3>2. timestep = accepted
      BY <1>1, <3>1 DEF CountInv
    <3>3. Due
      BY <1>9, <3>1 DEF Writes, WritesNow, Due, ShallDoOutput
    <3>4. QED BY <1>1, <1>5, <3>1, <3>2, <3>3 DEF Due, ShallDoOutput
  <2>6. QED BY <2>3, <2>4, <2>5
<1>10. QED BY <1>8, <1>9

LEMMA DivergedWrites ==
  ASSUME TypeInv, SolveDiverged
  PROVE  \/ written' = written
         \/ pc' = "fatal" /\ \E file \in File : file.time = t /\ written' = Append(written, file)
<1> DEFINE file == [step |-> timestep, time |-> t, from |-> solution'[proc],
                    kind |-> "always"]
<1>1. written' = written \/ (pc' = "fatal" /\ written' = Append(written, file))
  BY DEF SolveDiverged, AfterFailure
<1>2. file \in File /\ file.time = t
  <2>1. /\ proc \in Proc /\ t \in Int /\ timestep \in Nat
        /\ solution' = [solution EXCEPT ![proc] = [time |-> t, ok |-> FALSE]]
        /\ solution \in [Proc -> Solution]
    BY DEF TypeInv, TypeOK, SolveDiverged
  <2>2. solution'[proc] \in Solution
    BY <2>1 DEF Solution
  <2>3. QED BY <2>1, <2>2 DEF File
<1> HIDE DEF file
<1>3. QED BY <1>1, <1>2

LEMMA DivergedKeepsOnce ==
  ASSUME TypeInv, OnceInv, SolveDiverged
  PROVE  OnceInv'
<1>1. /\ pc = "solve" /\ pc' \in {"post", "stepping", "fatal"}
      /\ t' = t /\ rejected' = rejected
  BY DEF SolveDiverged, AfterFailure, clockVars, countVars
<1> SUFFICES ASSUME rejected = 0
             PROVE  TimesDiffer' /\ (pc' # "fatal" => NoneYet')
  BY <1>1 DEF OnceInv, Within
<1>2. TimesDiffer /\ NoneYet
  BY <1>1 DEF OnceInv, Within
<1>3. CASE written' = written
  BY <1>1, <1>2, <1>3 DEF TimesDiffer, NoneYet
<1>4. ASSUME pc' = "fatal", NEW file \in File, file.time = t, written' = Append(written, file)
      PROVE  TimesDiffer'
  <2>1. written \in Seq(File) /\ t \in Int
    BY DEF TypeInv, TypeOK
  <2>2. QED BY <1>1, <1>2, <1>4, <2>1, AppendedLater
<1>5. QED BY <1>3, <1>4, DivergedWrites

LEMMA NextOnceInv ==
  ASSUME BeginTogether, OneWriter, EndTime \notin OutputTimes
  PROVE  TypeInv /\ ClockInv /\ EndInv /\ CountInv /\ PendingInv /\ OnceInv /\ [Next]_vars
         => OnceInv'
<1> SUFFICES ASSUME TypeInv, ClockInv, EndInv, CountInv, PendingInv, OnceInv, [Next]_vars
             PROVE  OnceInv'
  OBVIOUS
<1>1. CASE OutputSolution
  BY <1>1, TurnKeepsOnce
<1>2. CASE ComputeTimeStepping
  <2> SUFFICES ASSUME rejected' = 0 PROVE OnceInv'
    BY DEF OnceInv
  <2>1. /\ rejected = 0 /\ t' = t /\ written' = written
        /\ \/ pc = "first" /\ pc' = "loop"
           \/ pc = "stepping" /\ pc' = "output"
    BY <1>2, DecisionKeepsStep
  <2>2. QED BY <2>1 DEF OnceInv, TimesDiffer, NoneYet, NoneLater, Within
<1>3. CASE BeginTimestep
  <2>1. /\ pc = "loop" /\ pc' \in {"solve", "post"} /\ t' = t + dt
        /\ rejected' = rejected /\ written' = written /\ written \in Seq(File)
        /\ 0 < dt /\ t \in Int /\ dt \in Int
    BY <1>3 DEF BeginTimestep, outputVars, ClockInv, ClockWithinRun, TypeInv, TypeOK
  <2>2. \A i \in DOMAIN written : written[i].time \in Int
    <3>1. \A i \in DOMAIN written : written[i] \in File
      BY <2>1, LenProperties, ElementOfSeq
    <3>2. QED BY <3>1 DEF File
  <2>3. NoneLater => NoneYet'
    BY <2>1, <2>2 DEF NoneLater, NoneYet
  <2>4. QED BY <2>1, <2>3 DEF OnceInv, TimesDiffer, Within
<1>4. CASE SolveDiverged
  BY <1>4, DivergedKeepsOnce
<1>5. CASE SolveConverged \/ PostTimestep
  <2>1. /\ pc \in Within /\ pc' \in Within
        /\ UNCHANGED <<t, rejected, written>>
    BY <1>5 DEF SolveConverged, PostTimestep, Within, clockVars, countVars, outputVars
  <2>2. QED BY <2>1 DEF OnceInv, TimesDiffer, NoneYet, Within
<1>6. CASE CheckEnd
  <2>1. /\ pc = "check" /\ pc' \in {"outputLast", "done", "loop"}
        /\ UNCHANGED <<t, accepted, rejected, written>>
    BY <1>6 DEF CheckEnd, clockVars, countVars, outputVars
  <2>2. QED BY <2>1 DEF OnceInv, TimesDiffer, NoneLater, FileAt, Within
<1>7. CASE UNCHANGED vars
  BY <1>7
  DEF vars, clockVars, countVars, outputVars, OnceInv, TimesDiffer, NoneYet, NoneLater,
      FileAt
<1>8. QED BY <1>1, <1>2, <1>3, <1>4, <1>5, <1>6, <1>7 DEF Next, Terminated

(* As long as no step is rejected, no state is written twice, neither by   *)
(* two steps nor as a step's state and as the last one.                    *)
THEOREM NoStateTwice ==
  ASSUME BeginTogether, EndTogether, OneWriter, EndTime \notin OutputTimes
  PROVE  Spec => []NoStateWrittenTwice
<1>1. OnceInv => NoStateWrittenTwice
  BY DEF OnceInv, TimesDiffer, NoStateWrittenTwice
<1>2. TypeInv /\ ClockInv /\ CountInv /\ [Next]_vars => CountInv'
  BY NextCountInv
<1>3. TypeInv /\ ClockInv /\ RoundInv /\ EndInv /\ [Next]_vars => EndInv'
  BY NextEndInv
<1>4. TypeInv /\ ClockInv /\ EndInv /\ CountInv /\ PendingInv /\ OnceInv /\ [Next]_vars
      => OnceInv'
  BY NextOnceInv
<1>5. QED
  BY <1>1, <1>2, <1>3, <1>4, InitTypeInv, NextTypeInv, InitClockInv, NextClockInv,
     InitRoundInv, NextRoundInv, InitEndInv, InitCountInv, InitOnceInv, NextPendingInv, PTL
  DEF Spec

-----------------------------------------------------------------------------
(***************************************************************************)
(* The sizes the steppers propose are positive if their least size is, and *)
(* if the PID controller may at least keep a size.                         *)
(***************************************************************************)
ProposesPositive(c) ==
  /\ 0 < c.minDt /\ c.minDt <= c.maxDt
  /\ c.kind = "EvolutionaryPID" => Scale <= c.relMax /\ 0 < c.initialDt

LEMMA ScaledUp ==
  ASSUME NEW x \in Nat \ {0}, NEW factor \in Nat, Scale <= factor
  PROVE  Scaled(x, factor) > 0
<1>1. Scale \in Nat \ {0}
  BY ScaleAssumption
<1>2. x * factor = factor + (x - 1) * factor /\ (x - 1) * factor >= 0
  <2>1. \A k \in Nat : (k + 1) * factor = factor + k * factor /\ k * factor >= 0
    OBVIOUS
  <2>2. x - 1 \in Nat /\ (x - 1) + 1 = x
    OBVIOUS
  <2>3. QED BY <2>1, <2>2
<1>3. PICK n \in Nat : n = x * factor /\ n >= Scale
  BY <1>1, <1>2
<1>4. n \div Scale > 0
  <2>1. \A m \in Nat, q \in Int : Scale <= m /\ m < Scale * (q + 1) => q > 0
    <3> SUFFICES ASSUME NEW m \in Nat, NEW q \in Int, Scale <= m, m < Scale * (q + 1), q <= 0
                 PROVE  FALSE
      OBVIOUS
    <3>1. PICK k \in Nat : q = -k
      <4>1. -q \in Nat /\ q = -(-q)
        OBVIOUS
      <4>2. QED BY <4>1
    <3>2. Scale * (q + 1) = Scale - Scale * k /\ Scale * k >= 0
      BY <1>1, <3>1
    <3>3. QED BY <1>1, <3>2
  <2>2. n \div Scale \in Int /\ n < Scale * (n \div Scale + 1)
    BY <1>1, <1>3
  <2>3. QED BY <1>3, <2>1, <2>2
<1>5. QED BY <1>3, <1>4 DEF Scaled

LEMMA LimitedPositive ==
  ASSUME NEW c \in StepperConfig, 0 < c.minDt, Scale <= c.relMax,
         NEW s \in Stepper, Dt(s.cur) > 0, NEW h \in Int
  PROVE  LimitStepSize(c, s, h) \in Int /\ LimitStepSize(c, s, h) > 0
<1> DEFINE hn      == Dt(s.cur)
           low     == Scaled(hn, c.relMin)
           high    == Scaled(hn, c.relMax)
           inRange == Max({c.minDt, Min({h, c.maxDt})})
           limited == Max({low, Min({inRange, high})})
           halved  == IF limited = hn THEN Max({c.minDt, limited \div 2}) ELSE limited
<1>1. /\ c.minDt \in Int /\ c.maxDt \in Int /\ c.relMin \in Int /\ c.relMax \in Nat
      /\ hn \in Nat \ {0}
  BY StepperFields, DtType DEF StepperConfig
<1>2. low \in Int /\ high \in Int /\ high > 0
  <2>1. hn \in Int /\ c.relMax \in Int
    BY <1>1
  <2> HIDE DEF hn
  <2>2. low \in Int /\ high \in Int
    BY <1>1, <2>1, ScaledType
  <2>3. high > 0
    BY <1>1, ScaledUp
  <2>4. QED BY <2>2, <2>3
<1>3. \A k \in Int : Max({c.minDt, k}) \in Int /\ Max({c.minDt, k}) > 0
  BY <1>1, MaxOfTwo
<1>4. inRange \in Int /\ inRange > 0
  <2>1. Min({h, c.maxDt}) \in Int
    BY <1>1, MinOfTwo
  <2>2. QED BY <1>3, <2>1
<1>5. limited \in Int /\ limited > 0
  <2> HIDE DEF low, high, inRange
  <2>1. Min({inRange, high}) \in Int /\ Min({inRange, high}) > 0
    BY <1>2, <1>4, MinOfTwo
  <2>2. QED BY <1>2, <2>1, MaxOfTwo
<1>6. \A k \in Int : k \div 2 \in Int
  OBVIOUS
<1>7. halved \in Int /\ halved > 0
  BY <1>3, <1>5, <1>6
<1>8. Max({c.minDt, hn \div 2}) \in Int /\ Max({c.minDt, hn \div 2}) > 0
  BY <1>1, <1>3, <1>6
<1>9. LimitStepSize(c, s, h)
        = IF s.accepted THEN limited
          ELSE IF halved > hn THEN Max({c.minDt, hn \div 2}) ELSE halved
  BY DEF LimitStepSize
<1> HIDE DEF limited, halved
<1>10. QED BY <1>5, <1>7, <1>8, <1>9

(* The size after a converged solve before the end.                        *)
LEMMA IteratedPositive ==
  ASSUME NEW c \in StepperConfig, c.kind = "IterationNumberBased", ValidConfig(c),
         ProposesPositive(c), NEW s \in Stepper, s.prev.current < c.end, NEW iterations \in Int
  PROVE  /\ GetNextTimeStepSize(c, s, iterations) \in Int
         /\ GetNextTimeStepSize(c, s, iterations) > 0
<1> DEFINE wanted == IF s.prev.steps = 0 /\ iterations = 0 THEN c.initialDt
                     ELSE Scaled(Dt(s.prev), FindMultiplier(c, s.accepted, iterations))
           bounded == Clamp(wanted, c.minDt, c.maxDt)
<1>1. /\ c.initialDt \in Int /\ c.minDt \in Int /\ c.maxDt \in Int /\ c.end \in Int
      /\ s.prev \in TimeStep /\ s.prev.current \in Int /\ s.accepted \in BOOLEAN
      /\ 0 < c.minDt /\ c.minDt <= c.maxDt
  BY StepperFields DEF StepperConfig, TimeStep, ProposesPositive
<1>2. wanted \in Int
  <2>1. FindMultiplier(c, s.accepted, iterations) \in Int /\ Dt(s.prev) \in Int
    BY <1>1, FindMultiplierType, DtType
  <2>2. QED BY <1>1, <2>1, ScaledType
<1>3. GetNextTimeStepSize(c, s, iterations)
        = IF s.prev.current + bounded > c.end THEN c.end - s.prev.current ELSE bounded
  BY DEF GetNextTimeStepSize
<1> HIDE DEF wanted
<1>4. bounded \in Int /\ bounded > 0
  BY <1>1, <1>2 DEF Clamp
<1> HIDE DEF bounded
<1>5. QED BY <1>1, <1>3, <1>4

-----------------------------------------------------------------------------
(***************************************************************************)
(* The fixed output times.  One stepper that knows them is enough, as the  *)
(* loop takes the least of the proposed sizes.  FixedTimeStepping does not *)
(* know them, and the PID controller does not heed them in its first step. *)
(***************************************************************************)
HeedsOutputTimes(c) ==
  /\ ProposesPositive(c)
  /\ c.kind # "FixedTimeStepping"
  /\ c.kind = "EvolutionaryPID" =>
       \A f \in OutputTimes : f <= StartTime \/ StartTime + c.initialDt <= f

(* The state of its stepper before a size is asked for.                    *)
AtStart(s) == s.cur = TimeStepAt(StartTime)
Underway(s) == s.cur.steps > 0 /\ Dt(s.cur) > 0

LEMMA NextKeepsFixedTimes ==
  ASSUME NEW c \in StepperConfig, NEW s \in Stepper, NEW met \in BOOLEAN,
         NEW err \in Errors, NEW iterations \in Int,
         NEW r \in NextResults(c, SetAcceptedOrNot(c, s, met), err, iterations)
  PROVE  r.stepper.fixedTimes = s.fixedTimes
<1> DEFINE told == SetAcceptedOrNot(c, s, met)
<1>1. told \in Stepper /\ told.fixedTimes = s.fixedTimes
  BY DEF SetAcceptedOrNot, Stepper
<1>2. r \in NextResults(c, told, err, iterations) /\ c.kind \in Kinds
  BY DEF StepperConfig
<1> HIDE DEF told
<1>3. CASE c.kind = "FixedTimeStepping"
  <2>1. r = FixedNext(c, told)
    BY <1>2, <1>3 DEF NextResults
  <2>2. r.stepper = told \/ \E d : r.stepper = [told EXCEPT !.prev = told.cur, !.cur = d]
    BY <2>1 DEF FixedNext
  <2>3. QED BY <1>1, <2>2 DEF Stepper
<1>4. CASE c.kind = "IterationNumberBased"
  <2>1. r = IterationNext(c, told, iterations)
    BY <1>2, <1>4 DEF NextResults
  <2>2. \E b, d : r.stepper = [[told EXCEPT !.prev = b] EXCEPT !.cur = d]
    BY <2>1 DEF IterationNext
  <2>3. QED BY <1>1, <2>2 DEF Stepper
<1>5. CASE c.kind = "EvolutionaryPID"
  <2>1. PICK h \in PIDSizes(c, told, err) : r = PIDNext(c, told, err, h)
    BY <1>2, <1>5 DEF NextResults
  <2>2. \E b, d, e : r.stepper \in {[told EXCEPT !.accepted = e, !.cur = d],
                                    [told EXCEPT !.accepted = e, !.prev = b, !.cur = d]}
    BY <2>1 DEF PIDNext
  <2>3. QED BY <1>1, <2>2 DEF Stepper
<1>6. QED BY <1>2, <1>3, <1>4, <1>5 DEF Kinds

(* Before the end such a stepper agrees to go on with a positive size that *)
(* does not jump over an output time.                                      *)
LEMMA NextHeedsTimes ==
  ASSUME NEW c \in StepperConfig, ValidConfig(c), HeedsOutputTimes(c),
         NEW s \in Stepper, OutputTimes \subseteq s.fixedTimes, s.cur.current < c.end,
         AtStart(s) \/ Underway(s),
         NEW err \in Errors, NEW iterations \in Int,
         NEW r \in NextResults(c, SetAcceptedOrNot(c, s, TRUE), err, iterations), r.more
  PROVE  /\ Dt(r.stepper.cur) \in Int /\ Dt(r.stepper.cur) > 0
         /\ \A f \in OutputTimes :
              ~(s.cur.current < f /\ f < s.cur.current + Dt(r.stepper.cur))
<1>1. c.kind \in {"IterationNumberBased", "EvolutionaryPID"}
  BY DEF StepperConfig, Kinds, HeedsOutputTimes
<1> DEFINE told == SetAcceptedOrNot(c, s, TRUE)
<1>2. /\ told \in Stepper /\ told.cur = s.cur /\ told.accepted = TRUE
      /\ told.fixedTimes = s.fixedTimes
  BY <1>1 DEF SetAcceptedOrNot, Stepper
<1>3. /\ s.cur \in TimeStep /\ s.cur.current \in Int /\ s.fixedTimes \in SUBSET Nat
      /\ c.end \in Int /\ c.initialDt \in Int /\ OutputTimes \in SUBSET Nat
      /\ StartTime \in Nat
  BY StepperFields, OutputAssumption, StartTimeIsBegin DEF StepperConfig, TimeStep
<1>4. \A d \in Int : Dt(Advanced(s.cur, d)) = d
  BY <1>3 DEF Dt, Advanced
<1> HIDE DEF told
<1>5. CASE c.kind = "IterationNumberBased"
  <2> DEFINE moved == [told EXCEPT !.prev = s.cur]
             size == GetNextTimeStepSize(c, moved, iterations)
             d == PossiblyClampDtToNextFixedTime(s.cur.current, size, s.fixedTimes)
  <2>1. moved \in Stepper /\ moved.prev = s.cur
    BY <1>2, <1>3 DEF Stepper
  <2>2. size \in Int /\ size > 0
    BY <1>5, <2>1, IteratedPositive DEF HeedsOutputTimes
  <2>3. /\ d \in Int /\ d > 0
        /\ \A f \in s.fixedTimes : ~(s.cur.current < f /\ f < s.cur.current + d)
    BY <1>3, <2>2, ClampedSizeJumpsOverNoFixedTime
  <2>4. r = IterationNext(c, told, iterations)
    BY <1>5 DEF NextResults, told
  <2>5. r.stepper = [moved EXCEPT !.cur = Advanced(s.cur, d)]
    BY <1>2, <2>4 DEF IterationNext
  <2> HIDE DEF d
  <2>6. r.stepper.cur = Advanced(s.cur, d)
    BY <2>1, <2>5 DEF Stepper
  <2>7. Dt(r.stepper.cur) = d
    BY <1>4, <2>3, <2>6
  <2>8. QED BY <2>3, <2>7
<1>6. CASE c.kind = "EvolutionaryPID"
  <2>1. PICK h \in PIDSizes(c, told, err) : r = PIDNext(c, told, err, h)
    BY <1>6 DEF NextResults, told
  <2>2. h \in Int
    BY <1>2, PIDSizesType
  <2> DEFINE size == LimitStepSize(c, told, h)
             d == PossiblyClampDtToNextFixedTime(s.cur.current, size, s.fixedTimes)
             taken == IF s.cur.steps = 0 THEN c.initialDt ELSE d
  <2>3. r.stepper = [told EXCEPT !.accepted = TRUE, !.prev = s.cur,
                                 !.cur = Advanced(s.cur, taken)]
    BY <1>2, <2>1 DEF PIDNext
  <2>4. 0 < c.minDt /\ Scale <= c.relMax /\ 0 < c.initialDt
    BY <1>6 DEF HeedsOutputTimes, ProposesPositive
  <2>5. CASE Underway(s)
    <3>1. size \in Int /\ size > 0
      BY <1>2, <2>2, <2>4, <2>5, LimitedPositive DEF Underway
    <3>2. /\ d \in Int /\ d > 0
          /\ \A f \in s.fixedTimes : ~(s.cur.current < f /\ f < s.cur.current + d)
      BY <1>3, <3>1, ClampedSizeJumpsOverNoFixedTime
    <3>3. taken = d
      BY <1>3, <2>5 DEF Underway, TimeStep
    <3> HIDE DEF d, taken
    <3>4. r.stepper.cur = Advanced(s.cur, d)
      BY <1>2, <2>3, <3>3 DEF Stepper
    <3>5. Dt(r.stepper.cur) = d
      BY <1>4, <3>2, <3>4
    <3>6. QED BY <3>2, <3>5
  <2>6. CASE AtStart(s)
    <3>1. s.cur.steps = 0 /\ s.cur.current = StartTime
      BY <2>6 DEF AtStart, TimeStepAt
    <3>2. taken = c.initialDt
      BY <3>1
    <3> HIDE DEF taken
    <3>3. r.stepper.cur = Advanced(s.cur, c.initialDt)
      BY <1>2, <2>3, <3>2 DEF Stepper
    <3>4. Dt(r.stepper.cur) = c.initialDt
      BY <1>3, <1>4, <3>3
    <3>5. \A f \in OutputTimes : f <= StartTime \/ StartTime + c.initialDt <= f
      BY <1>6 DEF HeedsOutputTimes
    <3>6. QED BY <1>3, <2>4, <3>1, <3>4, <3>5
  <2>7. QED BY <2>5, <2>6
<1>7. QED BY <1>1, <1>5, <1>6

(***************************************************************************)
(* Every fixed time has a file or is still to come, and a time to come is  *)
(* never behind the loop's time: the next step does not jump over it.      *)
(***************************************************************************)
JumpsOverNoTime == \A f \in OutputTimes : ~(t < f /\ f < t + dt)

TimesInv(p) ==
  rejected = 0 =>
    /\ OutputTimes \subseteq stepper[p].fixedTimes
    /\ pc \in Within => Underway(stepper[p])
    /\ pc \in {"loop", "output", "check"} =>
         t = EndTime \/ (Underway(stepper[p]) /\ JumpsOverNoTime)
    /\ \A f \in OutputTimes : f \in pending \/ FileAt(f)
    /\ pc \in Within \cup {"outputInitial", "output"} => \A f \in pending : t <= f
    /\ pc \in {"first", "loop", "check", "outputLast", "done"} => \A f \in pending : t < f

LEMMA InitTimesInv ==
  ASSUME NEW p \in Proc, HeedsOutputTimes(Config[p]), \A f \in OutputTimes : StartTime <= f
  PROVE  Init => TimesInv(p)
<1> SUFFICES ASSUME Init PROVE TimesInv(p)
  OBVIOUS
<1>1. pc = "outputInitial" /\ t = StartTime /\ pending = OutputTimes
  BY DEF Init
<1>2. stepper[p] = AddFixedOutputTimes(Config[p], NewStepper(Config[p]), OutputTimes)
  BY DEF Init
<1>3. OutputTimes \subseteq stepper[p].fixedTimes
  BY <1>2 DEF AddFixedOutputTimes, NewStepper, HeedsOutputTimes
<1>4. QED BY <1>1, <1>3 DEF TimesInv, Within

(* The process at whose turn a fixed time is found writes, as every        *)
(* process does if the scheme is not staggered or there is but one.        *)
LEMMA TurnKeepsTimes ==
  ASSUME ~Staggered \/ NumProcesses = 1, NEW p \in Proc,
         TypeInv, CountInv, TimesInv(p), OutputSolution
  PROVE  TimesInv(p)'
<1>1. /\ Writes => FileAt(t)'
      /\ \A f : FileAt(f) => FileAt(f)'
      /\ pending' = IF status[proc].met THEN PendingAfter(t, pending) ELSE pending
      /\ UNCHANGED <<t, dt, prevDt, stepper, rejected>>
      /\ pc \in {"outputInitial", "output", "outputLast"}
      /\ \/ proc < NumProcesses /\ pc' = pc
         \/ /\ proc = NumProcesses
            /\ \/ pc = "outputInitial" /\ pc' = "first"
               \/ pc = "output" /\ pc' = "check"
               \/ pc = "outputLast" /\ pc' = "done"
  BY Turn
<1> SUFFICES ASSUME rejected = 0 PROVE TimesInv(p)'
  BY <1>1 DEF TimesInv
<1> SUFFICES /\ \A f \in OutputTimes : f \in pending' \/ FileAt(f)'
             /\ \A f \in pending' : t < f
  <2>1. /\ OutputTimes \subseteq stepper'[p].fixedTimes
        /\ pc' \in {"output", "check"} =>
             t' = EndTime \/ (Underway(stepper'[p]) /\ JumpsOverNoTime')
    BY <1>1 DEF TimesInv, JumpsOverNoTime
  <2>2. pc' \in {"outputInitial", "first", "output", "check", "outputLast", "done"}
    BY <1>1
  <2>3. (\A f \in pending' : t < f) => \A f \in pending' : t <= f
    BY <1>1 DEF TypeInv, TypeOK, PendingAfter
  <2>4. QED BY <1>1, <2>1, <2>2, <2>3 DEF TimesInv, Within
<1>2. pending \in SUBSET Nat /\ t \in Int /\ proc \in Proc /\ NumProcesses \in Nat
  BY ConfigFacts DEF TypeInv, TypeOK
<1>3. WritesFile(Staggered, proc, NumProcesses)
  BY <1>2 DEF WritesFile, Proc
<1>4. \A f \in OutputTimes : f \in pending \/ FileAt(f)
  BY DEF TimesInv
<1>5. CASE pc = "outputLast"
  <2>1. \A f \in pending : t < f
    BY <1>5 DEF TimesInv
  <2>2. pending' = pending
    BY <1>1, <1>2, <2>1, TimeFound DEF PendingAfter
  <2>3. QED BY <1>1, <1>4, <2>1, <2>2
<1>6. CASE pc \in {"outputInitial", "output"}
  <2>1. (\A f \in pending : t <= f) /\ status[proc].met
    BY <1>2, <1>6 DEF TimesInv, CountInv, AllMet
  <2>2. CASE t \in pending
    <3>1. IsTimeForOutput(t, pending)
      BY <1>2, <2>1, <2>2, TimeFound
    <3>2. pending' = pending \ {t}
      BY <1>1, <2>1, <3>1 DEF PendingAfter
    <3>3. Writes
      BY <1>3, <1>6, <2>1, <3>1 DEF Writes, WritesNow, Due, ShallDoOutput
    <3>4. FileAt(t)'
      BY <1>1, <3>3
    <3>5. \A f \in OutputTimes : f = t => FileAt(f)'
      BY <1>1, <3>4 DEF FileAt
    <3>6. \A f \in pending' : t < f
      BY <1>2, <2>1, <3>2
    <3>7. QED BY <1>1, <1>4, <3>2, <3>5, <3>6
  <2>3. CASE t \notin pending
    <3>1. pending' = pending
      BY <1>1, <1>2, <2>3, TimeFound DEF PendingAfter
    <3>2. \A f \in pending : t < f
      BY <1>2, <2>1, <2>3
    <3>3. QED BY <1>1, <1>4, <3>1, <3>2
  <2>4. QED BY <2>2, <2>3
<1>7. QED BY <1>1, <1>5, <1>6

(* The least of the sizes is not above that of this process.               *)
LEMMA DecisionKeepsTimes ==
  ASSUME BeginTogether, EndTogether, NEW p \in Proc, HeedsOutputTimes(Config[p]),
         TypeInv, ClockInv, FollowInv, TimesInv(p), ComputeTimeStepping
  PROVE  TimesInv(p)'
<1> SUFFICES ASSUME rejected' = 0 PROVE TimesInv(p)'
  BY DEF TimesInv
<1>1. PICK err \in [Proc -> Errors], next \in [Proc -> NextResult] :
        /\ DecideOnStep(next)
        /\ \A q \in Proc :
             /\ err[q] \in PossibleErrors(Config[q], t)
             /\ next[q] \in NextResults(Config[q],
                              SetAcceptedOrNot(Config[q], stepper[q], status[q].met),
                              err[q], status[q].iterations)
  BY NextOfEach
<1> DEFINE least == LeastSize(next)
<1>2. /\ rejected = 0 /\ UNCHANGED <<t, status, pending, written>>
      /\ \/ pc = "first" /\ pc' = "loop"
         \/ pc = "stepping" /\ pc' = "output"
  BY DecisionKeepsStep
<1>3. /\ Config[p] \in StepperConfig /\ ValidConfig(Config[p]) /\ stepper[p] \in Stepper
      /\ status[p].met \in BOOLEAN /\ status[p].iterations \in Int /\ err[p] \in Errors
      /\ t \in Int /\ t <= EndTime /\ EndTime \in Nat /\ Config[p].end = EndTime
      /\ least \in Int
  BY ConfigFacts, EndTimeIsGreatest, LeastSizeChosen
  DEF TypeInv, TypeOK, Status, ClockInv, ClockWithinRun, EndTogether
<1>4. next[p] \in NextResult /\ next[p].stepper \in Stepper
  BY DEF NextResult
<1>5. next[p].stepper.fixedTimes = stepper[p].fixedTimes
  BY <1>1, <1>3, NextKeepsFixedTimes
<1>6. stepper'[p] = ResetCurrentTimeStep(next[p].stepper, least)
  BY <1>1 DEF DecideOnStep
<1>7. /\ stepper'[p].fixedTimes = stepper[p].fixedTimes
      /\ stepper'[p].cur = Advanced(next[p].stepper.prev, least)
  BY <1>4, <1>5, <1>6 DEF ResetCurrentTimeStep, Stepper
<1>8. stepper'[p].cur.steps > 0 /\ Dt(stepper'[p].cur) = least
  <2>1. /\ next[p].stepper.prev \in TimeStep
        /\ next[p].stepper.prev.steps \in Nat /\ next[p].stepper.prev.current \in Int
    BY <1>4, StepperFields DEF TimeStep
  <2>2. QED BY <1>3, <1>7, <2>1 DEF Advanced, Dt
<1>9. dt' = CappedSize(t, least)
  BY <1>1, <1>2 DEF DecideOnStep
<1> HIDE DEF least
<1>10. ASSUME t # EndTime PROVE Underway(stepper'[p]) /\ JumpsOverNoTime'
  <2>1. /\ next[p].more /\ status[p].met /\ stepper[p].cur.current = t
        /\ AtStart(stepper[p]) \/ Underway(stepper[p])
    <3>1. CASE pc = "first"
      <4>1. t = StartTime /\ t = Config[p].begin
        BY <3>1 DEF ClockInv, BeginTogether
      <4>2. status[p].met /\ stepper[p].cur = TimeStepAt(t)
        BY <1>2, <3>1 DEF FollowInv
      <4>3. err[p] = "zero"
        BY <1>1, <4>1 DEF PossibleErrors
      <4>4. next[p].more
        <5>1. stepper[p].cur = TimeStepAt(Config[p].begin)
          BY <4>1, <4>2
        <5>2. next[p] \in NextResults(Config[p],
                            SetAcceptedOrNot(Config[p], stepper[p], status[p].met),
                            err[p], status[p].iterations)
          BY <1>1
        <5>3. QED BY <1>3, <4>3, <5>1, <5>2, NextOutcome
      <4>5. QED BY <4>1, <4>2, <4>4 DEF AtStart, TimeStepAt
    <3>2. CASE pc = "stepping"
      <4>1. stepper[p].cur.current = t /\ Underway(stepper[p])
        BY <1>2, <1>10, <3>2 DEF FollowInv, TimesInv, Within
      <4>2. AcceptsStep(next)
        <5>1. ~InitialStep
          BY <1>3, <3>2, StartTimeIsBegin
          DEF ClockInv, ClockWithinRun, InitialStep, BeginTogether, TypeInv, TypeOK
        <5>2. rejected' = IF ~AcceptsStep(next) /\ t <= EndTime /\ ~InitialStep
                          THEN rejected + 1 ELSE rejected
          BY <1>1 DEF DecideOnStep
        <5>3. QED BY <1>2, <1>3, <5>1, <5>2
      <4>3. next[p].more /\ status[p].met
        BY <1>3, <1>10, <4>2 DEF AcceptsStep
      <4>4. QED BY <4>1, <4>3
    <3>3. QED BY <1>2, <3>1, <3>2
  <2>2. status[p].met = TRUE /\ t < Config[p].end
    BY <1>3, <1>10, <2>1
  <2>3. OutputTimes \subseteq stepper[p].fixedTimes
    BY <1>2 DEF TimesInv
  <2>4. next[p] \in NextResults(Config[p], SetAcceptedOrNot(Config[p], stepper[p], TRUE),
                                err[p], status[p].iterations)
    BY <1>1, <2>2
  <2> DEFINE size == Dt(next[p].stepper.cur)
  <2>5. /\ size \in Int /\ size > 0
        /\ \A f \in OutputTimes : ~(t < f /\ f < t + size)
    BY <1>3, <2>1, <2>2, <2>3, <2>4, NextHeedsTimes
  <2>6. least <= size
    BY <2>5, LeastSizeChosen DEF least
  <2>7. least > 0
    <3>1. \A q \in Proc : t # Config[q].end
      BY <1>10 DEF EndTogether
    <3>2. QED BY <3>1, LeastSizeChosen DEF least
  <2>8. dt' <= least /\ dt' \in Int
    BY <1>3, <1>9 DEF CappedSize
  <2> HIDE DEF size
  <2>9. JumpsOverNoTime'
    <3>1. t' = t /\ dt' <= size
      BY <1>2, <1>3, <2>5, <2>6, <2>8
    <3>2. \A f \in OutputTimes : f \in Int /\ ~(t < f /\ f < t + dt')
      BY <1>3, <2>5, <2>8, <3>1, OutputAssumption
    <3>3. QED BY <3>1, <3>2 DEF JumpsOverNoTime
  <2>10. QED BY <1>8, <2>7, <2>9 DEF Underway
<1>11. FileAt(t)' = FileAt(t) /\ \A f : FileAt(f)' = FileAt(f)
  BY <1>2 DEF FileAt
<1>12. QED
  BY <1>2, <1>7, <1>10, <1>11 DEF TimesInv, Within

LEMMA NextTimesInv ==
  ASSUME BeginTogether, EndTogether, ~Staggered \/ NumProcesses = 1,
         NEW p \in Proc, HeedsOutputTimes(Config[p])
  PROVE  TypeInv /\ ClockInv /\ FollowInv /\ CountInv /\ PendingInv /\ TimesInv(p)
         /\ [Next]_vars => TimesInv(p)'
<1> SUFFICES ASSUME TypeInv, ClockInv, FollowInv, CountInv, PendingInv, TimesInv(p),
                    [Next]_vars
             PROVE  TimesInv(p)'
  OBVIOUS
<1>1. CASE OutputSolution
  BY <1>1, TurnKeepsTimes
<1>2. CASE ComputeTimeStepping
  BY <1>2, DecisionKeepsTimes
<1>3. CASE BeginTimestep
  <2>1. /\ pc = "loop" /\ pc' \in {"solve", "post"} /\ t' = t + dt
        /\ UNCHANGED <<stepper, rejected, pending, written>>
        /\ t \in Int /\ dt \in Int /\ pending \in SUBSET Nat /\ t # EndTime
    BY <1>3, EndTimeIsGreatest DEF BeginTimestep, outputVars, TypeInv, TypeOK
  <2> SUFFICES ASSUME rejected = 0 PROVE TimesInv(p)'
    BY <2>1 DEF TimesInv
  <2>2. /\ Underway(stepper[p]) /\ JumpsOverNoTime
        /\ \A f \in pending : t < f
    BY <2>1 DEF TimesInv
  <2>3. \A f \in pending : t + dt <= f
    BY <2>1, <2>2 DEF JumpsOverNoTime, PendingInv
  <2>4. OutputTimes \subseteq stepper[p].fixedTimes
        /\ \A f \in OutputTimes : f \in pending \/ FileAt(f)
    BY DEF TimesInv
  <2>5. QED BY <2>1, <2>2, <2>3, <2>4 DEF TimesInv, FileAt, Within
<1>4. CASE SolveConverged \/ SolveDiverged \/ PostTimestep
  <2>1. /\ pc \in Within /\ pc' \in Within \cup {"fatal"}
        /\ UNCHANGED <<t, dt, stepper, rejected, pending>>
    BY <1>4
    DEF SolveConverged, SolveDiverged, AfterFailure, PostTimestep, Within, clockVars,
        countVars, outputVars
  <2>2. ASSUME NEW f, FileAt(f) PROVE FileAt(f)'
    <3>1. written' = written \/ \E file \in File : written' = Append(written, file)
      BY <1>4, DivergedWrites DEF SolveConverged, PostTimestep, outputVars
    <3>2. QED BY <2>2, <3>1, FilesStay DEF TypeInv, TypeOK
  <2>3. QED BY <2>1, <2>2 DEF TimesInv, Within
<1>5. CASE CheckEnd
  <2>1. /\ pc = "check" /\ pc' \in {"outputLast", "done", "loop"}
        /\ UNCHANGED <<t, dt, stepper, rejected, pending, written>>
    BY <1>5 DEF CheckEnd, clockVars, countVars, outputVars
  <2>2. QED BY <2>1 DEF TimesInv, FileAt, JumpsOverNoTime, Within
<1>6. CASE UNCHANGED vars
  BY <1>6 DEF vars, clockVars, countVars, outputVars, TimesInv, FileAt, JumpsOverNoTime
<1>7. QED BY <1>1, <1>2, <1>3, <1>4, <1>5, <1>6 DEF Next, Terminated

(* When the loop has succeeded without rejecting a step, there is a file   *)
(* for every fixed output time, if one of the steppers heeds them and      *)
(* every process writes: none is jumped over and none is lost in the list. *)
THEOREM EveryFixedTimeWritten ==
  ASSUME BeginTogether, EndTogether, ~Staggered \/ NumProcesses = 1,
         \A f \in OutputTimes : StartTime <= f,
         NEW p \in Proc, HeedsOutputTimes(Config[p])
  PROVE  Spec => []FixedTimesWritten
<1>1. TypeInv /\ EndInv /\ TimesInv(p) => FixedTimesWritten
  <2> SUFFICES ASSUME TypeInv, EndInv, TimesInv(p), pc = "done", lastStatus.met, rejected = 0,
                      NEW f \in OutputTimes \cap (StartTime .. EndTime)
               PROVE  FileAt(f)
    BY DEF FixedTimesWritten, FileAt
  <2>1. t = EndTime /\ f <= EndTime /\ f \in Int /\ EndTime \in Int
    BY EndTimeIsGreatest, StartTimeIsBegin DEF EndInv, SuccessMeansEndReached
  <2>2. f \notin pending
    BY <2>1 DEF TimesInv
  <2>3. QED BY <2>2 DEF TimesInv
<1>2. TypeInv /\ ClockInv /\ CountInv /\ [Next]_vars => CountInv'
  BY NextCountInv
<1>3. TypeInv /\ ClockInv /\ RoundInv /\ EndInv /\ [Next]_vars => EndInv'
  BY NextEndInv
<1>4. TypeInv /\ ClockInv /\ FollowInv /\ [Next]_vars => FollowInv'
  BY NextFollowInv
<1>5. TypeInv /\ ClockInv /\ FollowInv /\ CountInv /\ PendingInv /\ TimesInv(p)
      /\ [Next]_vars => TimesInv(p)'
  BY NextTimesInv
<1>6. Init => FollowInv /\ TimesInv(p)
  BY InitFollowInv, InitTimesInv
<1>7. QED
  BY <1>1, <1>2, <1>3, <1>4, <1>5, <1>6, InitTypeInv, NextTypeInv, InitClockInv,
     NextClockInv, InitRoundInv, NextRoundInv, InitEndInv, InitCountInv, InitOnceInv,
     NextPendingInv, PTL
  DEF Spec

-----------------------------------------------------------------------------
(***************************************************************************)
(* What the decision on a step says of the steppers.  FixedTimeStepping    *)
(* never rejects a step; the others do what the solver or the error says,  *)
(* and the loop follows them, except in a step to the end of the process.  *)
(***************************************************************************)
FixedAlwaysAccept ==
  \A p \in Proc : Config[p].kind = "FixedTimeStepping" => stepper[p].accepted

LEMMA InitFixedAccept == Init => FixedAlwaysAccept
BY DEF Init, FixedAlwaysAccept, AddFixedOutputTimes, NewStepper

LEMMA NextAccepts ==
  ASSUME NEW c \in StepperConfig, NEW s \in Stepper, NEW met \in BOOLEAN,
         NEW err \in Errors, NEW iterations \in Int,
         NEW r \in NextResults(c, SetAcceptedOrNot(c, s, met), err, iterations)
  PROVE  /\ c.kind = "FixedTimeStepping" => r.stepper.accepted = s.accepted
         /\ c.kind = "IterationNumberBased" => r.stepper.accepted = met
         /\ c.kind = "EvolutionaryPID" => r.stepper.accepted = r.more
<1> DEFINE told == SetAcceptedOrNot(c, s, met)
<1>1. /\ told \in Stepper
      /\ told.accepted = IF c.kind = "FixedTimeStepping" THEN s.accepted ELSE met
  BY DEF SetAcceptedOrNot, Stepper
<1>2. r \in NextResults(c, told, err, iterations)
  OBVIOUS
<1> HIDE DEF told
<1>3. CASE c.kind = "FixedTimeStepping"
  <2>1. r = FixedNext(c, told)
    BY <1>2, <1>3 DEF NextResults
  <2>2. r.stepper = told \/ \E d : r.stepper = [told EXCEPT !.prev = told.cur, !.cur = d]
    BY <2>1 DEF FixedNext
  <2>3. QED BY <1>1, <1>3, <2>2 DEF Stepper
<1>4. CASE c.kind = "IterationNumberBased"
  <2>1. r = IterationNext(c, told, iterations)
    BY <1>2, <1>4 DEF NextResults
  <2>2. \E b, d : r.stepper = [[told EXCEPT !.prev = b] EXCEPT !.cur = d]
    BY <2>1 DEF IterationNext
  <2>3. QED BY <1>1, <1>4, <2>2 DEF Stepper
<1>5. CASE c.kind = "EvolutionaryPID"
  <2>1. PICK h \in PIDSizes(c, told, err) : r = PIDNext(c, told, err, h)
    BY <1>2, <1>5 DEF NextResults
  <2>2. \/ ~r.more /\ r.more = FALSE
           /\ \E d : r.stepper = [told EXCEPT !.accepted = FALSE, !.cur = d]
        \/ r.more /\ r.more = TRUE
           /\ \E b, d : r.stepper = [told EXCEPT !.accepted = TRUE, !.prev = b, !.cur = d]
    BY <2>1 DEF PIDNext
  <2>3. QED BY <1>1, <1>5, <2>2 DEF Stepper
<1>6. QED BY <1>3, <1>4, <1>5 DEF StepperConfig, Kinds

LEMMA DecisionOfSteppers ==
  ASSUME TypeInv, FixedAlwaysAccept, ComputeTimeStepping
  PROVE  /\ FixedAlwaysAccept'
         /\ accepted' > accepted =>
              \A p \in Proc : Config[p].kind = "EvolutionaryPID" /\ t < Config[p].end
                              => stepper'[p].accepted
         /\ accepted' > accepted =>
              \A p \in Proc : Config[p].kind # "EvolutionaryPID" => stepper'[p].accepted
<1>1. PICK err \in [Proc -> Errors], next \in [Proc -> NextResult] :
        /\ DecideOnStep(next)
        /\ \A p \in Proc :
             next[p] \in NextResults(Config[p],
                           SetAcceptedOrNot(Config[p], stepper[p], status[p].met),
                           err[p], status[p].iterations)
  BY NextOfEach
<1>2. accepted' > accepted => AcceptsStep(next)
  BY <1>1 DEF DecideOnStep, TypeInv, TypeOK
<1>3. ASSUME NEW p \in Proc
      PROVE  /\ Config[p].kind = "FixedTimeStepping" => stepper'[p].accepted
             /\ AcceptsStep(next) /\ Config[p].kind # "EvolutionaryPID"
                  => stepper'[p].accepted
             /\ AcceptsStep(next) /\ Config[p].kind = "EvolutionaryPID" /\ t < Config[p].end
                  => stepper'[p].accepted
  <2>1. /\ Config[p] \in StepperConfig /\ stepper[p] \in Stepper
        /\ status[p].met \in BOOLEAN /\ status[p].iterations \in Int /\ err[p] \in Errors
        /\ next[p] \in NextResult /\ t \in Int /\ Config[p].end \in Int
        /\ Config[p].kind \in Kinds
    <3>1. Config[p] \in StepperConfig
      BY ConfigFacts
    <3>2. Config[p].end \in Int /\ Config[p].kind \in Kinds
      BY <3>1 DEF StepperConfig
    <3>3. status[p] \in Status
      BY DEF TypeInv, TypeOK
    <3>4. status[p].met \in BOOLEAN /\ status[p].iterations \in Int
      BY <3>3 DEF Status
    <3>5. QED BY <3>1, <3>2, <3>4 DEF TypeInv, TypeOK
  <2>2. next[p] \in NextResults(Config[p],
                      SetAcceptedOrNot(Config[p], stepper[p], status[p].met),
                      err[p], status[p].iterations)
    BY <1>1
  <2>3. /\ Config[p].kind = "FixedTimeStepping" =>
             next[p].stepper.accepted = stepper[p].accepted
        /\ Config[p].kind = "IterationNumberBased" => next[p].stepper.accepted = status[p].met
        /\ Config[p].kind = "EvolutionaryPID" => next[p].stepper.accepted = next[p].more
    BY <2>1, <2>2, NextAccepts
  <2>4. stepper'[p].accepted = next[p].stepper.accepted
    <3>1. stepper'[p] = ResetCurrentTimeStep(next[p].stepper, LeastSize(next))
      BY <1>1 DEF DecideOnStep
    <3>2. next[p].stepper \in Stepper
      BY <2>1 DEF NextResult
    <3>3. QED BY <3>1, <3>2 DEF ResetCurrentTimeStep, Stepper
  <2>5. AcceptsStep(next) => (next[p].more \/ t >= Config[p].end) /\ status[p].met
    BY DEF AcceptsStep
  <2>6. Config[p].kind = "FixedTimeStepping" => stepper[p].accepted
    BY DEF FixedAlwaysAccept
  <2>7. QED BY <2>1, <2>3, <2>4, <2>5, <2>6 DEF Kinds
<1>4. QED BY <1>2, <1>3 DEF FixedAlwaysAccept

LEMMA StepOfSteppers ==
  ASSUME TypeInv, FixedAlwaysAccept, [Next]_vars
  PROVE  /\ FixedAlwaysAccept'
         /\ accepted' > accepted => ComputeTimeStepping
<1>1. CASE ComputeTimeStepping
  BY <1>1, DecisionOfSteppers
<1>2. CASE ~ComputeTimeStepping
  <2>1. UNCHANGED <<stepper, accepted>>
    BY <1>2
    DEF Next, OutputSolution, BeginTimestep, SolveConverged, SolveDiverged, PostTimestep,
        CheckEnd, Terminated, vars, countVars
  <2>2. QED BY <2>1 DEF FixedAlwaysAccept, TypeInv, TypeOK
<1>3. QED BY <1>1, <1>2

(* A step counts as accepted only if every stepper has accepted it; a PID  *)
(* controller is overruled only in a step that ends at its end time, the   *)
(* condition on which (TimeLoop.cpp:309) is meant for FixedTimeStepping.   *)
THEOREM AcceptedUnlessAtEnd ==
  Spec => [][accepted' > accepted =>
               \A p \in Proc : Config[p].kind # "EvolutionaryPID" \/ t < Config[p].end
                               => stepper'[p].accepted]_vars
<1> DEFINE Agreed == accepted' > accepted =>
                       \A p \in Proc : Config[p].kind # "EvolutionaryPID" \/ t < Config[p].end
                                       => stepper'[p].accepted
<1>1. TypeInv /\ FixedAlwaysAccept /\ [Next]_vars => FixedAlwaysAccept'
  BY StepOfSteppers
<1>2. TypeInv /\ FixedAlwaysAccept /\ [Next]_vars => Agreed
  BY StepOfSteppers, DecisionOfSteppers
<1> HIDE DEF Agreed
<1>3. Spec => [][Agreed]_vars
  BY <1>1, <1>2, InitTypeInv, NextTypeInv, InitFixedAccept, PTL DEF Spec
<1>4. QED BY <1>3 DEF Agreed

(* Without a PID controller a step counts as accepted only if no stepper   *)
(* has rejected it.                                                        *)
THEOREM EveryStepperAccepts ==
  ASSUME \A p \in Proc : Config[p].kind # "EvolutionaryPID"
  PROVE  Spec => AcceptedByEveryStepper
<1> DEFINE Agreed == accepted' > accepted => \A p \in Proc : stepper'[p].accepted
<1>1. TypeInv /\ FixedAlwaysAccept /\ [Next]_vars => FixedAlwaysAccept'
  BY StepOfSteppers
<1>2. TypeInv /\ FixedAlwaysAccept /\ [Next]_vars => Agreed
  BY StepOfSteppers, DecisionOfSteppers
<1> HIDE DEF Agreed
<1>3. Spec => [][Agreed]_vars
  BY <1>1, <1>2, InitTypeInv, NextTypeInv, InitFixedAccept, PTL DEF Spec
<1>4. QED BY <1>3 DEF Agreed, AcceptedByEveryStepper

-----------------------------------------------------------------------------
(***************************************************************************)
(* A rejected step is repeated, if PID controllers alone propose the       *)
(* sizes: theirs stay positive, also at the end time, where the sizes of   *)
(* the other steppers need not.                                            *)
(**************************************************************************)
PositiveControllers ==
  \A p \in Proc : Config[p].kind = "EvolutionaryPID" /\ ProposesPositive(Config[p])

RepeatInv ==
  /\ pc \in {"outputInitial", "first"} => \A p \in Proc : AtStart(stepper[p])
  /\ pc \in Within \cup {"loop", "output", "check"} =>
       \A p \in Proc : Underway(stepper[p])
  /\ pc = "output" => ~lastRejected
  /\ pc = "check" /\ lastRejected => ~LoopEnds

LEMMA InitRepeatInv == ASSUME BeginTogether PROVE Init => RepeatInv
<1> SUFFICES ASSUME Init PROVE RepeatInv
  OBVIOUS
<1>1. pc = "outputInitial"
  BY DEF Init
<1>2. \A p \in Proc : AtStart(stepper[p])
  BY DEF Init, AtStart, AddFixedOutputTimes, NewStepper, BeginTogether
<1>3. QED BY <1>1, <1>2 DEF RepeatInv, Within

LEMMA ControllerPositive ==
  ASSUME NEW c \in StepperConfig, c.kind = "EvolutionaryPID", ProposesPositive(c),
         NEW s \in Stepper, NEW met \in BOOLEAN, NEW err \in Errors, NEW iterations \in Int,
         Underway(s) \/ (AtStart(s) /\ err = "zero"),
         NEW r \in NextResults(c, SetAcceptedOrNot(c, s, met), err, iterations)
  PROVE  Dt(r.stepper.cur) > 0
<1> DEFINE told == SetAcceptedOrNot(c, s, met)
<1>1. /\ told \in Stepper /\ told.cur = s.cur /\ told.prev = s.prev
      /\ told.fixedTimes = s.fixedTimes
  BY DEF SetAcceptedOrNot, Stepper
<1>2. /\ s.cur \in TimeStep /\ s.cur.current \in Int /\ s.cur.steps \in Nat
      /\ s.prev \in TimeStep /\ s.prev.current \in Int /\ s.fixedTimes \in SUBSET Nat
      /\ c.initialDt \in Int /\ 0 < c.initialDt /\ 0 < c.minDt /\ Scale <= c.relMax
  BY StepperFields DEF StepperConfig, TimeStep, ProposesPositive
<1>3. \A ts \in TimeStep, d \in Int : Dt(Advanced(ts, d)) = d
  BY DEF Dt, Advanced, TimeStep
<1>4. r \in NextResults(c, told, err, iterations)
  OBVIOUS
<1> HIDE DEF told
<1>5. PICK h \in PIDSizes(c, told, err) : r = PIDNext(c, told, err, h)
  BY <1>4 DEF NextResults
<1>6. h \in Int
  BY <1>1, PIDSizesType
<1> DEFINE size == LimitStepSize(c, told, h)
           d == PossiblyClampDtToNextFixedTime(s.cur.current, size, s.fixedTimes)
           taken == IF s.cur.steps = 0 THEN c.initialDt ELSE d
<1>7. r.stepper = IF err = "above"
                  THEN [told EXCEPT !.accepted = FALSE, !.cur = Advanced(s.prev, d)]
                  ELSE [told EXCEPT !.accepted = TRUE, !.prev = s.cur,
                                    !.cur = Advanced(s.cur, taken)]
  BY <1>1, <1>5 DEF PIDNext
<1>8. Underway(s) => d \in Int /\ d > 0 /\ taken = d
  <2> SUFFICES ASSUME Underway(s) PROVE d \in Int /\ d > 0 /\ taken = d
    OBVIOUS
  <2>1. size \in Int /\ size > 0
    BY <1>1, <1>2, <1>6, LimitedPositive DEF Underway
  <2>2. d \in Int /\ d > 0
    BY <1>2, <2>1, ClampedSizeJumpsOverNoFixedTime
  <2>3. QED BY <1>2, <2>2 DEF Underway
<1>9. AtStart(s) => taken = c.initialDt
  BY DEF AtStart, TimeStepAt
<1> HIDE DEF d, taken
<1>10. r.stepper.cur = IF err = "above" THEN Advanced(s.prev, d) ELSE Advanced(s.cur, taken)
  BY <1>1, <1>7 DEF Stepper
<1>11. QED BY <1>2, <1>3, <1>8, <1>9, <1>10

LEMMA DecisionKeepsRepeat ==
  ASSUME BeginTogether, PositiveControllers, TypeInv, ClockInv, RepeatInv,
         ComputeTimeStepping
  PROVE  RepeatInv'
<1>1. PICK err \in [Proc -> Errors], next \in [Proc -> NextResult] :
        /\ DecideOnStep(next)
        /\ \A p \in Proc :
             /\ err[p] \in PossibleErrors(Config[p], t)
             /\ next[p] \in NextResults(Config[p],
                              SetAcceptedOrNot(Config[p], stepper[p], status[p].met),
                              err[p], status[p].iterations)
  BY NextOfEach
<1> DEFINE accept == AcceptsStep(next)
           reject == ~accept /\ t <= EndTime
           least  == LeastSize(next)
<1>2. /\ pc \in {"first", "stepping"} /\ t \in Int /\ prevDt \in Int /\ t <= EndTime
      /\ EndTime \in Nat /\ least \in Int
  BY EndTimeIsGreatest, LeastSizeChosen
  DEF ComputeTimeStepping, TypeInv, TypeOK, ClockInv, ClockWithinRun
<1>3. ASSUME NEW p \in Proc PROVE Dt(next[p].stepper.cur) > 0
  <2>1. /\ Config[p] \in StepperConfig /\ stepper[p] \in Stepper
        /\ status[p].met \in BOOLEAN /\ status[p].iterations \in Int /\ err[p] \in Errors
        /\ Config[p].kind = "EvolutionaryPID" /\ ProposesPositive(Config[p])
    BY ConfigFacts DEF TypeInv, TypeOK, Status, PositiveControllers
  <2>2. Underway(stepper[p]) \/ (AtStart(stepper[p]) /\ err[p] = "zero")
    <3>1. CASE pc = "first"
      <4>1. t = Config[p].begin
        BY <3>1 DEF ClockInv, BeginTogether
      <4>2. QED BY <1>1, <3>1, <4>1 DEF RepeatInv, PossibleErrors
    <3>2. CASE pc = "stepping"
      BY <3>2 DEF RepeatInv, Within
    <3>3. QED BY <1>2, <3>1, <3>2
  <2>3. next[p] \in NextResults(Config[p],
                      SetAcceptedOrNot(Config[p], stepper[p], status[p].met),
                      err[p], status[p].iterations)
    BY <1>1
  <2>4. QED BY <2>1, <2>2, <2>3, ControllerPositive
<1>4. least > 0
  BY <1>3, LeastSizeChosen
<1>5. \A p \in Proc : Underway(stepper'[p])
  <2> SUFFICES ASSUME NEW p \in Proc PROVE Underway(stepper'[p])
    OBVIOUS
  <2>1. /\ next[p].stepper \in Stepper
        /\ stepper'[p] = ResetCurrentTimeStep(next[p].stepper, least)
    BY <1>1 DEF DecideOnStep, NextResult
  <2>2. stepper'[p].cur = Advanced(next[p].stepper.prev, least)
    BY <2>1 DEF ResetCurrentTimeStep, Stepper
  <2>3. /\ next[p].stepper.prev \in TimeStep
        /\ next[p].stepper.prev.steps \in Nat /\ next[p].stepper.prev.current \in Int
    BY <2>1, StepperFields DEF TimeStep
  <2> HIDE DEF least
  <2>4. QED BY <1>2, <1>4, <2>2, <2>3 DEF Underway, Advanced, Dt
<1>6. /\ t' = IF reject /\ ~InitialStep THEN t - prevDt ELSE t
      /\ dt' = CappedSize(t', least)
      /\ lastRejected' = IF InitialStep \/ ~(accept \/ reject) THEN lastRejected
                          ELSE reject
      /\ pc' = IF dt' = prevDt /\ lastRejected' THEN "fatal"
               ELSE CASE pc = "first"                     -> "loop"
                      [] pc = "stepping" /\ lastRejected' -> "check"
                      [] OTHER                            -> "output"
  BY <1>1 DEF DecideOnStep
<1>7. pc' \in {"fatal", "loop", "check", "output"}
  BY <1>6
<1> HIDE DEF least
<1>8. pc' = "output" => ~lastRejected'
  BY <1>2, <1>6
<1>9. ASSUME pc' = "check", lastRejected' PROVE ~LoopEnds'
  <2>1. pc = "stepping"
    BY <1>6, <1>9
  <2>2. ~InitialStep /\ prevDt > 0
    BY <1>2, <2>1, StartTimeIsBegin
    DEF ClockInv, ClockWithinRun, InitialStep, BeginTogether
  <2>3. reject
    <3>1. accept \/ reject
      BY <1>2
    <3>2. lastRejected' = reject
      BY <1>6, <2>2, <3>1
    <3>3. QED BY <1>9, <3>2
  <2>4. t' \in Int /\ t' < EndTime
    BY <1>2, <1>6, <2>2, <2>3
  <2>5. dt' \in Int /\ 0 < dt' /\ t' + dt' <= EndTime
    BY <1>2, <1>4, <1>6, <2>4 DEF CappedSize
  <2>6. EndTime \in Int
    BY <1>2
  <2>7. ~(t' + dt' > EndTime)
    <3>1. \A a, b, c \in Int : a + b <= c => ~(a + b > c)
      OBVIOUS
    <3>2. QED BY <2>4, <2>5, <2>6, <3>1
  <2>8. ~(t' >= EndTime) /\ ~(dt' <= 0)
    BY <2>4, <2>5, <2>6
  <2>9. QED BY <2>7, <2>8 DEF LoopEnds
<1>10. QED BY <1>5, <1>7, <1>8, <1>9 DEF RepeatInv, Within

LEMMA NextRepeatInv ==
  ASSUME BeginTogether, PositiveControllers
  PROVE  TypeInv /\ ClockInv /\ RepeatInv /\ [Next]_vars => RepeatInv'
<1> SUFFICES ASSUME TypeInv, ClockInv, RepeatInv, [Next]_vars PROVE RepeatInv'
  OBVIOUS
<1>1. CASE OutputSolution
  <2>1. /\ UNCHANGED <<t, dt, stepper, lastRejected>>
        /\ \/ pc' = pc /\ pc \in {"outputInitial", "output", "outputLast"}
           \/ pc = "outputInitial" /\ pc' = "first"
           \/ pc = "output" /\ pc' = "check"
           \/ pc = "outputLast" /\ pc' = "done"
    BY <1>1 DEF OutputSolution, clockVars, countVars
  <2>2. QED BY <2>1 DEF RepeatInv, Within
<1>2. CASE ComputeTimeStepping
  BY <1>2, DecisionKeepsRepeat
<1>3. CASE BeginTimestep
  BY <1>3 DEF BeginTimestep, RepeatInv, Within
<1>4. CASE SolveConverged \/ SolveDiverged \/ PostTimestep
  <2>1. /\ pc \in Within /\ pc' \in Within \cup {"fatal"} /\ stepper' = stepper
    BY <1>4 DEF SolveConverged, SolveDiverged, AfterFailure, PostTimestep, Within
  <2>2. QED BY <2>1 DEF RepeatInv, Within
<1>5. CASE CheckEnd
  <2>1. pc = "check" /\ pc' \in {"outputLast", "done", "loop"} /\ stepper' = stepper
    BY <1>5 DEF CheckEnd
  <2>2. QED BY <2>1 DEF RepeatInv, Within
<1>6. CASE UNCHANGED vars
  BY <1>6 DEF vars, clockVars, countVars, RepeatInv, LoopEnds
<1>7. QED BY <1>1, <1>2, <1>3, <1>4, <1>5, <1>6 DEF Next, Terminated

(* A rejected step is repeated, with a positive size from a time before    *)
(* the end, unless the program aborts, for any number of PID controllers.  *)
THEOREM RejectedIsRepeated ==
  ASSUME BeginTogether, PositiveControllers
  PROVE  Spec => RejectedStepIsRepeated
<1> DEFINE Repeated == pc = "check" /\ lastRejected => pc' = "loop"
<1>1. TypeInv /\ ClockInv /\ RepeatInv /\ [Next]_vars => RepeatInv'
  BY NextRepeatInv
<1>2. RepeatInv /\ [Next]_vars => [Repeated]_vars
  <2> SUFFICES ASSUME RepeatInv, Next, pc = "check", lastRejected PROVE pc' = "loop"
    OBVIOUS
  <2>1. CheckEnd
    BY DEF Next, OutputSolution, ComputeTimeStepping, BeginTimestep, SolveConverged,
           SolveDiverged, PostTimestep, Terminated
  <2>2. QED BY <2>1 DEF RepeatInv, CheckEnd
<1> HIDE DEF Repeated
<1>3. Spec => [][Repeated]_vars
  BY <1>1, <1>2, InitTypeInv, NextTypeInv, InitClockInv, NextClockInv, InitRepeatInv, PTL
  DEF Spec
<1>4. QED BY <1>3 DEF Repeated, RejectedStepIsRepeated

-----------------------------------------------------------------------------
(***************************************************************************)
(* The size of the retry.  All steppers hold the same size, which the loop *)
(* has shortened for its own use if it passed the end time.                *)
(***************************************************************************)
AllHold(size) == \A p \in Proc : Dt(stepper[p].cur) = size

SizeInv ==
  /\ pc \in {"loop", "output", "check"} =>
       \E size \in Int : AllHold(size) /\ dt = CappedSize(t, size)
  /\ pc \in Within =>
       \E size \in Int : AllHold(size) /\ prevDt = CappedSize(t - prevDt, size)

LEMMA DecisionKeepsSize == TypeInv /\ ComputeTimeStepping => SizeInv'
<1> SUFFICES ASSUME TypeInv, ComputeTimeStepping PROVE SizeInv'
  OBVIOUS
<1>1. PICK next \in [Proc -> NextResult] : DecideOnStep(next)
  BY NextIsWellFormed
<1> DEFINE least == LeastSize(next)
<1>2. least \in Int
  BY LeastSizeChosen
<1>3. dt' = CappedSize(t', least) /\ pc' \in {"fatal", "loop", "check", "output"}
  BY <1>1 DEF DecideOnStep
<1>4. \A p \in Proc : Dt(stepper'[p].cur) = least
  <2> SUFFICES ASSUME NEW p \in Proc PROVE Dt(stepper'[p].cur) = least
    OBVIOUS
  <2>1. /\ next[p].stepper \in Stepper
        /\ stepper'[p] = ResetCurrentTimeStep(next[p].stepper, least)
    BY <1>1 DEF DecideOnStep, NextResult
  <2>2. stepper'[p].cur = Advanced(next[p].stepper.prev, least)
    BY <2>1 DEF ResetCurrentTimeStep, Stepper
  <2>3. next[p].stepper.prev \in TimeStep /\ next[p].stepper.prev.current \in Int
    BY <2>1, StepperFields DEF TimeStep
  <2> HIDE DEF least
  <2>4. QED BY <1>2, <2>2, <2>3 DEF Advanced, Dt
<1> HIDE DEF least
<1>5. PICK size \in Int : size = least
  BY <1>2
<1>6. AllHold(size)' /\ dt' = CappedSize(t', size)
  BY <1>3, <1>4, <1>5 DEF AllHold
<1>7. QED BY <1>3, <1>6 DEF SizeInv, Within, AllHold, CappedSize

LEMMA NextSizeInv == TypeInv /\ SizeInv /\ [Next]_vars => SizeInv'
<1> SUFFICES ASSUME TypeInv, SizeInv, [Next]_vars PROVE SizeInv'
  OBVIOUS
<1>1. CASE ComputeTimeStepping
  BY <1>1, DecisionKeepsSize
<1>2. CASE OutputSolution
  <2>1. /\ UNCHANGED <<t, dt, prevDt, stepper>>
        /\ \/ pc' = pc /\ pc \in {"outputInitial", "output", "outputLast"}
           \/ pc = "outputInitial" /\ pc' = "first"
           \/ pc = "output" /\ pc' = "check"
           \/ pc = "outputLast" /\ pc' = "done"
    BY <1>2, Turn
  <2>2. QED BY <2>1 DEF SizeInv, Within, AllHold, CappedSize
<1>3. CASE BeginTimestep
  <2>1. /\ pc = "loop" /\ pc' \in Within
        /\ t' = t + dt /\ prevDt' = dt /\ stepper' = stepper /\ t \in Int /\ dt \in Int
    BY <1>3 DEF BeginTimestep, Within, TypeInv, TypeOK
  <2>2. t' - prevDt' = t
    BY <2>1
  <2>3. PICK size \in Int : AllHold(size) /\ dt = CappedSize(t, size)
    BY <2>1 DEF SizeInv
  <2>4. AllHold(size)' /\ prevDt' = CappedSize(t' - prevDt', size)
    BY <2>1, <2>2, <2>3 DEF AllHold
  <2>5. QED BY <2>1, <2>4 DEF SizeInv, Within, AllHold, CappedSize
<1>4. CASE SolveConverged \/ SolveDiverged \/ PostTimestep
  <2>1. /\ pc \in Within /\ pc' \in Within \cup {"fatal"}
        /\ UNCHANGED <<t, prevDt, stepper>>
    BY <1>4
    DEF SolveConverged, SolveDiverged, AfterFailure, PostTimestep, Within, clockVars
  <2>2. QED BY <2>1 DEF SizeInv, Within, AllHold, CappedSize
<1>5. CASE CheckEnd
  <2>1. /\ pc = "check" /\ pc' \in {"outputLast", "done", "loop"}
        /\ UNCHANGED <<t, dt, stepper>>
    BY <1>5 DEF CheckEnd, clockVars
  <2>2. QED BY <2>1 DEF SizeInv, Within, AllHold, CappedSize
<1>6. CASE UNCHANGED vars
  BY <1>6 DEF vars, clockVars, SizeInv, AllHold, CappedSize
<1>7. QED BY <1>1, <1>2, <1>3, <1>4, <1>5, <1>6 DEF Next, Terminated

(***************************************************************************)
(* A PID controller that may also shrink a size proposes none that is      *)
(* larger than the rejected one, unless that was less than its minimum.    *)
(***************************************************************************)
ReducingControllers ==
  PositiveControllers /\ \A p \in Proc : Config[p].relMin <= Scale

LEMMA ScaledDown ==
  ASSUME NEW x \in Nat, NEW factor \in Nat, factor <= Scale
  PROVE  Scaled(x, factor) <= x
<1>1. Scale \in Nat \ {0}
  BY ScaleAssumption
<1>2. x * factor <= x * Scale
  <2>1. \A k \in Nat : x * (factor + k) = x * factor + x * k /\ x * k >= 0
    OBVIOUS
  <2>2. Scale - factor \in Nat /\ factor + (Scale - factor) = Scale
    BY <1>1
  <2>3. x * Scale = x * factor + x * (Scale - factor) /\ x * (Scale - factor) >= 0
    BY <2>1, <2>2
  <2>4. x * factor \in Int /\ x * Scale \in Int /\ x * (Scale - factor) \in Int
    BY <1>1
  <2>5. QED BY <2>3, <2>4
<1>3. \A k \in Int : k <= x * Scale => k \div Scale <= x
  BY <1>1
<1>4. QED BY <1>2, <1>3 DEF Scaled

LEMMA LimitedReduced ==
  ASSUME NEW c \in StepperConfig, c.relMin <= Scale,
         NEW s \in Stepper, Dt(s.cur) > 0, c.minDt <= Dt(s.cur),
         NEW h \in Int, ~s.accepted \/ h <= Dt(s.cur)
  PROVE  LimitStepSize(c, s, h) \in Int /\ LimitStepSize(c, s, h) <= Dt(s.cur)
<1> DEFINE hn      == Dt(s.cur)
           low     == Scaled(hn, c.relMin)
           high    == Scaled(hn, c.relMax)
           inRange == Max({c.minDt, Min({h, c.maxDt})})
           limited == Max({low, Min({inRange, high})})
           halved  == IF limited = hn THEN Max({c.minDt, limited \div 2}) ELSE limited
<1>1. /\ c.minDt \in Int /\ c.maxDt \in Int /\ c.relMin \in Nat /\ c.relMax \in Int
      /\ hn \in Int /\ hn \in Nat
  BY StepperFields, DtType DEF StepperConfig
<1>2. LimitStepSize(c, s, h)
        = IF s.accepted THEN limited
          ELSE IF halved > hn THEN Max({c.minDt, hn \div 2}) ELSE halved
  BY DEF LimitStepSize
<1>3. c.minDt <= hn /\ (~s.accepted \/ h <= hn) /\ hn > 0
  OBVIOUS
<1> HIDE DEF hn
<1>4. low \in Int /\ high \in Int /\ low <= hn
  <2>1. c.relMin \in Int /\ c.relMin <= Scale
    BY <1>1
  <2>2. low \in Int
    BY <1>1, <2>1, ScaledType
  <2>3. high \in Int
    BY <1>1, ScaledType
  <2>4. low <= hn
    BY <1>1, <2>1, ScaledDown
  <2>5. QED BY <2>2, <2>3, <2>4
<1>5. Min({h, c.maxDt}) \in Int /\ Min({h, c.maxDt}) <= h
  BY <1>1, MinOfTwo
<1> DEFINE upper == Min({h, c.maxDt})
<1> HIDE DEF upper
<1>6. inRange \in Int /\ (h <= hn => inRange <= hn)
  <2>1. upper \in Int /\ upper <= h
    BY <1>5 DEF upper
  <2>2. Max({c.minDt, upper}) = IF c.minDt >= upper THEN c.minDt ELSE upper
    BY <1>1, <2>1, MaxOfTwo
  <2>3. inRange = Max({c.minDt, upper})
    BY DEF upper
  <2> HIDE DEF inRange
  <2>4. QED BY <1>1, <1>3, <2>1, <2>2, <2>3
<1> HIDE DEF low, high, inRange
<1>7. Min({inRange, high}) \in Int /\ Min({inRange, high}) <= inRange
  BY <1>4, <1>6, MinOfTwo
<1> DEFINE capped == Min({inRange, high})
<1> HIDE DEF capped
<1>8. limited \in Int /\ (h <= hn => limited <= hn)
  <2>1. capped \in Int /\ capped <= inRange
    BY <1>7 DEF capped
  <2>2. Max({low, capped}) = IF low >= capped THEN low ELSE capped
    BY <1>4, <2>1, MaxOfTwo
  <2>3. limited = Max({low, capped})
    BY DEF capped
  <2> HIDE DEF limited
  <2>4. QED BY <1>1, <1>4, <1>6, <2>1, <2>2, <2>3
<1> HIDE DEF limited
<1>9. \A k \in Int : k \div 2 \in Int
  OBVIOUS
<1>10. hn \div 2 <= hn
  BY <1>1, <1>3
<1>11. Max({c.minDt, hn \div 2}) \in Int /\ Max({c.minDt, hn \div 2}) <= hn
  BY <1>1, <1>3, <1>9, <1>10, MaxOfTwo
<1>12. halved \in Int
  BY <1>1, <1>8, <1>9, MaxOfTwo
<1> HIDE DEF halved
<1>13. QED BY <1>1, <1>2, <1>3, <1>8, <1>11, <1>12 DEF hn

LEMMA ControllerReduces ==
  ASSUME NEW c \in StepperConfig, c.kind = "EvolutionaryPID", c.relMin <= Scale,
         NEW s \in Stepper, Underway(s), c.minDt <= Dt(s.cur),
         NEW met \in BOOLEAN, NEW err \in Errors, NEW iterations \in Int,
         NEW r \in NextResults(c, SetAcceptedOrNot(c, s, met), err, iterations),
         ~met \/ ~r.more
  PROVE  Dt(r.stepper.cur) <= Dt(s.cur)
<1> DEFINE told == SetAcceptedOrNot(c, s, met)
<1>1. /\ told \in Stepper /\ told.cur = s.cur /\ told.prev = s.prev
      /\ told.fixedTimes = s.fixedTimes /\ told.accepted = met
  BY DEF SetAcceptedOrNot, Stepper
<1>2. /\ s.cur \in TimeStep /\ s.cur.current \in Int /\ s.cur.steps > 0 /\ Dt(s.cur) > 0
      /\ s.prev \in TimeStep /\ s.prev.current \in Int /\ s.fixedTimes \in SUBSET Nat
      /\ Dt(s.cur) \in Int /\ s.cur.steps # 0
  BY StepperFields, DtType DEF StepperConfig, TimeStep, Underway
<1>3. \A ts \in TimeStep, d \in Int : Dt(Advanced(ts, d)) = d
  BY DEF Dt, Advanced, TimeStep
<1>4. r \in NextResults(c, told, err, iterations)
  OBVIOUS
<1> HIDE DEF told
<1>5. PICK h \in PIDSizes(c, told, err) : r = PIDNext(c, told, err, h)
  BY <1>4 DEF NextResults
<1>6. h \in Int
  BY <1>1, PIDSizesType
<1>7. ~met \/ h <= Dt(s.cur)
  <2>1. CASE err = "above"
    <3>1. h = 0 \/ h < Dt(s.cur)
      BY <1>1, <1>5, <2>1 DEF PIDSizes
    <3>2. QED BY <1>2, <1>6, <3>1
  <2>2. CASE err # "above"
    BY <1>5, <2>2 DEF PIDNext
  <2>3. QED BY <2>1, <2>2
<1> DEFINE size == LimitStepSize(c, told, h)
           d == PossiblyClampDtToNextFixedTime(s.cur.current, size, s.fixedTimes)
<1>8. size \in Int /\ size <= Dt(s.cur)
  BY <1>1, <1>2, <1>6, <1>7, LimitedReduced
<1>9. d \in Int /\ d <= size
  BY <1>2, <1>8, ClampedSizeJumpsOverNoFixedTime
<1>10. r.stepper = IF err = "above"
                   THEN [told EXCEPT !.accepted = FALSE, !.cur = Advanced(s.prev, d)]
                   ELSE [told EXCEPT !.accepted = TRUE, !.prev = s.cur,
                                     !.cur = Advanced(s.cur, d)]
  BY <1>1, <1>2, <1>5 DEF PIDNext
<1> HIDE DEF size, d
<1>11. r.stepper.cur = IF err = "above" THEN Advanced(s.prev, d) ELSE Advanced(s.cur, d)
  BY <1>1, <1>10 DEF Stepper
<1>12. QED BY <1>2, <1>3, <1>8, <1>9, <1>11

(* The step that is being decided on is not below a minimum size.         *)
NoShorterThanMinimum == \A p \in Proc : Config[p].minDt <= prevDt

LEMMA DecisionReduces ==
  ASSUME BeginTogether, ReducingControllers, TypeInv, ClockInv, RepeatInv, SizeInv,
         ComputeTimeStepping, rejected' > rejected, NoShorterThanMinimum
  PROVE  dt' < prevDt \/ pc' = "fatal"
<1>1. PICK err \in [Proc -> Errors], next \in [Proc -> NextResult] :
        /\ DecideOnStep(next)
        /\ \A p \in Proc :
             /\ err[p] \in PossibleErrors(Config[p], t)
             /\ next[p] \in NextResults(Config[p],
                              SetAcceptedOrNot(Config[p], stepper[p], status[p].met),
                              err[p], status[p].iterations)
  BY NextOfEach
<1> DEFINE least == LeastSize(next)
<1> DEFINE accept == AcceptsStep(next)
           reject == ~accept /\ t <= EndTime
<1>2. /\ ~InitialStep /\ ~accept /\ lastRejected'
      /\ t' = t - prevDt /\ dt' = CappedSize(t', least)
      /\ dt' = prevDt => pc' = "fatal"
  <2>1. /\ rejected' = IF reject /\ ~InitialStep THEN rejected + 1 ELSE rejected
        /\ lastRejected' = IF InitialStep \/ ~(accept \/ reject) THEN lastRejected
                            ELSE reject
        /\ t' = IF reject /\ ~InitialStep THEN t - prevDt ELSE t
        /\ dt' = CappedSize(t', least)
        /\ pc' = IF dt' = prevDt /\ lastRejected' THEN "fatal"
                 ELSE CASE pc = "first"                     -> "loop"
                        [] pc = "stepping" /\ lastRejected' -> "check"
                        [] OTHER                            -> "output"
    BY <1>1 DEF DecideOnStep
  <2>2. rejected \in Nat
    BY DEF TypeInv, TypeOK
  <2> HIDE DEF accept, least
  <2>3. reject /\ ~InitialStep
    BY <2>1, <2>2
  <2>4. lastRejected'
    BY <2>1, <2>3
  <2>5. dt' = prevDt => pc' = "fatal"
    BY <2>1, <2>4
  <2>6. t' = t - prevDt /\ dt' = CappedSize(t', least)
    BY <2>1, <2>3
  <2>7. ~accept /\ ~InitialStep
    BY <2>3
  <2>8. QED BY <2>4, <2>5, <2>6, <2>7
<1>3. pc = "stepping"
  <2>1. pc = "first" => InitialStep
    BY StartTimeIsBegin DEF ClockInv, InitialStep
  <2>2. QED BY <1>2, <2>1 DEF ComputeTimeStepping
<1>4. /\ t \in Int /\ prevDt \in Int /\ prevDt > 0 /\ t <= EndTime /\ EndTime \in Int
      /\ least \in Int /\ t' < EndTime
  BY <1>2, <1>3, EndTimeIsGreatest, LeastSizeChosen
  DEF TypeInv, TypeOK, ClockInv, ClockWithinRun
<1>5. PICK size \in Int : AllHold(size) /\ prevDt = CappedSize(t', size)
  BY <1>2, <1>3 DEF SizeInv, Within
<1>6. CASE prevDt = EndTime - t'
  <2>1. dt' <= EndTime - t'
    BY <1>2, <1>4 DEF CappedSize
  <2> HIDE DEF least
  <2>2. dt' \in Int
    BY <1>2, <1>4 DEF CappedSize
  <2>3. QED BY <1>2, <1>4, <1>6, <2>1, <2>2
<1>7. CASE prevDt = size
  <2>1. PICK p \in Proc : ~((next[p].more \/ t >= Config[p].end) /\ status[p].met)
    BY <1>2 DEF AcceptsStep
  <2>2. /\ Config[p] \in StepperConfig /\ stepper[p] \in Stepper
        /\ status[p].met \in BOOLEAN /\ status[p].iterations \in Int /\ err[p] \in Errors
        /\ Config[p].kind = "EvolutionaryPID" /\ ProposesPositive(Config[p])
        /\ Config[p].relMin <= Scale
    BY ConfigFacts DEF TypeInv, TypeOK, Status, ReducingControllers, PositiveControllers
  <2>3. Underway(stepper[p])
    BY <1>3 DEF RepeatInv, Within
  <2>4. next[p] \in NextResults(Config[p],
                      SetAcceptedOrNot(Config[p], stepper[p], status[p].met),
                      err[p], status[p].iterations)
    BY <1>1
  <2>5. Config[p].minDt <= Dt(stepper[p].cur) /\ Dt(stepper[p].cur) = prevDt
    BY <1>5, <1>7 DEF AllHold, NoShorterThanMinimum
  <2>6. ~status[p].met \/ ~next[p].more
    BY <2>1
  <2>7. Dt(next[p].stepper.cur) <= prevDt
    BY <2>2, <2>3, <2>4, <2>5, <2>6, ControllerReduces
  <2>8. Dt(next[p].stepper.cur) > 0
    BY <2>2, <2>3, <2>4, ControllerPositive
  <2>9. Dt(next[p].stepper.cur) \in Int
    BY StepperFields, DtType DEF NextResult
  <2>10. least <= prevDt
    <3>1. least <= Dt(next[p].stepper.cur)
      BY <2>8, LeastSizeChosen
    <3>2. QED BY <1>4, <2>7, <2>9, <3>1
  <2> HIDE DEF least
  <2>11. dt' \in Int /\ dt' <= least
    BY <1>2, <1>4 DEF CappedSize
  <2>12. QED BY <1>2, <1>4, <2>10, <2>11
<1>8. QED BY <1>5, <1>6, <1>7 DEF CappedSize

LEMMA StepReduces ==
  ASSUME BeginTogether, ReducingControllers, TypeInv, ClockInv, RepeatInv, SizeInv,
         [Next]_vars, rejected' > rejected, NoShorterThanMinimum
  PROVE  dt' < prevDt \/ pc' = "fatal"
<1>1. CASE ComputeTimeStepping
  BY <1>1, DecisionReduces
<1>2. CASE ~ComputeTimeStepping
  <2>1. rejected' = rejected
    BY <1>2
    DEF Next, OutputSolution, BeginTimestep, SolveConverged, SolveDiverged, PostTimestep,
        CheckEnd, Terminated, vars, countVars
  <2>2. QED BY <2>1 DEF TypeInv, TypeOK
<1>3. QED BY <1>1, <1>2

(* If PID controllers alone propose the sizes, a rejected step that was no *)
(* shorter than their minima is repeated with a smaller size, or the run   *)
(* stops.                                                                  *)
THEOREM RejectedIsReduced ==
  ASSUME BeginTogether, ReducingControllers
  PROVE  Spec => [][rejected' > rejected /\ NoShorterThanMinimum
                      => dt' < prevDt \/ pc' = "fatal"]_vars
<1> DEFINE Reduced == rejected' > rejected /\ NoShorterThanMinimum
                        => dt' < prevDt \/ pc' = "fatal"
<1>1. TypeInv /\ ClockInv /\ RepeatInv /\ [Next]_vars => RepeatInv'
  BY NextRepeatInv DEF ReducingControllers
<1>2. TypeInv /\ ClockInv /\ RepeatInv /\ SizeInv /\ [Next]_vars => Reduced
  BY StepReduces
<1>3. Init => SizeInv
  BY DEF Init, SizeInv, Within
<1> HIDE DEF Reduced
<1>4. Spec => [][Reduced]_vars
  BY <1>1, <1>2, <1>3, InitTypeInv, NextTypeInv, InitClockInv, NextClockInv,
     InitRepeatInv, NextSizeInv, PTL
  DEF Spec
<1>5. QED BY <1>4 DEF Reduced

(* Where no step is shorter than a minimum, each rejected step is repeated *)
(* with a smaller size.  A step is shorter if a fixed time or the end time *)
(* cuts it off; on a grid as fine as the minima that cannot happen.        *)
THEOREM EachRejectedIsReduced ==
  ASSUME BeginTogether, ReducingControllers, \A p \in Proc : Config[p].minDt = 1
  PROVE  Spec => RejectedStepIsReduced
<1> DEFINE Reduced == rejected' > rejected => dt' < prevDt \/ pc' = "fatal"
<1>1. TypeInv /\ ClockInv /\ RepeatInv /\ [Next]_vars => RepeatInv'
  BY NextRepeatInv DEF ReducingControllers
<1>2. TypeInv /\ ClockInv /\ RepeatInv /\ SizeInv /\ [Next]_vars => Reduced
  <2> SUFFICES ASSUME TypeInv, ClockInv, RepeatInv, SizeInv, [Next]_vars,
                      rejected' > rejected
               PROVE  dt' < prevDt \/ pc' = "fatal"
    OBVIOUS
  <2>1. pc \in Within
    <3>1. ComputeTimeStepping
      BY DEF Next, OutputSolution, BeginTimestep, SolveConverged, SolveDiverged,
             PostTimestep, CheckEnd, Terminated, vars, countVars, TypeInv, TypeOK
    <3>2. pc = "first" => InitialStep
      BY StartTimeIsBegin DEF ClockInv, InitialStep
    <3>3. ~InitialStep
      BY <3>1, NextIsWellFormed DEF DecideOnStep, TypeInv, TypeOK
    <3>4. QED BY <3>1, <3>2, <3>3 DEF ComputeTimeStepping, Within
  <2>2. prevDt \in Int /\ prevDt > 0
    BY <2>1 DEF ClockInv, Within, TypeInv, TypeOK
  <2>3. NoShorterThanMinimum
    BY <2>2 DEF NoShorterThanMinimum
  <2>4. QED BY <2>3, StepReduces
<1>3. Init => SizeInv
  BY DEF Init, SizeInv, Within
<1> HIDE DEF Reduced
<1>4. Spec => [][Reduced]_vars
  BY <1>1, <1>2, <1>3, InitTypeInv, NextTypeInv, InitClockInv, NextClockInv,
     InitRepeatInv, NextSizeInv, PTL
  DEF Spec
<1>5. QED BY <1>4 DEF Reduced, RejectedStepIsReduced

=============================================================================
