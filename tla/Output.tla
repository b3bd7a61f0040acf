------------------------------- MODULE Output -------------------------------
(***************************************************************************)
(* When ProcessLib/Output/Output.cpp writes a result file.  The output     *)
(* times still to come are a vector sorted in descending order of which    *)
(* only the last element, the smallest, is looked at: here the set of its  *)
(* elements.  What a file contains is not modelled, except for the         *)
(* solution it is written from (see the module TimeLoop).                  *)
(***************************************************************************)
EXTENDS Integers, SequencesExt

(* A pair of the project file: "repeat" times, output each "each" steps.   *)
PairRepeatEachSteps == [repeat: Nat \ {0}, each: Nat \ {0}]

(* The pair in force at a time step, and the step's number counted from    *)
(* the first step of that pair.                                            *)
PairInForce(pairs, timestep) ==
  FoldLeft(LAMBDA found, pair :
             IF found.final THEN found
             ELSE LET covered == pair.repeat * pair.each
                  IN  IF found.left > covered
                      THEN [left |-> found.left - covered, each |-> pair.each,
                            final |-> FALSE]
                      ELSE [left |-> found.left, each |-> pair.each, final |-> TRUE],
           [left |-> timestep, each |-> 1, final |-> FALSE],
           pairs)

IsStepForOutput(pairs, timestep) ==
  LET found == PairInForce(pairs, timestep)
  IN  found.left % found.each = 0

IsTimeForOutput(t, pending) == pending # {} /\ t = Min(pending)

ShallDoOutput(pairs, timestep, t, pending) ==
  IsStepForOutput(pairs, timestep) \/ IsTimeForOutput(t, pending)

(* The output times left after the decision, which removes the time it has *)
(* found equal to the current one.                                         *)
PendingAfter(t, pending) ==
  IF IsTimeForOutput(t, pending) THEN pending \ {t} ELSE pending

(* With the staggered scheme the last process alone writes.                *)
WritesFile(staggered, process, processes) == ~staggered \/ process = processes

=============================================================================
