------------------------- MODULE TimeLoopRefinement -------------------------
(***************************************************************************)
(* The time loop implements TimeMarch.  The clock of the abstract          *)
(* specification is the time of the solution that the time discretization  *)
(* keeps for the previous step, not the variable t, which runs ahead while *)
(* a step is attempted and is set back when the step is rejected.          *)
(***************************************************************************)
EXTENDS TimeLoop

Outcome ==
  CASE pc = "done" /\ lastStatus.met                    -> "succeeded"
    [] pc = "fatal" \/ (pc = "done" /\ ~lastStatus.met) -> "failed"
    [] OTHER                                            -> "running"

PublishedTimes == [i \in DOMAIN written |-> written[i].time]

March == INSTANCE TimeMarch WITH
  Start <- StartTime, End <- EndTime,
  clock <- previous[1].time, steps <- accepted,
  published <- PublishedTimes, state <- Outcome

(* Every behaviour of the time loop is one of TimeMarch: a rejected step   *)
(* does not show, an accepted one moves the solution forward in time and   *)
(* not beyond the end, a result belongs to the current accepted state, and *)
(* loop() reports success at the end time only.                            *)
ImplementsMarch == March!MarchSpec

=============================================================================
