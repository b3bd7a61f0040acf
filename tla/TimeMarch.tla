----------------------------- MODULE TimeMarch ------------------------------
(***************************************************************************)
(* What the time loop promises: a clock that moves from the start to the   *)
(* end time in accepted steps only, results published for the clock's      *)
(* current time only, and success only at the end time.  Attempts that are *)
(* rejected do not show, unless the run fails in one.                      *)
(***************************************************************************)
EXTENDS Integers, Sequences

CONSTANTS Start, End

VARIABLES
  clock,      \* the time of the last accepted state
  steps,      \* the number of accepted steps
  published,  \* the times of the results published
  state       \* "running", "succeeded" or "failed"

marchVars == <<clock, steps, published, state>>

MarchInit ==
  /\ clock = Start /\ steps = 0
  /\ published = <<>>
  /\ state = "running"

Accept ==
  /\ state = "running"
  /\ clock' \in clock + 1 .. End
  /\ steps' = steps + 1
  /\ UNCHANGED <<published, state>>

Publish ==
  /\ state = "running"
  /\ published' = Append(published, clock)
  /\ UNCHANGED <<clock, steps, state>>

Succeed ==
  /\ state = "running" /\ clock = End
  /\ state' = "succeeded"
  /\ published' \in {published, Append(published, clock)}
  /\ UNCHANGED <<clock, steps>>

(* A failing run may publish the attempt it fails in.                      *)
Fail ==
  /\ state = "running"
  /\ state' = "failed"
  /\ \/ UNCHANGED published
     \/ \E attempt \in clock + 1 .. End : published' = Append(published, attempt)
  /\ UNCHANGED <<clock, steps>>

MarchNext == Accept \/ Publish \/ Succeed \/ Fail

MarchSpec == MarchInit /\ [][MarchNext]_marchVars

=============================================================================
