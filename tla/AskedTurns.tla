----------------------------- MODULE AskedTurns ------------------------------
(***************************************************************************)
(* What a question put to the AI promises, in a signed-in conversation or  *)
(* on a public link: it becomes at most one turn however often it is sent, *)
(* the turn ends once, and whoever sent it is shown the one answer that is *)
(* stored, or that something failed.                                       *)
(***************************************************************************)
CONSTANTS
  Submits,     \* the sends of a question
  QuestionOf,  \* what each sends: the same question may be sent twice
  Final,       \* how a turn may end
  None

VARIABLES
  asked,    \* the submits that became a turn: each is one paid run
  outcome,  \* of each question; "none" before it is a turn
  shown     \* what each submit was answered

vars == <<asked, outcome, shown>>

Init ==
  /\ asked = {} /\ outcome = [s \in Submits |-> "none"]
  /\ shown = [s \in Submits |-> None]

\* A turn's outcome is kept under the submit that became it.
TurnOf(s) == {t \in asked : QuestionOf[t] = QuestionOf[s]}

\* Turns of dead workers may be given up at the same time.
Ask(s) ==
  /\ TurnOf(s) = {} /\ asked' = asked \cup {s} /\ UNCHANGED shown
  /\ \E dead \in SUBSET {t \in Submits : outcome[t] = "running"} :
       outcome' = [t \in Submits |-> IF t = s THEN "running"
                                    ELSE IF t \in dead THEN "failed" ELSE outcome[t]]

\* The run, a Stop or the reader of a stale turn ends it; the run shows its end.
End(s, e) ==
  /\ outcome[s] = "running" /\ e \in Final
  /\ outcome' = [outcome EXCEPT ![s] = e]
  /\ \/ UNCHANGED shown
     \/ shown[s] = None /\ shown' = [shown EXCEPT ![s] = e]
  /\ UNCHANGED asked

Show(s, t) ==
  /\ shown[s] = None /\ t \in TurnOf(s) /\ outcome[t] \in Final
  /\ shown' = [shown EXCEPT ![s] = outcome[t]]
  /\ UNCHANGED <<asked, outcome>>

\* The run itself broke: its asker is told so, whatever becomes of the turn.
Apologise(s) ==
  /\ s \in asked /\ shown[s] = None
  /\ shown' = [shown EXCEPT ![s] = "failed"]
  /\ UNCHANGED <<asked, outcome>>

Next ==
  \E s \in Submits :
    \/ Ask(s) \/ Apologise(s)
    \/ \E e \in Final : End(s, e)
    \/ \E t \in Submits : Show(s, t)

Spec == Init /\ [][Next]_vars
=============================================================================
