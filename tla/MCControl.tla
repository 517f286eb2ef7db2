---------------------------- MODULE MCControl ----------------------------
(***************************************************************************)
(* One run for the machines around the event loop: the life of a session   *)
(* with its audio, the way of an event to the loop, and what the loop      *)
(* believes of the callback's loops.  No model has a variable of another,  *)
(* so that their product would only multiply their states: a behaviour is  *)
(* one of one of them, chosen at the start, and the others stay where they *)
(* began.                                                                  *)
(***************************************************************************)
EXTENDS Session, EventDelivery, LoopPanel

VARIABLE part

controlVars == <<part, sessionVars, eventVars, loopPanelVars>>

ControlInit ==
  /\ part \in {"session", "events", "panel"}
  /\ SessionInit /\ EventInit /\ PanelInit
  /\ part # "session" => backend = "cpal" /\ system = 1

Life  == part = "session" /\ UNCHANGED <<part, eventVars, loopPanelVars>>
Input == part = "events" /\ UNCHANGED <<part, sessionVars, loopPanelVars>>
Play  == part = "panel" /\ UNCHANGED <<part, sessionVars, eventVars>>

ControlNext ==
  \/ Life /\ SessionNext
  \/ Input /\ EventNext
  \/ Play /\ PanelNext
  \/ main = "exited" /\ UNCHANGED controlVars
  \/ mainThread = "over" /\ UNCHANGED controlVars

\* The fairness of each of them.
ControlSpec ==
  /\ ControlInit /\ [][ControlNext]_controlVars
  /\ WF_sessionVars(Life /\ MainStep) /\ WF_sessionVars(Life /\ Thread)
  /\ WF_sessionVars(Life /\ BackoffEnds /\ Around)
  /\ SF_sessionVars(Life /\ main = "loop" /\ Poll(TRUE, FALSE) /\ LoopPoll)
  /\ WF_eventVars(Input /\ MidiStep) /\ WF_eventVars(Input /\ Dispatch)
  /\ SF_eventVars(Input /\ BridgeStep) /\ SF_eventVars(Input /\ LoopStep)
  /\ WF_loopPanelVars(Play /\ Callback) /\ WF_loopPanelVars(Play /\ RequestSnapshot)
  /\ WF_loopPanelVars(Play /\ Drain)

==========================================================================
