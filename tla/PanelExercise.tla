---------------------------- MODULE PanelExercise ----------------------------
(***************************************************************************)
(* The panel exercise (tools/exercise_panels.py): one colour after the     *)
(* other is sent to several panels, each frame an interval after the       *)
(* last, and black at the end.  A frame is sent panel by panel, and a send *)
(* may fail in the way run_exercise expects (OSError, counted) or in       *)
(* another, which ends the exercise.  Time may pass between any two steps. *)
(***************************************************************************)
EXTENDS BenchHost, Integers, FiniteSetsExt

CONSTANTS Panels,         \* number of targets
          FrameInterval,  \* 1 / fps
          PanelSeconds,   \* --duration
          PanelNap        \* the longest sleep

ASSUME PanelAssumption == {Panels, FrameInterval, PanelSeconds, PanelNap} \subseteq Nat \ {0}

VARIABLE panel

Target == 1 .. Panels

PanelInit ==
  \E timed \in BOOLEAN :    \* --duration was given
    panel = [pc |-> "start", timed |-> timed, start |-> 0, next |-> 0, wake |-> 0,
             frame |-> "scene", i |-> 1, attempted |-> FALSE, raised |-> FALSE, code |-> 0,
             last |-> [t \in Target |-> -FrameInterval],     \* history: the last attempt
             shown |-> [t \in Target |-> "none"]]            \* history: what it tried to show

PanelGoes(label) == panel' = [panel EXCEPT !.pc = label]

\* An exception on the way: finally follows, and at its end the exception goes on.
PanelRaises == panel' = [panel EXCEPT !.pc = "black", !.raised = TRUE]

\* main makes the run directory, which must be new, and writes its manifest.
PanelStart ==
  /\ panel.pc = "start"
  /\ \/ panel' = [panel EXCEPT !.pc = "done", !.code = 1]
     \/ disk /\ panel' = [panel EXCEPT !.pc = "look", !.start = now, !.next = now]
     \/ ~disk /\ PanelRaises

\* The status file of a new scene may not be written; colours are checked before any is sent.
PanelLook ==
  /\ panel.pc = "look"
  /\ IF stop \/ (panel.timed /\ now - panel.start >= PanelSeconds) THEN PanelGoes("black")
     ELSE IF now < panel.next
     THEN panel' = [panel EXCEPT !.pc = "sleep", !.wake = now + Min({PanelNap, panel.next - now})]
     ELSE \/ ~disk /\ PanelRaises
          \/ panel' = [panel EXCEPT !.pc = "send", !.frame = "scene", !.i = 1]

PanelWake == panel.pc = "sleep" /\ now >= panel.wake /\ PanelGoes("look")

\* A mutant: only a frame that was sent moves the next one.
PanelSendUnpaced ==
  /\ panel.pc = "send"
  /\ LET tried == [panel EXCEPT !.attempted = TRUE,
                                !.last[panel.i] = now, !.shown[panel.i] = panel.frame] IN
     \/ panel' = [tried EXCEPT !.i = IF @ < Panels THEN @ + 1 ELSE 1,
                               !.pc = IF panel.i < Panels THEN "send"
                                      ELSE IF panel.frame = "scene" THEN "anchor" ELSE "finish"]
     \/ panel' = [tried EXCEPT !.raised = TRUE,
                               !.pc = IF panel.frame = "scene" THEN "black" ELSE "done",
                               !.code = IF panel.frame = "scene" THEN @ ELSE 1]

\* Sent or refused, the panel had its turn; any other exception leaves the frame.  One that
\* leaves the black frame replaces the exception being handled.
PanelSend ==
  /\ panel.pc = "send"
  /\ LET tried == [panel EXCEPT !.attempted = TRUE, !.next = now + FrameInterval,
                                !.last[panel.i] = now, !.shown[panel.i] = panel.frame] IN
     \/ panel' = [tried EXCEPT !.i = IF @ < Panels THEN @ + 1 ELSE 1,
                               !.pc = IF panel.i < Panels THEN "send"
                                      ELSE IF panel.frame = "scene" THEN "anchor" ELSE "finish"]
     \/ panel' = [tried EXCEPT !.raised = TRUE,
                               !.pc = IF panel.frame = "scene" THEN "black" ELSE "done",
                               !.code = IF panel.frame = "scene" THEN @ ELSE 1]

\* The progress report may fail.
PanelAnchor ==
  /\ panel.pc = "anchor"
  /\ \/ panel' = [panel EXCEPT !.pc = "look", !.next = now + FrameInterval]
     \/ ~disk /\ panel' = [panel EXCEPT !.pc = "black", !.next = now + FrameInterval, !.raised = TRUE]

PanelBlack ==
  /\ panel.pc = "black"
  /\ IF ~panel.attempted THEN PanelGoes("finish")
     ELSE IF now < panel.next
     THEN panel' = [panel EXCEPT !.pc = "nap", !.wake = now + Min({PanelNap, panel.next - now})]
     ELSE panel' = [panel EXCEPT !.pc = "send", !.frame = "black", !.i = 1]

PanelNapEnds == panel.pc = "nap" /\ now >= panel.wake /\ PanelGoes("black")

PanelFinish ==
  /\ panel.pc = "finish"
  /\ panel' = [panel EXCEPT !.pc = "done", !.code = IF panel.raised \/ ~disk THEN 1 ELSE 0]

PanelStep ==
  /\ \/ PanelStart \/ PanelLook \/ PanelWake \/ PanelSend \/ PanelAnchor
     \/ PanelBlack \/ PanelNapEnds \/ PanelFinish
  /\ UNCHANGED host

PanelVars == <<host, panel>>

PanelSpec == HostInit /\ PanelInit /\ [][PanelStep \/ (HostNext /\ UNCHANGED panel)]_PanelVars

-----------------------------------------------------------------------------

(***************************************************************************)
(* Between two attempts to reach one panel lies at least the interval,     *)
(* also when sends fail, the exercise is stopped or an exception leaves a  *)
(* frame half sent; and when the exercise ends, unless the final frame     *)
(* itself was broken off, black was the last thing each panel that was     *)
(* sent anything was sent (run_exercise, transmit).                        *)
(***************************************************************************)
PanelsAreSpared ==
  /\ panel.pc = "send" => \A t \in panel.i .. Panels : now >= panel.last[t] + FrameInterval
  /\ panel.pc = "finish" => \A t \in Target : panel.shown[t] \in {"none", "black"}
=============================================================================
