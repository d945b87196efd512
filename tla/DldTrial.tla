------------------------------ MODULE DldTrial ------------------------------
(***************************************************************************)
(* The trial handover (tools/trial-remote.py): a launcher takes the LEDs   *)
(* from LEDscape or from an earlier trial, replaces the kernel helper,     *)
(* makes a session and starts dld-udp.  Two launchers may be started at    *)
(* once, a supervisor may start receivers of its own, receivers may stop   *)
(* late or die, and a launcher may be killed when its connection drops.    *)
(*                                                                         *)
(* A process stands for a pid with its start time (process_identity), so   *)
(* identities are never reused; the signal that follows the last identity  *)
(* test is taken to reach that same process.                               *)
(***************************************************************************)
EXTENDS Naturals

CONSTANTS Launchers, Receivers,   \* Receivers: dld-udp processes, each runs once
          Nobody,
          MaxTries                \* bound: polls of 0.1 s within a 20 s deadline

ASSUME TrialDistinct == Launchers \cap Receivers = {} /\ Nobody \notin Launchers \cup Receivers
ASSUME TriesAssumption == MaxTries \in Nat \ {0}

VARIABLES board,   \* LEDscape, the helper, the settings and the session
          guard,   \* the holder of /run/dld-trial.lock
          l,       \* the launchers
          d        \* the receivers

vars == <<board, guard, l, d>>

\* helper and session name the launcher that made them, Nobody an earlier one.
Owner == {"none"} \cup Launchers \cup {Nobody}
Board == [ledscape : BOOLEAN, helper : Owner, prepared : BOOLEAN, session : Owner]

LauncherLabel == {"off", "extract", "preflight", "look", "signal", "stopping", "ledscape", "rmmod", "prepare",
                  "insmod", "recheck", "init", "spawn", "starting", "done", "failed", "killed"}

Launcher == [pc : LauncherLabel, existing : SUBSET Receivers, unsignalled : SUBSET Receivers,
             tries : 0 .. MaxTries, child : Receivers \cup {Nobody}]

\* bound: has the port.  attached: has the helper open, on the session it found.
\* withdrew: a frame of its own failed, and the helper withdrew that session.
Receiver == [pc : {"unused", "started", "bound", "attached", "ready", "gone"},
             by : Launchers \cup {Nobody}, on : Owner, withdrew : BOOLEAN, term : BOOLEAN]

unused == [pc |-> "unused", by |-> Nobody, on |-> "none", withdrew |-> FALSE, term |-> FALSE]

Init ==
  /\ guard = Nobody
  /\ l = [x \in Launchers |-> [pc |-> "off", existing |-> {}, unsignalled |-> {}, tries |-> 0,
                               child |-> Nobody]]
  /\ \/ /\ board = [ledscape |-> TRUE, helper |-> "none", prepared |-> FALSE, session |-> "none"]
        /\ d = [i \in Receivers |-> unused]
     \/ /\ board = [ledscape |-> FALSE, helper |-> Nobody, prepared |-> TRUE, session |-> Nobody]
        /\ \E old \in Receivers, pc \in {"ready", "gone"} :
             d = [i \in Receivers |-> IF i = old THEN [unused EXCEPT !.pc = pc, !.on = Nobody]
                                                 ELSE unused]

-----------------------------------------------------------------------------

At(x, label) == l[x].pc = label
Go(x, label) == l' = [l EXCEPT ![x].pc = label]

running_dld == {i \in Receivers : d[i].pc \notin {"unused", "gone"}}
Attached == {i \in Receivers : d[i].pc \in {"attached", "ready"}}
Bound == {i \in Receivers : d[i].pc \in {"bound", "attached", "ready"}}

\* An exception ends the launcher, and with it its lock.
Fail(x) == Go(x, "failed") /\ guard' = Nobody

\* A mutant: a launcher goes on without the deployment lock.
LockIgnored(x) ==
  /\ At(x, "off")
  /\ Go(x, "extract") /\ guard' = x
  /\ UNCHANGED <<board, d>>

\* check_ram finds the runtime directory unfit, or another launcher has the lock.
Refused(x) == Go(x, "failed") /\ UNCHANGED guard

Lock(x) ==
  /\ At(x, "off")
  /\ Refused(x) \/ (guard = Nobody /\ Go(x, "extract") /\ guard' = x)
  /\ UNCHANGED <<board, d>>

\* extract_bundle writes into the launcher's own new directory only.
Extract(x) ==
  /\ At(x, "extract")
  /\ Fail(x) \/ (Go(x, "preflight") /\ UNCHANGED guard)
  /\ UNCHANGED <<board, d>>

\* Everything is tested before output is touched.
Preflight(x) ==
  /\ At(x, "preflight")
  /\ Fail(x) \/ (Go(x, "look") /\ UNCHANGED guard)
  /\ UNCHANGED <<board, d>>

-----------------------------------------------------------------------------
(* stop_dld                                                                *)

Look(x) ==
  /\ At(x, "look")
  /\ l' = [l EXCEPT ![x].pc = "signal", ![x].existing = running_dld,
                    ![x].unsignalled = running_dld]
  /\ UNCHANGED <<board, guard, d>>

\* One that has gone meanwhile is passed over.
Terminate(x) ==
  /\ At(x, "signal")
  /\ IF l[x].unsignalled = {} THEN l' = [l EXCEPT ![x].pc = "stopping", ![x].tries = 0] /\ UNCHANGED d
     ELSE \E i \in l[x].unsignalled :
            /\ l' = [l EXCEPT ![x].unsignalled = @ \ {i}]
            /\ d' = IF i \in running_dld THEN [d EXCEPT ![i].term = TRUE] ELSE d
  /\ UNCHANGED <<board, guard>>

\* A mutant: receivers that will not stop are left alone and output is taken.
AwaitStopGivesUp(x) ==
  /\ At(x, "stopping")
  /\ Go(x, "ledscape") /\ UNCHANGED guard
  /\ UNCHANGED <<board, d>>

\* The wall-clock deadline may pass at any poll, or never when the clock is
\* set back; the number of polls is bounded as well.
AwaitStop(x) ==
  /\ At(x, "stopping")
  /\ \/ running_dld = {} /\ Go(x, "ledscape") /\ UNCHANGED guard
     \/ running_dld # {} /\ Fail(x)
     \/ /\ running_dld # {} /\ running_dld \subseteq l[x].existing /\ l[x].tries < MaxTries
        /\ l' = [l EXCEPT ![x].tries = @ + 1] /\ UNCHANGED guard
  /\ UNCHANGED <<board, d>>

-----------------------------------------------------------------------------
(* swap                                                                    *)

StopLedscape(x) ==
  /\ At(x, "ledscape")
  /\ \/ board' = [board EXCEPT !.ledscape = FALSE] /\ Go(x, "rmmod") /\ UNCHANGED guard
     \/ \E on \in {board.ledscape, FALSE} : board' = [board EXCEPT !.ledscape = on] /\ Fail(x)
  /\ UNCHANGED d

\* The kernel keeps a helper that some receiver has open.
Rmmod(x) ==
  /\ At(x, "rmmod")
  /\ \/ board.helper = "none" /\ Go(x, "prepare") /\ UNCHANGED <<board, guard>>
     \/ /\ board.helper # "none" /\ Attached = {}
        /\ board' = [board EXCEPT !.helper = "none"]
        /\ Go(x, "prepare") /\ UNCHANGED guard
     \/ board.helper # "none" /\ Fail(x) /\ UNCHANGED board
  /\ UNCHANGED d

Prepare(x) ==
  /\ At(x, "prepare")
  /\ \/ board' = [board EXCEPT !.prepared = TRUE] /\ Go(x, "insmod") /\ UNCHANGED guard
     \/ UNCHANGED board /\ Fail(x)
  /\ UNCHANGED d

Insmod(x) ==
  /\ At(x, "insmod")
  /\ \/ /\ board.helper = "none"
        /\ board' = [board EXCEPT !.helper = x]
        /\ Go(x, "recheck") /\ UNCHANGED guard
     \/ UNCHANGED board /\ Fail(x)
  /\ UNCHANGED d

Recheck(x) ==
  /\ At(x, "recheck")
  /\ IF running_dld = {} THEN Go(x, "init") /\ UNCHANGED guard ELSE Fail(x)
  /\ UNCHANGED <<board, d>>

\* DldSession models dld-init; it may also find the command lock held.
RunInit(x) ==
  /\ At(x, "init")
  /\ \/ board' = [board EXCEPT !.session = x] /\ Go(x, "spawn") /\ UNCHANGED guard
     \/ \E session \in {board.session, "none"} : board' = [board EXCEPT !.session = session] /\ Fail(x)
  /\ UNCHANGED d

-----------------------------------------------------------------------------
(* start_receiver                                                          *)

Spawn(x) ==
  /\ At(x, "spawn")
  /\ \/ \E i \in Receivers :
          /\ d[i].pc = "unused"
          /\ d' = [d EXCEPT ![i].pc = "started", ![i].by = x]
          /\ l' = [l EXCEPT ![x].pc = "starting", ![x].child = i, ![x].tries = 0]
          /\ UNCHANGED guard
     \/ Fail(x) /\ UNCHANGED d
  /\ UNCHANGED board

\* A mutant: the ready line is enough, whether or not the receiver lives.
AwaitReadyLine(x) ==
  /\ At(x, "starting")
  /\ d[l[x].child].pc \in {"ready", "gone"}
  /\ Go(x, "done") /\ guard' = Nobody
  /\ UNCHANGED <<board, d>>

\* A mutant: the launcher gives up without ending its receiver.
AwaitReadyAbandons(x) ==
  /\ At(x, "starting")
  /\ Fail(x)
  /\ UNCHANGED <<board, d>>

\* A mutant: only the wall clock ends the wait, and it may be set back again and again.
AwaitReadyByClock(x) ==
  /\ At(x, "starting")
  /\ LET child == l[x].child
     IN \/ d[child].pc = "ready" /\ Go(x, "done") /\ guard' = Nobody /\ UNCHANGED d
        \/ d[child].pc = "gone" /\ Fail(x) /\ UNCHANGED d
        \/ d[child].pc # "gone" /\ Fail(x) /\ d' = [d EXCEPT ![child].term = TRUE]
        \/ /\ d[child].pc \notin {"ready", "gone"}
           /\ l' = [l EXCEPT ![x].tries = IF @ < MaxTries THEN @ + 1 ELSE 0] /\ UNCHANGED <<guard, d>>
  /\ UNCHANGED board

AwaitReady(x) ==
  /\ At(x, "starting")
  /\ LET child == l[x].child
     IN \/ d[child].pc = "ready" /\ Go(x, "done") /\ guard' = Nobody /\ UNCHANGED d
        \/ d[child].pc = "gone" /\ Fail(x) /\ UNCHANGED d
        \/ d[child].pc # "gone" /\ Fail(x) /\ d' = [d EXCEPT ![child].term = TRUE]
        \/ /\ d[child].pc \notin {"ready", "gone"} /\ l[x].tries < MaxTries
           /\ l' = [l EXCEPT ![x].tries = @ + 1] /\ UNCHANGED <<guard, d>>
  /\ UNCHANGED board

\* The connection drops: the receiver has a session of its own and stays.
\* Abstraction: a command that was running has ended by then.
KillLauncher(x) ==
  /\ l[x].pc \notin {"off", "done", "failed", "killed"}
  /\ Go(x, "killed")
  /\ guard' = IF guard = x THEN Nobody ELSE guard
  /\ UNCHANGED <<board, d>>

-----------------------------------------------------------------------------
(* The receivers (DldUdp) and a supervisor that starts some.               *)

Supervise(i) ==
  /\ d[i].pc = "unused"
  /\ d' = [d EXCEPT ![i].pc = "started"]
  /\ UNCHANGED <<board, guard, l>>

\* One owner per port; no attachment without a helper and a session.
Advance(i) ==
  /\ \/ d[i].pc = "started" /\ d' = [d EXCEPT ![i].pc = IF Bound = {} THEN "bound" ELSE "gone"]
     \/ /\ d[i].pc = "bound" /\ board.helper # "none" /\ board.session # "none"
        /\ d' = [d EXCEPT ![i].pc = "attached", ![i].on = board.session]
     \/ /\ d[i].pc = "bound" /\ (board.helper = "none" \/ board.session = "none")
        /\ d' = [d EXCEPT ![i].pc = "gone"]
     \/ d[i].pc = "attached" /\ ~d[i].withdrew /\ d' = [d EXCEPT ![i].pc = "ready"]
  /\ UNCHANGED <<board, guard, l>>

\* The helper withdraws the session before the receiver's call returns; the
\* receiver lives on until it has seen the failure, and its ready line stays.
FrameFails(i) ==
  /\ i \in Attached /\ ~d[i].withdrew
  /\ d[i].on = board.session
  /\ d' = [d EXCEPT ![i].withdrew = TRUE]
  /\ board' = [board EXCEPT !.session = "none"]
  /\ UNCHANGED <<guard, l>>

\* On SIGTERM, or because a frame failed (with the session withdrawn before, or
\* refused, or its cleanup unable to reach the mailbox), or killed.
Ends(i) ==
  /\ i \in running_dld
  /\ d' = [d EXCEPT ![i].pc = "gone"]
  /\ UNCHANGED <<board, guard, l>>

LauncherStep(x) ==
  \/ Extract(x) \/ Preflight(x) \/ Look(x) \/ Terminate(x) \/ AwaitStop(x) \/ StopLedscape(x)
  \/ Rmmod(x) \/ Prepare(x) \/ Insmod(x) \/ Recheck(x) \/ RunInit(x) \/ Spawn(x) \/ AwaitReady(x)

Next ==
  \/ \E x \in Launchers : Lock(x) \/ LauncherStep(x) \/ KillLauncher(x)
  \/ \E i \in Receivers : Supervise(i) \/ Advance(i) \/ FrameFails(i) \/ Ends(i)

Spec == Init /\ [][Next]_vars

\* Launchers run; a receiver told to terminate, or whose frame failed, does end.
FairSpec == /\ Spec
            /\ \A x \in Launchers : WF_vars(LauncherStep(x))
            /\ \A i \in Receivers : WF_vars((d[i].term \/ d[i].withdrew) /\ Ends(i))

-----------------------------------------------------------------------------

TypeOK ==
  /\ board \in Board
  /\ guard \in Launchers \cup {Nobody}
  /\ l \in [Launchers -> Launcher]
  /\ d \in [Receivers -> Receiver]

(***************************************************************************)
(* A session is only made on a board that this very launcher has prepared: *)
(* LEDscape stopped, settings applied, its own helper loaded (swap).       *)
(***************************************************************************)
InitOnPreparedBoard ==
  \A x \in Launchers : At(x, "init") =>
    ~board.ledscape /\ board.prepared /\ board.helper = x

(***************************************************************************)
(* "DLD trial ready" means that the launcher's own receiver lives, and is  *)
(* attached to the launcher's own session under its own helper             *)
(* (start_receiver); that session still stands unless a frame of this very *)
(* receiver has failed since it said ready and it is about to end.         *)
(***************************************************************************)
ReadyIsServing ==
  [][\A x \in Launchers : l'[x].pc = "done" /\ l[x].pc # "done" =>
       LET child == d'[l[x].child]
       IN /\ child.pc = "ready" /\ child.by = x /\ child.on = x
          /\ board'.helper = x /\ ~board'.ledscape
          /\ board'.session = IF child.withdrew THEN "none" ELSE x]_vars

(***************************************************************************)
(* Output is only taken away when every receiver that was told to stop has *)
(* stopped: until then LEDscape and the helper stay ("helper retained, no  *)
(* process was force-killed"), and so does the session, but for the one    *)
(* that a receiver loses by a failed frame of its own.                     *)
(***************************************************************************)
StopsBeforeTaking ==
  [][board' # board =>
       \/ \E x \in Launchers : guard = x /\ \A i \in l[x].existing : d[i].pc = "gone"
       \/ \E i \in Attached : /\ d[i].on = board.session /\ d'[i].withdrew
                            /\ board' = [board EXCEPT !.session = "none"]]_vars

(***************************************************************************)
(* A launcher that gives up does not leave its receiver running.           *)
(***************************************************************************)
FailureLeavesNoReceiver ==
  \A x \in Launchers : \A i \in Receivers :
    (At(x, "failed") /\ l[x].child = i) ~> d[i].pc = "gone"

(***************************************************************************)
(* No handover keeps the deployment lock for ever: not one whose receivers *)
(* neither stop nor become ready, nor one whose wall clock is set back     *)
(* before every deadline (stop_dld, start_receiver, main).                 *)
(***************************************************************************)
DeploymentLockIsFreed == \A x \in Launchers : guard = x ~> guard # x
=============================================================================
