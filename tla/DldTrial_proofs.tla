-------------------------- MODULE DldTrial_proofs --------------------------
(***************************************************************************)
(* Theorems about the handover: output is taken only from receivers that   *)
(* have stopped, a session is made only on a board that its launcher has   *)
(* prepared, and "ready" means a serving receiver.                         *)
(*                                                                         *)
(* A launcher that works holds the deployment lock, so nobody else changes *)
(* the board between two of its commands, and what each of them achieved   *)
(* still holds at the next (Achieved).  Receivers are the exception: they  *)
(* come and go at any time, but one that has gone does not come back, and  *)
(* of the board they change only the session, which a failed frame         *)
(* withdraws.  They have the port one at a time (OnePort), so the frame    *)
(* that fails is the launcher's own receiver's once that is attached.      *)
(***************************************************************************)
EXTENDS DldTrial, TLAPS

Ended == {"off", "done", "failed", "killed"}
FromSpawn == {"spawn", "starting"}
FromRecheck == {"recheck", "init"} \cup FromSpawn
FromInsmod == {"insmod"} \cup FromRecheck
FromRmmod == {"rmmod", "prepare"} \cup FromInsmod
FromLedscape == {"ledscape"} \cup FromRmmod

Exclusive == \A x \in Launchers : l[x].pc \notin Ended => guard = x

\* Once attached, it has the session of x, or has lost it by its own frame.
OnOwnSession(x, child) ==
  child \in Attached => /\ d[child].on = x
                        /\ board.session = IF d[child].withdrew THEN "none" ELSE x

Achieved(x) ==
  /\ l[x].pc \in FromLedscape => \A i \in l[x].existing : d[i].pc = "gone"
  /\ l[x].pc \in FromRmmod => ~board.ledscape
  /\ l[x].pc \in FromInsmod => board.prepared
  /\ l[x].pc \in FromRecheck => board.helper = x
  /\ l[x].pc \in FromSpawn => board.session \in {x, "none"}
  /\ l[x].pc = "starting" => /\ l[x].child \in Receivers
                              /\ d[l[x].child].pc # "unused" /\ d[l[x].child].by = x
                              /\ OnOwnSession(x, l[x].child)

\* A receiver that was found at work may have gone, but has lived.
Lived == \A x \in Launchers : \A i \in l[x].existing : d[i].pc # "unused"

OnePort == \A i, j \in Bound : i = j

\* Only a frame can fail, and only the attached have frames.
Unharmed == \A i \in Receivers : d[i].pc \in {"unused", "started", "bound"} => ~d[i].withdrew

TrialInv == TypeOK /\ Exclusive /\ Lived /\ OnePort /\ Unharmed /\ \A x \in Launchers : Achieved(x)

Labels == Ended \cup {"extract", "preflight", "look", "signal", "stopping"} \cup FromLedscape

LEMMA LabelsOrdered ==
  /\ Labels = LauncherLabel
  /\ FromSpawn \subseteq FromRecheck /\ FromRecheck \subseteq FromInsmod
  /\ FromInsmod \subseteq FromRmmod /\ FromRmmod \subseteq FromLedscape
  /\ FromLedscape \cap Ended = {}
BY DEF Labels, LauncherLabel, Ended, FromSpawn, FromRecheck, FromInsmod, FromRmmod, FromLedscape

\* How a step of x changes the launchers: x alone, within the types.
LEMMA LauncherTyped ==
  ASSUME TypeOK, NEW x \in Launchers, LauncherStep(x) \/ Lock(x) \/ KillLauncher(x)
  PROVE  l' \in [Launchers -> Launcher] /\ \A y \in Launchers : y # x => l'[y] = l[y]
<1>1. l[x] \in Launcher /\ l \in [Launchers -> Launcher] BY DEF TypeOK
<1>2. running_dld \subseteq Receivers BY DEF running_dld
<1>3. l[x].tries < MaxTries => l[x].tries + 1 \in 0 .. MaxTries
  BY <1>1, TriesAssumption DEF Launcher
<1>4. 0 \in 0 .. MaxTries BY TriesAssumption
<1>5. ASSUME NEW label \in LauncherLabel, Go(x, label)
      PROVE  l' \in [Launchers -> Launcher] /\ \A y \in Launchers : y # x => l'[y] = l[y]
  BY <1>1, <1>5 DEF Go, Launcher
<1>6. CASE Lock(x) BY <1>5, <1>6 DEF Lock, Refused, LauncherLabel
<1>7. CASE KillLauncher(x) BY <1>5, <1>7 DEF KillLauncher, LauncherLabel
<1>8. CASE Extract(x) \/ Preflight(x) BY <1>5, <1>8 DEF Extract, Preflight, Fail, LauncherLabel
<1>9. CASE Look(x) BY <1>1, <1>2, <1>9 DEF Look, Launcher, LauncherLabel
<1>10. CASE Terminate(x) BY <1>1, <1>4, <1>10 DEF Terminate, Launcher, LauncherLabel
<1>11. CASE AwaitStop(x) BY <1>1, <1>3, <1>5, <1>11 DEF AwaitStop, Fail, Launcher, LauncherLabel
<1>12. CASE StopLedscape(x) BY <1>5, <1>12 DEF StopLedscape, Fail, LauncherLabel
<1>13. CASE Rmmod(x) BY <1>5, <1>13 DEF Rmmod, Fail, LauncherLabel
<1>14. CASE Prepare(x) BY <1>5, <1>14 DEF Prepare, Fail, LauncherLabel
<1>15. CASE Insmod(x) BY <1>5, <1>15 DEF Insmod, Fail, LauncherLabel
<1>16. CASE Recheck(x) BY <1>5, <1>16 DEF Recheck, Fail, LauncherLabel
<1>17. CASE RunInit(x) BY <1>5, <1>17 DEF RunInit, Fail, LauncherLabel
<1>18. CASE Spawn(x)
  <2>1. CASE Fail(x) BY <1>5, <2>1 DEF Fail, LauncherLabel
  <2>2. ASSUME NEW i \in Receivers,
               l' = [l EXCEPT ![x].pc = "starting", ![x].child = i, ![x].tries = 0]
        PROVE  l' \in [Launchers -> Launcher] /\ \A y \in Launchers : y # x => l'[y] = l[y]
    BY <1>1, <1>4, <2>2 DEF Launcher, LauncherLabel
  <2> QED BY <1>18, <2>1, <2>2 DEF Spawn
<1>19. CASE AwaitReady(x) BY <1>1, <1>3, <1>5, <1>19 DEF AwaitReady, Fail, Launcher, LauncherLabel
<1> QED BY <1>6, <1>7, <1>8, <1>9, <1>10, <1>11, <1>12, <1>13, <1>14, <1>15, <1>16, <1>17, <1>18,
           <1>19 DEF LauncherStep

\* What a receiver is never deprived of.
ReceiverKept == \A i \in Receivers : /\ d[i].pc = "gone" => d'[i].pc = "gone"
                                     /\ d[i].pc # "unused" => d'[i].by = d[i].by
                                     /\ d[i].pc # "unused" => d'[i].pc # "unused"

LEMMA ReceiversKept ==
  ASSUME TypeOK, [Next]_vars
  PROVE  d' \in [Receivers -> Receiver] /\ ReceiverKept
<1>1. d \in [Receivers -> Receiver] BY DEF TypeOK
<1>2. CASE d' = d BY <1>1, <1>2 DEF ReceiverKept
<1>3. ASSUME NEW i \in Receivers, NEW pc \in {"started", "bound", "attached", "ready", "gone"},
             d[i].pc # "gone" \/ pc = "gone", d' = [d EXCEPT ![i].pc = pc]
      PROVE  d' \in [Receivers -> Receiver] /\ ReceiverKept
  BY <1>1, <1>3 DEF ReceiverKept, Receiver
<1>8. ASSUME NEW i \in Receivers, NEW on \in Owner, d[i].pc = "bound",
             d' = [d EXCEPT ![i].pc = "attached", ![i].on = on]
      PROVE  d' \in [Receivers -> Receiver] /\ ReceiverKept
  <2>1. d'[i] = [d[i] EXCEPT !.pc = "attached", !.on = on] /\ d'[i] \in Receiver
    BY <1>1, <1>8 DEF Receiver
  <2>2. \A j \in Receivers : j # i => d'[j] = d[j] BY <1>1, <1>8
  <2> QED BY <1>1, <1>8, <2>1, <2>2 DEF ReceiverKept, Receiver
<1>9. ASSUME NEW i \in Receivers, d' = [d EXCEPT ![i].withdrew = TRUE]
      PROVE  d' \in [Receivers -> Receiver] /\ ReceiverKept
  BY <1>1, <1>9 DEF ReceiverKept, Receiver
<1>4. ASSUME NEW i \in Receivers, d' = [d EXCEPT ![i].term = TRUE]
      PROVE  d' \in [Receivers -> Receiver] /\ ReceiverKept
  BY <1>1, <1>4 DEF ReceiverKept, Receiver
<1>5. ASSUME NEW x \in Launchers, LauncherStep(x) \/ Lock(x) \/ KillLauncher(x)
      PROVE  d' \in [Receivers -> Receiver] /\ ReceiverKept
  <2>1. CASE Terminate(x)
    <3>1. running_dld \subseteq Receivers BY DEF running_dld
    <3>2. \/ d' = d
          \/ \E i \in running_dld : d' = [d EXCEPT ![i].term = TRUE]
      BY <2>1 DEF Terminate
    <3> QED BY <1>2, <1>4, <3>1, <3>2
  <2>2. CASE Spawn(x)
    <3>1. \/ d' = d
          \/ \E i \in Receivers : d[i].pc = "unused" /\ d' = [d EXCEPT ![i].pc = "started", ![i].by = x]
      BY <2>2 DEF Spawn
    <3>2. ASSUME NEW i \in Receivers, d[i].pc = "unused",
                 d' = [d EXCEPT ![i].pc = "started", ![i].by = x]
          PROVE  d' \in [Receivers -> Receiver] /\ ReceiverKept
      <4>1. d'[i] = [d[i] EXCEPT !.pc = "started", !.by = x] /\ d'[i] \in Receiver
        BY <1>1, <3>2 DEF Receiver
      <4>2. \A j \in Receivers : j # i => d'[j] = d[j] BY <1>1, <3>2
      <4> QED BY <1>1, <3>2, <4>1, <4>2 DEF ReceiverKept, Receiver
    <3> QED BY <1>2, <3>1, <3>2
  <2>3. CASE AwaitReady(x)
    <3>1. d' = d \/ d' = [d EXCEPT ![l[x].child].term = TRUE] BY <2>3 DEF AwaitReady
    <3>2. l[x].child \notin Receivers => [d EXCEPT ![l[x].child].term = TRUE] = d BY <1>1
    <3> QED BY <1>2, <1>4, <3>1, <3>2
  <2> QED BY <1>2, <1>5, <2>1, <2>2, <2>3 DEF LauncherStep, Lock, KillLauncher, Extract, Preflight,
             Look, AwaitStop, StopLedscape, Rmmod, Prepare, Insmod, Recheck, RunInit
<1>6. ASSUME NEW i \in Receivers, Supervise(i) \/ Advance(i) \/ FrameFails(i) \/ Ends(i)
      PROVE  d' \in [Receivers -> Receiver] /\ ReceiverKept
  <2>1. CASE Supervise(i) BY <1>3, <2>1 DEF Supervise
  <2>2. CASE Advance(i)
    <3>1. board.session \in Owner BY DEF TypeOK, Board
    <3> QED BY <1>3, <1>8, <2>2, <3>1 DEF Advance
  <2>3. CASE Ends(i) BY <1>3, <2>3 DEF Ends
  <2>4. CASE FrameFails(i) BY <1>9, <2>4 DEF FrameFails
  <2> QED BY <1>6, <2>1, <2>2, <2>3, <2>4
<1>7. CASE UNCHANGED vars BY <1>2, <1>7 DEF vars
<1> QED BY <1>5, <1>6, <1>7 DEF Next

\* The board, the lock and the labels, as a step of x leaves them.
LEMMA BoardTyped ==
  ASSUME TypeOK, [Next]_vars
  PROVE  board' \in Board /\ guard' \in Launchers \cup {Nobody}
<1>1. board \in Board /\ guard \in Launchers \cup {Nobody} BY DEF TypeOK
<1>2. ASSUME NEW x \in Launchers, LauncherStep(x)
      PROVE  board' \in Board
  <2> USE <1>1 DEF Board, Owner
  <2>1. CASE StopLedscape(x) BY <2>1 DEF StopLedscape
  <2>2. CASE Rmmod(x) BY <2>2 DEF Rmmod
  <2>3. CASE Prepare(x) BY <2>3 DEF Prepare
  <2>4. CASE Insmod(x) BY <2>4 DEF Insmod
  <2>5. CASE RunInit(x)
    <3>1. \E session \in Owner : board' = [board EXCEPT !.session = session] BY <2>5 DEF RunInit
    <3> QED BY <3>1
  <2> QED BY <1>2, <2>1, <2>2, <2>3, <2>4, <2>5 DEF LauncherStep, Extract, Preflight, Look, Terminate,
             AwaitStop, Recheck, Spawn, AwaitReady
<1>3. ASSUME NEW x \in Launchers, LauncherStep(x) \/ Lock(x) \/ KillLauncher(x)
      PROVE  guard' \in {guard, x, Nobody}
  BY <1>3 DEF LauncherStep, Lock, KillLauncher, Extract, Preflight, Look, Terminate, AwaitStop,
              StopLedscape, Rmmod, Prepare, Insmod, Recheck, RunInit, Spawn, AwaitReady, Fail, Refused
<1>4. ASSUME NEW i \in Receivers, Supervise(i) \/ Advance(i) \/ FrameFails(i) \/ Ends(i)
      PROVE  board' \in Board /\ guard' = guard
  <2>1. CASE FrameFails(i) BY <1>1, <2>1 DEF FrameFails, Board, Owner
  <2> QED BY <1>1, <1>4, <2>1 DEF Supervise, Advance, Ends
<1>5. ASSUME NEW x \in Launchers, Lock(x) \/ KillLauncher(x)
      PROVE  board' = board
  BY <1>5 DEF Lock, KillLauncher
<1> QED BY <1>1, <1>2, <1>3, <1>4, <1>5 DEF Next, vars

\* A working launcher loses the lock only when it ends, and gets it only when it is free.
LEMMA LockKept ==
  ASSUME TrialInv, NEW x \in Launchers, LauncherStep(x) \/ Lock(x) \/ KillLauncher(x)
  PROVE  Exclusive'
<1>1. l[x] \in Launcher /\ l \in [Launchers -> Launcher] BY DEF TrialInv, TypeOK
<1>2. l' \in [Launchers -> Launcher] /\ \A y \in Launchers : y # x => l'[y] = l[y]
  BY LauncherTyped DEF TrialInv
<1>3. l[x].pc \notin Ended => \A y \in Launchers : y # x => l[y].pc \in Ended
  BY DEF TrialInv, Exclusive
<1>4. guard = Nobody => \A y \in Launchers : l[y].pc \in Ended
  BY TrialDistinct DEF TrialInv, Exclusive
<1>5. ASSUME l'[x].pc \in Ended, l[x].pc \notin Ended PROVE Exclusive'
  BY <1>2, <1>3, <1>5 DEF Exclusive
<1>6. ASSUME guard' = guard, l[x].pc \notin Ended PROVE Exclusive'
  BY <1>2, <1>3, <1>6 DEF TrialInv, Exclusive
<1>7. ASSUME NEW label \in LauncherLabel, Go(x, label) PROVE l'[x].pc = label
  BY <1>1, <1>7 DEF Go
<1>8. CASE Lock(x)
  <2>1. CASE guard = Nobody /\ guard' = x
    BY <1>2, <1>4, <2>1 DEF Exclusive
  <2>2. CASE Refused(x)
    <3>1. guard' = guard /\ l'[x].pc = "failed" BY <1>7, <2>2 DEF Refused, LauncherLabel
    <3>2. l'[x].pc \in Ended BY <3>1 DEF Ended
    <3> QED BY <1>2, <3>1, <3>2 DEF Exclusive, TrialInv
  <2> QED BY <1>8, <2>1, <2>2 DEF Lock
<1>9. CASE KillLauncher(x)
  <2>1. l[x].pc \notin Ended BY <1>9 DEF KillLauncher, Ended
  <2>2. l'[x].pc \in Ended BY <1>7, <1>9 DEF KillLauncher, LauncherLabel, Ended
  <2> QED BY <1>5, <2>1, <2>2
<1>10. CASE LauncherStep(x)
  <2>1. l[x].pc \notin Ended
    BY <1>10 DEF LauncherStep, Extract, Preflight, Look, Terminate, AwaitStop, StopLedscape, Rmmod,
                 Prepare, Insmod, Recheck, RunInit, Spawn, AwaitReady, At, Ended
  <2>2. Fail(x) => l'[x].pc \in Ended BY <1>7 DEF Fail, LauncherLabel, Ended
  <2>3. Go(x, "done") => l'[x].pc \in Ended BY <1>7 DEF LauncherLabel, Ended
  <2>4. guard' = guard \/ Fail(x) \/ Go(x, "done")
    BY <1>10 DEF LauncherStep, Extract, Preflight, Look, Terminate, AwaitStop, StopLedscape, Rmmod,
                 Prepare, Insmod, Recheck, RunInit, Spawn, AwaitReady
  <2> QED BY <1>5, <1>6, <2>1, <2>2, <2>3, <2>4
<1> QED BY <1>8, <1>9, <1>10

LEMMA LivedKept ==
  ASSUME TrialInv, [Next]_vars
  PROVE  Lived'
<1>1. ReceiverKept BY ReceiversKept DEF TrialInv
<1>2. l \in [Launchers -> Launcher] BY DEF TrialInv, TypeOK
<1>3. \A x \in Launchers : l[x].existing \subseteq Receivers BY <1>2 DEF Launcher
<1>4. running_dld \subseteq Receivers /\ \A i \in running_dld : d[i].pc # "unused"
  BY DEF running_dld
<1>5. ASSUME NEW x \in Launchers, LauncherStep(x) \/ Lock(x) \/ KillLauncher(x)
      PROVE  Lived'
  <2>1. \A y \in Launchers : y # x => l'[y] = l[y] BY <1>5, LauncherTyped DEF TrialInv
  <2>2. l'[x].existing \in {l[x].existing, running_dld}
    <3>1. l[x] \in Launcher BY <1>2
    <3>2. ASSUME NEW label, Go(x, label) PROVE l'[x].existing = l[x].existing
      BY <1>2, <3>1, <3>2 DEF Go, Launcher
    <3>3. CASE Look(x) BY <1>2, <3>1, <3>3 DEF Look, Launcher
    <3>4. CASE Terminate(x) BY <1>2, <3>1, <3>4 DEF Terminate, Launcher
    <3>5. CASE Spawn(x)
      <4>1. ASSUME NEW i \in Receivers,
                   l' = [l EXCEPT ![x].pc = "starting", ![x].child = i, ![x].tries = 0]
            PROVE  l'[x].existing = l[x].existing
        BY <1>2, <3>1, <4>1 DEF Launcher
      <4> QED BY <3>2, <3>5, <4>1 DEF Spawn, Fail
    <3>6. CASE AwaitStop(x) \/ AwaitReady(x)
      BY <1>2, <3>1, <3>2, <3>6 DEF AwaitStop, AwaitReady, Fail, Launcher
    <3>7. CASE Lock(x) \/ KillLauncher(x) \/ Extract(x) \/ Preflight(x) \/ StopLedscape(x)
               \/ Rmmod(x) \/ Prepare(x) \/ Insmod(x) \/ Recheck(x) \/ RunInit(x)
      BY <3>2, <3>7 DEF Lock, Refused, KillLauncher, Extract, Preflight, StopLedscape, Rmmod,
         Prepare, Insmod, Recheck, RunInit, Fail
    <3> QED BY <1>5, <3>3, <3>4, <3>5, <3>6, <3>7 DEF LauncherStep
  <2> QED BY <1>1, <1>3, <1>4, <2>1, <2>2 DEF Lived, TrialInv, ReceiverKept
<1>6. CASE UNCHANGED l BY <1>1, <1>3, <1>6 DEF Lived, TrialInv, ReceiverKept
<1> QED BY <1>5, <1>6 DEF Next, vars, Supervise, Advance, FrameFails, Ends

\* What a step of a receiver does to the others and to the port.
LEMMA PortKept ==
  ASSUME TrialInv, [Next]_vars
  PROVE  OnePort' /\ Unharmed'
<1>1. d \in [Receivers -> Receiver] BY DEF TrialInv, TypeOK
<1>2. OnePort /\ Unharmed BY DEF TrialInv
<1>3. Bound \subseteq Receivers BY DEF Bound
<1>4. ASSUME NEW i \in Receivers, \A j \in Receivers : j # i => d'[j] = d[j],
             i \in Bound' => i \in Bound \/ Bound = {},
             d'[i].pc \in {"unused", "started", "bound"} => ~d'[i].withdrew
      PROVE  OnePort' /\ Unharmed'
  <2>1. \A j \in Receivers : j # i /\ j \in Bound' => j \in Bound BY <1>4 DEF Bound
  <2>2. OnePort' BY <1>2, <1>4, <2>1 DEF OnePort, Bound
  <2>3. Unharmed' BY <1>2, <1>4 DEF Unharmed
  <2> QED BY <2>2, <2>3
<1>5. CASE d' = d BY <1>2, <1>5 DEF OnePort, Unharmed, Bound
<1>6. ASSUME NEW i \in Receivers, Supervise(i) \/ Advance(i) \/ FrameFails(i) \/ Ends(i)
      PROVE  OnePort' /\ Unharmed'
  <2>1. \A j \in Receivers : j # i => d'[j] = d[j]
    BY <1>1, <1>6 DEF Supervise, Advance, FrameFails, Ends
  <2>2. i \in Bound' => i \in Bound \/ Bound = {}
    BY <1>1, <1>6 DEF Supervise, Advance, FrameFails, Ends, Attached, Bound, Receiver
  <2>3. d'[i].pc \in {"unused", "started", "bound"} => ~d'[i].withdrew
    BY <1>1, <1>2, <1>6 DEF Supervise, Advance, FrameFails, Ends, Attached, Unharmed, Receiver
  <2> QED BY <1>4, <2>1, <2>2, <2>3
<1>7. ASSUME NEW i \in Receivers, d' = [d EXCEPT ![i].term = TRUE]
      PROVE  OnePort' /\ Unharmed'
  <2>1. \A j \in Receivers : d'[j].pc = d[j].pc /\ d'[j].withdrew = d[j].withdrew
    BY <1>1, <1>7 DEF Receiver
  <2> QED BY <1>2, <2>1 DEF OnePort, Unharmed, Bound
<1>8. ASSUME NEW x \in Launchers, LauncherStep(x) \/ Lock(x) \/ KillLauncher(x)
      PROVE  OnePort' /\ Unharmed'
  <2>1. CASE Terminate(x)
    <3>1. \/ d' = d
          \/ \E i \in running_dld : d' = [d EXCEPT ![i].term = TRUE]
      BY <2>1 DEF Terminate
    <3>2. running_dld \subseteq Receivers BY DEF running_dld
    <3> QED BY <1>5, <1>7, <3>1, <3>2
  <2>2. CASE Spawn(x)
    <3>1. \/ d' = d
          \/ \E i \in Receivers : d[i].pc = "unused" /\ d' = [d EXCEPT ![i].pc = "started", ![i].by = x]
      BY <2>2 DEF Spawn
    <3>2. ASSUME NEW i \in Receivers, d[i].pc = "unused",
                 d' = [d EXCEPT ![i].pc = "started", ![i].by = x]
          PROVE  OnePort' /\ Unharmed'
      <4>1. \A j \in Receivers : j # i => d'[j] = d[j] BY <1>1, <3>2
      <4>2. d'[i].pc = "started" /\ d'[i].withdrew = d[i].withdrew BY <1>1, <3>2 DEF Receiver
      <4> QED BY <1>2, <1>4, <3>2, <4>1, <4>2 DEF Bound, Unharmed
    <3> QED BY <1>5, <3>1, <3>2
  <2>3. CASE AwaitReady(x)
    <3>1. d' = d \/ d' = [d EXCEPT ![l[x].child].term = TRUE] BY <2>3 DEF AwaitReady
    <3>2. l[x].child \notin Receivers => [d EXCEPT ![l[x].child].term = TRUE] = d BY <1>1
    <3> QED BY <1>5, <1>7, <3>1, <3>2
  <2> QED BY <1>5, <1>8, <2>1, <2>2, <2>3 DEF LauncherStep, Lock, KillLauncher, Extract, Preflight,
             Look, AwaitStop, StopLedscape, Rmmod, Prepare, Insmod, Recheck, RunInit
<1> QED BY <1>5, <1>6, <1>8 DEF Next, vars

\* Nothing that x has achieved is undone by a step that leaves x and the board
\* alone and nobody newly attached.
LEMMA Undisturbed ==
  ASSUME TrialInv, NEW x \in Launchers, [Next]_vars, l'[x] = l[x], board' = board,
         \A i \in Receivers : i \in Attached' =>
           i \in Attached /\ d'[i].on = d[i].on /\ d'[i].withdrew = d[i].withdrew
  PROVE  Achieved(x)'
<1>1. ReceiverKept BY ReceiversKept DEF TrialInv
<1>2. l[x].existing \subseteq Receivers BY DEF TrialInv, TypeOK, Launcher
<1>3. Achieved(x) BY DEF TrialInv
<1>4. ASSUME l[x].pc = "starting" PROVE OnOwnSession(x, l[x].child)'
  BY <1>3, <1>4 DEF Achieved, OnOwnSession
<1> QED BY <1>1, <1>2, <1>3, <1>4 DEF Achieved, ReceiverKept

\* A receiver's step leaves what x has achieved: it attaches to the session of
\* x, and the frame that fails is its own.
LEMMA ReceiverLeaves ==
  ASSUME TrialInv, NEW x \in Launchers, [Next]_vars, NEW i \in Receivers,
         Supervise(i) \/ Advance(i) \/ FrameFails(i) \/ Ends(i)
  PROVE  Achieved(x)'
<1>1. d \in [Receivers -> Receiver] /\ board \in Board BY DEF TrialInv, TypeOK
<1>2. l' = l BY DEF Supervise, Advance, FrameFails, Ends
<1>3. ReceiverKept BY ReceiversKept DEF TrialInv
<1>4. \A j \in Receivers : j # i => d'[j] = d[j]
  BY <1>1 DEF Supervise, Advance, FrameFails, Ends
<1>5. l[x].existing \subseteq Receivers BY DEF TrialInv, TypeOK, Launcher
<1>6. Achieved(x) BY DEF TrialInv
<1>7. CASE Supervise(i) \/ Ends(i)
  <2>1. board' = board /\ i \notin Attached'
    BY <1>1, <1>7 DEF Supervise, Ends, Attached, Receiver
  <2> QED BY <1>2, <1>4, <2>1, Undisturbed DEF Attached
<1>8. CASE Advance(i)
  <2>1. board' = board BY <1>8 DEF Advance
  <2>2. CASE d[i].pc = "bound" /\ i \in Attached'
    <3>1. d'[i].on = board.session /\ board.session # "none" /\ ~d'[i].withdrew
      BY <1>1, <1>8, <2>2 DEF Advance, Attached, Receiver, TrialInv, Unharmed
    <3>2. ASSUME l[x].pc = "starting" PROVE OnOwnSession(x, l[x].child)'
      <4>1. board.session = x BY <1>6, <3>1, <3>2 DEF Achieved, FromSpawn
      <4>2. CASE l[x].child = i BY <1>2, <2>1, <3>1, <4>1, <4>2 DEF OnOwnSession
      <4>3. CASE l[x].child # i
        <5>1. l[x].child \in Receivers BY <1>6, <3>2 DEF Achieved
        <5>2. i \in Bound BY <2>2 DEF Bound
        <5>3. l[x].child \notin Attached
          BY <4>3, <5>1, <5>2 DEF TrialInv, OnePort, Bound, Attached
        <5> QED BY <1>2, <1>4, <4>3, <5>1, <5>3 DEF OnOwnSession, Attached
      <4> QED BY <4>2, <4>3
    <3> QED BY <1>2, <1>3, <1>5, <1>6, <2>1, <3>2 DEF Achieved, ReceiverKept
  <2>3. CASE ~(d[i].pc = "bound" /\ i \in Attached')
    <3>1. i \in Attached' => i \in Attached /\ d'[i].on = d[i].on /\ d'[i].withdrew = d[i].withdrew
      BY <1>1, <1>8, <2>3 DEF Advance, Attached, Receiver
    <3> QED BY <1>2, <1>4, <2>1, <3>1, Undisturbed DEF Attached
  <2> QED BY <2>2, <2>3
<1>9. CASE FrameFails(i)
  <2>1. /\ i \in Attached /\ d[i].on = board.session
        /\ d'[i].on = d[i].on /\ d'[i].withdrew /\ d'[i].pc = d[i].pc
    BY <1>1, <1>9 DEF FrameFails, Receiver
  <2>2. /\ board'.session = "none" /\ board'.ledscape = board.ledscape
        /\ board'.prepared = board.prepared /\ board'.helper = board.helper
    BY <1>1, <1>9 DEF FrameFails, Board
  <2>3. ASSUME l[x].pc = "starting" PROVE OnOwnSession(x, l[x].child)'
    <3>1. CASE l[x].child = i
      <4>1. d[i].on = x BY <1>6, <2>1, <2>3, <3>1 DEF Achieved, OnOwnSession
      <4> QED BY <1>2, <2>1, <2>2, <3>1, <4>1 DEF OnOwnSession
    <3>2. CASE l[x].child # i
      <4>1. l[x].child \in Receivers BY <1>6, <2>3 DEF Achieved
      <4>2. l[x].child \notin Attached
        BY <2>1, <3>2, <4>1 DEF TrialInv, OnePort, Bound, Attached
      <4> QED BY <1>2, <1>4, <3>2, <4>1, <4>2 DEF OnOwnSession, Attached
    <3> QED BY <3>1, <3>2
  <2> QED BY <1>2, <1>3, <1>5, <1>6, <2>2, <2>3 DEF Achieved, ReceiverKept
<1> QED BY <1>7, <1>8, <1>9

\* A launcher that is not on its way has nothing to show.
LEMMA NotUnderWay ==
  ASSUME NEW x \in Launchers, l'[x].pc \notin FromLedscape
  PROVE  Achieved(x)'
<1>1. FromRmmod \subseteq FromLedscape /\ FromInsmod \subseteq FromRmmod
      /\ FromRecheck \subseteq FromInsmod /\ FromSpawn \subseteq FromRecheck
  BY LabelsOrdered
<1>2. "starting" \in FromSpawn BY DEF FromSpawn
<1> QED BY <1>1, <1>2 DEF Achieved

LEMMA StepAchieves ==
  ASSUME TrialInv, NEW x \in Launchers, LauncherStep(x)
  PROVE  Achieved(x)'
<1>1. l[x] \in Launcher /\ l \in [Launchers -> Launcher] /\ board \in Board
  BY DEF TrialInv, TypeOK
<1>2. ReceiverKept /\ d' \in [Receivers -> Receiver] BY ReceiversKept DEF TrialInv, Next
<1>3. l[x].existing \subseteq Receivers BY <1>1 DEF Launcher
<1>4. Achieved(x) BY DEF TrialInv
<1>5. ASSUME NEW label, Go(x, label) PROVE l'[x] = [l[x] EXCEPT !.pc = label]
  BY <1>1, <1>5 DEF Go
<1>6. ASSUME Fail(x) PROVE Achieved(x)'
  <2>1. l'[x].pc = "failed" BY <1>1, <1>5, <1>6 DEF Fail, Launcher
  <2> QED BY <2>1, NotUnderWay, LabelsOrdered DEF Ended
<1>7. ASSUME NEW label, Go(x, label) PROVE l'[x].pc = label /\ l'[x].existing = l[x].existing
      /\ l'[x].child = l[x].child
  BY <1>1, <1>5, <1>7 DEF Launcher
<1>8. CASE Extract(x) \/ Preflight(x)
  <2>1. CASE Go(x, "preflight") \/ Go(x, "look")
    <3>1. l'[x].pc \in {"preflight", "look"} BY <1>7, <2>1
    <3> QED BY <3>1, NotUnderWay DEF FromLedscape, FromRmmod, FromInsmod, FromRecheck, FromSpawn
  <2> QED BY <1>6, <1>8, <2>1 DEF Extract, Preflight
<1>9. CASE Look(x) \/ Terminate(x)
  <2>1. l'[x].pc \in {"signal", "stopping"} BY <1>1, <1>9 DEF Look, Terminate, At, Launcher
  <2> QED BY <2>1, NotUnderWay DEF FromLedscape, FromRmmod, FromInsmod, FromRecheck, FromSpawn
<1>10. CASE AwaitStop(x)
  <2>1. CASE running_dld = {} /\ Go(x, "ledscape")
    <3>1. l'[x].pc = "ledscape" /\ l'[x].existing = l[x].existing BY <1>7, <2>1
    <3>2. \A i \in l[x].existing : d[i].pc = "gone"
      BY <1>3, <2>1 DEF running_dld, TrialInv, Lived
    <3>3. \A i \in l[x].existing : d'[i].pc = "gone" BY <1>2, <1>3, <3>2 DEF ReceiverKept
    <3> QED BY <3>1, <3>3 DEF Achieved, FromRmmod, FromInsmod, FromRecheck, FromSpawn
  <2>2. CASE l' = [l EXCEPT ![x].tries = @ + 1]
    <3>1. l'[x].pc = "stopping" BY <1>1, <1>10, <2>2 DEF AwaitStop, At, Launcher
    <3> QED BY <3>1, NotUnderWay DEF FromLedscape, FromRmmod, FromInsmod, FromRecheck, FromSpawn
  <2> QED BY <1>6, <1>10, <2>1, <2>2 DEF AwaitStop
\* From here on: what was achieved is kept, and the next label asks for what the step did.
<1>11. ASSUME NEW label, l[x].pc \in FromLedscape, Go(x, label)
       PROVE  l'[x].pc = label /\ \A i \in l'[x].existing : d'[i].pc = "gone"
  BY <1>2, <1>3, <1>4, <1>7, <1>11 DEF Achieved, ReceiverKept
<1> USE DEF FromLedscape, FromRmmod, FromInsmod, FromRecheck, FromSpawn
<1>12. CASE StopLedscape(x)
  <2>1. CASE board' = [board EXCEPT !.ledscape = FALSE] /\ Go(x, "rmmod")
    <3>1. l[x].pc = "ledscape" BY <1>12 DEF StopLedscape, At
    <3> QED BY <1>1, <1>11, <2>1, <3>1 DEF Achieved, Board
  <2> QED BY <1>6, <1>12, <2>1 DEF StopLedscape
<1>13. CASE Rmmod(x)
  <2>1. l[x].pc = "rmmod" /\ ~board.ledscape BY <1>4, <1>13 DEF Rmmod, At, Achieved
  <2>2. board'.ledscape = board.ledscape BY <1>1, <1>13 DEF Rmmod, Board
  <2>3. CASE Go(x, "prepare") BY <1>11, <2>1, <2>2, <2>3 DEF Achieved
  <2> QED BY <1>6, <1>13, <2>3 DEF Rmmod
<1>14. CASE Prepare(x)
  <2>1. l[x].pc = "prepare" /\ ~board.ledscape BY <1>4, <1>14 DEF Prepare, At, Achieved
  <2>2. CASE board' = [board EXCEPT !.prepared = TRUE] /\ Go(x, "insmod")
    BY <1>1, <1>11, <2>1, <2>2 DEF Achieved, Board
  <2> QED BY <1>6, <1>14, <2>2 DEF Prepare
<1>15. CASE Insmod(x)
  <2>1. l[x].pc = "insmod" /\ ~board.ledscape /\ board.prepared
    BY <1>4, <1>15 DEF Insmod, At, Achieved
  <2>2. CASE board' = [board EXCEPT !.helper = x] /\ Go(x, "recheck")
    BY <1>1, <1>11, <2>1, <2>2 DEF Achieved, Board
  <2> QED BY <1>6, <1>15, <2>2 DEF Insmod
<1>16. CASE Recheck(x)
  <2>1. l[x].pc = "recheck" /\ ~board.ledscape /\ board.prepared /\ board.helper = x
    BY <1>4, <1>16 DEF Recheck, At, Achieved
  <2>2. CASE Go(x, "init") BY <1>11, <1>16, <2>1, <2>2 DEF Recheck, Achieved
  <2> QED BY <1>6, <1>16, <2>2 DEF Recheck
<1>17. CASE RunInit(x)
  <2>1. l[x].pc = "init" /\ ~board.ledscape /\ board.prepared /\ board.helper = x
    BY <1>4, <1>17 DEF RunInit, At, Achieved
  <2>2. CASE board' = [board EXCEPT !.session = x] /\ Go(x, "spawn")
    BY <1>1, <1>11, <2>1, <2>2 DEF Achieved, Board
  <2> QED BY <1>6, <1>17, <2>2 DEF RunInit
<1>18. CASE Spawn(x)
  <2>1. /\ l[x].pc = "spawn" /\ ~board.ledscape /\ board.prepared
        /\ board.helper = x /\ board.session \in {x, "none"} /\ board' = board
    BY <1>4, <1>18 DEF Spawn, At, Achieved
  <2>2. ASSUME NEW i \in Receivers,
               d' = [d EXCEPT ![i].pc = "started", ![i].by = x],
               l' = [l EXCEPT ![x].pc = "starting", ![x].child = i, ![x].tries = 0]
        PROVE  Achieved(x)'
    <3>1. l'[x].pc = "starting" /\ l'[x].child = i /\ l'[x].existing = l[x].existing
      BY <1>1, <2>2 DEF Launcher
    <3>2. d'[i].pc = "started" /\ d'[i].by = x /\ i \notin Attached'
      BY <2>2 DEF TrialInv, TypeOK, Receiver, Attached
    <3>3. \A j \in l[x].existing : d'[j].pc = "gone"
      BY <1>2, <1>3, <1>4, <2>1 DEF Achieved, ReceiverKept
    <3> QED BY <2>1, <3>1, <3>2, <3>3 DEF Achieved, OnOwnSession
  <2> QED BY <1>6, <1>18, <2>2 DEF Spawn
<1>19. CASE AwaitReady(x)
  <2>1. l[x].pc = "starting" /\ board' = board BY <1>19 DEF AwaitReady, At
  <2>2. CASE Go(x, "done")
    <3>1. l'[x].pc = "done" BY <1>7, <2>2
    <3> QED BY <3>1, NotUnderWay
  <2>3. CASE l' = [l EXCEPT ![x].tries = @ + 1]
    <3>1. /\ l'[x].pc = "starting" /\ l'[x].child = l[x].child
          /\ l'[x].existing = l[x].existing
      BY <1>1, <2>1, <2>3 DEF Launcher
    <3>2. d' = d
      <4>1. ~Fail(x) BY <1>7, <3>1 DEF Fail
      <4>2. ~Go(x, "done") BY <1>7, <3>1
      <4> QED BY <1>19, <4>1, <4>2 DEF AwaitReady
    <3> QED BY <1>2, <1>3, <1>4, <2>1, <3>1, <3>2 DEF Achieved, ReceiverKept, OnOwnSession, Attached
  <2> QED BY <1>6, <1>19, <2>2, <2>3 DEF AwaitReady
<1> QED BY <1>8, <1>9, <1>10, <1>12, <1>13, <1>14, <1>15, <1>16, <1>17, <1>18, <1>19 DEF LauncherStep

(***************************************************************************)
(* The inductive invariant of the handover, for any number of launchers    *)
(* and receivers and any bound on the polls.                               *)
(***************************************************************************)
THEOREM HandoversAreExclusive == Spec => []TrialInv
<1>1. Init => TrialInv
  <2> SUFFICES ASSUME Init PROVE TrialInv OBVIOUS
  <2>1. l \in [Launchers -> Launcher] /\ \A x \in Launchers : l[x].pc = "off" /\ l[x].existing = {}
    BY TriesAssumption DEF Init, Launcher, LauncherLabel
  <2>2. d \in [Receivers -> Receiver] /\ OnePort /\ Unharmed
    <3>1. ASSUME NEW old \in Receivers, NEW pc \in {"ready", "gone"},
                 d = [i \in Receivers |-> IF i = old THEN [unused EXCEPT !.pc = pc, !.on = Nobody]
                                                     ELSE unused]
          PROVE  d \in [Receivers -> Receiver] /\ OnePort /\ Unharmed
      <4>1. [unused EXCEPT !.pc = pc, !.on = Nobody] \in Receiver /\ unused \in Receiver
        BY <3>1 DEF Receiver, Owner, unused
      <4>2. \A i \in Receivers : (i # old => d[i].pc = "unused") /\ ~d[i].withdrew
        BY <3>1 DEF unused
      <4> QED BY <3>1, <4>1, <4>2 DEF OnePort, Unharmed, Bound
    <3>2. ASSUME d = [i \in Receivers |-> unused]
          PROVE  d \in [Receivers -> Receiver] /\ OnePort /\ Unharmed
      <4>1. unused \in Receiver BY DEF Receiver, Owner, unused
      <4>2. \A i \in Receivers : d[i].pc = "unused" /\ ~d[i].withdrew
        BY <3>2 DEF unused
      <4> QED BY <3>2, <4>1, <4>2 DEF OnePort, Unharmed, Bound
    <3> QED BY <3>1, <3>2 DEF Init
  <2>3. board \in Board /\ guard \in Launchers \cup {Nobody}
    <3>1. \/ board = [ledscape |-> TRUE, helper |-> "none", prepared |-> FALSE, session |-> "none"]
          \/ board = [ledscape |-> FALSE, helper |-> Nobody, prepared |-> TRUE, session |-> Nobody]
      BY DEF Init
    <3>2. guard = Nobody BY DEF Init
    <3>3. {"none", Nobody} \subseteq Owner BY DEF Owner
    <3>4. [ledscape |-> TRUE, helper |-> "none", prepared |-> FALSE, session |-> "none"] \in Board
      BY <3>3 DEF Board
    <3>5. [ledscape |-> FALSE, helper |-> Nobody, prepared |-> TRUE, session |-> Nobody] \in Board
      BY <3>3 DEF Board
    <3> QED BY <3>1, <3>2, <3>4, <3>5
  <2>4. "off" \in Ended /\ "off" \notin FromLedscape BY LabelsOrdered DEF Ended
  <2>5. \A x \in Launchers : Achieved(x)
    BY <2>1 DEF Achieved, FromLedscape, FromRmmod, FromInsmod, FromRecheck, FromSpawn
  <2> QED BY <2>1, <2>2, <2>3, <2>4, <2>5 DEF TrialInv, TypeOK, Exclusive, Lived
<1>2. TrialInv /\ [Next]_vars => TrialInv'
  <2> SUFFICES ASSUME TrialInv, [Next]_vars PROVE TrialInv' OBVIOUS
  <2>1. board' \in Board /\ guard' \in Launchers \cup {Nobody} BY BoardTyped DEF TrialInv
  <2>2. d' \in [Receivers -> Receiver] BY ReceiversKept DEF TrialInv
  <2>3. Lived' /\ OnePort' /\ Unharmed' BY LivedKept, PortKept
  <2>4. ASSUME NEW x \in Launchers, LauncherStep(x) \/ Lock(x) \/ KillLauncher(x)
        PROVE  TrialInv'
    <3>1. l' \in [Launchers -> Launcher] /\ \A y \in Launchers : y # x => l'[y] = l[y]
      BY <2>4, LauncherTyped DEF TrialInv
    <3>2. Exclusive' BY <2>4, LockKept
    <3>3. ASSUME LauncherStep(x), NEW y \in Launchers, y # x PROVE Achieved(y)'
      <4>1. l[x].pc \notin Ended
        BY <3>3 DEF LauncherStep, Extract, Preflight, Look, Terminate, AwaitStop, StopLedscape, Rmmod,
                    Prepare, Insmod, Recheck, RunInit, Spawn, AwaitReady, At, Ended
      <4>2. l[y].pc \in Ended BY <3>3, <4>1 DEF TrialInv, Exclusive
      <4>3. l'[y].pc \notin FromLedscape BY <3>1, <3>3, <4>2, LabelsOrdered
      <4> QED BY <4>3, NotUnderWay
    <3>4. ASSUME Lock(x) \/ KillLauncher(x), NEW y \in Launchers PROVE Achieved(y)'
      <4>1. board' = board /\ d' = d BY <3>4 DEF Lock, KillLauncher
      <4>2. CASE y # x BY <3>1, <4>1, <4>2, Undisturbed DEF Attached
      <4>3. CASE y = x
        <5>1. l'[x].pc \in {"extract", "failed", "killed"}
          BY <3>4 DEF Lock, Refused, KillLauncher, Go, TrialInv, TypeOK, Launcher
        <5> QED BY <4>3, <5>1, NotUnderWay DEF FromLedscape, FromRmmod, FromInsmod, FromRecheck,
                   FromSpawn
      <4> QED BY <4>2, <4>3
    <3>5. \A y \in Launchers : Achieved(y)' BY <2>4, <3>3, <3>4, StepAchieves
    <3> QED BY <2>1, <2>2, <2>3, <3>1, <3>2, <3>5 DEF TrialInv, TypeOK
  <2>5. CASE UNCHANGED vars
    <3>1. \A x \in Launchers : Achieved(x)' BY <2>5, Undisturbed DEF vars, Attached
    <3> QED BY <2>1, <2>2, <2>3, <2>5, <3>1 DEF TrialInv, TypeOK, Exclusive, vars
  <2>6. ASSUME NEW i \in Receivers, Supervise(i) \/ Advance(i) \/ FrameFails(i) \/ Ends(i)
        PROVE  TrialInv'
    <3>1. \A x \in Launchers : Achieved(x)' BY <2>6, ReceiverLeaves
    <3>2. guard' = guard /\ l' = l BY <2>6 DEF Supervise, Advance, FrameFails, Ends
    <3> QED BY <2>1, <2>2, <2>3, <3>1, <3>2 DEF TrialInv, TypeOK, Exclusive
  <2> QED BY <2>4, <2>5, <2>6 DEF Next
<1> QED BY <1>1, <1>2, PTL DEF Spec

(***************************************************************************)
(* Every reachable state of the handover is well typed.                    *)
(***************************************************************************)
THEOREM TrialTypeCorrect == Spec => []TypeOK
<1>1. TrialInv => TypeOK BY DEF TrialInv
<1> QED BY <1>1, HandoversAreExclusive, PTL

(***************************************************************************)
(* A session is only made on a board that its launcher has prepared.       *)
(***************************************************************************)
THEOREM InitsFindPreparedBoard == Spec => []InitOnPreparedBoard
<1>1. TrialInv => InitOnPreparedBoard
  BY DEF TrialInv, Achieved, InitOnPreparedBoard, At, FromRmmod, FromInsmod, FromRecheck
<1> QED BY <1>1, HandoversAreExclusive, PTL

(***************************************************************************)
(* The board changes only in the hands of a launcher all of whose receivers*)
(* have stopped, or loses the session to a receiver's own failed frame.    *)
(***************************************************************************)
THEOREM OutputIsFreeWhenTaken == Spec => StopsBeforeTaking
<1> DEFINE Freed == \E x \in Launchers : guard = x /\ \A i \in l[x].existing : d[i].pc = "gone"
           Lost == \E i \in Attached : /\ d[i].on = board.session /\ d'[i].withdrew
                                       /\ board' = [board EXCEPT !.session = "none"]
<1>1. TrialInv /\ [Next]_vars =>
        [board' # board =>
           \/ \E x \in Launchers : guard = x /\ \A i \in l[x].existing : d[i].pc = "gone"
           \/ \E i \in Attached : /\ d[i].on = board.session /\ d'[i].withdrew
                                /\ board' = [board EXCEPT !.session = "none"]]_vars
  <2> SUFFICES ASSUME TrialInv, [Next]_vars, board' # board PROVE Freed \/ Lost
    OBVIOUS
  <2>1. CASE \E i \in Receivers : FrameFails(i)
    <3>1. PICK i \in Receivers : FrameFails(i) BY <2>1
    <3>2. d'[i].withdrew BY <3>1 DEF FrameFails, TrialInv, TypeOK, Receiver
    <3> QED BY <3>1, <3>2 DEF FrameFails
  <2>2. CASE ~\E i \in Receivers : FrameFails(i)
    <3>1. PICK x \in Launchers : StopLedscape(x) \/ Rmmod(x) \/ Prepare(x) \/ Insmod(x) \/ RunInit(x)
      BY <2>2 DEF Next, vars, LauncherStep, Lock, KillLauncher, Extract, Preflight, Look, Terminate,
             AwaitStop, Recheck, Spawn, AwaitReady, Supervise, Advance, Ends
    <3>2. l[x].pc \in FromLedscape
      BY <3>1 DEF StopLedscape, Rmmod, Prepare, Insmod, RunInit, At, FromLedscape, FromRmmod,
                  FromInsmod, FromRecheck
    <3>3. guard = x BY <3>2, LabelsOrdered DEF TrialInv, Exclusive
    <3> QED BY <3>2, <3>3 DEF TrialInv, Achieved
  <2> QED BY <2>1, <2>2
<1> QED BY <1>1, HandoversAreExclusive, PTL DEF Spec, StopsBeforeTaking

(***************************************************************************)
(* "DLD trial ready" means a receiver of the launcher's own that is        *)
(* attached to the launcher's session under its helper, and that session   *)
(* is gone only if a frame of this very receiver failed.                   *)
(***************************************************************************)
THEOREM ReadyReceiversServe == Spec => ReadyIsServing
<1> DEFINE Serving(x) ==
      LET child == d'[l[x].child]
      IN /\ child.pc = "ready" /\ child.by = x /\ child.on = x
         /\ board'.helper = x /\ ~board'.ledscape
         /\ board'.session = IF child.withdrew THEN "none" ELSE x
<1>1. TrialInv /\ [Next]_vars =>
        [\A x \in Launchers : l'[x].pc = "done" /\ l[x].pc # "done" => Serving(x)]_vars
  <2> SUFFICES ASSUME TrialInv, [Next]_vars, NEW x \in Launchers,
                      l'[x].pc = "done", l[x].pc # "done"
               PROVE  Serving(x)
    OBVIOUS
  <2>1. l \in [Launchers -> Launcher] BY DEF TrialInv, TypeOK
  <2>2. PICK y \in Launchers : LauncherStep(y) \/ Lock(y) \/ KillLauncher(y)
    BY DEF Next, vars, Supervise, Advance, FrameFails, Ends
  <2>3. y = x BY <2>2, LauncherTyped DEF TrialInv
  <2>4. ASSUME NEW label, Go(x, label) PROVE l'[x].pc = label BY <2>1, <2>4 DEF Go, Launcher
  <2>5. AwaitReady(x) /\ Go(x, "done")
    <3>1. l[x] \in Launcher BY <2>1
    <3>2. ~Fail(x) BY <2>4 DEF Fail
    <3>3. ~Look(x) BY <2>1, <3>1 DEF Look, Launcher
    <3>4. ~Terminate(x) BY <2>1, <3>1 DEF Terminate, Launcher
    <3>5. ~(l' = [l EXCEPT ![x].tries = @ + 1]) BY <2>1, <3>1 DEF Launcher
    <3>6. ~Spawn(x)
      <4>1. ASSUME NEW i \in Receivers,
                   l' = [l EXCEPT ![x].pc = "starting", ![x].child = i, ![x].tries = 0]
            PROVE  l'[x].pc = "starting"
        BY <2>1, <3>1, <4>1 DEF Launcher
      <4> QED BY <3>2, <4>1 DEF Spawn
    <3>7. ~AwaitStop(x) BY <2>4, <3>2, <3>5 DEF AwaitStop
    <3>8. ~(Lock(x) \/ KillLauncher(x) \/ Extract(x) \/ Preflight(x) \/ StopLedscape(x)
            \/ Rmmod(x) \/ Prepare(x) \/ Insmod(x) \/ Recheck(x) \/ RunInit(x))
      BY <2>4, <3>2 DEF Lock, Refused, KillLauncher, Extract, Preflight, StopLedscape, Rmmod,
         Prepare, Insmod, Recheck, RunInit
    <3>9. AwaitReady(x) BY <2>2, <2>3, <3>3, <3>4, <3>6, <3>7, <3>8 DEF LauncherStep
    <3> QED BY <3>2, <3>5, <3>9 DEF AwaitReady
  <2>6. d' = d /\ board' = board /\ d[l[x].child].pc = "ready"
    <3>1. ~Fail(x) BY <2>4, <2>5 DEF Fail
    <3>2. ~(l' = [l EXCEPT ![x].tries = @ + 1]) BY <2>1 DEF Launcher
    <3> QED BY <2>5, <3>1, <3>2 DEF AwaitReady
  <2>7. l[x].pc = "starting" BY <2>5 DEF AwaitReady, At
  <2>8. l[x].child \in Attached BY <2>6, <2>7 DEF TrialInv, Achieved, Attached
  <2> QED BY <2>6, <2>7, <2>8 DEF TrialInv, Achieved, OnOwnSession, FromRmmod, FromInsmod, FromRecheck,
             FromSpawn
<1> QED BY <1>1, HandoversAreExclusive, PTL DEF Spec, ReadyIsServing
=============================================================================
