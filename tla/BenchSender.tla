------------------------------ MODULE BenchSender ------------------------------
(***************************************************************************)
(* The bench sender (tools/bench_sender.py): dld-init once, then dld-send  *)
(* again and again, each command under a watchdog thread that terminates   *)
(* it, then kills it, then gives the harness up.  The main thread and the  *)
(* watchdog share one item and one condition variable.                     *)
(*                                                                         *)
(* Code takes no time: a tick passes only while main waits for its command *)
(* and the watchdog sleeps.  The progress interval is left out: whether a  *)
(* checkpoint is due is free, and so is --duration, which only stops a run *)
(* earlier.  A command's result is good when command_ok accepts its output,*)
(* with the quiet diagnostics where these are required.                    *)
(***************************************************************************)
EXTENDS Integers, Sequences

CONSTANTS Timeout, Grace,  \* --command-timeout and --kill-grace, in ticks
          Deadline,        \* --deadline-utc, in ticks from the start
          Count,           \* --count
          Skew             \* bound: how far the wall clock is adjusted

ASSUME TimesAssumption == {Timeout, Grace, Deadline, Count} \subseteq Nat \ {0} /\ Skew \in Nat

VARIABLES now,    \* CLOCK_MONOTONIC
          skew,   \* what adjustments added to the wall clock
          stop,   \* a caught signal or the stop file
          disk,   \* can the journal be written
          m,      \* the main thread
          w,      \* the watchdog thread
          item,   \* self.active, NoItem for None
          lock,   \* the lock of self.condition: does the watchdog hold it
          child,  \* the command
          log     \* successes.bin

vars == <<now, skew, stop, disk, m, w, item, lock, child, log>>

\* todo: the number of the command, 0 for dld-init.
Main == [pc : {"start", "look", "spawn", "arm", "communicate", "disarm", "judge", "progress",
               "close", "join", "finish", "ended", "exited"},
         todo : 0 .. Count + 1, expired : BOOLEAN, closed : BOOLEAN, exit : {0, 1, 124, 125, 128}]

Watchdog == [pc : {"top", "idle", "timed", "nap", "signal", "gone"}, due : Nat]

NoItem == [stage |-> -1, expired |-> FALSE, deadline |-> 0]

\* hit: was it signalled.  born: when it was started.
NoChild == [pc |-> "none", n |-> 0, good |-> FALSE, hit |-> FALSE, born |-> 0]

Init ==
  /\ now = 0 /\ skew = 0 /\ stop = "none" /\ disk = TRUE
  /\ \E first \in {0, 1} :    \* --skip-init
       m = [pc |-> "start", todo |-> first, expired |-> FALSE, closed |-> FALSE, exit |-> 0]
  /\ w = [pc |-> "top", due |-> 0]
  /\ item = NoItem /\ lock = FALSE /\ child = NoChild /\ log = <<>>

-----------------------------------------------------------------------------
(* The main thread: run_session. *)

M(label) == m.pc = label
Go(label) == m' = [m EXCEPT !.pc = label]
Fail(code) == m' = [m EXCEPT !.pc = "close", !.exit = code]

\* notify_all ends every wait of the watchdog.
Notified == IF w.pc \in {"idle", "timed", "nap"} THEN [w EXCEPT !.pc = "top"] ELSE w

\* A checkpoint; an error of the journal is a harness_error.
Start ==
  /\ M("start")
  /\ IF disk THEN Go("look") ELSE Fail(1)
  /\ UNCHANGED <<now, skew, stop, disk, w, item, lock, child, log>>

\* A mutant: room is left for the terminate only.
stop_reason_short ==
  \/ stop # "none" \/ m.todo > Count
  \/ now + Timeout + Grace >= Deadline
  \/ now + skew + Timeout + Grace >= Deadline

stop_reason ==
  \/ stop # "none" \/ m.todo > Count
  \/ now + Timeout + 2 * Grace >= Deadline
  \/ now + skew + Timeout + 2 * Grace >= Deadline

Look ==
  /\ M("look")
  /\ \/ Go(IF stop_reason THEN "close" ELSE "spawn")
     \/ Go("close")    \* --duration
  /\ UNCHANGED <<now, skew, stop, disk, w, item, lock, child, log>>

\* Popen may fail: the result has no exit status, so the command failed.
Spawn ==
  /\ M("spawn")
  /\ \/ /\ child' = [NoChild EXCEPT !.pc = "running", !.n = m.todo, !.born = now]
        /\ Go("arm")
     \/ Fail(1) /\ UNCHANGED child
  /\ UNCHANGED <<now, skew, stop, disk, w, item, lock, log>>

\* A mutant: the watchdog is not told of the new command.
ArmUnnotified ==
  /\ M("arm") /\ ~lock
  /\ item' = [stage |-> 0, expired |-> FALSE, deadline |-> now + Timeout]
  /\ Go("communicate")
  /\ UNCHANGED <<now, skew, stop, disk, w, lock, child, log>>

Arm ==
  /\ M("arm") /\ ~lock
  /\ item' = [stage |-> 0, expired |-> FALSE, deadline |-> now + Timeout]
  /\ w' = Notified
  /\ Go("communicate")
  /\ UNCHANGED <<now, skew, stop, disk, lock, child, log>>

Communicate ==
  /\ M("communicate") /\ child.pc = "exited"
  /\ Go("disarm")
  /\ UNCHANGED <<now, skew, stop, disk, w, item, lock, child, log>>

Disarm ==
  /\ M("disarm") /\ ~lock
  /\ m' = [m EXCEPT !.pc = "judge", !.expired = item.expired]
  /\ item' = NoItem /\ w' = Notified
  /\ UNCHANGED <<now, skew, stop, disk, lock, child, log>>

\* A mutant: the output alone decides.
command_ok_by_output == child.good

command_ok == child.good /\ ~m.expired

\* The error of a failed command is logged before its exit code is chosen.
Judge ==
  /\ M("judge")
  /\ IF disk /\ command_ok
     THEN /\ m' = [m EXCEPT !.pc = "progress", !.todo = @ + 1]
          /\ log' = IF m.todo = 0 THEN log
                    ELSE Append(log, [n |-> child.n, good |-> child.good, hit |-> child.hit])
     ELSE Fail(IF disk /\ m.expired THEN 124 ELSE 1) /\ UNCHANGED log
  /\ UNCHANGED <<now, skew, stop, disk, w, item, lock, child>>

Progress ==
  /\ M("progress")
  /\ \/ Go("look")
     \/ ~disk /\ Fail(1)
  /\ UNCHANGED <<now, skew, stop, disk, w, item, lock, child, log>>

Close ==
  /\ M("close") /\ ~lock
  /\ m' = [m EXCEPT !.pc = "join", !.closed = TRUE]
  /\ w' = Notified
  /\ UNCHANGED <<now, skew, stop, disk, item, lock, child, log>>

Join ==
  /\ M("join") /\ w.pc = "gone"
  /\ Go("finish")
  /\ UNCHANGED <<now, skew, stop, disk, w, item, lock, child, log>>

\* The summary.  An error that is raised here reaches main.
Finish ==
  /\ M("finish")
  /\ m' = [m EXCEPT !.pc = "ended",
                    !.exit = IF ~disk THEN 1 ELSE IF @ = 0 /\ stop = "signal" THEN 128 ELSE @]
  /\ UNCHANGED <<now, skew, stop, disk, w, item, lock, child, log>>

MainStep == \/ Start \/ Look \/ Spawn \/ Arm \/ Communicate \/ Disarm \/ Judge
            \/ Progress \/ Close \/ Join \/ Finish

-----------------------------------------------------------------------------
(* The watchdog: _watch_loop.  It holds the lock from the test of the      *)
(* command to the signal, and gives it up in its waits.                    *)

W(label) == w.pc = label
Alive == m.pc \notin {"ended", "exited"}
Overdue == W("top") /\ Alive /\ ~m.closed /\ item # NoItem /\ now >= item.deadline

\* os._exit ends both threads and leaves the command alone.
Abandon(code) == m' = [m EXCEPT !.pc = "exited", !.exit = code]

Leave ==
  /\ W("top") /\ Alive /\ m.closed
  /\ w' = [w EXCEPT !.pc = "gone"]
  /\ UNCHANGED <<now, skew, stop, disk, m, item, lock, child, log>>

Sleep ==
  /\ W("top") /\ Alive /\ ~m.closed
  /\ \/ item = NoItem /\ w' = [w EXCEPT !.pc = "idle"]
     \/ /\ item # NoItem /\ now < item.deadline
        /\ w' = [pc |-> "timed", due |-> item.deadline]
  /\ UNCHANGED <<now, skew, stop, disk, m, item, lock, child, log>>

\* poll: the command has exited, main has not yet noticed.
Nap ==
  /\ Overdue /\ child.pc = "exited"
  /\ w' = [w EXCEPT !.pc = "nap"]
  /\ UNCHANGED <<now, skew, stop, disk, m, item, lock, child, log>>

\* A mutant: the lock is released before the signal, and expired set after it.
ExpireUnlocked ==
  /\ Overdue /\ child.pc = "running" /\ item.stage < 2 /\ disk
  /\ item' = [item EXCEPT !.stage = @ + 1, !.deadline = now + Grace]
  /\ w' = [w EXCEPT !.pc = "signal"]
  /\ UNCHANGED <<now, skew, stop, disk, m, lock, child, log>>

Expire ==
  /\ Overdue /\ child.pc = "running" /\ item.stage < 2 /\ disk
  /\ item' = [stage |-> item.stage + 1, expired |-> TRUE, deadline |-> now + Grace]
  /\ w' = [w EXCEPT !.pc = "signal"] /\ lock' = TRUE
  /\ UNCHANGED <<now, skew, stop, disk, m, child, log>>

\* terminate or kill, by the pid of the item; a command that is gone is no error.
Signal ==
  /\ W("signal") /\ Alive
  /\ child' = [child EXCEPT !.hit = @ \/ child.pc = "running"]
  /\ w' = [w EXCEPT !.pc = "top"] /\ lock' = FALSE
  /\ UNCHANGED <<now, skew, stop, disk, m, item, log>>

\* Neither signal helped.
FatalHang ==
  /\ Overdue /\ child.pc = "running" /\ item.stage = 2 /\ disk
  /\ Abandon(124)
  /\ UNCHANGED <<now, skew, stop, disk, w, item, lock, child, log>>

\* The watchdog logs before it acts; _watch turns an error into a kill and exit 125.
WatchdogFails ==
  /\ Overdue /\ child.pc = "running" /\ ~disk
  /\ child' = [child EXCEPT !.hit = TRUE]
  /\ Abandon(125)
  /\ UNCHANGED <<now, skew, stop, disk, w, item, lock, log>>

\* The end of a timed wait.
Wake ==
  /\ Alive
  /\ W("nap") \/ (W("timed") /\ now >= w.due)
  /\ w' = [w EXCEPT !.pc = "top"]
  /\ UNCHANGED <<now, skew, stop, disk, m, item, lock, child, log>>

WatchdogStep == Leave \/ Sleep \/ Nap \/ Expire \/ Signal \/ FatalHang \/ WatchdogFails \/ Wake

-----------------------------------------------------------------------------
(* The surroundings. *)

\* dld-init or dld-send ends, or never does.
Exits ==
  /\ child.pc = "running"
  /\ \E good \in BOOLEAN : child' = [child EXCEPT !.pc = "exited", !.good = good]
  /\ UNCHANGED <<now, skew, stop, disk, m, w, item, lock, log>>

\* Terminal signals reach the harness only (start_new_session).
StopRequested ==
  /\ Alive /\ stop = "none"
  /\ stop' \in {"signal", "file"}
  /\ UNCHANGED <<now, skew, disk, m, w, item, lock, child, log>>

DiskFills ==
  /\ Alive /\ disk
  /\ disk' = FALSE
  /\ UNCHANGED <<now, skew, stop, m, w, item, lock, child, log>>

ClockAdjusted ==
  /\ Alive
  /\ skew' \in (-Skew .. Skew) \ {skew}
  /\ UNCHANGED <<now, stop, disk, m, w, item, lock, child, log>>

Tick ==
  /\ M("communicate") /\ child.pc = "running"
  /\ W("idle") \/ (W("timed") /\ now < w.due)
  /\ now <= Deadline    \* bound
  /\ now' = now + 1
  /\ UNCHANGED <<skew, stop, disk, m, w, item, lock, child, log>>

Next == MainStep \/ WatchdogStep \/ Exits \/ StopRequested \/ DiskFills \/ ClockAdjusted \/ Tick

\* Both threads are scheduled, and time passes.
Spec == Init /\ [][Next]_vars /\ WF_vars(MainStep) /\ WF_vars(WatchdogStep) /\ WF_vars(Tick)

-----------------------------------------------------------------------------
(***************************************************************************)
(* A signal of the watchdog reaches the command it has found overdue, never*)
(* its successor (_watch_loop: "prevent a completed process from being     *)
(* confused with the next command").                                       *)
(***************************************************************************)
SignalsOnlyTheOverdue ==
  [][child'.hit /\ ~child.hit => child.n = m.todo /\ now >= child.born + Timeout]_vars

(***************************************************************************)
(* The i-th success record belongs to the i-th colour of the schedule, and *)
(* to a command that ended by itself, well, and unsignalled                *)
(* (successes.bin in the module's docstring).                              *)
(***************************************************************************)
RecordsAreTrue ==
  \A i \in DOMAIN log : log[i] = [n |-> i, good |-> TRUE, hit |-> FALSE]

(***************************************************************************)
(* The harness never supervises a command at its UTC limit, even if that   *)
(* has to be terminated, killed and given up first, and whatever happens   *)
(* to the wall clock (stop_reason, tests/README.md).                       *)
(***************************************************************************)
EndsByDeadline == Alive /\ child.pc = "running" => now < Deadline

(***************************************************************************)
(* The harness comes to an end, whether or not its command, its disk or    *)
(* the clock behave: no wake-up of the watchdog is lost, and the watchdog  *)
(* does not die alone (_watch).                                            *)
(***************************************************************************)
HarnessEnds == <>~Alive
=============================================================================
