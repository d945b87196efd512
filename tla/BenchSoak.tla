------------------------------- MODULE BenchSoak -------------------------------
(***************************************************************************)
(* The soak supervisor (tools/bench_soak.py).  For every phase of its plan *)
(* it starts a bench sender over ssh, perhaps a load, and then takes and   *)
(* analyses one timed capture after the other; whatever happens it stops   *)
(* and reaps what it started before it goes on or gives up.                *)
(*                                                                         *)
(* Only waiting takes time: a worker that succeeds takes the least or the  *)
(* most it can, one that fails the most, and a cleanup step that succeeds  *)
(* none.  The two processes may change between any two steps.              *)
(* Assumed: a process that was killed is gone within its 5 s.              *)
(***************************************************************************)
EXTENDS Integers, FiniteSetsExt

CONSTANTS Phases, Duration, Chunk, Deadline,              \* the plan and the arguments
          Overhead, Analysis, Io, Reap, Retrieve, Kill,   \* limits of the waits, in ticks
          Reserve,                                        \* CLEANUP_RESERVE
          Skew                                            \* bound: how far the wall clock is adjusted

ASSUME PlanAssumption == {Phases, Duration, Chunk, Deadline} \subseteq Nat \ {0}
ASSUME LimitsAssumption ==
  {Overhead, Analysis, Io, Reap, Retrieve, Kill, Reserve, Skew} \subseteq Nat
\* CLEANUP_RESERVE is meant to cover every step of stop_phase with a remote load.
ASSUME ReserveAssumption == Reserve >= 2 * Io + 2 * Reap + Retrieve + 10 * Kill

VARIABLES now,         \* CLOCK_MONOTONIC
          cancel,      \* a caught signal or the operator's STOP file
          disk,        \* can logs, status and captures be written
          s,           \* the supervisor
          p            \* the sender and the load

vars == <<now, cancel, disk, s, p>>

\* run: the local process (ssh, or the UDP load itself).  far: the program on the board.
Work == {"sender", "load"}
Absent == [run |-> "none", code |-> 0, far |-> "off"]
Process == [run : {"none", "up", "gone"}, code : {0, 1}, far : {"off", "starting", "up", "done"}]

Alive(w) == p[w].far \in {"starting", "up"}
Started(w) == p[w].run # "none"

\* A new phase_state.  tried: whom stop_phase has asked to stop.
\* lost: it found the load's ssh gone, and asked nothing.
NewPhase == [load |-> "none", end |-> 0, seconds |-> 0, error |-> "none", errors |-> FALSE,
             captured |-> 0, checked |-> 0, valid |-> 0, journal |-> FALSE,
             tried |-> {}, lost |-> FALSE, outcome |-> "none"]

Init ==
  /\ now = 0 /\ cancel = FALSE /\ disk = TRUE
  /\ \E keep \in BOOLEAN :    \* --continue-waveform-failures
       s = [pc |-> "plan", done |-> 0, keep |-> keep, bad |-> FALSE, status |-> "running",
            phase |-> NewPhase]
  /\ p = [w \in Work |-> Absent]

-----------------------------------------------------------------------------

At(label) == s.pc = label
Go(label) == s' = [s EXCEPT !.pc = label]

\* An exception inside the phase's try block.
Raise(error) == s' = [s EXCEPT !.pc = "stopping", !.phase.error = error]

\* What remaining() may return: the wall clock may have been set at any time.
Remaining == {Min({Deadline - now, Deadline - now - skew}) : skew \in -Skew .. Skew}

\* bounded: a worker, its time, its exit and the tests before its start.
Bounded(least, limit) ==
  IF cancel THEN [d : {0}, how : {"cancelled"}]
  ELSE IF ~disk \/ \A remaining \in Remaining : remaining <= 0 THEN [d : {0}, how : {"failed"}]
  ELSE [d : {least, limit}, how : {"ok"}]
       \cup [d : {limit + 2 * Kill}, how : {"failed", "cancelled"}]

\* bounded with cleanup: neither the deadline, a cancellation nor a full disk prevents it.
BoundedCleanup(limit) == {[d |-> 0, how |-> "ok"], [d |-> limit + 2 * Kill, how |-> "failed"]}

Finish(status) == s' = [s EXCEPT !.pc = "ended", !.status = status]
Completed == IF s.bad THEN "completed_with_violations" ELSE "pass"

NextPhase ==
  /\ At("plan")
  /\ \E remaining \in Remaining :
       IF s.done = Phases THEN Finish(Completed)
       ELSE IF cancel THEN Finish("stopped")
       ELSE IF remaining < Reserve + Overhead + Analysis + 1 THEN Finish(Completed)
       ELSE Go("begin")
  /\ UNCHANGED <<now, cancel, disk, p>>

\* An error here is raised before there is anything to stop.
Begin ==
  /\ At("begin")
  /\ IF disk
     THEN /\ \E load \in {"none", "ethernet", "remote"} :
               s' = [s EXCEPT !.pc = "sender",
                              !.phase = [NewPhase EXCEPT !.load = load, !.end = now + Duration]]
          /\ p' = [w \in Work |-> Absent]
     ELSE Finish("fail") /\ UNCHANGED p
  /\ UNCHANGED <<now, cancel, disk>>

\* check_cancel and the deadline before, Popen or the log's open may fail.
Spawn(w, far, reserve, next) ==
  \/ cancel /\ Raise("cancelled") /\ UNCHANGED p
  \/ ~cancel /\ Raise("failed") /\ UNCHANGED p
  \/ /\ ~cancel /\ disk /\ \E remaining \in Remaining : remaining > reserve
     /\ p' = [p EXCEPT ![w] = [Absent EXCEPT !.run = "up", !.far = far]]
     /\ Go(next)

SpawnSender ==
  /\ At("sender")
  /\ Spawn("sender", "starting", Reserve, "load")
  /\ UNCHANGED <<now, cancel, disk>>

SpawnLoad ==
  /\ At("load")
  /\ \/ s.phase.load = "none" /\ Go("loop") /\ UNCHANGED p
     \/ s.phase.load = "ethernet" /\ Spawn("load", "up", 0, "loop")
     \/ s.phase.load = "remote" /\ Spawn("load", "starting", 0, "loop")
  /\ UNCHANGED <<now, cancel, disk>>

\* A mutant: no time is left for the analysis.
available_short(remaining) == remaining - Reserve - Overhead

available(remaining) == remaining - Reserve - Overhead - Analysis

Loop ==
  /\ At("loop")
  /\ \E remaining \in Remaining :
       LET seconds == Min({Chunk, s.phase.end - now, available(remaining)}) IN
       IF now >= s.phase.end THEN Go("stopping")
       ELSE IF cancel THEN Raise("cancelled")
       ELSE IF seconds < 1 THEN Go("stopping")
       ELSE IF ~disk \/ \E w \in Work : p[w].run = "gone" THEN Raise("failed")
       ELSE s' = [s EXCEPT !.pc = "capture", !.phase.seconds = seconds]
  /\ UNCHANGED <<now, cancel, disk, p>>

\* A worker of the phase: the capture lasts at least its own seconds.
Worker(label, least, limit, next) ==
  /\ At(label)
  /\ \E end \in Bounded(least, limit) :
       /\ now' = now + end.d
       /\ cancel' = (cancel \/ end.how = "cancelled")
       /\ IF end.how = "ok" THEN Go(next) ELSE Raise(end.how)
  /\ UNCHANGED <<disk, p>>

Capture == Worker("capture", s.phase.seconds, s.phase.seconds + Overhead, "captured")

\* binary_coverage counts what was retained, before the two processes are looked at again.
Captured ==
  /\ At("captured")
  /\ \/ Raise("failed")
     \/ /\ disk
        /\ s' = [s EXCEPT !.phase.captured = @ + 1,
             !.pc = IF now < s.phase.end /\ \E w \in Work : p[w].run = "gone"
                    THEN "stopping" ELSE "analysis",
             !.phase.error = IF now < s.phase.end /\ \E w \in Work : p[w].run = "gone"
                             THEN "failed" ELSE @]
  /\ UNCHANGED <<now, cancel, disk, p>>

Analyse == Worker("analysis", 0, Analysis, "judge")

\* The report is inconsistent, or accepted with its violations.
Judge ==
  /\ At("judge")
  /\ \/ Raise("failed")
     \/ \E clean \in BOOLEAN :
          LET failed == ~disk \/ (~clean /\ ~s.keep) IN
          s' = [s EXCEPT !.pc = IF failed THEN "stopping" ELSE "loop",
                         !.bad = @ \/ ~clean,
                         !.phase.checked = @ + 1,
                         !.phase.valid = IF clean THEN @ + 1 ELSE @,
                         !.phase.error = IF failed THEN "failed" ELSE @]
  /\ UNCHANGED <<now, cancel, disk, p>>

PhaseStep == \/ NextPhase \/ Begin \/ SpawnSender \/ SpawnLoad \/ Loop
             \/ Capture \/ Captured \/ Analyse \/ Judge

-----------------------------------------------------------------------------
(* The finally clause of run_phase, and stop_phase.                        *)

\* The error of a checkpoint is kept unless there is one already.
Stopping ==
  /\ At("stopping")
  /\ s' = [s EXCEPT !.pc = "stopLocal",
                    !.phase.error = IF @ = "none" /\ ~disk THEN "failed" ELSE @]
  /\ UNCHANGED <<now, cancel, disk, p>>

\* The UDP load has a stop file on the host; without it the process is terminated.
StopLocal ==
  /\ At("stopLocal")
  /\ IF s.phase.load = "ethernet" /\ Started("load")
     THEN /\ s' = [s EXCEPT !.pc = "stopSender", !.phase.tried = @ \cup {"load"},
                            !.phase.errors = @ \/ ~disk]
          /\ IF disk THEN UNCHANGED <<now, p>>
             ELSE /\ p' = [p EXCEPT !["load"] = [run |-> "gone", far |-> "done",
                                 code |-> IF @.run = "up" THEN 1 ELSE @.code]]
                  /\ now' = now + 2 * Kill
     ELSE Go("stopSender") /\ UNCHANGED <<now, p>>
  /\ UNCHANGED <<cancel, disk>>

StopSender ==
  /\ At("stopSender")
  /\ IF Started("sender")
     THEN \E end \in BoundedCleanup(Io) :
            /\ now' = now + end.d
            /\ s' = [s EXCEPT !.pc = "stopLoad", !.phase.tried = @ \cup {"sender"},
                              !.phase.errors = @ \/ end.how = "failed"]
     ELSE Go("stopLoad") /\ UNCHANGED now
  /\ UNCHANGED <<cancel, disk, p>>

\* The remote script signals the pid of the file only when that runs bench-load, and fails
\* when it cannot verify this within its wait.
StopLoadCommand(end) == end.how = "ok" => p["load"].far # "starting"

\* A mutant: the load is left alone when the sender's stop has failed.
StopLoadUnlessFailed ==
  /\ At("stopLoad")
  /\ IF s.phase.load = "remote" /\ Started("load") /\ p["load"].run = "up" /\ ~s.phase.errors
     THEN \E end \in BoundedCleanup(Io) :
            /\ StopLoadCommand(end)
            /\ now' = now + end.d
            /\ s' = [s EXCEPT !.pc = "reapSender", !.phase.tried = @ \cup {"load"},
                              !.phase.errors = @ \/ end.how = "failed"]
     ELSE Go("reapSender") /\ UNCHANGED now
  /\ UNCHANGED <<cancel, disk, p>>

StopLoad ==
  /\ At("stopLoad")
  /\ IF s.phase.load = "remote" /\ Started("load") /\ p["load"].run = "up"
     THEN \E end \in BoundedCleanup(Io) :
            /\ StopLoadCommand(end)
            /\ now' = now + end.d
            /\ s' = [s EXCEPT !.pc = "reapSender", !.phase.tried = @ \cup {"load"},
                              !.phase.errors = @ \/ end.how = "failed"]
     ELSE /\ s' = [s EXCEPT !.pc = "reapSender",
                            !.phase.lost = s.phase.load = "remote" /\ Started("load")]
          /\ UNCHANGED now
  /\ UNCHANGED <<cancel, disk, p>>

\* A mutant: the wait for the process has no limit.
ReapedAtLast(w, next) ==
  /\ p[w].run # "up"
  /\ s' = [s EXCEPT !.pc = next, !.phase.errors = @ \/ p[w].code # 0]
  /\ UNCHANGED <<now, p>>

\* reap, and terminate_local when the process does not end.
Reaped(w, next) ==
  \/ /\ p[w].run # "up"
     /\ s' = [s EXCEPT !.pc = next, !.phase.errors = @ \/ p[w].code # 0]
     /\ UNCHANGED <<now, p>>
  \/ /\ p[w].run = "up"
     /\ p' = [p EXCEPT ![w] = [@ EXCEPT !.run = "gone", !.code = 1]]
     /\ now' = now + Reap + 2 * Kill
     /\ s' = [s EXCEPT !.pc = next, !.phase.errors = TRUE]

ReapSender == At("reapSender") /\ Reaped("sender", "reapLoad") /\ UNCHANGED <<cancel, disk>>
ReapLoad == At("reapLoad") /\ Reaped("load", "retrieve") /\ UNCHANGED <<cancel, disk>>

\* scp, and the checks of the summary, the journal and the manifest.  A sender that has not
\* ended well has written no summary that passes them.
RetrieveSender ==
  /\ At("retrieve")
  /\ IF Started("sender")
     THEN \E end \in BoundedCleanup(Retrieve) :
            /\ end.how = "ok" => disk /\ p["sender"].far = "done"
            /\ now' = now + end.d
            /\ s' = [s EXCEPT !.pc = "settle", !.phase.journal = end.how = "ok",
                              !.phase.errors = @ \/ end.how = "failed"]
     ELSE Go("settle") /\ UNCHANGED now
  /\ UNCHANGED <<cancel, disk, p>>

\* A mutant: the errors of the cleanup are recorded but not raised.
SettleQuietly ==
  /\ At("settle")
  /\ s' = [s EXCEPT !.pc = "phaseEnd",
                    !.phase.error = IF @ = "none" /\ ~disk THEN "failed" ELSE @]
  /\ UNCHANGED <<now, cancel, disk, p>>

Settle ==
  /\ At("settle")
  /\ s' = [s EXCEPT !.pc = "phaseEnd",
                    !.phase.error = IF @ = "none" /\ (~disk \/ s.phase.errors) THEN "failed" ELSE @]
  /\ UNCHANGED <<now, cancel, disk, p>>

PhaseEnd ==
  /\ At("phaseEnd")
  /\ LET outcome == IF s.phase.error # "none" THEN "fail"
                    ELSE IF s.phase.valid < s.phase.checked THEN "completed_with_violations"
                    ELSE "pass"
         over == [s EXCEPT !.phase.outcome = outcome, !.done = @ + 1] IN
     s' = IF ~disk THEN [over EXCEPT !.pc = "ended", !.status = "fail"]
          ELSE IF outcome = "fail"
          THEN [over EXCEPT !.pc = "ended",
                  !.status = IF s.phase.error = "cancelled" THEN "stopped" ELSE "fail"]
          ELSE [over EXCEPT !.pc = "plan"]
  /\ UNCHANGED <<now, cancel, disk, p>>

CleanupStep == \/ Stopping \/ StopLocal \/ StopSender \/ StopLoad \/ ReapSender \/ ReapLoad
               \/ RetrieveSender \/ Settle \/ PhaseEnd

-----------------------------------------------------------------------------
(* The surroundings. *)

\* Python or bench-load is running on the board; its pid file is there.
ComesUp ==
  /\ \E w \in Work : p[w].far = "starting" /\ p' = [p EXCEPT ![w].far = "up"]
  /\ UNCHANGED <<now, cancel, disk, s>>

\* It ends, because it was asked to, has done its work or fails; ssh hands its exit on.
WorkEnds ==
  /\ ~At("ended")
  /\ \E w \in Work, code \in {0, 1} :
       /\ Alive(w)
       /\ p' = [p EXCEPT ![w] = [run |-> "gone", far |-> "done",
                                 code |-> IF @.run = "up" THEN code ELSE @.code]]
  /\ UNCHANGED <<now, cancel, disk, s>>

\* ssh gives up (ServerAliveCountMax); the program on the board goes on.
LinkLost ==
  /\ \E w \in Work : /\ p[w].run = "up" /\ Alive(w)
                     /\ w = "load" => s.phase.load = "remote"
                     /\ p' = [p EXCEPT ![w] = [@ EXCEPT !.run = "gone", !.code = 1]]
  /\ UNCHANGED <<now, cancel, disk, s>>

\* Nothing reads it while a phase is cleaned up.
Cancel ==
  /\ ~cancel
  /\ s.pc \in {"plan", "sender", "load", "loop", "capture", "analysis"}
  /\ cancel' = TRUE
  /\ UNCHANGED <<now, disk, s, p>>

DiskFills ==
  /\ disk /\ ~At("ended")
  /\ disk' = FALSE
  /\ UNCHANGED <<now, cancel, s, p>>

Next == PhaseStep \/ CleanupStep \/ ComesUp \/ WorkEnds \/ LinkLost \/ Cancel \/ DiskFills

\* The supervisor is scheduled; nothing is assumed of what it started.
Spec == Init /\ [][Next]_vars /\ WF_vars(PhaseStep \/ CleanupStep)

-----------------------------------------------------------------------------
(***************************************************************************)
(* A phase begins on a board where nothing of an earlier phase runs.  When *)
(* the supervisor has ended no local process is left, and whatever still   *)
(* runs on the board has been asked to stop, even when an earlier request  *)
(* failed; the one exception is a load whose ssh was already gone          *)
(* (stop_phase).                                                           *)
(***************************************************************************)
NothingIsAbandoned ==
  /\ At("plan") => \A w \in Work : ~Alive(w) /\ p[w].run # "up"
  /\ At("ended") => \A w \in Work :
       /\ p[w].run # "up"
       /\ Alive(w) => w \in s.phase.tried \/ (w = "load" /\ s.phase.lost)

(***************************************************************************)
(* A phase is reported completed only if sender and load ended well by     *)
(* themselves, the sender's journal was confirmed and every second that    *)
(* was captured was analysed; it is reported passed only if no chunk had a *)
(* violation; and a run that passes had no violation in any phase          *)
(* (run_phase, stop_phase).                                                *)
(***************************************************************************)
PassIsEarned ==
  /\ s.phase.outcome \in {"pass", "completed_with_violations"} =>
       /\ p["sender"].far = "done" /\ p["sender"].code = 0 /\ s.phase.journal
       /\ s.phase.load # "none" => p["load"].far = "done" /\ p["load"].code = 0
       /\ s.phase.captured = s.phase.checked
  /\ s.phase.outcome = "pass" => s.phase.valid = s.phase.captured
  /\ s.status = "pass" => ~s.bad /\ s.phase.outcome \in {"none", "pass"}

(***************************************************************************)
(* The reserves add up: whatever runs into its limit, and however the wall *)
(* clock is adjusted, no worker is started that could last into the        *)
(* reserve, and the cleanup ends by the deadline, but for the time it may  *)
(* take to kill the last worker (CAPTURE_OVERHEAD ... CLEANUP_RESERVE).    *)
(***************************************************************************)
ReservesSuffice ==
  /\ At("capture") => now + s.phase.seconds + Overhead + Analysis + Reserve <= Deadline
  /\ now <= Deadline + 2 * Kill

(***************************************************************************)
(* The supervisor comes to an end, whatever its processes do.              *)
(***************************************************************************)
SupervisorEnds == <>At("ended")
=============================================================================
