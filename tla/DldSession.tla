----------------------------- MODULE DldSession -----------------------------
(***************************************************************************)
(* The commands around one board: dld-init (src/dld_init.c, src/dld_hw.c)  *)
(* and the clients of the shared sender (src/dld_sender.c): dld-send, one  *)
(* send and exit, and dld-udp, which keeps its context open.  They share   *)
(* the command lock, the command block and the kernel helper.              *)
(*                                                                         *)
(* The helper's ioctl is the FrameService that QuietFrame implements.  A   *)
(* step of a command is the code between two points where a signal, SIGKILL*)
(* or another actor can matter.  Abstractions: the block is its magic      *)
(* (usable), its status and its layout; RUNNING and WAIT_BANK last only as *)
(* long as a call does, so the block never shows them to a lock holder;    *)
(* the PRUSS clock stays on.                                               *)
(***************************************************************************)
EXTENDS Naturals

CONSTANTS Colors, Layouts,
          Inits,      \* processes that run dld-init
          Clients,    \* processes that use a sender context
          Nobody

ASSUME NobodyAssumption == Nobody \notin Inits \cup Clients
ASSUME DistinctAssumption == Inits \cap Clients = {}
ASSUME ChoicesAssumption == Colors # {} /\ Layouts # {} /\ Layouts \subseteq SUBSET (1..3)

VARIABLES usable,  \* the block's magic: is there a session
          call,    \* the ioctl in progress, as FrameService sees it
          lit,     \* the banks it has lit
          board,   \* the rest of the block, the PRU and the pins
          lock,    \* the holder of the exclusive flock
          p,       \* the processes
          shown    \* the frame the LEDs show completely, Nobody when unknown

service == <<usable, call, lit>>
vars == <<usable, call, lit, board, lock, p, shown>>

Frame == INSTANCE FrameService

Proc == Inits \cup Clients

InitLabel == {"open", "take", "invalidate", "configure", "magic", "populate", "start", "wait"}
ClientLabel == {"attach", "idle", "check", "ioctl", "kernel"}
CleanupLabel == {"stop", "erase", "lower"}
Label == {"off", "unlock", "close"} \cup InitLabel \cup ClientLabel \cup CleanupLabel

Code == {"NONE", "OK", "PREREQUISITE", "INIT_FAILURE", "CRITICAL", "BUSY", "NOT_INITIALIZED"}

\* code is what the command or send will return.  before is what the
\* command found when it got the lock; no code reads it.
Shown == [wire : Colors, lens : Layouts] \cup {Nobody}
Found == [usable : BOOLEAN, shown : Shown]

Process == [pc : Label, code : Code, wire : Colors, lens : Layouts, faulted : Code,
            cancelled : BOOLEAN, killed : BOOLEAN, before : Found]

Board == [status : {"INITIALIZING", "READY", "DONE", "ERROR"}, lens : Layouts,
          core : {"stopped", "booting", "running", "stuck"}, low : BOOLEAN]

SomeLayout == CHOOSE lens \in Layouts : TRUE
SomeColor == CHOOSE color \in Colors : TRUE

NotRunning == [pc |-> "off", code |-> "NONE", wire |-> SomeColor, lens |-> SomeLayout,
               faulted |-> "NONE", cancelled |-> FALSE, killed |-> FALSE,
               before |-> [usable |-> FALSE, shown |-> Nobody]]

Init ==
  /\ usable = FALSE /\ call = Frame!None /\ lit = {}
  /\ board = [status |-> "INITIALIZING", lens |-> SomeLayout, core |-> "stopped", low |-> TRUE]
  /\ lock = Nobody
  /\ p = [x \in Proc |-> NotRunning]
  /\ shown = Nobody

-----------------------------------------------------------------------------

At(x, label) == p[x].pc = label
Become(x, r) == p' = [p EXCEPT ![x] = r]
Go(x, label) == Become(x, [p[x] EXCEPT !.pc = label])
Exit(x, code) == Become(x, [p[x] EXCEPT !.pc = "close", !.code = code])
Sent(x, code) == Become(x, [p[x] EXCEPT !.pc = "unlock", !.code = code])

Seen == [usable |-> usable, shown |-> shown]

\* Control leaves x for its cleanup; the command has taken the hardware.
Abandon(x, code) == Become(x, [p[x] EXCEPT !.pc = "stop", !.code = code])

\* What dld_check_mailbox says of the block as a lock holder sees it.
CheckMailbox == IF usable /\ board.status \in {"READY", "DONE"} THEN "OK" ELSE "NOT_INITIALIZED"

-----------------------------------------------------------------------------
(* Both commands begin with dld_lock; dld-init with lens as the layout of  *)
(* its configuration file.                                                 *)

\* A mutant: a command goes ahead when the lock is held.
StartWithoutLock(x, label, lens) ==
  /\ At(x, "off")
  /\ lock' = x
  /\ Become(x, [NotRunning EXCEPT !.pc = label, !.lens = lens, !.before = Seen])
  /\ UNCHANGED <<service, board, shown>>

Start(x, label, lens) ==
  /\ At(x, "off")
  /\ IF lock = Nobody
     THEN lock' = x /\ Become(x, [NotRunning EXCEPT !.pc = label, !.lens = lens, !.before = Seen])
     ELSE UNCHANGED <<lock, p>>                        \* exits with BUSY
  /\ UNCHANGED <<service, board, shown>>

\* stop_prus: a core that runs may or may not stop within its 20 ms.
AfterStop == CASE board.core = "stopped" -> {"stopped"}
               [] board.core = "stuck" -> {"stuck"}
               [] OTHER -> {"stopped", "stuck"}

\* Privilege, the UIO mapping, and a signal before anything is touched.
InitOpen(x) ==
  /\ At(x, "open")
  /\ \/ Exit(x, "PREREQUISITE")
     \/ p[x].cancelled /\ Exit(x, "INIT_FAILURE")
     \/ ~p[x].cancelled /\ Go(x, "take")
  /\ UNCHANGED <<service, board, lock, shown>>

\* dld_hw_take_control stops both cores ...
InitTake(x) ==
  /\ At(x, "take")
  /\ \E core \in AfterStop : board' = [board EXCEPT !.core = core]
  /\ Go(x, "invalidate")
  /\ UNCHANGED <<service, lock, shown>>

\* ... and invalidates the session whether or not they stopped.
InitInvalidate(x) ==
  /\ At(x, "invalidate")
  /\ usable' = FALSE
  /\ IF board.core = "stopped" THEN Go(x, "configure") ELSE Abandon(x, "INIT_FAILURE")
  /\ UNCHANGED <<call, lit, board, lock, shown>>

InitConfigure(x) ==
  /\ At(x, "configure")
  /\ \/ board' = [board EXCEPT !.low = TRUE] /\ Go(x, "magic")
     \/ UNCHANGED board /\ Abandon(x, "INIT_FAILURE")
  /\ UNCHANGED <<service, lock, shown>>

\* The magic is the first word stored, over the old status and layout.
InitMagic(x) ==
  /\ At(x, "magic")
  /\ usable' = TRUE
  /\ Go(x, "populate")
  /\ UNCHANGED <<call, lit, board, lock, shown>>

InitPopulate(x) ==
  /\ At(x, "populate")
  /\ board' = [board EXCEPT !.lens = p[x].lens, !.status = "INITIALIZING"]
  /\ IF p[x].cancelled THEN Abandon(x, "INIT_FAILURE") ELSE Go(x, "start")
  /\ UNCHANGED <<service, lock, shown>>

\* dld_hw_start: stop PRU0 again, load, verify, release.
InitRun(x) ==
  /\ At(x, "start")
  /\ \/ board' = [board EXCEPT !.core = "booting"] /\ Go(x, "wait")
     \/ UNCHANGED board /\ Abandon(x, "INIT_FAILURE")
  /\ UNCHANGED <<service, lock, shown>>

\* wait_ready: cancellation, the deadline and an error each end the wait; only
\* READY seen before the deadline, and no signal after it, is success.
InitWait(x) ==
  /\ At(x, "wait")
  /\ \/ board.status = "READY" /\ ~p[x].cancelled /\ Exit(x, "OK")
     \/ Abandon(x, "INIT_FAILURE")
  /\ UNCHANGED <<service, board, lock, shown>>

-----------------------------------------------------------------------------
(* dld_sender_open and dld_sender_send.                                    *)

\* What is left of a send once it has returned its code.
Returned(x, faulted) == [NotRunning EXCEPT !.pc = "idle", !.faulted = faulted,
                                           !.cancelled = p[x].cancelled]

\* Privilege, the mapping, the check, the helper's device; then the lock is
\* released and the descriptors are kept.
Attach(x) ==
  /\ At(x, "attach")
  /\ \/ Exit(x, "PREREQUISITE") /\ UNCHANGED lock
     \/ CheckMailbox # "OK" /\ Exit(x, CheckMailbox) /\ UNCHANGED lock
     \/ CheckMailbox = "OK" /\ Become(x, Returned(x, "NONE")) /\ lock' = Nobody
  /\ UNCHANGED <<service, board, shown>>

SendLock(x, wire) ==
  /\ At(x, "idle")
  /\ IF p[x].faulted # "NONE" \/ lock # Nobody
     THEN UNCHANGED <<lock, p>>                        \* returns faulted, or BUSY
     ELSE /\ lock' = x
          /\ Become(x, [p[x] EXCEPT !.pc = "check", !.wire = wire, !.before = Seen])
  /\ UNCHANGED <<service, board, shown>>

\* Nothing of the block is cached: the layout is read again for every frame.
SendCheck(x) ==
  /\ At(x, "check")
  /\ IF CheckMailbox # "OK" THEN Sent(x, CheckMailbox)
     ELSE IF p[x].cancelled THEN Sent(x, "PREREQUISITE")
     ELSE Become(x, [p[x] EXCEPT !.pc = "ioctl", !.lens = board.lens])
  /\ UNCHANGED <<service, board, lock, shown>>

\* ENOTTY or EPERM, and the helper's own refusals before it takes the call.
IoctlRejected(x) ==
  /\ At(x, "ioctl")
  /\ \/ Sent(x, "PREREQUISITE")
     \/ call # Frame!None /\ Sent(x, "BUSY")                    \* send_mutex
     \/ Abandon(x, "CRITICAL")                                    \* EFAULT: uncertain
     \/ /\ CheckMailbox # "OK" \/ p[x].lens # board.lens          \* validate
        /\ Sent(x, "NOT_INITIALIZED")
  /\ UNCHANGED <<service, board, lock, shown>>

IoctlBegins(x) ==
  /\ At(x, "ioctl")
  /\ CheckMailbox = "OK" /\ p[x].lens = board.lens
  /\ Frame!Begin(p[x].wire, p[x].lens)
  /\ Go(x, "kernel")
  /\ UNCHANGED <<board, lock, shown>>

\* perform_send returned and the result is copied out.  A process killed
\* meanwhile ends here, and only here is its lock released.
IoctlReturns(x) ==
  /\ At(x, "kernel")
  /\ Frame!Finish
  /\ IF p[x].killed
     THEN lock' = Nobody /\ Become(x, NotRunning)
     ELSE /\ UNCHANGED lock
          /\ \/ Abandon(x, "CRITICAL")                            \* EFAULT
             \/ /\ call.phase = "rejected"
                /\ \E code \in {"BUSY", "PREREQUISITE"} : Sent(x, code)
             \/ call.phase = "ok" /\ ~p[x].cancelled /\ Sent(x, "OK")
             \/ call.phase = "ok" /\ p[x].cancelled /\ Abandon(x, "CRITICAL")
             \/ call.phase = "failed" /\ Abandon(x, "CRITICAL")
  /\ UNCHANGED <<board, shown>>

-----------------------------------------------------------------------------
(* dld_hw_cleanup, then the end of the command or of the send.             *)

CleanupStop(x) ==
  /\ At(x, "stop")
  /\ \E core \in AfterStop : board' = [board EXCEPT !.core = core]
  /\ Go(x, "erase")
  /\ UNCHANGED <<service, lock, shown>>

\* A mutant: the cleanup stops the cores and forgets the session.
CleanupKeepsMagic(x) ==
  /\ At(x, "erase")
  /\ Go(x, "lower")
  /\ UNCHANGED <<service, board, lock, shown>>

CleanupErase(x) ==
  /\ At(x, "erase")
  /\ usable' = FALSE
  /\ Go(x, "lower")
  /\ UNCHANGED <<call, lit, board, lock, shown>>

\* Each bank is cleared best effort; a client's context is no longer of use.
CleanupLower(x) ==
  /\ At(x, "lower")
  /\ \E low \in BOOLEAN : board' = [board EXCEPT !.low = @ \/ low]
  /\ Become(x, IF x \in Inits THEN [p[x] EXCEPT !.pc = "close"]
               ELSE [p[x] EXCEPT !.pc = "unlock", !.faulted = "CRITICAL"])
  /\ UNCHANGED <<service, lock, shown>>

\* A mutant: only a successful send releases the lock.
UnlockOnlyOk(x) ==
  /\ At(x, "unlock")
  /\ lock' = IF p[x].code = "OK" THEN Nobody ELSE lock
  /\ Become(x, Returned(x, p[x].faulted))
  /\ UNCHANGED <<service, board, shown>>

\* The send returns.  A lock that cannot be released is closed with the context.
Unlock(x) ==
  /\ At(x, "unlock")
  /\ lock' = Nobody
  /\ \/ Become(x, Returned(x, p[x].faulted))
     \/ Become(x, Returned(x, IF p[x].faulted = "NONE" THEN "PREREQUISITE" ELSE p[x].faulted))
  /\ UNCHANGED <<service, board, shown>>

\* dld-init exits, an attach failed, or a client closes its context.
Close(x) ==
  /\ p[x].pc \in {"close", "idle"}
  /\ lock' = IF At(x, "close") THEN Nobody ELSE lock
  /\ Become(x, NotRunning)
  /\ UNCHANGED <<service, board, shown>>

-----------------------------------------------------------------------------
(* The kernel's part of a call, on its own until it returns: FrameService. *)

KernelRefuses ==
  /\ call # Frame!None
  /\ Frame!Refuse
  /\ UNCHANGED <<board, lock, p, shown>>

KernelLights ==
  /\ board.core = "running"
  /\ \E bank \in UNION Layouts : Frame!Light(bank)
  /\ shown' = Nobody
  /\ UNCHANGED <<board, lock, p>>

KernelSucceeds ==
  /\ board.core = "running"
  /\ Frame!Succeed
  /\ board' = [board EXCEPT !.status = "DONE"]
  /\ shown' = [wire |-> call.wire, lens |-> call.lens]
  /\ UNCHANGED <<lock, p>>

\* failed_frame_cleanup: the core may not stop, the pins may not go low.
KernelFails ==
  /\ Frame!Fail
  /\ \E core \in AfterStop, low \in BOOLEAN :
       board' = [board EXCEPT !.core = core, !.low = low]
  /\ shown' = Nobody
  /\ UNCHANGED <<lock, p>>

-----------------------------------------------------------------------------
(* The firmware's start, a core that stops late, signals and SIGKILL.      *)

FirmwareBoots ==
  /\ board.core = "booting"
  /\ \/ board' = [board EXCEPT !.core = "running", !.status = "READY"]
     \/ board' = [board EXCEPT !.core = "stopped", !.status = "ERROR"]
  /\ UNCHANGED <<service, lock, p, shown>>

\* Its pending access may be a status word or a pin.
StuckFinishes ==
  /\ board.core = "stuck"
  /\ \E status \in {board.status, "READY", "DONE", "ERROR"}, low \in {board.low, FALSE} :
       board' = [board EXCEPT !.core = "stopped", !.status = status, !.low = low]
  /\ UNCHANGED <<service, lock, p, shown>>

Signal(x) ==
  /\ ~At(x, "off") /\ ~p[x].cancelled
  /\ Become(x, [p[x] EXCEPT !.cancelled = TRUE])
  /\ UNCHANGED <<service, board, lock, shown>>

\* A mutant: the lock of a killed sender is free while its ioctl goes on.
KillFreesLock(x) ==
  /\ ~At(x, "off")
  /\ IF At(x, "kernel") THEN ~p[x].killed /\ Become(x, [p[x] EXCEPT !.killed = TRUE])
     ELSE Become(x, NotRunning)
  /\ lock' = IF lock = x THEN Nobody ELSE lock
  /\ UNCHANGED <<service, board, shown>>

\* A process inside the ioctl keeps its descriptors until the call returns.
Kill(x) ==
  /\ ~At(x, "off")
  /\ IF At(x, "kernel")
     THEN ~p[x].killed /\ Become(x, [p[x] EXCEPT !.killed = TRUE]) /\ UNCHANGED lock
     ELSE Become(x, NotRunning) /\ lock' = IF lock = x THEN Nobody ELSE lock
  /\ UNCHANGED <<service, board, shown>>

InitSteps(x) ==
  \/ InitOpen(x) \/ InitTake(x) \/ InitInvalidate(x) \/ InitConfigure(x)
  \/ InitMagic(x) \/ InitPopulate(x) \/ InitRun(x) \/ InitWait(x)

ClientSteps(x) ==
  \/ Attach(x) \/ SendCheck(x) \/ IoctlRejected(x) \/ IoctlBegins(x) \/ IoctlReturns(x)
  \/ Unlock(x)

CleanupSteps(x) == CleanupStop(x) \/ CleanupErase(x) \/ CleanupLower(x)

\* What a process that holds the lock does next of its own accord.
Proceed(x) == InitSteps(x) \/ ClientSteps(x) \/ CleanupSteps(x) \/ (At(x, "close") /\ Close(x))

Kernel == KernelRefuses \/ KernelLights \/ KernelSucceeds \/ KernelFails

Next ==
  \/ \E x \in Inits, lens \in Layouts : Start(x, "open", lens)
  \/ \E x \in Clients : Start(x, "attach", SomeLayout)
  \/ \E x \in Clients, wire \in Colors : SendLock(x, wire)
  \/ \E x \in Proc : InitSteps(x) \/ ClientSteps(x) \/ CleanupSteps(x) \/ Close(x)
  \/ \E x \in Proc : Signal(x) \/ Kill(x)
  \/ Kernel \/ FirmwareBoots \/ StuckFinishes

Spec == Init /\ [][Next]_vars

\* A command that holds the lock is scheduled, and every ioctl ends
\* (EveryCallReturns in QuietFrame).  Nobody has to start a command.
FairSpec == /\ Spec
            /\ \A x \in Proc : WF_vars(Proceed(x))
            /\ WF_vars(Kernel)

-----------------------------------------------------------------------------
Calls == {Frame!None} \cup {Frame!Sending(w, l) : w \in Colors, l \in Layouts}
         \cup {Frame!Outcome(r) : r \in {"ok", "rejected", "failed"}}

(* Every part of the state has its type.                                   *)
TypeOK ==
  /\ usable \in BOOLEAN
  /\ call \in Calls
  /\ lit \subseteq (1..3) \X Colors
  /\ board \in Board
  /\ lock \in Proc \cup {Nobody}
  /\ p \in [Proc -> Process]
  /\ shown \in Shown

Withdrawn == ~usable /\ board.core \in {"stopped", "stuck"}

\* The labels between taking the command lock and giving it up.
Locked == Label \ {"off", "idle"}

(***************************************************************************)
(* Whoever is between lock and unlock holds the one command lock, also     *)
(* when the process was killed inside the ioctl: the kernel finishes the   *)
(* frame before the descriptor, and with it the lock, goes (spec.md 9.5).  *)
(***************************************************************************)
LockProtects == \A x \in Proc : p[x].pc \in Locked => lock = x

(***************************************************************************)
(* From validation until the ioctl has handed its result to the sender no  *)
(* command makes or withdraws the session, replaces its layout or stops    *)
(* its running PRU; only the frame's own failure does.                     *)
(***************************************************************************)
FrameIsUninterrupted ==
  [][call # Frame!None /\ call' = call =>
       /\ usable' = usable /\ board'.lens = board.lens
       /\ board.core = "running" => board'.core = "running"]_vars

\* A send that will return success shows its own colour on the layout that is
\* configured now, and the session admits another send.
OkIsShown(x) ==
  x \in Clients /\ At(x, "unlock") /\ p[x].code = "OK" =>
    /\ shown = [wire |-> p[x].wire, lens |-> board.lens]
    /\ CheckMailbox = "OK"

\* A command refused as busy, not initialized or lacking a prerequisite leaves
\* the session and the picture as it found them.
RefusalLeavesSession(x) ==
  /\ p[x].pc \in {"unlock", "close"}
  /\ p[x].code \in {"BUSY", "NOT_INITIALIZED", "PREREQUISITE"}
  => Seen = p[x].before

\* A critical send, or a dld-init that failed after it took the hardware,
\* leaves no session and no core that runs.
FailureWithdraws(x) ==
  p[x].pc \in {"unlock", "close"} =>
    /\ p[x].code = "CRITICAL" => Withdrawn
    /\ p[x].code = "INIT_FAILURE" => Withdrawn \/ Seen = p[x].before

\* dld-init exits with success only when its own firmware runs and its own
\* layout is configured, never on a READY left by an earlier session.
InitSuccessIsLive(x) ==
  x \in Inits /\ At(x, "close") /\ p[x].code = "OK" =>
    /\ CheckMailbox = "OK" /\ board.status = "READY"
    /\ board.core = "running" /\ board.low
    /\ board.lens = p[x].lens

(***************************************************************************)
(* Every exit code tells the truth about the session and the picture, as   *)
(* long as the command still holds the lock (spec.md 9.6): success, a      *)
(* refusal, a withdrawn session and a live one are never confused.         *)
(***************************************************************************)
ExitCodesAreTrue ==
  \A x \in Proc :
    OkIsShown(x) /\ RefusalLeavesSession(x) /\ FailureWithdraws(x) /\ InitSuccessIsLive(x)

(***************************************************************************)
(* A frame that succeeds after its sender was killed leaves a session that *)
(* the next sender may use, and the lock free (spec.md 8.3).               *)
(***************************************************************************)
SessionOutlivesSender ==
  [][\A x \in Clients : p[x].killed /\ p'[x].pc = "off" /\ call.phase = "ok" =>
       /\ lock' = Nobody /\ CheckMailbox' = "OK"
       /\ shown' = [wire |-> p[x].wire, lens |-> board.lens]]_vars

(***************************************************************************)
(* Nobody keeps the command lock for ever: every wait under it is bounded. *)
(***************************************************************************)
LockIsReleased == \A x \in Proc : lock = x ~> lock # x
=============================================================================
