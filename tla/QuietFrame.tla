----------------------------- MODULE QuietFrame -----------------------------
(***************************************************************************)
(* One frame and its sessions: the PRU firmware, the kernel helper, the    *)
(* bus masters they must keep quiet, and dld-init, which may restart the   *)
(* firmware whenever no ioctl is running (both hold the command lock).     *)
(***************************************************************************)
EXTENDS DldQuiet

vars == <<mb, pru, pins, clk, k, hw>>

Init ==
  /\ mb = [magic |-> FALSE, lens |-> {}, color |-> Black, req |-> 0, comp |-> 0,
           acc |-> 0, status |-> "INITIALIZING", err |-> "NONE",
           ready |-> 0, grant |-> 0, done |-> 0]
  /\ pru = ResetPru
  /\ pins = FALSE
  /\ clk = TRUE
  /\ k = Idle
  /\ hw = [cmdIdle |-> FALSE, cpswBusy |-> FALSE, dmaBusy |-> FALSE]

-----------------------------------------------------------------------------
(* dld-init.  It holds the command lock, so no send is in progress.        *)

\* dld_hw_take_control, which SIGKILL may end between any two of its steps: EN
\* is cleared, a core seen to have stopped is put into reset, and only then is
\* the old session erased, also when the wait for RUNSTATE ran out.  A step that
\* the next dld-init repeats changes nothing; dld_hw_cleanup takes the same ones.
InitDisable ==
  /\ K("idle") /\ clk
  /\ pru' = [pru EXCEPT !.en = FALSE, !.taken = TRUE]
  /\ UNCHANGED <<mb, pins, clk, k, hw>>

InitReset ==
  /\ K("idle") /\ clk /\ pru.taken /\ ~pru.run
  /\ pru' = [pru EXCEPT !.pc = "reset"]
  /\ UNCHANGED <<mb, pins, clk, k, hw>>

InitErase ==
  /\ K("idle") /\ clk /\ pru.taken
  /\ Touch([mb EXCEPT !.magic = FALSE]) /\ UNCHANGED k

\* The block as the first n groups of stores leave it: magic, lengths,
\* sequence and gate words, and the status last.
Populated(n, lens) ==
  LET m1 == [mb EXCEPT !.magic = TRUE]
      m2 == [m1 EXCEPT !.lens = lens]
      m3 == [m2 EXCEPT !.color = Black, !.req = 0, !.comp = 0, !.err = "NONE",
                       !.ready = 0, !.grant = 0, !.done = 0, !.acc = 0]
      m4 == [m3 EXCEPT !.status = "INITIALIZING"]
  IN <<m1, m2, m3, m4>>[n]

\* dld_hw_take_control has succeeded.
Stopped == clk /\ pru.taken /\ pru.pc = "reset" /\ ~mb.magic

\* The block is populated and the firmware started at its first instruction.
InitStart(lens) ==
  /\ K("idle") /\ Stopped
  /\ mb' = Populated(4, lens)
  /\ pru' = [ResetPru EXCEPT !.pc = "boot", !.en = TRUE, !.run = TRUE]
  /\ pins' = FALSE
  /\ UNCHANGED <<clk, k, hw>>

\* SIGKILL between two stores: the firmware is never started.
InitKilled(n, lens) ==
  /\ K("idle") /\ Stopped
  /\ mb' = Populated(n, lens)
  /\ pru' = [ResetPru EXCEPT !.taken = TRUE]
  /\ pins' = FALSE
  /\ UNCHANGED <<clk, k, hw>>

InitNext ==
  \/ InitDisable \/ InitReset \/ InitErase
  \/ \E lens \in Layouts : InitStart(lens)
  \/ \E n \in 1..4, lens \in Layouts : InitKilled(n, lens)

-----------------------------------------------------------------------------
(* The rest of the board.                                                  *)

\* With interrupts masked on the only CPU nobody submits an MMC or EDMA job.
DmaStarts ==
  /\ ~Masked /\ ~K("idle") /\ ~hw.dmaBusy
  /\ TouchHw([hw EXCEPT !.dmaBusy = TRUE]) /\ UNCHANGED k

DmaEnds ==
  /\ hw.dmaBusy
  /\ TouchHw([hw EXCEPT !.dmaBusy = FALSE]) /\ UNCHANGED k

\* The Ethernet DMA moves packets by itself unless CMD_IDLE holds it.
CpswStarts ==
  /\ ~K("idle") /\ ~hw.cmdIdle /\ ~hw.cpswBusy
  /\ TouchHw([hw EXCEPT !.cpswBusy = TRUE]) /\ UNCHANGED k

CpswEnds ==
  /\ hw.cpswBusy
  /\ TouchHw([hw EXCEPT !.cpswBusy = FALSE]) /\ UNCHANGED k

\* An operator recovers a CPSW left paused by a failed restore.
CpswRecovered ==
  /\ K("idle") /\ hw.cmdIdle
  /\ TouchHw([hw EXCEPT !.cmdIdle = FALSE]) /\ UNCHANGED k

\* The PRUSS module clock is gated behind the driver's back, for good.
ClockLost ==
  /\ clk /\ ~Masked
  /\ clk' = FALSE
  /\ UNCHANGED <<mb, pru, pins, k, hw>>

Environment == DmaStarts \/ DmaEnds \/ CpswStarts \/ CpswEnds \/ CpswRecovered \/ ClockLost

\* The reset hold lasts at least 400 us; the masked burst of reads of wait_gate
\* takes a few, so no burst spans the whole hold.
SettleOutlastsRead == At("settle") /\ pru.en => k.pc \notin {"gateError", "gateAccepted", "gateWord"}

FirmwareNext == PruNext /\ SettleOutlastsRead /\ UNCHANGED <<k, hw>>

Next ==
  \/ FirmwareNext
  \/ KernelNext
  \/ InitNext
  \/ Environment

Spec == Init /\ [][Next]_vars

\* The kernel runs the ioctl to its end: nothing between two of its steps waits
\* for the firmware, another driver or the caller.  Nothing else is fair.
FairSpec == Spec /\ WF_vars(KernelStep)

-----------------------------------------------------------------------------
(* Every part of the state has its type.                                   *)
TypeOK ==
  /\ mb \in Mailbox
  /\ pru \in Pru
  /\ pins \in BOOLEAN
  /\ clk \in BOOLEAN
  /\ k \in Kernel
  /\ hw \in Hardware

\* The firmware is between opening a gate and reporting the bank drained.
Streaming == pru.pc \in {"release", "resume", "stream", "bankDone"}

Executing == clk /\ pru.run /\ pru.en

Quiet == Masked /\ hw.cmdIdle /\ ~hw.cpswBusy /\ ~hw.dmaBusy

(***************************************************************************)
(* The waveform is only ever generated with interrupts masked, CPSW paused *)
(* and drained and no other DMA running; when a window must end before the *)
(* firmware reports, the firmware has been disabled first.  (try_bank,     *)
(* "Grant no bank until all checks pass", and its restore label.)  Bus     *)
(* masters that wake before the mask must be found by the checks under it; *)
(* that none wakes behind the mask is the code's assumption (DmaStarts).   *)
(***************************************************************************)
StreamsOnlyInQuietWindow == Executing /\ Streaming => Quiet

\* Every store of a grant, also one that would leave the word as it is, names a
\* bank not granted before in this request, which the firmware has announced for
\* this very request; nothing but the helper's store makes the word nonzero.
GrantIsAwaited ==
  (K("grant") /\ k'.granted) \/ mb'.grant \notin {mb.grant, 0} =>
    /\ mb'.grant = k.bank /\ mb.grant < k.bank
    /\ mb.ready = k.bank /\ mb.acc = k.seq

\* What the firmware begins to stream is the next configured bank of the
\* request in progress, in that request's colour.
StreamsTheRequest ==
  pru'.sent \subseteq pru.sent \/ ~pru.en \/
    \E b \in mb.lens \ pru.sent :
      /\ pru'.sent = pru.sent \cup {b}
      /\ \A c \in mb.lens : c < b <=> c \in pru.sent
      /\ k.pc \notin {"idle", "return"}
      /\ k.bank = b /\ pru.r3 = k.seq /\ pru.r4 = k.wire

(***************************************************************************)
(* Helper and firmware agree on one request: every bank is granted once,   *)
(* in order, to the firmware that awaits it for this request, and what the *)
(* firmware streams is that bank in that request's colour, never a bank    *)
(* twice and never for a request that has returned (spec.md 9.4).          *)
(***************************************************************************)
RequestIsFollowed == [][GrantIsAwaited /\ StreamsTheRequest]_vars

(***************************************************************************)
(* A send that returns success transmitted every configured bank in the    *)
(* colour asked for, the data pins are low, and the session it leaves      *)
(* admits the next send (perform_send, wait_gate's final test).            *)
(***************************************************************************)
SuccessMeansSent ==
  [][K("snapshot") /\ k'.result = "ok" =>
       /\ pru.sent = k.lens /\ pru.r4 = k.wire
       /\ pru.pc = "poll" /\ ~pins
       /\ Validate(mb, k.lens, k.seq) = "OK"]_vars

(***************************************************************************)
(* A frame that failed after publication and reports a complete recovery   *)
(* left no session, a PRU that cannot take another step, and low pins      *)
(* (failed_frame_cleanup).                                                 *)
(***************************************************************************)
FailedFrameIsWithdrawn ==
  k.result = "failed" /\ ~k.stopFailed =>
    /\ ~mb.magic /\ ~pru.en /\ ~pru.run
    /\ k.lowFailed \/ ~pins

(***************************************************************************)
(* Whatever ends a protected window, CPSW runs again when interrupts do,   *)
(* or the call fails and says that the restore failed.                     *)
(***************************************************************************)
CpswResumedOrReported ==
  [][Masked /\ k.changed /\ ~Masked' =>
       ~hw'.cmdIdle \/ (k'.restoreFailed /\ k'.err = "fail")]_vars

\* The firmware never meets a grant it did not ask for: a stale grant at
\* acceptance or a grant beyond its bank is a fault no send produces.
NoGateFault == pru.det # "GATE"

\* A block that passes every guard of the next send belongs to firmware that
\* runs and waits in its poll loop, unless a dld-init was killed on its way from
\* disabling the cores to starting the firmware: before it had erased the old
\* session, or after it had stored the magic of a new one.  Then the core is
\* disabled, still in its poll loop or already in reset.
UsableSessionIsWaiting ==
  K("idle") /\ clk /\ CheckMailbox(mb) = "OK" =>
    IF pru.taken
    THEN ~pru.en /\ (pru.pc = "reset" \/ (pru.pc = "poll" /\ pru.r3 = mb.req))
    ELSE pru.pc = "poll" /\ pru.en /\ pru.run /\ pru.r3 = mb.req

\* The userspace check and the kernel's guard admit the same blocks.
GuardsAgree == CheckMailbox(mb) = "OK" <=> Validate(mb, mb.lens, mb.req) = "OK"

(***************************************************************************)
(* A session that a command takes for usable is one the kernel admits and  *)
(* whose firmware waits for the next request, unless a killed dld-init     *)
(* left it disabled; no grant of an earlier frame is left that could start *)
(* it (dld_check_mailbox, validate, REQUEST_LOOP).                         *)
(***************************************************************************)
SessionIsSound == NoGateFault /\ UsableSessionIsWaiting /\ GuardsAgree

(***************************************************************************)
(* Every call returns to its caller, whatever the firmware, the clock and  *)
(* the other bus masters do: each wait is bounded by its attempt cap.      *)
(***************************************************************************)
EveryCallReturns == ~K("idle") ~> K("idle")

-----------------------------------------------------------------------------
(* The frame service this implements.  A bank counts as lit for the call   *)
(* in progress once the firmware has accepted that call's sequence.        *)

\* From validation to the return of perform_send.
InSend == k.pc \notin {"idle", "return"}

Service == INSTANCE FrameService WITH
  usable <- clk /\ (mb.magic \/ InSend),
  call <- IF InSend THEN [phase |-> "sending", wire |-> k.wire, lens |-> k.lens]
          ELSE IF K("idle") THEN [phase |-> "none"] ELSE [phase |-> k.result],
  lit <- IF InSend /\ mb.acc = k.seq
         THEN {<<b, pru.r4>> : b \in pru.sent} ELSE {}

\* Every step of the frame is a step of the service or changes nothing of it.
ImplementsService == Service!Spec
=============================================================================
