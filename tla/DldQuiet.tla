------------------------------ MODULE DldQuiet ------------------------------
(***************************************************************************)
(* The kernel helper's send ioctl, kernel/dld_quiet_main.c: validation,    *)
(* publication, one protected window per nonempty bank, the final wait and *)
(* the failed-frame cleanup.  A step is one access to a word the firmware  *)
(* also uses, or a stretch of code without one.                            *)
(*                                                                         *)
(* Errno values are three classes: "none", "retry" (EAGAIN, the only one   *)
(* the admission loop retries) and "fail" (every terminal errno).  Masks   *)
(* indexed by bank are one flag each: the frame ends at the first failure. *)
(***************************************************************************)
EXTENDS Ws2812Uniform

CONSTANT MaxTries      \* attempt caps: 200 per gate, 10000 per admission

ASSUME MaxTriesAssumption == MaxTries \in Nat /\ MaxTries >= 1

VARIABLES k,   \* the ioctl in progress: struct dld_quiet_send and local state
          hw   \* CPSW and the other bus masters

KernelLabel == {"idle", "preflight", "publish", "publishColor", "publishSeq",
                "gateStatus", "gateError", "gateAccepted", "gateWord",
                "mask", "check", "drain", "warm", "grant", "spin", "observe",
                "withdraw", "restore", "unmask",
                "snapshot", "disable", "stop", "clear", "return"}

Attempts == 0..MaxTries

Kernel == [pc : KernelLabel, lens : SUBSET Bank, wire : Colors,
           seq : Seqs, bank : Slot, tries : Attempts,
           bad : BOOLEAN, match : BOOLEAN, err : {"none", "retry", "fail"},
           changed : BOOLEAN, granted : BOOLEAN,
           restoreFailed : BOOLEAN, stopFailed : BOOLEAN, lowFailed : BOOLEAN,
           result : {"none", "ok", "rejected", "failed"}]

Hardware == [cmdIdle : BOOLEAN, cpswBusy : BOOLEAN, dmaBusy : BOOLEAN]

\* The stretches between local_irq_save and local_irq_restore: on the only CPU
\* no other driver runs and no Runtime PM callback gates a clock.
Masked == k.pc \in {"publishColor", "publishSeq", "gateError", "gateAccepted", "gateWord",
                   "check", "drain", "warm", "grant", "spin", "observe",
                   "withdraw", "restore", "unmask"}

Idle == [pc |-> "idle", lens |-> {}, wire |-> Black, seq |-> 0, bank |-> 1, tries |-> 0,
         bad |-> FALSE, match |-> FALSE, err |-> "none",
         changed |-> FALSE, granted |-> FALSE,
         restoreFailed |-> FALSE, stopFailed |-> FALSE, lowFailed |-> FALSE,
         result |-> "none"]

K(label) == k.pc = label
Go(r, label) == k' = [r EXCEPT !.pc = label]

Touch(m) == mb' = m /\ UNCHANGED <<pru, pins, clk, hw>>
TouchNothing == UNCHANGED <<mb, pru, pins, clk, hw>>
TouchHw(h) == hw' = h /\ UNCHANGED <<mb, pru, pins, clk>>

\* perform_send returns: the result and the recovery-failure masks.
Return(r, result) ==
  k' = [Idle EXCEPT !.pc = "return", !.result = result,
                    !.restoreFailed = r.restoreFailed,
                    !.stopFailed = r.stopFailed, !.lowFailed = r.lowFailed]

-----------------------------------------------------------------------------
(* perform_send up to publication.  The caller names the colour (wire is   *)
(* what wire_color makes of it) and the lengths and the sequence it read   *)
(* from the block some time before.                                        *)

Call(wire, lens, prev) ==
  /\ K("idle")
  /\ IF clk /\ Validate(mb, lens, prev) = "OK"
     THEN k' = [Idle EXCEPT !.pc = "preflight", !.wire = wire, !.lens = lens,
                            !.seq = NextSeq(prev)]
     ELSE Return(Idle, "rejected")
  /\ TouchNothing

\* eth0, runtime PM, the initial DMA admission, a pending signal.
PreflightFails ==
  /\ K("preflight")
  /\ Return(k, "rejected")
  /\ TouchNothing

PreflightPasses ==
  /\ K("preflight")
  /\ ~hw.dmaBusy
  /\ Go(k, "publish")
  /\ TouchNothing

\* The loop over the nonempty banks reaches bank b; b = 4 is the final wait.
AwaitGate(r, b) == Go([r EXCEPT !.bank = b, !.tries = 0, !.granted = FALSE], "gateStatus")
Final == k.bank = 4

\* A mutant: the sequence is visible before the colour it belongs to.
PublishSeqFirst ==
  /\ K("publish")
  /\ clk
  /\ Go(k, "publishColor")
  /\ Touch([mb EXCEPT !.grant = 0, !.req = k.seq])

PublishGrant ==
  /\ K("publish")
  /\ \/ clk  /\ Go(k, "publishColor") /\ Touch([mb EXCEPT !.grant = 0])
     \/ ~clk /\ Return(k, "rejected") /\ TouchNothing

PublishColor ==
  /\ K("publishColor")
  /\ Go(k, "publishSeq")
  /\ Touch([mb EXCEPT !.color = k.wire])

PublishSeq ==
  /\ K("publishSeq")
  /\ AwaitGate(k, FirstBank(k.lens, 1))
  /\ Touch([mb EXCEPT !.req = k.seq])

-----------------------------------------------------------------------------
(* wait_gate: status, error, accepted and then the ordinal (or, after the  *)
(* last bank, the completion) are separate reads of a moving block.        *)

\* The 20 ms deadline, the attempt cap, or the PRUSS clock is off.
GateTimeout ==
  /\ K("gateStatus")
  /\ Go([k EXCEPT !.err = "fail"], "snapshot")
  /\ TouchNothing

GateReadStatus ==
  /\ K("gateStatus")
  /\ clk
  /\ k.tries < MaxTries
  /\ Go([k EXCEPT !.bad = (mb.status = "ERROR"),
                  !.match = (mb.status = IF Final THEN "DONE" ELSE "WAIT_BANK")],
        "gateError")
  /\ TouchNothing

GateReadError ==
  /\ K("gateError")
  /\ Go([k EXCEPT !.bad = @ \/ mb.err # "NONE"], "gateAccepted")
  /\ TouchNothing

GateReadAccepted ==
  /\ K("gateAccepted")
  /\ Go([k EXCEPT !.match = @ /\ mb.acc = k.seq], "gateWord")
  /\ TouchNothing

\* A mutant: a DONE status completes the frame whatever it completed.
GateMatchesAnyDone == k.match /\ (Final \/ mb.ready = k.bank)

GateMatches == k.match /\ IF Final THEN mb.comp = k.seq ELSE mb.ready = k.bank

GateReadWord ==
  /\ K("gateWord")
  /\ \/ k.bad /\ Go([k EXCEPT !.err = "fail"], "snapshot")
     \/ ~k.bad /\ GateMatches /\ Go([k EXCEPT !.match = FALSE, !.tries = 0],
                                  IF Final THEN "snapshot" ELSE "mask")
     \/ ~k.bad /\ GateMatches /\ Go([k EXCEPT !.err = "fail"], "snapshot")  \* too late
     \/ ~k.bad /\ ~GateMatches /\ Go([k EXCEPT !.match = FALSE, !.tries = @ + 1],
                                   "gateStatus")
  /\ TouchNothing

-----------------------------------------------------------------------------
(* run_bank and try_bank: interrupts off, CPSW paused, other DMA idle; then*)
(* the grant, the spin, one observation; then everything restored.         *)

AdmissionTimeout ==
  /\ K("mask")
  /\ Go([k EXCEPT !.err = "fail"], "snapshot")
  /\ TouchNothing

MaskInterrupts ==
  /\ K("mask")
  /\ k.tries < MaxTries
  /\ Go([k EXCEPT !.err = "none", !.changed = FALSE], "check")
  /\ TouchNothing

\* CPU speed, PMU, PRUSS clock, CMD_IDLE already set; or DMA busy, or a clock
\* in transition.
RefuseBank ==
  /\ K("check")
  /\ \E e \in {"retry", "fail"} : Go([k EXCEPT !.err = e], "withdraw")
  /\ TouchNothing

PauseCpsw ==
  /\ K("check")
  /\ clk /\ ~hw.dmaBusy /\ ~hw.cmdIdle
  /\ Go([k EXCEPT !.changed = TRUE], "drain")
  /\ TouchHw([hw EXCEPT !.cmdIdle = TRUE])

\* Readback mismatch, CPDMA error, drain timeout; or the recheck finds DMA.
DrainFails ==
  /\ K("drain")
  /\ \E e \in {"retry", "fail"} : Go([k EXCEPT !.err = e], "withdraw")
  /\ TouchNothing

CpswDrained ==
  /\ K("drain")
  /\ ~hw.cpswBusy /\ ~hw.dmaBusy
  /\ Go(k, "warm")
  /\ TouchNothing

\* The warm-up loop runs without a grant; a stopped PMU withholds the grant.
Warm ==
  /\ K("warm")
  /\ \/ Go(k, "grant")
     \/ Go([k EXCEPT !.err = "fail"], "withdraw")
  /\ TouchNothing

Grant ==
  /\ K("grant")
  /\ Go([k EXCEPT !.granted = TRUE], "spin")
  /\ Touch([mb EXCEPT !.grant = k.bank])

\* The cycle target is reached, or the iteration cap expires first.
SpinEnds ==
  /\ K("spin")
  /\ \E e \in {"none", "fail"} : Go([k EXCEPT !.err = e], "observe")
  /\ TouchNothing

Observe ==
  /\ K("observe")
  /\ Go([k EXCEPT !.err = IF @ = "none" /\ mb.done = k.bank THEN "none" ELSE "fail"],
        "withdraw")
  /\ TouchNothing

\* A mutant: a failed granted bank keeps running while CPSW resumes.
WithdrawNever ==
  /\ K("withdraw")
  /\ Go(k, "restore")
  /\ TouchNothing

WithdrawPru ==
  /\ K("withdraw")
  /\ Go(k, "restore")
  /\ IF k.err # "none" /\ k.granted /\ clk
     THEN /\ pru' = [pru EXCEPT !.en = FALSE]
          /\ mb' = [mb EXCEPT !.magic = FALSE]
          /\ UNCHANGED <<pins, clk, hw>>
     ELSE TouchNothing

\* A mutant: an early refusal leaves CMD_IDLE asserted.
RestoreOnlySuccess ==
  /\ K("restore")
  /\ IF k.err = "none"
     THEN TouchHw([hw EXCEPT !.cmdIdle = FALSE])
     ELSE TouchNothing
  /\ Go(k, "unmask")

RestoreCpsw ==
  /\ K("restore")
  /\ \/ /\ ~k.changed
        /\ Go(k, "unmask")
        /\ TouchNothing
     \/ /\ k.changed
        /\ Go(k, "unmask")
        /\ TouchHw([hw EXCEPT !.cmdIdle = FALSE])
     \/ /\ k.changed                 \* the readback does not match
        /\ Go([k EXCEPT !.restoreFailed = TRUE, !.err = "fail"], "unmask")
        /\ TouchNothing

\* A mutant: a retried admission starts its attempts again.
UnmaskForgetsTries ==
  /\ K("unmask")
  /\ \/ k.err = "none" /\ AwaitGate(k, FirstBank(k.lens, k.bank + 1))
     \/ k.err = "retry" /\ ~k.granted /\ Go([k EXCEPT !.tries = 0], "mask")
     \/ k.err # "none" /\ (k.err = "fail" \/ k.granted) /\ Go(k, "snapshot")
  /\ TouchNothing

\* dld_admission_wait: only EAGAIN without a grant goes round again.
Unmask ==
  /\ K("unmask")
  /\ \/ k.err = "none" /\ AwaitGate(k, FirstBank(k.lens, k.bank + 1))
     \/ k.err = "retry" /\ ~k.granted /\ Go([k EXCEPT !.tries = @ + 1], "mask")
     \/ k.err # "none" /\ (k.err = "fail" \/ k.granted) /\ Go(k, "snapshot")
  /\ TouchNothing

-----------------------------------------------------------------------------
(* submitted_done and failed_frame_cleanup.                                *)

Snapshot ==
  /\ K("snapshot")
  /\ \/ k.err = "none" /\ clk /\ Return(k, "ok")
     \/ ~(k.err = "none" /\ clk) /\ Go([k EXCEPT !.err = "fail"], "disable")
  /\ TouchNothing

\* A mutant: the cores are disabled but the block still looks like a session.
DisableKeepsMagic ==
  /\ K("disable")
  /\ IF clk
     THEN /\ Go(k, "stop")
          /\ pru' = [pru EXCEPT !.en = FALSE]
          /\ UNCHANGED <<mb, pins, clk, hw>>
     ELSE Go([k EXCEPT !.stopFailed = TRUE], "stop") /\ TouchNothing

DisablePrus ==
  /\ K("disable")
  /\ IF clk
     THEN /\ Go(k, "stop")
          /\ pru' = [pru EXCEPT !.en = FALSE]
          /\ mb' = [mb EXCEPT !.magic = FALSE]
          /\ UNCHANGED <<pins, clk, hw>>
     ELSE Go([k EXCEPT !.stopFailed = TRUE], "stop") /\ TouchNothing

\* A mutant: the core counts as stopped as soon as it is disabled.
StopWithoutRunstate ==
  /\ K("stop")
  /\ Go(k, "clear")
  /\ TouchNothing

\* Reset only a core whose RUNSTATE has cleared; give up after 20 ms.
StopPrus ==
  /\ K("stop")
  /\ \/ /\ clk /\ ~pru.run
        /\ Go(k, "clear")
        /\ pru' = [pru EXCEPT !.pc = "reset", !.en = FALSE]
        /\ UNCHANGED <<mb, pins, clk, hw>>
     \/ /\ Go([k EXCEPT !.stopFailed = TRUE], "clear")
        /\ TouchNothing

ClearPins ==
  /\ K("clear")
  /\ \/ /\ Return(k, "failed")
        /\ pins' = FALSE
        /\ UNCHANGED <<mb, pru, clk, hw>>
     \/ /\ Return([k EXCEPT !.lowFailed = TRUE], "failed")
        /\ TouchNothing

\* copy_to_user.  Between calls the other masters' activity is left out: either
\* may start again before the first step of the next call.
CopyOut ==
  /\ K("return")
  /\ k' = Idle
  /\ TouchHw([hw EXCEPT !.cpswBusy = FALSE, !.dmaBusy = FALSE])

KernelStep ==
  \/ PreflightFails \/ PreflightPasses
  \/ PublishGrant \/ PublishColor \/ PublishSeq
  \/ GateTimeout \/ GateReadStatus \/ GateReadError \/ GateReadAccepted \/ GateReadWord
  \/ AdmissionTimeout \/ MaskInterrupts \/ RefuseBank \/ PauseCpsw
  \/ DrainFails \/ CpswDrained \/ Warm \/ Grant \/ SpinEnds \/ Observe
  \/ WithdrawPru \/ RestoreCpsw \/ Unmask
  \/ Snapshot \/ DisablePrus \/ StopPrus \/ ClearPins \/ CopyOut

KernelNext ==
  \/ \E wire \in Colors, lens \in Layouts, prev \in Seqs : Call(wire, lens, prev)
  \/ KernelStep
=============================================================================
