--------------------------- MODULE Ws2812Uniform ----------------------------
(***************************************************************************)
(* The PRU0 firmware, pru/ws2812_uniform.p: one action per access to the   *)
(* command block or to the GPIO pins, in program order, since the ARM core *)
(* reads and writes the same words while the firmware runs.                *)
(*                                                                         *)
(* pru.en is the EN bit of the control register and pru.run is RUNSTATE:   *)
(* clearing EN lets the instruction in flight finish, so a stopped-to-be   *)
(* PRU may take one more step.  Clearing SOFT_RST_N puts pc back to        *)
(* "reset".  pins is TRUE while an LED data pin may be high.  sent holds   *)
(* the banks the firmware began to stream since it accepted r3, and taken  *)
(* is TRUE from a dld-init that disabled the core to the next start of the *)
(* firmware; no code reads either.  A test that cannot fail is left out:   *)
(* the helper publishes a colour of 24 bits, so r4 >> 24 is zero.          *)
(***************************************************************************)
EXTENDS DldMailbox

VARIABLES mb,     \* the command block
          pru,    \* PRU0: program counter, registers, run state
          pins,   \* is an LED data pin possibly high
          clk     \* is the PRUSS clock on (nothing in PRUSS moves without it)

PruLabel == {"reset", "boot", "bootClear", "bootReady", "poll", "grantCheck",
             "clearReady", "clearDone", "accept", "color", "running",
             "group", "ready", "gate", "release", "resume", "stream",
             "bankDone", "settle", "complete", "doneStatus",
             "fatal", "fatalStatus"}

Pru == [pc : PruLabel, r3 : Seqs, r4 : Colors, bank : Slot,
        det : Detail, en : BOOLEAN, run : BOOLEAN, taken : BOOLEAN,
        sent : SUBSET Bank]

\* Held in reset; no register survives that the firmware does not set itself.
ResetPru == [pc |-> "reset", r3 |-> 0, r4 |-> Black, bank |-> 1, det |-> "NONE",
             en |-> FALSE, run |-> FALSE, taken |-> FALSE, sent |-> {}]

At(label) == clk /\ pru.run /\ pru.pc = label

\* The instruction completes with registers p and falls to label.
Step(p, label) == pru' = [p EXCEPT !.pc = label, !.run = pru.en]

Write(m) == mb' = m /\ UNCHANGED <<pins, clk>>
NoWrite == UNCHANGED <<mb, pins, clk>>

Fatal(detail) == Step([pru EXCEPT !.det = detail], "fatal")

-----------------------------------------------------------------------------
(* START: check the block, clear every bank, then announce READY.          *)

Boot ==
  /\ At("boot")
  /\ \/ mb.magic  /\ Step(pru, "bootClear")
     \/ ~mb.magic /\ Fatal("MAGIC")
     \/ mb.magic  /\ Fatal("INIT_CLEAR")   \* a direction or a latch is wrong
  /\ NoWrite

BootClear ==
  /\ At("bootClear")
  /\ Step([pru EXCEPT !.r3 = 0], "bootReady")
  /\ Write([mb EXCEPT !.err = "NONE", !.comp = 0, !.ready = 0, !.done = 0, !.acc = 0])

BootReady ==
  /\ At("bootReady")
  /\ Step(pru, "poll")
  /\ Write([mb EXCEPT !.status = "READY"])

-----------------------------------------------------------------------------
(* REQUEST_LOOP: notice a new sequence, refuse a stale grant, accept.      *)

PollRequest ==
  /\ At("poll")
  /\ mb.req # pru.r3
  /\ Step([pru EXCEPT !.r3 = mb.req], "grantCheck")
  /\ NoWrite

GrantCheck ==
  /\ At("grantCheck")
  /\ IF mb.grant = 0 THEN Step(pru, "clearReady") ELSE Fatal("GATE")
  /\ NoWrite

ClearReady ==
  /\ At("clearReady")
  /\ Step(pru, "clearDone")
  /\ Write([mb EXCEPT !.ready = 0])

ClearDone ==
  /\ At("clearDone")
  /\ Step(pru, "accept")
  /\ Write([mb EXCEPT !.done = 0])

Accept ==
  /\ At("accept")
  /\ Step([pru EXCEPT !.sent = {}], "color")
  /\ Write([mb EXCEPT !.acc = pru.r3])

ReadColor ==
  /\ At("color")
  /\ Step([pru EXCEPT !.r4 = mb.color], "running")
  /\ NoWrite

\* The next bank with a nonzero length from b on, or the closing reset hold.
ToBank(b) == LET next == FirstBank(mb.lens, b)
             IN Step([pru EXCEPT !.bank = next], IF next = 4 THEN "settle" ELSE "group")

SetRunning ==
  /\ At("running")
  /\ ToBank(1)
  /\ Write([mb EXCEPT !.status = "RUNNING"])

-----------------------------------------------------------------------------
(* SEND_GROUP for each bank with a nonzero length: announce the bank, hold *)
(* at the gate, stream, drain, report.                                     *)

SetWaitBank ==
  /\ At("group")
  /\ Step(pru, "ready")
  /\ Write([mb EXCEPT !.status = "WAIT_BANK"])

AnnounceBank ==
  /\ At("ready")
  /\ Step(pru, "gate")
  /\ Write([mb EXCEPT !.ready = pru.bank])

\* Zero or an earlier grant waits; a later one is a protocol fault.
Gate ==
  /\ At("gate")
  /\ mb.grant >= pru.bank
  /\ IF mb.grant = pru.bank THEN Step(pru, "release") ELSE Fatal("GATE")
  /\ NoWrite

ClearGateReady ==
  /\ At("release")
  /\ Step(pru, "resume")
  /\ Write([mb EXCEPT !.ready = 0])

SetResumed ==
  /\ At("resume")
  /\ Step([pru EXCEPT !.sent = @ \cup {pru.bank}], "stream")
  /\ mb' = [mb EXCEPT !.status = "RUNNING"]
  /\ pins' = TRUE                     \* from the next cycle on data pins toggle
  /\ UNCHANGED clk

\* Every pin of the bank has had its pixels; DRAIN_BANK clears and reads back.
StreamEnd ==
  /\ At("stream")
  /\ \/ Step(pru, "bankDone") /\ pins' = FALSE
     \/ Fatal("BANK_CLEAR") /\ UNCHANGED pins
  /\ UNCHANGED <<mb, clk>>

ReportBank ==
  /\ At("bankDone")
  /\ ToBank(pru.bank + 1)
  /\ Write([mb EXCEPT !.done = pru.bank])

-----------------------------------------------------------------------------
(* After the last bank: reset hold, then the completion (the detail is     *)
(* already zero here) before the status.                                   *)

SettleHold ==
  /\ At("settle")
  /\ Step(pru, "complete")
  /\ NoWrite

Complete ==
  /\ At("complete")
  /\ Step(pru, "doneStatus")
  /\ Write([mb EXCEPT !.comp = pru.r3, !.err = "NONE"])

SetDone ==
  /\ At("doneStatus")
  /\ Step(pru, "poll")
  /\ Write([mb EXCEPT !.status = "DONE"])

-----------------------------------------------------------------------------
(* FATAL: the detail is visible before ERROR; HALT clears EN.              *)

FatalDetail ==
  /\ At("fatal")
  /\ Step(pru, "fatalStatus")
  /\ Write([mb EXCEPT !.err = pru.det])

FatalHalt ==
  /\ At("fatalStatus")
  /\ pru' = [pru EXCEPT !.en = FALSE, !.run = FALSE]
  /\ Write([mb EXCEPT !.status = "ERROR"])

\* EN was cleared and the instruction in flight has finished.
RunstateClears ==
  /\ clk /\ pru.run /\ ~pru.en
  /\ pru' = [pru EXCEPT !.run = FALSE]
  /\ NoWrite

PruNext ==
  \/ Boot \/ BootClear \/ BootReady
  \/ PollRequest \/ GrantCheck \/ ClearReady \/ ClearDone \/ Accept
  \/ ReadColor \/ SetRunning
  \/ SetWaitBank \/ AnnounceBank \/ Gate \/ ClearGateReady \/ SetResumed
  \/ StreamEnd \/ ReportBank \/ SettleHold \/ Complete \/ SetDone
  \/ FatalDetail \/ FatalHalt \/ RunstateClears
=============================================================================
