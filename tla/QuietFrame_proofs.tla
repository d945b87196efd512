------------------------- MODULE QuietFrame_proofs --------------------------
(***************************************************************************)
(* Theorems about QuietFrame for every SeqMod, MaxTries, Colors, Layouts.  *)
(***************************************************************************)
EXTENDS QuietFrameInv, TLAPS

USE SeqModAssumption, BlackAssumption, LayoutsAssumption, MaxTriesAssumption

LEMMA Ranges ==
  /\ Bank \subseteq Ordinal /\ Bank \subseteq Slot /\ 0 \in Ordinal /\ 1 \in Slot
  /\ 0 \in Seqs /\ 0 \in Attempts
  BY DEF Bank, Ordinal, Slot, Seqs, Attempts

\* FirstBank's CHOOSE has a witness: it lies at or after b and skips no bank.
LEMMA FirstBankIsNext ==
  ASSUME NEW lens \in SUBSET Bank, NEW b \in 1..4
  PROVE  /\ FirstBank(lens, b) \in b..4
         /\ FirstBank(lens, b) \in lens \cup {4}
         /\ \A d \in lens : d >= b => d >= FirstBank(lens, b)
<1> DEFINE P(c) == /\ c \in lens \cup {4}
                   /\ \A d \in lens : d >= b => d >= c
           w == IF b <= 1 /\ 1 \in lens THEN 1
                ELSE IF b <= 2 /\ 2 \in lens THEN 2
                ELSE IF b <= 3 /\ 3 \in lens THEN 3 ELSE 4
<1>1. w \in b..4 /\ P(w)
  BY DEF Bank
<1>2. \E c \in b..4 : P(c)
  BY <1>1
<1> QED
  BY <1>2 DEF FirstBank

-----------------------------------------------------------------------------
(* The command block's guards, for every block.                            *)

(***************************************************************************)
(* The userspace check and the kernel's guard admit the same blocks: what  *)
(* dld_check_mailbox lets through, validate refuses only if the block has  *)
(* changed since the caller read it.                                       *)
(***************************************************************************)
THEOREM GuardsAlwaysAgree ==
  ASSUME NEW m \in Mailbox
  PROVE  CheckMailbox(m) = "OK" <=> Validate(m, m.lens, m.req) = "OK"
<1>1. CASE m.status = "READY"
  BY <1>1 DEF CheckMailbox, Validate, Outstanding, Mailbox
<1>2. CASE m.status # "READY"
  BY <1>2 DEF CheckMailbox, Validate, Outstanding, Mailbox
<1> QED BY <1>1, <1>2

(***************************************************************************)
(* A block that wait_ready accepts in a compatible session passes the      *)
(* check every later command starts with.                                  *)
(***************************************************************************)
THEOREM ReadyIsUsable ==
  ASSUME NEW m \in Mailbox, m.magic, InitReady(m)
  PROVE  CheckMailbox(m) = "OK"
  BY DEF CheckMailbox, InitReady, Outstanding

(***************************************************************************)
(* A caller that read an older sequence, or another layout, is refused.    *)
(***************************************************************************)
THEOREM StaleCallerRefused ==
  ASSUME NEW m \in Mailbox, NEW lens \in SUBSET Bank, NEW prev \in Seqs,
         Validate(m, lens, prev) = "OK"
  PROVE  m.req = prev /\ m.lens = lens /\ m.comp = prev
  BY DEF Validate, Outstanding

(***************************************************************************)
(* The sequence after s is a sequence and differs from s, the wrap from    *)
(* 0xffffffff to 0 included: the firmware always notices a new request.    *)
(***************************************************************************)
THEOREM NextSeqIsNew ==
  ASSUME NEW s \in Seqs
  PROVE  NextSeq(s) \in Seqs /\ NextSeq(s) # s
  BY SeqModAssumption DEF NextSeq, Seqs

-----------------------------------------------------------------------------
(* Type correctness, by one step per action.                               *)

LEMMA StepType ==
  ASSUME pru \in Pru, NEW p \in Pru, NEW label \in PruLabel, Step(p, label)
  PROVE  pru' \in Pru
  BY DEF Step, Pru

LEMMA FatalType ==
  ASSUME pru \in Pru, NEW detail \in Detail, Fatal(detail)
  PROVE  pru' \in Pru
<1>1. [pru EXCEPT !.det = detail] \in Pru BY DEF Pru
<1>2. "fatal" \in PruLabel BY DEF PruLabel
<1> QED BY <1>1, <1>2, StepType DEF Fatal

LEMMA TypePru ==
  ASSUME TypeOK, Bounds, PruNext
  PROVE  mb' \in Mailbox /\ pru' \in Pru /\ pins' \in BOOLEAN /\ clk' \in BOOLEAN
<1> USE StepType, FatalType, Ranges
    DEF TypeOK, At, Write, NoWrite, Pru, PruLabel, Mailbox, Status, Detail
<1>1. CASE Boot
  <2>1. CASE Step(pru, "bootClear") BY <1>1, <2>1 DEF Boot
  <2>2. ASSUME NEW detail \in {"MAGIC", "INIT_CLEAR"}, Fatal(detail) PROVE mb' \in Mailbox /\ pru' \in Pru /\ pins' \in BOOLEAN /\ clk' \in BOOLEAN
    BY <1>1, <2>2 DEF Boot
  <2> QED BY <1>1, <2>1, <2>2 DEF Boot
<1>2. CASE BootClear
  <2>1. [pru EXCEPT !.r3 = 0] \in Pru /\ "bootReady" \in PruLabel OBVIOUS
  <2>2. pru' \in Pru BY <1>2, <2>1 DEF BootClear
  <2>3. [mb EXCEPT !.err = "NONE", !.comp = 0, !.ready = 0, !.done = 0, !.acc = 0] \in Mailbox
    OBVIOUS
  <2> QED BY <1>2, <2>2, <2>3 DEF BootClear
<1>3. CASE BootReady BY <1>3 DEF BootReady
<1>4. CASE PollRequest BY <1>4 DEF PollRequest
<1>5. CASE GrantCheck
  <2>1. CASE mb.grant = 0 BY <1>5, <2>1 DEF GrantCheck
  <2>2. CASE mb.grant # 0 BY <1>5, <2>2 DEF GrantCheck
  <2> QED BY <2>1, <2>2
<1>6. CASE ClearReady BY <1>6 DEF ClearReady
<1>7. CASE ClearDone BY <1>7 DEF ClearDone
<1>8. CASE Accept BY <1>8 DEF Accept
<1>9. CASE ReadColor BY <1>9 DEF ReadColor
<1>10. CASE SetRunning
  <2>1. FirstBank(mb.lens, 1) \in Slot BY FirstBankIsNext DEF Slot
  <2> QED BY <1>10, <2>1 DEF SetRunning, ToBank
<1>11. CASE SetWaitBank BY <1>11 DEF SetWaitBank
<1>12. CASE AnnounceBank BY <1>12 DEF AnnounceBank, Bounds
<1>13. CASE Gate
  <2>1. CASE mb.grant = pru.bank /\ Step(pru, "release")
    BY <1>13, <2>1 DEF Gate
  <2>2. CASE mb.grant # pru.bank /\ Fatal("GATE")
    BY <1>13, <2>2 DEF Gate
  <2> QED BY <1>13, <2>1, <2>2 DEF Gate
<1>14. CASE ClearGateReady BY <1>14 DEF ClearGateReady
<1>15. CASE SetResumed BY <1>15 DEF SetResumed, Bounds
<1>16. CASE StreamEnd
  <2>1. CASE Step(pru, "bankDone") /\ pins' = FALSE
    <3>1. pru' \in Pru BY <2>1
    <3> QED BY <1>16, <2>1, <3>1 DEF StreamEnd
  <2>2. CASE Fatal("BANK_CLEAR") /\ UNCHANGED pins BY <1>16, <2>2 DEF StreamEnd
  <2> QED BY <1>16, <2>1, <2>2 DEF StreamEnd
<1>17. CASE ReportBank
  <2>1. pru.bank \in Bank BY <1>17 DEF ReportBank, Bounds
  <2>2. FirstBank(mb.lens, pru.bank + 1) \in Slot
    BY <2>1, FirstBankIsNext DEF Bank, Slot
  <2> QED BY <1>17, <2>1, <2>2 DEF ReportBank, ToBank
<1>18. CASE SettleHold BY <1>18 DEF SettleHold
<1>19. CASE Complete BY <1>19 DEF Complete
<1>20. CASE SetDone BY <1>20 DEF SetDone
<1>21. CASE FatalDetail BY <1>21 DEF FatalDetail
<1>22. CASE FatalHalt BY <1>22 DEF FatalHalt
<1>23. CASE RunstateClears BY <1>23 DEF RunstateClears
<1> QED
  BY <1>1, <1>2, <1>3, <1>4, <1>5, <1>6, <1>7, <1>8, <1>9, <1>10, <1>11, <1>12,
     <1>13, <1>14, <1>15, <1>16, <1>17, <1>18, <1>19, <1>20, <1>21, <1>22, <1>23
  DEF PruNext

LEMMA GoType ==
  ASSUME NEW r \in Kernel, NEW label \in KernelLabel, Go(r, label)
  PROVE  k' \in Kernel
  BY DEF Go, Kernel

LEMMA IdleType == Idle \in Kernel
  BY Ranges, BlackAssumption DEF Idle, Kernel, KernelLabel

LEMMA ReturnType ==
  ASSUME NEW r \in Kernel, NEW result \in {"ok", "rejected", "failed"}, Return(r, result)
  PROVE  k' \in Kernel
<1>1. "return" \in KernelLabel BY DEF KernelLabel
<1> QED BY <1>1, IdleType DEF Return, Kernel

LEMMA AwaitGateType ==
  ASSUME NEW r \in Kernel, NEW b \in Slot, AwaitGate(r, b)
  PROVE  k' \in Kernel
<1>1. [r EXCEPT !.bank = b, !.tries = 0, !.granted = FALSE] \in Kernel
  BY Ranges DEF Kernel
<1>2. "gateStatus" \in KernelLabel BY DEF KernelLabel
<1> QED BY <1>1, <1>2, GoType DEF AwaitGate

LEMMA CallType ==
  ASSUME TypeOK, NEW wire \in Colors, NEW lens \in Layouts, NEW prev \in Seqs,
         Call(wire, lens, prev)
  PROVE  k' \in Kernel
<1>1. NextSeq(prev) \in Seqs /\ lens \in SUBSET Bank
  BY NextSeqIsNew, LayoutsAssumption
<1>2. [Idle EXCEPT !.pc = "preflight", !.wire = wire, !.lens = lens,
                   !.seq = NextSeq(prev)] \in Kernel
  BY <1>1, IdleType DEF Kernel, KernelLabel
<1> QED BY <1>2, IdleType, ReturnType DEF Call

\* One more attempt is still within the cap.
LEMMA NextAttempt ==
  ASSUME NEW t \in Attempts, t < MaxTries PROVE t + 1 \in Attempts
  BY DEF Attempts

LEMMA TypeKernel ==
  ASSUME TypeOK, Bounds, KernelStep
  PROVE  TypeOK'
<1> USE GoType, ReturnType, IdleType, Ranges
    DEF TypeOK, Touch, TouchNothing, TouchHw, K
<1>1. CASE PreflightFails BY <1>1 DEF PreflightFails
<1>2. CASE PreflightPasses BY <1>2 DEF PreflightPasses, KernelLabel
<1>3. CASE PublishGrant
  <2>1. [mb EXCEPT !.grant = 0] \in Mailbox BY DEF Mailbox
  <2> QED BY <1>3, <2>1 DEF PublishGrant, KernelLabel
<1>4. CASE PublishColor
  <2>1. [mb EXCEPT !.color = k.wire] \in Mailbox BY DEF Mailbox, Kernel
  <2> QED BY <1>4, <2>1 DEF PublishColor, KernelLabel
<1>5. CASE PublishSeq
  <2>1. [mb EXCEPT !.req = k.seq] \in Mailbox BY DEF Mailbox, Kernel
  <2>2. k.lens \in SUBSET Bank BY DEF Kernel
  <2>3. FirstBank(k.lens, 1) \in Slot BY <2>2, FirstBankIsNext DEF Slot
  <2> QED BY <1>5, <2>1, <2>3, AwaitGateType DEF PublishSeq
<1>6. CASE GateTimeout
  <2>1. [k EXCEPT !.err = "fail"] \in Kernel BY DEF Kernel
  <2> QED BY <1>6, <2>1 DEF GateTimeout, KernelLabel
<1>7. CASE GateReadStatus
  <2>1. ASSUME NEW bad \in BOOLEAN, NEW match \in BOOLEAN
        PROVE  [k EXCEPT !.bad = bad, !.match = match] \in Kernel
    BY DEF Kernel
  <2>2. /\ (mb.status = "ERROR") \in BOOLEAN
        /\ (mb.status = IF Final THEN "DONE" ELSE "WAIT_BANK") \in BOOLEAN
    OBVIOUS
  <2>3. [k EXCEPT !.bad = (mb.status = "ERROR"),
                  !.match = (mb.status = IF Final THEN "DONE" ELSE "WAIT_BANK")] \in Kernel
    BY ONLY <2>1, <2>2
  <2> QED BY <1>7, <2>3 DEF GateReadStatus, KernelLabel
<1>8. CASE GateReadError
  <2>1. [k EXCEPT !.bad = @ \/ mb.err # "NONE"] \in Kernel BY DEF Kernel
  <2> QED BY <1>8, <2>1 DEF GateReadError, KernelLabel
<1>9. CASE GateReadAccepted
  <2>1. [k EXCEPT !.match = @ /\ mb.acc = k.seq] \in Kernel BY DEF Kernel
  <2> QED BY <1>9, <2>1 DEF GateReadAccepted, KernelLabel
<1>10. CASE GateReadWord
  <2>1. [k EXCEPT !.err = "fail"] \in Kernel BY DEF Kernel
  <2>2. [k EXCEPT !.match = FALSE, !.tries = 0] \in Kernel BY DEF Kernel
  <2>3. k.tries + 1 \in Attempts
    BY <1>10, NextAttempt DEF Bounds, Kernel, GateReadWord
  <2>4. [k EXCEPT !.match = FALSE, !.tries = @ + 1] \in Kernel BY <2>3 DEF Kernel
  <2> QED BY <1>10, <2>1, <2>2, <2>4 DEF GateReadWord, KernelLabel
<1>11. CASE AdmissionTimeout
  <2>1. [k EXCEPT !.err = "fail"] \in Kernel BY DEF Kernel
  <2> QED BY <1>11, <2>1 DEF AdmissionTimeout, KernelLabel
<1>12. CASE MaskInterrupts
  <2>1. [k EXCEPT !.err = "none", !.changed = FALSE] \in Kernel BY DEF Kernel
  <2> QED BY <1>12, <2>1 DEF MaskInterrupts, KernelLabel
<1>13. ASSUME NEW e \in {"none", "retry", "fail"} PROVE [k EXCEPT !.err = e] \in Kernel
  BY DEF Kernel
<1>14. CASE RefuseBank BY <1>13, <1>14 DEF RefuseBank, KernelLabel
<1>15. CASE PauseCpsw
  <2>1. [k EXCEPT !.changed = TRUE] \in Kernel BY DEF Kernel
  <2>2. [hw EXCEPT !.cmdIdle = TRUE] \in Hardware BY DEF Hardware
  <2> QED BY <1>15, <2>1, <2>2 DEF PauseCpsw, KernelLabel
<1>16. CASE DrainFails BY <1>13, <1>16 DEF DrainFails, KernelLabel
<1>17. CASE CpswDrained BY <1>17 DEF CpswDrained, KernelLabel
<1>18. CASE Warm BY <1>13, <1>18 DEF Warm, KernelLabel
<1>19. CASE Grant
  <2>1. k.bank \in Ordinal BY <1>19 DEF Grant, Bounds
  <2>2. [mb EXCEPT !.grant = k.bank] \in Mailbox BY <2>1 DEF Mailbox
  <2>3. [k EXCEPT !.granted = TRUE] \in Kernel BY DEF Kernel
  <2> QED BY <1>19, <2>2, <2>3 DEF Grant, KernelLabel
<1>20. CASE SpinEnds BY <1>13, <1>20 DEF SpinEnds, KernelLabel
<1>21. CASE Observe BY <1>13, <1>21 DEF Observe, KernelLabel
<1>22. CASE WithdrawPru
  <2>1. [pru EXCEPT !.en = FALSE] \in Pru /\ [mb EXCEPT !.magic = FALSE] \in Mailbox
    BY DEF Pru, Mailbox
  <2> QED BY <1>22, <2>1 DEF WithdrawPru, KernelLabel
<1>23. CASE RestoreCpsw
  <2>1. [k EXCEPT !.restoreFailed = TRUE, !.err = "fail"] \in Kernel BY DEF Kernel
  <2>2. [hw EXCEPT !.cmdIdle = FALSE] \in Hardware BY DEF Hardware
  <2> QED BY <1>23, <2>1, <2>2 DEF RestoreCpsw, KernelLabel
<1>24. CASE Unmask
  <2>1. k.bank \in Bank /\ k.tries + 1 \in Attempts
    BY <1>24, NextAttempt DEF Bounds, Kernel, Unmask
  <2>2. FirstBank(k.lens, k.bank + 1) \in Slot
    BY <2>1, FirstBankIsNext DEF Slot, Bank, Kernel
  <2>3. [k EXCEPT !.tries = @ + 1] \in Kernel BY <2>1 DEF Kernel
  <2> QED BY <1>24, <2>2, <2>3, AwaitGateType DEF Unmask, KernelLabel
<1>25. CASE Snapshot BY <1>13, <1>25 DEF Snapshot, KernelLabel
<1>26. [k EXCEPT !.stopFailed = TRUE] \in Kernel BY DEF Kernel
<1>27. CASE DisablePrus
  <2>1. [pru EXCEPT !.en = FALSE] \in Pru /\ [mb EXCEPT !.magic = FALSE] \in Mailbox
    BY DEF Pru, Mailbox
  <2> QED BY <1>26, <1>27, <2>1 DEF DisablePrus, KernelLabel
<1>28. CASE StopPrus
  <2>1. "reset" \in PruLabel BY DEF PruLabel
  <2>2. [pru EXCEPT !.pc = "reset", !.en = FALSE] \in Pru BY <2>1 DEF Pru
  <2> QED BY <1>26, <1>28, <2>2 DEF StopPrus, KernelLabel
<1>29. CASE ClearPins
  <2>1. [k EXCEPT !.lowFailed = TRUE] \in Kernel BY DEF Kernel
  <2> QED BY <1>29, <2>1 DEF ClearPins
<1>30. CASE CopyOut
  <2>1. [hw EXCEPT !.cpswBusy = FALSE, !.dmaBusy = FALSE] \in Hardware BY DEF Hardware
  <2> QED BY <1>30, <2>1 DEF CopyOut
<1> QED
  BY <1>1, <1>2, <1>3, <1>4, <1>5, <1>6, <1>7, <1>8, <1>9, <1>10, <1>11, <1>12, <1>14,
     <1>15, <1>16, <1>17, <1>18, <1>19, <1>20, <1>21, <1>22, <1>23, <1>24, <1>25, <1>27,
     <1>28, <1>29, <1>30
  DEF KernelStep

LEMMA TypeOther ==
  ASSUME TypeOK, InitNext \/ Environment
  PROVE  TypeOK'
<1> USE Ranges DEF TypeOK, TouchHw
<1>1. ResetPru \in Pru
  BY BlackAssumption DEF ResetPru, Pru, PruLabel, Detail
<1>2. ASSUME NEW lens \in Layouts, NEW n \in 1..4
      PROVE  Populated(n, lens) \in Mailbox
  <2> DEFINE m1 == [mb EXCEPT !.magic = TRUE]
             m2 == [m1 EXCEPT !.lens = lens]
             m3 == [m2 EXCEPT !.color = Black, !.req = 0, !.comp = 0, !.err = "NONE",
                              !.ready = 0, !.grant = 0, !.done = 0, !.acc = 0]
             m4 == [m3 EXCEPT !.status = "INITIALIZING"]
  <2>1. m1 \in Mailbox BY DEF Mailbox
  <2>2. lens \in SUBSET Bank BY LayoutsAssumption
  <2>3. m2 \in Mailbox BY <2>1, <2>2 DEF Mailbox
  <2>4. m3 \in Mailbox BY <2>3, BlackAssumption DEF Mailbox, Detail
  <2>5. m4 \in Mailbox BY <2>4 DEF Mailbox, Status
  <2>6. Populated(n, lens) = <<m1, m2, m3, m4>>[n] BY DEF Populated
  <2> HIDE DEF m1, m2, m3, m4
  <2> QED BY <2>1, <2>3, <2>4, <2>5, <2>6
<1>3. CASE InitDisable \/ InitReset \/ InitErase
  <2>1. /\ [pru EXCEPT !.en = FALSE, !.taken = TRUE] \in Pru
        /\ [pru EXCEPT !.pc = "reset"] \in Pru /\ [mb EXCEPT !.magic = FALSE] \in Mailbox
    BY DEF Pru, PruLabel, Mailbox
  <2> QED BY <1>3, <2>1 DEF InitDisable, InitReset, InitErase, Touch
<1>4. ASSUME NEW lens \in Layouts, InitStart(lens) PROVE TypeOK'
  <2>1. "boot" \in PruLabel BY DEF PruLabel
  <2>2. [ResetPru EXCEPT !.pc = "boot", !.en = TRUE, !.run = TRUE] \in Pru
    BY <1>1, <2>1 DEF Pru
  <2>3. Populated(4, lens) \in Mailbox BY <1>2
  <2> QED BY <1>4, <2>2, <2>3 DEF InitStart
<1>5. ASSUME NEW lens \in Layouts, NEW n \in 1..4, InitKilled(n, lens) PROVE TypeOK'
  <2>1. [ResetPru EXCEPT !.taken = TRUE] \in Pru BY <1>1 DEF Pru
  <2> QED BY <1>2, <1>5, <2>1 DEF InitKilled
<1>6. ASSUME NEW f \in BOOLEAN
      PROVE  /\ [hw EXCEPT !.dmaBusy = f] \in Hardware
             /\ [hw EXCEPT !.cpswBusy = f] \in Hardware
             /\ [hw EXCEPT !.cmdIdle = f] \in Hardware
  BY DEF Hardware
<1>7. CASE Environment
  BY <1>6, <1>7 DEF Environment, DmaStarts, DmaEnds, CpswStarts, CpswEnds, CpswRecovered, ClockLost
<1> QED BY <1>3, <1>4, <1>5, <1>7 DEF InitNext

LEMMA TypeStep ==
  ASSUME TypeOK, Bounds, [Next]_vars
  PROVE  TypeOK'
<1>1. CASE FirmwareNext BY <1>1, TypePru DEF FirmwareNext, TypeOK
<1>2. ASSUME NEW wire \in Colors, NEW lens \in Layouts, NEW prev \in Seqs,
             Call(wire, lens, prev)
      PROVE  TypeOK'
  BY <1>2, CallType DEF Call, TouchNothing, TypeOK
<1>3. CASE KernelNext BY <1>2, <1>3, TypeKernel DEF KernelNext
<1>4. CASE UNCHANGED vars BY <1>4 DEF vars, TypeOK
<1> QED BY <1>1, <1>3, <1>4, TypeOther DEF Next

-----------------------------------------------------------------------------
(* The invariant across a step of the firmware.                            *)

\* What the range of a mailbox or register word gives the arithmetic.
LEMMA WordRanges ==
  ASSUME TypeOK
  PROVE  /\ mb.grant \in 0..3 /\ mb.done \in 0..3 /\ mb.ready \in 0..3
         /\ pru.bank \in 1..4 /\ k.bank \in 1..4 /\ mb.lens \in SUBSET Bank
         /\ k.lens \in SUBSET Bank
  BY DEF TypeOK, Mailbox, Pru, Kernel, Ordinal, Slot

\* The loop over the banks only moves forward and stops past the last one.
LEMMA ToBankMoves ==
  ASSUME TypeOK, NEW b \in 1..4, ToBank(b)
  PROVE  /\ pru'.bank \in b..4 /\ pru'.run = pru.en /\ pru'.en = pru.en
         /\ pru'.pc = IF pru'.bank = 4 THEN "settle" ELSE "group"
<1>1. FirstBank(mb.lens, b) \in b..4 BY FirstBankIsNext, WordRanges
<1> QED BY <1>1 DEF ToBank, Step, TypeOK, Pru

LEMMA FatalFields ==
  ASSUME TypeOK, NEW detail, Fatal(detail)
  PROVE  /\ pru'.pc = "fatal" /\ pru'.bank = pru.bank /\ pru'.sent = pru.sent
         /\ pru'.en = pru.en /\ pru'.run = pru.en
  BY DEF TypeOK, Fatal, Step, Pru

LEMMA BoundsPru ==
  ASSUME QuietInv, FirmwareNext
  PROVE  Bounds'
<1> USE WordRanges DEF QuietInv, TypeOK, FirmwareNext, Bounds, At, Step, Write, NoWrite, Pru, Bank
<1>1. CASE Boot
  <2>1. CASE Step(pru, "bootClear") BY <1>1, <2>1 DEF Boot
  <2>2. ASSUME NEW detail \in {"MAGIC", "INIT_CLEAR"}, Fatal(detail) PROVE Bounds'
    BY <1>1, <2>2, FatalFields DEF Boot
  <2> QED BY <1>1, <2>1, <2>2 DEF Boot
<1>2. CASE BootClear BY <1>2 DEF BootClear
<1>3. CASE BootReady BY <1>3 DEF BootReady
<1>4. CASE PollRequest BY <1>4 DEF PollRequest
<1>5. CASE GrantCheck
  <2>1. pru'.pc \in {"clearReady", "fatal"} /\ k' = k BY <1>5 DEF GrantCheck, Fatal
  <2> QED BY <2>1
<1>6. CASE ClearReady BY <1>6 DEF ClearReady
<1>7. CASE ClearDone BY <1>7 DEF ClearDone
<1>8. CASE Accept BY <1>8 DEF Accept
<1>9. CASE ReadColor BY <1>9 DEF ReadColor
<1>10. CASE SetRunning
  <2>1. 1 \in 1..4 BY <1>10 DEF SetRunning
  <2> QED BY <1>10, <2>1, ToBankMoves DEF SetRunning
<1>11. CASE SetWaitBank BY <1>11 DEF SetWaitBank
<1>12. CASE AnnounceBank BY <1>12 DEF AnnounceBank
<1>13. CASE Gate
  <2>1. CASE mb.grant = pru.bank /\ Step(pru, "release")
    BY <1>13, <2>1 DEF Gate
  <2>2. CASE mb.grant # pru.bank /\ Fatal("GATE")
    BY <1>13, <2>2, FatalFields DEF Gate
  <2> QED BY <1>13, <2>1, <2>2 DEF Gate
<1>14. CASE ClearGateReady BY <1>14 DEF ClearGateReady
<1>15. CASE SetResumed BY <1>15 DEF SetResumed
<1>16. CASE StreamEnd
  <2>1. CASE Step(pru, "bankDone") /\ pins' = FALSE BY <1>16, <2>1 DEF StreamEnd
  <2>2. CASE Fatal("BANK_CLEAR") /\ UNCHANGED pins BY <1>16, <2>2, FatalFields DEF StreamEnd
  <2> QED BY <1>16, <2>1, <2>2 DEF StreamEnd
<1>17. CASE ReportBank
  <2>1. pru.bank + 1 \in 1..4 BY <1>17 DEF ReportBank
  <2> QED BY <1>17, <2>1, ToBankMoves DEF ReportBank
<1>18. CASE SettleHold BY <1>18 DEF SettleHold
<1>19. CASE Complete BY <1>19 DEF Complete
<1>20. CASE SetDone BY <1>20 DEF SetDone
<1>21. CASE FatalDetail BY <1>21 DEF FatalDetail
<1>22. CASE FatalHalt BY <1>22 DEF FatalHalt
<1>23. CASE RunstateClears BY <1>23 DEF RunstateClears
<1> QED
  BY <1>1, <1>2, <1>3, <1>4, <1>5, <1>6, <1>7, <1>8, <1>9, <1>10, <1>11, <1>12,
     <1>13, <1>14, <1>15, <1>16, <1>17, <1>18, <1>19, <1>20, <1>21, <1>22, <1>23
  DEF PruNext

LEMMA HandshakePru ==
  ASSUME QuietInv, FirmwareNext
  PROVE  Handshake'
<1> USE WordRanges
    DEF QuietInv, TypeOK, FirmwareNext, Bounds, At, Step, Write, NoWrite, Pru, Mailbox, Bank,
        Handshake, ReadyNamesBank, NoGrantAhead, NoDoneAhead, Held, OpenOnlyInWindow,
        Executing, Open, Streaming, Window, Halting, HeldAtGate
<1>1. CASE Boot
  <2>1. CASE Step(pru, "bootClear") BY <1>1, <2>1 DEF Boot
  <2>2. ASSUME NEW detail \in {"MAGIC", "INIT_CLEAR"}, Fatal(detail) PROVE Handshake'
    BY <1>1, <2>2, FatalFields DEF Boot
  <2> QED BY <1>1, <2>1, <2>2 DEF Boot
<1>2. CASE BootClear BY <1>2 DEF BootClear
<1>3. CASE BootReady BY <1>3 DEF BootReady
<1>4. CASE PollRequest BY <1>4 DEF PollRequest
<1>5. CASE GrantCheck
  <2>0. pru.pc = "grantCheck" /\ mb' = mb /\ k' = k BY <1>5 DEF GrantCheck
  <2>1. CASE mb.grant = 0
    <3>1. Step(pru, "clearReady") BY <1>5, <2>1 DEF GrantCheck
    <3>2. pru'.pc = "clearReady" /\ pru'.bank = pru.bank /\ pru'.en = pru.en /\ pru'.run = pru.en
      BY <3>1
    <3>3. pru.run /\ clk /\ clk' = clk BY <1>5 DEF GrantCheck
    <3>4. k.pc \in {"mask", "check", "drain", "warm", "grant", "withdraw", "restore", "unmask"} =>
            ~(HeldAtGate /\ Executing)
      BY <2>0
    <3> HIDE DEF Step, Pru, Mailbox, TypeOK
    <3> QED BY <2>0, <2>1, <3>2, <3>3, <3>4
  <2>2. CASE mb.grant # 0
    <3>1. Fatal("GATE") BY <1>5, <2>2 DEF GrantCheck
    <3> QED BY <2>0, <2>2, <3>1, FatalFields
  <2> QED BY <2>1, <2>2
<1>6. CASE ClearReady BY <1>6 DEF ClearReady
<1>7. CASE ClearDone BY <1>7 DEF ClearDone
<1>8. CASE Accept BY <1>8 DEF Accept
<1>9. CASE ReadColor BY <1>9 DEF ReadColor
<1>10. CASE SetRunning
  <2>1. 1 \in 1..4 BY <1>10 DEF SetRunning
  <2> QED BY <1>10, <2>1, ToBankMoves DEF SetRunning
<1>11. CASE SetWaitBank BY <1>11 DEF SetWaitBank
<1>12. CASE AnnounceBank BY <1>12 DEF AnnounceBank
<1>13. CASE Gate
  <2>1. CASE mb.grant = pru.bank /\ Step(pru, "release")
    BY <1>13, <2>1 DEF Gate
  <2>2. CASE mb.grant # pru.bank /\ Fatal("GATE")
    BY <1>13, <2>2, FatalFields DEF Gate
  <2> QED BY <1>13, <2>1, <2>2 DEF Gate
<1>14. CASE ClearGateReady BY <1>14 DEF ClearGateReady
<1>15. CASE SetResumed BY <1>15 DEF SetResumed
<1>16. CASE StreamEnd
  <2>1. CASE Step(pru, "bankDone") /\ pins' = FALSE BY <1>16, <2>1 DEF StreamEnd
  <2>2. CASE Fatal("BANK_CLEAR") /\ UNCHANGED pins BY <1>16, <2>2, FatalFields DEF StreamEnd
  <2> QED BY <1>16, <2>1, <2>2 DEF StreamEnd
<1>17. CASE ReportBank
  <2>1. pru.bank + 1 \in 1..4 BY <1>17 DEF ReportBank
  <2> QED BY <1>17, <2>1, ToBankMoves DEF ReportBank
<1>18. CASE SettleHold BY <1>18 DEF SettleHold
<1>19. CASE Complete BY <1>19 DEF Complete
<1>20. CASE SetDone BY <1>20 DEF SetDone
<1>21. CASE FatalDetail BY <1>21 DEF FatalDetail
<1>22. CASE FatalHalt BY <1>22 DEF FatalHalt
<1>23. CASE RunstateClears BY <1>23 DEF RunstateClears
<1> QED
  BY <1>1, <1>2, <1>3, <1>4, <1>5, <1>6, <1>7, <1>8, <1>9, <1>10, <1>11, <1>12,
     <1>13, <1>14, <1>15, <1>16, <1>17, <1>18, <1>19, <1>20, <1>21, <1>22, <1>23
  DEF PruNext

-----------------------------------------------------------------------------
(* The invariant across a step of the kernel helper.                       *)

LEMMA GoFields ==
  ASSUME NEW r \in Kernel, NEW label \in KernelLabel, Go(r, label)
  PROVE  /\ k'.pc = label /\ k'.bank = r.bank /\ k'.tries = r.tries
         /\ k'.err = r.err /\ k'.granted = r.granted
  BY DEF Go, Kernel

LEMMA ReturnFields ==
  ASSUME NEW r, NEW result, Return(r, result)
  PROVE  /\ k'.pc = "return" /\ k'.result = result /\ ~k'.changed
         /\ k'.stopFailed = r.stopFailed /\ k'.lowFailed = r.lowFailed
  BY DEF Return, Idle

\* The labels at which the helper neither polls a gate nor works on a bank.
Aside == {"idle", "preflight", "publish", "publishColor", "publishSeq",
          "snapshot", "disable", "stop", "clear", "return"}

StrongInv == Bounds /\ GrantedFlag /\ QuietSoFar /\ Handshake

\* A step to such a label keeps the invariant when it lets the firmware be or
\* disables it.
LEMMA StepAside ==
  ASSUME QuietInv, k.pc \notin {"spin", "observe", "withdraw"}, k'.pc \in Aside,
         pru'.bank = pru.bank, pru'.pc \in {pru.pc, "reset"},
         \/ /\ pru' = pru /\ clk' = clk
            /\ mb'.grant = mb.grant /\ mb'.ready = mb.ready /\ mb'.done = mb.done
         \/ ~pru'.en
  PROVE  StrongInv'
<1>1. ~Window /\ ~Window' /\ ~HeldAtGate' BY DEF Window, HeldAtGate, Aside
<1>2. Bounds' BY DEF QuietInv, Bounds, Aside
<1>3. GrantedFlag' /\ QuietSoFar' BY <1>1 DEF GrantedFlag, QuietSoFar, Aside
<1>4. Handshake'
  BY <1>1, WordRanges
  DEF QuietInv, Handshake, ReadyNamesBank, NoGrantAhead, NoDoneAhead, Held, OpenOnlyInWindow,
      Executing, Open, Streaming, Halting, Bounds
<1> QED BY <1>2, <1>3, <1>4 DEF StrongInv

LEMMA AsideKernel ==
  ASSUME QuietInv,
         \/ PreflightFails \/ PreflightPasses \/ GateTimeout \/ AdmissionTimeout \/ Snapshot
         \/ DisablePrus \/ StopPrus \/ ClearPins \/ CopyOut
  PROVE  StrongInv'
<1> USE ReturnFields DEF K, Go, TouchNothing, TouchHw, Aside, TypeOK, QuietInv
<1>1. pru \in Pru /\ k \in Kernel OBVIOUS
<1>2. CASE PreflightFails
  <2>1. /\ k.pc \notin {"spin", "observe", "withdraw"} /\ k'.pc \in Aside
        /\ pru'.bank = pru.bank /\ pru'.pc \in {pru.pc, "reset"}
        /\ (pru' = pru /\ clk' = clk /\ mb' = mb) \/ ~pru'.en
    BY <1>1, <1>2 DEF PreflightFails, Kernel
  <2> QED BY <2>1, StepAside
<1>3. CASE PreflightPasses
  <2>1. /\ k.pc \notin {"spin", "observe", "withdraw"} /\ k'.pc \in Aside
        /\ pru'.bank = pru.bank /\ pru'.pc \in {pru.pc, "reset"}
        /\ (pru' = pru /\ clk' = clk /\ mb' = mb) \/ ~pru'.en
    BY <1>1, <1>3 DEF PreflightPasses, Kernel
  <2> QED BY <2>1, StepAside
<1>4. CASE GateTimeout
  <2>1. /\ k.pc \notin {"spin", "observe", "withdraw"} /\ k'.pc \in Aside
        /\ pru'.bank = pru.bank /\ pru'.pc \in {pru.pc, "reset"}
        /\ (pru' = pru /\ clk' = clk /\ mb' = mb) \/ ~pru'.en
    BY <1>1, <1>4 DEF GateTimeout, Kernel
  <2> QED BY <2>1, StepAside
<1>5. CASE AdmissionTimeout
  <2>1. /\ k.pc \notin {"spin", "observe", "withdraw"} /\ k'.pc \in Aside
        /\ pru'.bank = pru.bank /\ pru'.pc \in {pru.pc, "reset"}
        /\ (pru' = pru /\ clk' = clk /\ mb' = mb) \/ ~pru'.en
    BY <1>1, <1>5 DEF AdmissionTimeout, Kernel
  <2> QED BY <2>1, StepAside
<1>6. CASE Snapshot
  <2>1. /\ k.pc \notin {"spin", "observe", "withdraw"} /\ k'.pc \in Aside
        /\ pru'.bank = pru.bank /\ pru'.pc \in {pru.pc, "reset"}
        /\ (pru' = pru /\ clk' = clk /\ mb' = mb) \/ ~pru'.en
    BY <1>1, <1>6 DEF Snapshot, Kernel
  <2> QED BY <2>1, StepAside
<1>7. CASE DisablePrus
  <2>1. /\ k.pc \notin {"spin", "observe", "withdraw"} /\ k'.pc \in Aside
        /\ pru'.bank = pru.bank /\ pru'.pc \in {pru.pc, "reset"}
        /\ (pru' = pru /\ clk' = clk /\ mb' = mb) \/ ~pru'.en
    BY <1>1, <1>7 DEF DisablePrus, Pru, Kernel
  <2> QED BY <2>1, StepAside
<1>8. CASE StopPrus
  <2>1. /\ k.pc \notin {"spin", "observe", "withdraw"} /\ k'.pc \in Aside
        /\ pru'.bank = pru.bank /\ pru'.pc \in {pru.pc, "reset"}
        /\ (pru' = pru /\ clk' = clk /\ mb' = mb) \/ ~pru'.en
    BY <1>1, <1>8 DEF StopPrus, Pru, Kernel
  <2> QED BY <2>1, StepAside
<1>9. CASE ClearPins
  <2>1. /\ k.pc \notin {"spin", "observe", "withdraw"} /\ k'.pc \in Aside
        /\ pru'.bank = pru.bank /\ pru'.pc \in {pru.pc, "reset"}
        /\ (pru' = pru /\ clk' = clk /\ mb' = mb) \/ ~pru'.en
    BY <1>1, <1>9 DEF ClearPins, Kernel
  <2> QED BY <2>1, StepAside
<1>10. CASE CopyOut
  <2>1. /\ k.pc \notin {"spin", "observe", "withdraw"} /\ k'.pc \in Aside
        /\ pru'.bank = pru.bank /\ pru'.pc \in {pru.pc, "reset"}
        /\ (pru' = pru /\ clk' = clk /\ mb' = mb) \/ ~pru'.en
    BY <1>1, <1>10 DEF CopyOut, Idle, Kernel
  <2> QED BY <2>1, StepAside
<1> QED BY <1>2, <1>3, <1>4, <1>5, <1>6, <1>7, <1>8, <1>9, <1>10

\* Each step of the gate polls and of the protected window, in program order.
FrameStep ==
  \/ PublishGrant \/ PublishColor \/ PublishSeq \/ GateReadStatus \/ GateReadError \/ GateReadAccepted \/ GateReadWord
  \/ MaskInterrupts \/ RefuseBank \/ PauseCpsw \/ DrainFails \/ CpswDrained \/ Warm \/ Grant
  \/ SpinEnds \/ Observe \/ WithdrawPru \/ RestoreCpsw \/ Unmask

\* What the branching steps do to the fields the invariant reads.
LEMMA GateWordFields ==
  ASSUME TypeOK, GateReadWord
  PROVE  /\ k.pc = "gateWord" /\ k'.pc \in {"snapshot", "mask", "gateStatus"}
         /\ k'.bank = k.bank /\ k'.granted = k.granted
         /\ k'.pc = "mask" => k.bank # 4 /\ mb.ready = k.bank
         /\ k'.changed = k.changed /\ k'.result = k.result /\ k'.stopFailed = k.stopFailed
         /\ UNCHANGED <<mb, pru, pins, clk, hw>>
<1>0. k \in Kernel BY DEF TypeOK
<1>1. CASE k.bad
  BY <1>0, <1>1 DEF GateReadWord, K, Go, TouchNothing, Kernel
<1>2. CASE ~k.bad /\ ~GateMatches
  BY <1>0, <1>2 DEF GateReadWord, K, Go, TouchNothing, Kernel
<1>3. CASE ~k.bad /\ GateMatches
  BY <1>0, <1>3 DEF GateReadWord, K, Go, TouchNothing, Kernel, GateMatches, Final
<1> QED BY <1>1, <1>2, <1>3

LEMMA WarmFields ==
  ASSUME TypeOK, Warm
  PROVE  /\ k.pc = "warm" /\ k'.pc \in {"grant", "withdraw"}
         /\ k'.bank = k.bank /\ k'.tries = k.tries /\ k'.granted = k.granted
         /\ k'.changed = k.changed /\ k'.result = k.result /\ k'.stopFailed = k.stopFailed
         /\ UNCHANGED <<mb, pru, pins, clk, hw>>
  BY DEF TypeOK, Warm, K, Go, TouchNothing, Kernel

LEMMA ObserveFields ==
  ASSUME TypeOK, Observe
  PROVE  /\ k.pc = "observe" /\ k'.pc = "withdraw"
         /\ k'.bank = k.bank /\ k'.tries = k.tries /\ k'.granted = k.granted
         /\ k'.err = "none" => mb.done = k.bank
         /\ UNCHANGED <<mb, pru, pins, clk, hw>>
  BY DEF TypeOK, Observe, K, Go, TouchNothing, Kernel

LEMMA RestoreFields ==
  ASSUME TypeOK, RestoreCpsw
  PROVE  /\ k.pc = "restore" /\ k'.pc = "unmask"
         /\ k'.bank = k.bank /\ k'.tries = k.tries /\ k'.granted = k.granted
         /\ k'.changed = k.changed /\ k'.result = k.result /\ k'.stopFailed = k.stopFailed
         /\ UNCHANGED <<mb, pru, pins, clk>>
         /\ k.changed => ~hw'.cmdIdle \/ (k'.restoreFailed /\ k'.err = "fail")
         /\ ~k.changed => hw' = hw
<1>0. k \in Kernel /\ hw \in Hardware BY DEF TypeOK
<1>1. CASE ~k.changed
  BY <1>0, <1>1 DEF RestoreCpsw, K, Go, TouchNothing, Kernel
<1>2. CASE k.changed /\ Go(k, "unmask") /\ TouchHw([hw EXCEPT !.cmdIdle = FALSE])
  BY <1>0, <1>2 DEF RestoreCpsw, K, Go, TouchHw, Kernel, Hardware
<1>3. CASE k.changed /\ Go([k EXCEPT !.restoreFailed = TRUE, !.err = "fail"], "unmask") /\ TouchNothing
  BY <1>0, <1>3 DEF RestoreCpsw, K, Go, TouchNothing, Kernel
<1> QED BY <1>1, <1>2, <1>3 DEF RestoreCpsw

LEMMA UnmaskFields ==
  ASSUME TypeOK, Unmask
  PROVE  /\ k.pc = "unmask"
         /\ \/ k'.pc = "gateStatus" /\ ~k'.granted
            \/ k'.pc = "mask" /\ ~k.granted /\ ~k'.granted /\ k'.bank = k.bank
            \/ k'.pc = "snapshot"
         /\ k'.changed = k.changed /\ k'.result = k.result /\ k'.stopFailed = k.stopFailed
         /\ k.err = "fail" =>
              k'.pc = "snapshot" /\ k'.err = k.err /\ k'.restoreFailed = k.restoreFailed
         /\ UNCHANGED <<mb, pru, pins, clk, hw>>
<1>0. k \in Kernel BY DEF TypeOK
<1>1. CASE k.err = "none"
  BY <1>0, <1>1 DEF Unmask, K, Go, TouchNothing, AwaitGate, Kernel
<1>2. CASE k.err # "none"
  BY <1>0, <1>2 DEF Unmask, K, Go, TouchNothing, Kernel
<1> QED BY <1>1, <1>2

LEMMA BoundsKernel ==
  ASSUME QuietInv, FrameStep
  PROVE  Bounds'
<1> USE WordRanges, ReturnFields, MaxTriesAssumption
    DEF QuietInv, TypeOK, Bounds, K, Go, Touch, TouchNothing, TouchHw, Pru, Kernel, Bank, Attempts
<1>1. CASE PublishGrant BY <1>1 DEF PublishGrant
<1>2. CASE PublishColor BY <1>2 DEF PublishColor
<1>3. CASE PublishSeq BY <1>3 DEF PublishSeq, AwaitGate
<1>4. CASE GateReadStatus BY <1>4 DEF GateReadStatus
<1>5. CASE GateReadError BY <1>5 DEF GateReadError
<1>6. CASE GateReadAccepted BY <1>6 DEF GateReadAccepted
<1>7. CASE GateReadWord BY <1>7, GateWordFields
<1>8. CASE MaskInterrupts BY <1>8 DEF MaskInterrupts
<1>9. CASE RefuseBank BY <1>9 DEF RefuseBank
<1>10. CASE PauseCpsw BY <1>10 DEF PauseCpsw
<1>11. CASE DrainFails BY <1>11 DEF DrainFails
<1>12. CASE CpswDrained BY <1>12 DEF CpswDrained
<1>13. CASE Warm BY <1>13, WarmFields
<1>14. CASE Grant BY <1>14 DEF Grant
<1>15. CASE SpinEnds BY <1>15 DEF SpinEnds
<1>16. CASE Observe BY <1>16, ObserveFields
<1>17. CASE WithdrawPru BY <1>17 DEF WithdrawPru
<1>18. CASE RestoreCpsw BY <1>18, RestoreFields
<1>19. CASE Unmask BY <1>19, UnmaskFields
<1> QED
  BY <1>1, <1>2, <1>3, <1>4, <1>5, <1>6, <1>7, <1>8, <1>9, <1>10, <1>11,
     <1>12, <1>13, <1>14, <1>15, <1>16, <1>17, <1>18, <1>19
  DEF FrameStep

LEMMA QuietKernel ==
  ASSUME QuietInv, FrameStep
  PROVE  GrantedFlag' /\ QuietSoFar'
<1> USE ReturnFields
    DEF QuietInv, TypeOK, GrantedFlag, QuietSoFar, Window, K, Go, Touch, TouchNothing, TouchHw,
        Kernel, Hardware
<1>1. CASE PublishGrant BY <1>1 DEF PublishGrant
<1>2. CASE PublishColor BY <1>2 DEF PublishColor
<1>3. CASE PublishSeq BY <1>3 DEF PublishSeq, AwaitGate
<1>4. CASE GateReadStatus BY <1>4 DEF GateReadStatus
<1>5. CASE GateReadError BY <1>5 DEF GateReadError
<1>6. CASE GateReadAccepted BY <1>6 DEF GateReadAccepted
<1>7. CASE GateReadWord BY <1>7, GateWordFields
<1>8. CASE MaskInterrupts BY <1>8 DEF MaskInterrupts
<1>9. CASE RefuseBank BY <1>9 DEF RefuseBank
<1>10. CASE PauseCpsw BY <1>10 DEF PauseCpsw
<1>11. CASE DrainFails BY <1>11 DEF DrainFails
<1>12. CASE CpswDrained BY <1>12 DEF CpswDrained
<1>13. CASE Warm BY <1>13, WarmFields
<1>14. CASE Grant BY <1>14 DEF Grant
<1>15. CASE SpinEnds BY <1>15 DEF SpinEnds
<1>16. CASE Observe BY <1>16, ObserveFields
<1>17. CASE WithdrawPru BY <1>17 DEF WithdrawPru
<1>18. CASE RestoreCpsw BY <1>18, RestoreFields
<1>19. CASE Unmask BY <1>19, UnmaskFields
<1> QED
  BY <1>1, <1>2, <1>3, <1>4, <1>5, <1>6, <1>7, <1>8, <1>9, <1>10, <1>11,
     <1>12, <1>13, <1>14, <1>15, <1>16, <1>17, <1>18, <1>19
  DEF FrameStep

LEMMA HandshakeKernel ==
  ASSUME QuietInv, FrameStep
  PROVE  Handshake'
<1> USE WordRanges, ReturnFields
    DEF QuietInv, TypeOK, Bounds, GrantedFlag, K, Go, Touch, TouchNothing, TouchHw, Pru, Mailbox,
        Kernel, Bank, Handshake, ReadyNamesBank, NoGrantAhead, NoDoneAhead, Held, OpenOnlyInWindow,
        Executing, Open, Streaming, Window, Halting, HeldAtGate
<1>1. CASE PublishGrant BY <1>1 DEF PublishGrant
<1>2. CASE PublishColor BY <1>2 DEF PublishColor
<1>3. CASE PublishSeq BY <1>3 DEF PublishSeq, AwaitGate
<1>4. CASE GateReadStatus BY <1>4 DEF GateReadStatus
<1>5. CASE GateReadError BY <1>5 DEF GateReadError
<1>6. CASE GateReadAccepted BY <1>6 DEF GateReadAccepted
<1>7. CASE GateReadWord BY <1>7, GateWordFields
<1>8. CASE MaskInterrupts BY <1>8 DEF MaskInterrupts
<1>9. CASE RefuseBank BY <1>9 DEF RefuseBank
<1>10. CASE PauseCpsw BY <1>10 DEF PauseCpsw
<1>11. CASE DrainFails BY <1>11 DEF DrainFails
<1>12. CASE CpswDrained BY <1>12 DEF CpswDrained
<1>13. CASE Warm BY <1>13, WarmFields
<1>14. CASE Grant BY <1>14 DEF Grant
<1>15. CASE SpinEnds BY <1>15 DEF SpinEnds
<1>16. CASE Observe
  <2>1. Executing /\ Open => k.granted /\ pru.bank = k.bank /\ mb.done # k.bank
    OBVIOUS
  <2>2. Executing /\ Open => Window'
    BY <1>16, <2>1, ObserveFields
  <2>3. OpenOnlyInWindow' BY <1>16, <2>1, <2>2, ObserveFields
  <2>4. ReadyNamesBank' /\ NoGrantAhead' /\ NoDoneAhead' BY <1>16, ObserveFields
  <2>5. Held' BY <1>16, ObserveFields
  <2> QED BY <2>3, <2>4, <2>5
<1>17. CASE WithdrawPru BY <1>17 DEF WithdrawPru
<1>18. CASE RestoreCpsw BY <1>18, RestoreFields
<1>19. CASE Unmask BY <1>19, UnmaskFields
<1> QED
  BY <1>1, <1>2, <1>3, <1>4, <1>5, <1>6, <1>7, <1>8, <1>9, <1>10, <1>11,
     <1>12, <1>13, <1>14, <1>15, <1>16, <1>17, <1>18, <1>19
  DEF FrameStep

-----------------------------------------------------------------------------
(* The invariant across the other steps, and the theorems.                 *)

LEMMA CallKeeps ==
  ASSUME QuietInv, NEW wire \in Colors, NEW lens \in Layouts, NEW prev \in Seqs,
         Call(wire, lens, prev)
  PROVE  StrongInv'
<1>1. k.pc = "idle" BY DEF Call, K
<1>2. k'.pc \in Aside
  BY IdleType, ReturnFields DEF Call, Aside, Kernel, Idle
<1>3. UNCHANGED <<mb, pru, clk>> BY DEF Call, TouchNothing
<1> QED BY <1>1, <1>2, <1>3, StepAside

\* dld-init runs with no call in progress, and leaves the firmware disabled or
\* at its first instruction with every gate word zero.
LEMMA InitKeeps ==
  ASSUME QuietInv, InitNext
  PROVE  StrongInv'
<1> USE DEF K, QuietInv, TypeOK
<1>1. k.pc = "idle" /\ k' = k BY DEF InitNext, InitDisable, InitReset, InitErase, Touch, InitStart, InitKilled
<1>2. k'.pc \in Aside BY <1>1 DEF Aside
<1>3. CASE InitDisable BY <1>1, <1>2, <1>3, StepAside DEF InitDisable, Pru
<1>a. CASE InitReset
  <2>1. pru'.pc = "reset" /\ pru'.bank = pru.bank /\ UNCHANGED <<mb, clk>>
    BY <1>a DEF InitReset, Pru
  <2>2. Bounds' BY <1>1, <2>1 DEF Bounds
  <2>3. GrantedFlag' /\ QuietSoFar' BY <1>1, <1>a DEF GrantedFlag, QuietSoFar, Window, InitReset
  <2>4. Handshake'
    BY <1>1, <1>a, <2>1
    DEF InitReset, Handshake, ReadyNamesBank, NoGrantAhead, NoDoneAhead, Held, HeldAtGate,
        OpenOnlyInWindow, Open, Streaming, Executing, Pru
  <2> QED BY <2>2, <2>3, <2>4 DEF StrongInv
<1>b. CASE InitErase BY <1>1, <1>2, <1>b, StepAside DEF InitErase, Touch, Mailbox
<1>4. ASSUME NEW lens \in Layouts, InitStart(lens) PROVE StrongInv'
  <2>1. pru'.pc = "boot" /\ hw' = hw BY <1>4 DEF InitStart, ResetPru
  <2>2. mb'.ready = 0 BY <1>4 DEF InitStart, Populated, Mailbox
  <2>3. Bounds' BY <1>1, <2>1 DEF Bounds
  <2>4. GrantedFlag' /\ QuietSoFar' BY <1>1, <2>1 DEF GrantedFlag, QuietSoFar, Window
  <2>5. Handshake'
    BY <1>1, <2>1, <2>2
    DEF Handshake, ReadyNamesBank, NoGrantAhead, NoDoneAhead, Held, HeldAtGate,
        OpenOnlyInWindow, Open, Streaming
  <2> QED BY <2>3, <2>4, <2>5 DEF StrongInv
<1>5. ASSUME NEW lens \in Layouts, NEW n \in 1..4, InitKilled(n, lens) PROVE StrongInv'
  <2>1. pru'.pc = "reset" /\ ~pru'.en /\ hw' = hw BY <1>5 DEF InitKilled, ResetPru
  <2>2. Bounds' BY <1>1, <2>1 DEF Bounds
  <2>3. GrantedFlag' /\ QuietSoFar' BY <1>1, <2>1 DEF GrantedFlag, QuietSoFar, Window
  <2>4. Handshake'
    BY <2>1
    DEF Handshake, ReadyNamesBank, NoGrantAhead, NoDoneAhead, Held, OpenOnlyInWindow, Executing
  <2> QED BY <2>2, <2>3, <2>4 DEF StrongInv
<1> QED BY <1>3, <1>a, <1>b, <1>4, <1>5 DEF InitNext

\* A bus master cannot start inside the window; a lost clock stops the firmware.
LEMMA EnvironmentKeeps ==
  ASSUME QuietInv, Environment
  PROVE  StrongInv'
<1> USE DEF QuietInv, TypeOK, K, TouchHw, Environment, DmaStarts, DmaEnds, CpswStarts,
            CpswEnds, CpswRecovered, ClockLost
<1>1. UNCHANGED <<mb, pru, k>> /\ clk' \in {clk, FALSE} OBVIOUS
<1>2. Bounds' /\ GrantedFlag' BY <1>1 DEF Bounds, GrantedFlag
<1>3. Handshake'
  BY <1>1
  DEF Handshake, ReadyNamesBank, NoGrantAhead, NoDoneAhead, Held, HeldAtGate, Halting,
      OpenOnlyInWindow, Open, Streaming, Executing, Window
<1>4. QuietSoFar' BY DEF QuietSoFar, Window, Masked, Hardware
<1> QED BY <1>2, <1>3, <1>4 DEF StrongInv

LEMMA QuietInvInit == Init => QuietInv
<1> SUFFICES ASSUME Init PROVE QuietInv OBVIOUS
<1>1. TypeOK
  BY Ranges, IdleType, BlackAssumption
  DEF Init, TypeOK, ResetPru, Mailbox, Pru, PruLabel, Hardware, Status, Detail
<1>2. pru.pc = "reset" /\ ~pru.en /\ k.pc = "idle" BY DEF Init, ResetPru, Idle
<1>3. Bounds /\ GrantedFlag /\ QuietSoFar
  BY <1>2 DEF Bounds, GrantedFlag, QuietSoFar, Window
<1>4. Handshake
  BY <1>2
  DEF Handshake, ReadyNamesBank, NoGrantAhead, NoDoneAhead, Held, OpenOnlyInWindow, Executing
<1> QED BY <1>1, <1>3, <1>4 DEF QuietInv

LEMMA QuietInvStep == QuietInv /\ [Next]_vars => QuietInv'
<1> SUFFICES ASSUME QuietInv, [Next]_vars PROVE QuietInv' OBVIOUS
<1> SUFFICES StrongInv'
  BY TypeStep DEF QuietInv, StrongInv
<1>2. CASE FirmwareNext
  <2>1. GrantedFlag' BY <1>2 DEF QuietInv, GrantedFlag, FirmwareNext
  <2>2. QuietSoFar' BY <1>2 DEF QuietInv, QuietSoFar, Window, FirmwareNext
  <2> QED BY <1>2, <2>1, <2>2, BoundsPru, HandshakePru DEF StrongInv, QuietInv
<1>3. CASE KernelStep
  <2>1. CASE FrameStep
    BY <2>1, BoundsKernel, QuietKernel, HandshakeKernel DEF StrongInv
  <2> QED BY <1>3, <2>1, AsideKernel DEF KernelStep, FrameStep
<1>4. CASE KernelNext BY <1>3, <1>4, CallKeeps DEF KernelNext
<1>5. CASE InitNext BY <1>5, InitKeeps
<1>6. CASE Environment BY <1>6, EnvironmentKeeps
<1>7. CASE UNCHANGED vars
  BY <1>7
  DEF vars, QuietInv, StrongInv, Bounds, GrantedFlag, QuietSoFar, Handshake, ReadyNamesBank,
      NoGrantAhead, NoDoneAhead, Held, HeldAtGate, OpenOnlyInWindow, Open, Streaming,
      Executing, Window, Halting
<1> QED BY <1>2, <1>4, <1>5, <1>6, <1>7 DEF Next

-----------------------------------------------------------------------------

\* Every part of the state keeps its type, for every size of the constants.
THEOREM TypeCorrect == Spec => []TypeOK
<1>1. QuietInv => TypeOK BY DEF QuietInv
<1> QED BY <1>1, QuietInvInit, QuietInvStep, PTL DEF Spec

(***************************************************************************)
(* The firmware generates the waveform only with interrupts masked, CPSW   *)
(* paused and drained and no other DMA running, however often admission is *)
(* retried, whatever fails and wherever the sender or the clock is lost    *)
(* (try_bank and its restore label).                                       *)
(***************************************************************************)
THEOREM StreamsQuietly == Spec => []StreamsOnlyInQuietWindow
<1>1. QuietInv => StreamsOnlyInQuietWindow
  BY DEF QuietInv, Handshake, OpenOnlyInWindow, Open, Window, QuietSoFar, GrantedFlag,
         StreamsOnlyInQuietWindow, Quiet, Masked
<1> QED BY <1>1, QuietInvInit, QuietInvStep, PTL DEF Spec

-----------------------------------------------------------------------------
(* How a frame ends: CPSW is resumed or reported, and a failed frame is    *)
(* withdrawn.                                                              *)

LEMMA FailFields ==
  ASSUME NEW r \in Kernel, NEW label \in KernelLabel,
         \/ Go(r, label)
         \/ Go([r EXCEPT !.err = "fail"], label)
         \/ Go([r EXCEPT !.stopFailed = TRUE], label)
  PROVE  /\ k'.pc = label /\ k'.changed = r.changed /\ k'.restoreFailed = r.restoreFailed
         /\ k'.result = r.result /\ k'.err \in {r.err, "fail"} /\ (r.stopFailed => k'.stopFailed)
<1>1. CASE Go(r, label) BY <1>1 DEF Go, Kernel
<1>2. CASE Go([r EXCEPT !.err = "fail"], label) BY <1>2 DEF Go, Kernel
<1>3. CASE Go([r EXCEPT !.stopFailed = TRUE], label) BY <1>3 DEF Go, Kernel
<1> QED BY <1>1, <1>2, <1>3

LEMMA StopFailedFields ==
  ASSUME NEW r \in Kernel, NEW label \in KernelLabel, Go([r EXCEPT !.stopFailed = TRUE], label)
  PROVE  k'.stopFailed
  BY DEF Go, Kernel

\* The four steps after the last bank and the last wait.
LEMMA CleanupTail ==
  ASSUME CleanupInv, Snapshot \/ DisablePrus \/ StopPrus \/ ClearPins
  PROVE  CpswAccounted' /\ CleanupSoFar'
<1> USE DEF CleanupInv, TypeOK, CpswAccounted, CleanupSoFar, K, TouchNothing, KernelLabel
<1>1. CASE Snapshot
  <2>1. CASE k.err = "none" /\ clk BY <1>1, <2>1, ReturnFields DEF Snapshot
  <2>2. CASE ~(k.err = "none" /\ clk) BY <1>1, <2>2, FailFields DEF Snapshot
  <2> QED BY <2>1, <2>2
<1>2. CASE DisablePrus
  <2>1. CASE clk BY <1>2, <2>1, FailFields DEF DisablePrus, Pru, Mailbox
  <2>2. CASE ~clk BY <1>2, <2>2, FailFields, StopFailedFields DEF DisablePrus
  <2> QED BY <2>1, <2>2
<1>3. CASE StopPrus
  <2>1. CASE Go(k, "clear") /\ ~pru.run /\ pru' = [pru EXCEPT !.pc = "reset", !.en = FALSE]
             /\ UNCHANGED <<mb, hw>>
    <3>1. ~pru'.en /\ ~pru'.run BY <2>1 DEF Pru
    <3>2. k'.pc = "clear" /\ k' = [k EXCEPT !.pc = "clear"] BY <2>1, FailFields DEF Go
    <3>3. k'.stopFailed = k.stopFailed BY <3>2 DEF Kernel
    <3> QED BY <1>3, <2>1, <3>1, <3>2, <3>3, FailFields DEF StopPrus
  <2>2. CASE Go([k EXCEPT !.stopFailed = TRUE], "clear") /\ TouchNothing
    BY <1>3, <2>2, FailFields, StopFailedFields DEF StopPrus
  <2> QED BY <1>3, <2>1, <2>2 DEF StopPrus
<1>4. CASE ClearPins
  <2>1. k'.pc = "return" /\ k'.result = "failed" /\ ~k'.changed BY <1>4, ReturnFields DEF ClearPins
  <2>2. k.pc = "clear" /\ UNCHANGED <<mb, pru>> BY <1>4 DEF ClearPins
  <2>3. CASE Return(k, "failed") /\ ~pins'
    BY <2>1, <2>2, <2>3, ReturnFields
  <2>4. CASE Return([k EXCEPT !.lowFailed = TRUE], "failed")
    <3>1. k'.stopFailed = k.stopFailed /\ k'.lowFailed BY <2>4, ReturnFields DEF Kernel
    <3> QED BY <2>1, <2>2, <3>1
  <2> QED BY <1>4, <2>3, <2>4 DEF ClearPins
<1> QED BY <1>1, <1>2, <1>3, <1>4

LEMMA CleanupKernel ==
  ASSUME CleanupInv, KernelStep
  PROVE  CpswAccounted' /\ CleanupSoFar'
<1> USE DEF CleanupInv, TypeOK, CpswAccounted, CleanupSoFar, K, Go, Touch, TouchNothing, TouchHw,
            Kernel, Hardware, Pru, Mailbox
<1>1. CASE PreflightFails BY <1>1 DEF PreflightFails, Return, Idle
<1>2. CASE PreflightPasses BY <1>2 DEF PreflightPasses
<1>3. CASE PublishGrant BY <1>3, ReturnFields DEF PublishGrant
<1>4. CASE PublishColor BY <1>4 DEF PublishColor
<1>5. CASE PublishSeq BY <1>5 DEF PublishSeq, AwaitGate
<1>6. CASE GateTimeout BY <1>6 DEF GateTimeout
<1>7. CASE GateReadStatus BY <1>7 DEF GateReadStatus
<1>8. CASE GateReadError BY <1>8 DEF GateReadError
<1>9. CASE GateReadAccepted BY <1>9 DEF GateReadAccepted
<1>10. CASE GateReadWord BY <1>10, GateWordFields
<1>11. CASE AdmissionTimeout BY <1>11 DEF AdmissionTimeout
<1>12. CASE MaskInterrupts BY <1>12 DEF MaskInterrupts
<1>13. CASE RefuseBank BY <1>13 DEF RefuseBank
<1>14. CASE PauseCpsw BY <1>14 DEF PauseCpsw
<1>15. CASE DrainFails BY <1>15 DEF DrainFails
<1>16. CASE CpswDrained BY <1>16 DEF CpswDrained
<1>17. CASE Warm BY <1>17, WarmFields
<1>18. CASE Grant BY <1>18 DEF Grant
<1>19. CASE SpinEnds BY <1>19 DEF SpinEnds
<1>20. CASE Observe BY <1>20 DEF Observe
<1>21. CASE WithdrawPru BY <1>21 DEF WithdrawPru
<1>22. CASE RestoreCpsw BY <1>22, RestoreFields
<1>23. CASE Unmask BY <1>23, UnmaskFields
<1>24. CASE Snapshot \/ DisablePrus \/ StopPrus \/ ClearPins BY <1>24, CleanupTail
<1>25. CASE CopyOut BY <1>25 DEF CopyOut, Idle
<1> QED
  BY <1>1, <1>2, <1>3, <1>4, <1>5, <1>6, <1>7, <1>8, <1>9, <1>10, <1>11, <1>12,
     <1>13, <1>14, <1>15, <1>16, <1>17, <1>18, <1>19, <1>20, <1>21, <1>22, <1>23, <1>24,
     <1>25
  DEF KernelStep

\* The firmware never sets its own enable bit nor the magic, and a stopped
\* firmware changes nothing.
LEMMA FirmwareObeys ==
  ASSUME TypeOK, PruNext
  PROVE  /\ pru.run /\ pru'.en \in {pru.en, FALSE}
         /\ mb'.magic = mb.magic
<1> USE DEF TypeOK, At, Step, Write, NoWrite, Fatal, Pru, Mailbox
<1>1. CASE Boot BY <1>1 DEF Boot
<1>2. CASE BootClear BY <1>2 DEF BootClear
<1>3. CASE BootReady BY <1>3 DEF BootReady
<1>4. CASE PollRequest BY <1>4 DEF PollRequest
<1>5. CASE GrantCheck BY <1>5 DEF GrantCheck
<1>6. CASE ClearReady BY <1>6 DEF ClearReady
<1>7. CASE ClearDone BY <1>7 DEF ClearDone
<1>8. CASE Accept BY <1>8 DEF Accept
<1>9. CASE ReadColor BY <1>9 DEF ReadColor
<1>10. CASE SetRunning BY <1>10 DEF SetRunning, ToBank
<1>11. CASE SetWaitBank BY <1>11 DEF SetWaitBank
<1>12. CASE AnnounceBank BY <1>12 DEF AnnounceBank
<1>13. CASE Gate BY <1>13 DEF Gate
<1>14. CASE ClearGateReady BY <1>14 DEF ClearGateReady
<1>15. CASE SetResumed BY <1>15 DEF SetResumed
<1>16. CASE StreamEnd BY <1>16 DEF StreamEnd
<1>17. CASE ReportBank BY <1>17 DEF ReportBank, ToBank
<1>18. CASE SettleHold BY <1>18 DEF SettleHold
<1>19. CASE Complete BY <1>19 DEF Complete
<1>20. CASE SetDone BY <1>20 DEF SetDone
<1>21. CASE FatalDetail BY <1>21 DEF FatalDetail
<1>22. CASE FatalHalt BY <1>22 DEF FatalHalt
<1>23. CASE RunstateClears BY <1>23 DEF RunstateClears
<1> QED
  BY <1>1, <1>2, <1>3, <1>4, <1>5, <1>6, <1>7, <1>8, <1>9, <1>10, <1>11, <1>12,
     <1>13, <1>14, <1>15, <1>16, <1>17, <1>18, <1>19, <1>20, <1>21, <1>22, <1>23
  DEF PruNext

LEMMA CleanupFirmware ==
  ASSUME CleanupInv, FirmwareNext
  PROVE  CpswAccounted' /\ CleanupSoFar'
<1>1. k' = k /\ hw' = hw BY DEF FirmwareNext
<1>2. pru.run /\ pru'.en \in {pru.en, FALSE} /\ mb'.magic = mb.magic
  BY FirmwareObeys DEF FirmwareNext, CleanupInv
<1>3. CpswAccounted' BY <1>1 DEF CleanupInv, CpswAccounted
<1>4. ~k.stopFailed => k.pc # "clear" /\ k.result # "failed"
  BY <1>2 DEF CleanupInv, CleanupSoFar
<1>5. CleanupSoFar' BY <1>1, <1>2, <1>4 DEF CleanupInv, CleanupSoFar, TypeOK, Pru
<1> QED BY <1>3, <1>5

LEMMA CleanupOther ==
  ASSUME CleanupInv, InitNext \/ Environment
  PROVE  CpswAccounted' /\ CleanupSoFar'
<1> USE DEF CleanupInv, TypeOK, CpswAccounted, CleanupSoFar, K, TouchHw, Hardware
<1>1. CASE InitNext
  <2>1. k.pc = "idle" /\ k' = k /\ hw' = hw
    BY <1>1 DEF InitNext, InitDisable, InitReset, InitErase, Touch, InitStart, InitKilled
  <2> QED BY <2>1
<1>2. CASE Environment
  <2>1. k' = k /\ mb' = mb /\ pru' = pru /\ pins' = pins
    BY <1>2 DEF Environment, DmaStarts, DmaEnds, CpswStarts, CpswEnds, CpswRecovered, ClockLost
  <2>2. hw'.cmdIdle => hw.cmdIdle
    BY <1>2 DEF Environment, DmaStarts, DmaEnds, CpswStarts, CpswEnds, CpswRecovered, ClockLost
  <2> QED BY <2>1, <2>2
<1> QED BY <1>1, <1>2

LEMMA CleanupCall ==
  ASSUME CleanupInv, NEW wire \in Colors, NEW lens \in Layouts, NEW prev \in Seqs,
         Call(wire, lens, prev)
  PROVE  CpswAccounted' /\ CleanupSoFar'
<1>1. ~k'.changed /\ k'.result # "failed" /\ k'.pc \in {"preflight", "return"}
  BY DEF Call, Return, Idle
<1> QED BY <1>1 DEF CpswAccounted, CleanupSoFar

LEMMA CleanupInit == Init => QuietInv /\ CleanupInv
  BY QuietInvInit DEF Init, QuietInv, CleanupInv, CpswAccounted, CleanupSoFar, Idle

LEMMA CleanupStep == QuietInv /\ CleanupInv /\ [Next]_vars => CleanupInv'
<1> SUFFICES ASSUME QuietInv, CleanupInv, [Next]_vars PROVE CpswAccounted' /\ CleanupSoFar'
  BY TypeStep DEF QuietInv, CleanupInv
<1>1. CASE UNCHANGED vars BY <1>1 DEF vars, CleanupInv, CpswAccounted, CleanupSoFar
<1>2. CASE KernelNext BY <1>2, CleanupKernel, CleanupCall DEF KernelNext
<1> QED BY <1>1, <1>2, CleanupFirmware, CleanupOther DEF Next

(***************************************************************************)
(* A frame that failed after publication and whose recovery is complete    *)
(* left no session, a stopped PRU and low pins (failed_frame_cleanup).     *)
(***************************************************************************)
THEOREM FailuresWithdraw == Spec => []FailedFrameIsWithdrawn
<1>1. CleanupInv => FailedFrameIsWithdrawn
  BY DEF CleanupInv, CleanupSoFar, FailedFrameIsWithdrawn
<1>2. QuietInv /\ CleanupInv /\ [Next]_vars => QuietInv' /\ CleanupInv'
  BY QuietInvStep, CleanupStep
<1> QED BY <1>1, <1>2, CleanupInit, PTL DEF Spec

\* Interrupts come back at three places; CPSW was paused before one of them.
LEMMA UnmaskingSteps ==
  ASSUME TypeOK, KernelStep, Masked, ~Masked'
  PROVE  PublishSeq \/ GateReadWord \/ Unmask
<1> USE DEF Masked, K, Go, TypeOK, Kernel
<1>1. CASE PublishColor BY <1>1 DEF PublishColor
<1>2. CASE GateReadError BY <1>2 DEF GateReadError
<1>3. CASE GateReadAccepted BY <1>3 DEF GateReadAccepted
<1>4. CASE RefuseBank BY <1>4 DEF RefuseBank
<1>5. CASE PauseCpsw BY <1>5 DEF PauseCpsw
<1>6. CASE DrainFails BY <1>6 DEF DrainFails
<1>7. CASE CpswDrained BY <1>7 DEF CpswDrained
<1>8. CASE Warm BY <1>8, WarmFields
<1>9. CASE Grant BY <1>9 DEF Grant
<1>10. CASE SpinEnds BY <1>10 DEF SpinEnds
<1>11. CASE Observe BY <1>11, ObserveFields
<1>12. CASE WithdrawPru BY <1>12 DEF WithdrawPru
<1>13. CASE RestoreCpsw BY <1>13, RestoreFields
<1>14. CASE PreflightFails \/ PreflightPasses \/ PublishGrant \/ GateTimeout \/ GateReadStatus \/ AdmissionTimeout
            \/ MaskInterrupts \/ Snapshot \/ DisablePrus \/ StopPrus \/ ClearPins \/ CopyOut
  BY <1>14 DEF PreflightFails, PreflightPasses, PublishGrant, GateTimeout, GateReadStatus, AdmissionTimeout, MaskInterrupts,
     Snapshot, DisablePrus, StopPrus, ClearPins, CopyOut
<1> QED
  BY <1>1, <1>2, <1>3, <1>4, <1>5, <1>6, <1>7, <1>8, <1>9, <1>10, <1>11, <1>12, <1>13, <1>14
  DEF KernelStep

(***************************************************************************)
(* Whatever ends a protected window, CPSW runs again when interrupts do,   *)
(* or the call fails and says that the restore failed (restore label).     *)
(***************************************************************************)
THEOREM CpswIsAccountedFor == Spec => CpswResumedOrReported
<1>1. ASSUME QuietInv, CleanupInv, CleanupInv', [Next]_vars, Masked, k.changed, ~Masked'
      PROVE  ~hw'.cmdIdle \/ (k'.restoreFailed /\ k'.err = "fail")
  <2>1. k'.changed
    <3>1. KernelStep
      BY <1>1 DEF Next, KernelNext, Call, K, Masked, FirmwareNext, InitNext, InitDisable, InitReset, InitErase, Touch, InitStart,
         InitKilled, Environment, DmaStarts, DmaEnds, CpswStarts, CpswEnds, CpswRecovered,
         ClockLost, TouchHw, vars
    <3>2. PublishSeq \/ GateReadWord \/ Unmask
      BY <1>1, <3>1, UnmaskingSteps DEF CleanupInv
    <3>3. CASE PublishSeq
      BY <1>1, <3>3 DEF PublishSeq, AwaitGate, Go, CleanupInv, TypeOK, Kernel
    <3> QED BY <1>1, <3>2, <3>3, GateWordFields, UnmaskFields DEF CleanupInv
  <2> QED BY <1>1, <2>1 DEF CleanupInv, CpswAccounted, Masked
<1>2. QuietInv /\ CleanupInv /\ [Next]_vars => QuietInv' /\ CleanupInv'
  BY QuietInvStep, CleanupStep
<1>3. QuietInv /\ CleanupInv /\ CleanupInv' /\ [Next]_vars =>
        [Masked /\ k.changed /\ ~Masked' =>
           ~hw'.cmdIdle \/ (k'.restoreFailed /\ k'.err = "fail")]_vars
  BY <1>1
<1> QED BY <1>2, <1>3, CleanupInit, PTL DEF Spec, CpswResumedOrReported

-----------------------------------------------------------------------------
(* What a frame means to its caller: helper and firmware follow one        *)
(* request, a success has sent it, a session taken for usable is sound,    *)
(* and the frame implements the abstract service.                          *)

\* The banks before the next one are those before b; after the last, all.
LEMMA BanksBefore ==
  ASSUME NEW lens \in SUBSET Bank, NEW b \in 1..4
  PROVE  LET n == FirstBank(lens, b)
         IN /\ n # 4 => n \in lens /\ {c \in lens : c < n} = {c \in lens : c < b}
            /\ n = 4 => {c \in lens : c < b} = lens
<1> DEFINE n == FirstBank(lens, b)
<1>1. n \in b..4 /\ n \in lens \cup {4} /\ \A d \in lens : d >= b => d >= n
  BY FirstBankIsNext
<1>2. \A c \in lens : c \in 1..3 BY DEF Bank
<1> HIDE DEF n
<1>3. \A c \in lens : c < n <=> c < b BY <1>1, <1>2
<1>4. n = 4 => \A c \in lens : c < b BY <1>2, <1>3, <1>1
<1> QED BY <1>1, <1>3, <1>4 DEF n

\* When no bank is left, the one before was the last.
LEMMA LastBankReached ==
  ASSUME NEW lens \in SUBSET Bank, NEW b \in 1..4, FirstBank(lens, b) = 4,
         b = 1 \/ b - 1 \in lens
  PROVE  LastBank(lens) = b - 1
<1>1. \A d \in lens : d < b
  BY FirstBankIsNext DEF Bank
<1> QED BY <1>1 DEF LastBank, Bank

LEMMA NextSeqDiffers == ASSUME NEW s \in Seqs PROVE NextSeq(s) # s
  BY DEF NextSeq, Seqs

-----------------------------------------------------------------------------
(* What holds of the firmware alone, across its own steps.                 *)

\* The loop over the banks arrives at the next configured one, or at the end.
LEMMA ToBankArrives ==
  ASSUME TypeOK, NEW b \in 1..4, ToBank(b)
  PROVE  /\ \/ /\ pru'.pc = "group" /\ pru'.bank \in Bank /\ pru'.bank >= b
               /\ pru'.bank \in mb.lens
               /\ {c \in mb.lens : c < pru'.bank} = {c \in mb.lens : c < b}
            \/ /\ pru'.pc = "settle" /\ {c \in mb.lens : c < b} = mb.lens
               /\ FirstBank(mb.lens, b) = 4
         /\ pru'.run = pru.en /\ pru'.en = pru.en /\ pru'.r3 = pru.r3 /\ pru'.r4 = pru.r4
         /\ pru'.sent = pru.sent /\ pru'.det = pru.det /\ pru'.taken = pru.taken
<1> DEFINE n == FirstBank(mb.lens, b)
<1>1. mb.lens \in SUBSET Bank BY WordRanges
<1>2. n \in b..4 /\ n \in mb.lens \cup {4} BY <1>1, FirstBankIsNext
<1>3. /\ n # 4 => n \in mb.lens /\ {c \in mb.lens : c < n} = {c \in mb.lens : c < b}
      /\ n = 4 => {c \in mb.lens : c < b} = mb.lens
  BY <1>1, BanksBefore
<1>4. Step([pru EXCEPT !.bank = n], IF n = 4 THEN "settle" ELSE "group") BY DEF ToBank
<1> HIDE DEF n
<1>5. /\ pru'.bank = n /\ pru'.pc = (IF n = 4 THEN "settle" ELSE "group")
      /\ pru'.run = pru.en /\ pru'.en = pru.en /\ pru'.r3 = pru.r3 /\ pru'.r4 = pru.r4
      /\ pru'.sent = pru.sent /\ pru'.det = pru.det /\ pru'.taken = pru.taken
  BY <1>4 DEF Step, TypeOK, Pru
<1>6. n \in mb.lens => n \in Bank /\ n # 4 BY <1>1 DEF Bank
<1> QED BY <1>2, <1>3, <1>5, <1>6 DEF n

LEMMA FirmwareInvStep ==
  ASSUME TypeOK, Bounds, FirmwareInv, PruNext
  PROVE  FirmwareInv'
<1> USE WordRanges
    DEF TypeOK, Bounds, At, Step, Write, NoWrite, Pru, Mailbox, Bank, FirmwareInv,
        MagicMeansAlive, BootIsFresh, OneRequest, GateWords, SentInOrder, FaultsAreOwn,
        StatusAndPins, BootLabel, BankLabel, LastLabel, AcceptedLabel, EngagedLabel
<1>1. CASE Boot
  <2>1. CASE Step(pru, "bootClear") BY <1>1, <2>1 DEF Boot
  <2>2. ASSUME NEW detail \in {"MAGIC", "INIT_CLEAR"}, Fatal(detail) PROVE FirmwareInv'
    BY <1>1, <2>2 DEF Boot, Fatal
  <2> QED BY <1>1, <2>1, <2>2 DEF Boot
<1>2. CASE BootClear BY <1>2 DEF BootClear
<1>3. CASE BootReady BY <1>3 DEF BootReady
<1>4. CASE PollRequest BY <1>4 DEF PollRequest
<1>5. CASE GrantCheck
  <2>1. mb.grant = 0 BY <1>5 DEF GrantCheck
  <2>2. pru.pc = "grantCheck" /\ Step(pru, "clearReady") /\ mb' = mb /\ pins' = pins
    BY <1>5, <2>1 DEF GrantCheck
  <2> QED BY <2>1, <2>2
<1>6. CASE ClearReady BY <1>6 DEF ClearReady
<1>7. CASE ClearDone BY <1>7 DEF ClearDone
<1>8. CASE Accept BY <1>8 DEF Accept
<1>9. CASE ReadColor
  <2>1. /\ pru'.pc = "running" /\ pru'.r4 = mb.color /\ pru'.r3 = pru.r3 /\ pru'.sent = pru.sent
        /\ pru'.en = pru.en /\ pru'.run = pru.en /\ pru'.det = pru.det /\ pru'.bank = pru.bank
        /\ pru'.taken = pru.taken
    BY <1>9 DEF ReadColor
  <2>2. mb' = mb /\ pins' = pins /\ pru.pc = "color" BY <1>9 DEF ReadColor
  <2> QED BY <2>1, <2>2
<1>10. CASE SetRunning
  <2>1. 1 \in 1..4 /\ ToBank(1) BY <1>10 DEF SetRunning
  <2>2. FirstBank(mb.lens, 1) = 4 => LastBank(mb.lens) = 0
    BY <2>1, LastBankReached
  <2>3. {c \in mb.lens : c < 1} = {} OBVIOUS
  <2>4. mb' = [mb EXCEPT !.status = "RUNNING"] /\ pins' = pins /\ pru.pc = "running"
    BY <1>10 DEF SetRunning
  <2>5. CASE pru'.pc = "group" BY <2>1, <2>3, <2>4, <2>5, ToBankArrives
  <2>6. CASE pru'.pc = "settle"
    <3>1. /\ LastBank(mb.lens) = 0 /\ mb.lens = {} /\ pru'.sent = pru.sent
          /\ pru'.run = pru.en /\ pru'.en = pru.en /\ pru'.r3 = pru.r3 /\ pru'.det = pru.det
      BY <2>1, <2>2, <2>3, <2>6, ToBankArrives
    <3>2. /\ mb'.lens = mb.lens /\ mb'.done = mb.done /\ mb'.grant = mb.grant
          /\ mb'.ready = mb.ready /\ mb'.status = "RUNNING"
      BY <2>4
    <3>3. SentInOrder' /\ GateWords' BY <2>4, <2>6, <3>1, <3>2
    <3> QED BY <2>1, <2>4, <2>6, <3>3, ToBankArrives
  <2> QED BY <2>1, <2>5, <2>6, ToBankArrives
<1>11. CASE SetWaitBank BY <1>11 DEF SetWaitBank
<1>12. CASE AnnounceBank BY <1>12 DEF AnnounceBank
<1>13. CASE Gate
  <2>1. mb.grant = pru.bank BY <1>13 DEF Gate
  <2>2. pru.pc = "gate" /\ Step(pru, "release") /\ mb' = mb /\ pins' = pins
    BY <1>13, <2>1 DEF Gate
  <2> QED BY <2>1, <2>2
<1>14. CASE ClearGateReady BY <1>14 DEF ClearGateReady
<1>15. CASE SetResumed BY <1>15 DEF SetResumed
<1>16. CASE StreamEnd
  <2>1. CASE Step(pru, "bankDone") /\ pins' = FALSE BY <1>16, <2>1 DEF StreamEnd
  <2>2. CASE Fatal("BANK_CLEAR") BY <1>16, <2>2 DEF StreamEnd, Fatal
  <2> QED BY <1>16, <2>1, <2>2 DEF StreamEnd
<1>17. CASE ReportBank
  <2>1. pru.bank + 1 \in 1..4 /\ ToBank(pru.bank + 1) BY <1>17 DEF ReportBank
  <2>2. FirstBank(mb.lens, pru.bank + 1) = 4 => LastBank(mb.lens) = pru.bank
    BY <1>17, <2>1, LastBankReached DEF ReportBank
  <2>3. {c \in mb.lens : c < pru.bank + 1} = {c \in mb.lens : c <= pru.bank}
    BY <1>17 DEF ReportBank
  <2>4. mb' = [mb EXCEPT !.done = pru.bank] /\ pins' = pins /\ pru.pc = "bankDone"
    BY <1>17 DEF ReportBank
  <2>5. CASE pru'.pc = "group" BY <2>1, <2>3, <2>4, <2>5, ToBankArrives
  <2>6. CASE pru'.pc = "settle"
    <3>0. /\ FirstBank(mb.lens, pru.bank + 1) = 4
          /\ {c \in mb.lens : c < pru.bank + 1} = mb.lens
      BY <2>1, <2>6, ToBankArrives
    <3>1. LastBank(mb.lens) = pru.bank /\ pru.sent = mb.lens
      BY <2>2, <2>3, <2>4, <3>0
    <3>2. mb'.lens = mb.lens /\ mb'.done = pru.bank /\ mb'.grant = mb.grant BY <2>4
    <3>3. /\ pru'.sent = pru.sent /\ pru'.run = pru.en /\ pru'.en = pru.en
          /\ pru'.r3 = pru.r3 /\ pru'.det = pru.det
      BY <2>1, ToBankArrives
    <3>4. SentInOrder' /\ GateWords'
      BY <2>4, <2>6, <3>1, <3>2, <3>3
    <3> QED BY <2>1, <2>4, <2>6, <3>4, ToBankArrives
  <2> QED BY <2>1, <2>5, <2>6, ToBankArrives
<1>18. CASE SettleHold BY <1>18 DEF SettleHold
<1>19. CASE Complete BY <1>19 DEF Complete
<1>20. CASE SetDone BY <1>20 DEF SetDone
<1>21. CASE FatalDetail BY <1>21 DEF FatalDetail
<1>22. CASE FatalHalt BY <1>22 DEF FatalHalt
<1>23. CASE RunstateClears BY <1>23 DEF RunstateClears
<1> QED
  BY <1>1, <1>2, <1>3, <1>4, <1>5, <1>6, <1>7, <1>8, <1>9, <1>10, <1>11, <1>12,
     <1>13, <1>14, <1>15, <1>16, <1>17, <1>18, <1>19, <1>20, <1>21, <1>22, <1>23
  DEF PruNext

\* The firmware never writes what the host tells it.
LEMMA FirmwareReads ==
  ASSUME TypeOK, PruNext
  PROVE  /\ mb'.magic = mb.magic /\ mb'.lens = mb.lens /\ mb'.color = mb.color
         /\ mb'.req = mb.req /\ mb'.grant = mb.grant /\ clk' = clk
  BY DEF TypeOK, Mailbox, Write, NoWrite, PruNext, Boot, BootClear, BootReady, PollRequest,
         GrantCheck, ClearReady, ClearDone, Accept, ReadColor, SetRunning, SetWaitBank,
         AnnounceBank, Gate, ClearGateReady, SetResumed, StreamEnd, ReportBank, SettleHold,
         Complete, SetDone, FatalDetail, FatalHalt, RunstateClears

\* In reset, without a new request and before an ungranted gate it stays put.
LEMMA FirmwareHolds ==
  ASSUME TypeOK, FirmwareInv, PruNext,
         pru.pc = "reset" \/ Waiting \/ (pru.pc = "gate" /\ mb.grant < pru.bank)
  PROVE  ~pru.en /\ pru' = [pru EXCEPT !.run = FALSE] /\ UNCHANGED <<mb, pins, clk>>
<1>1. pru.pc \in {"reset", "poll", "gate"} /\ (pru.pc = "reset" => ~pru.run)
  BY DEF Waiting, FirmwareInv, MagicMeansAlive
<1>2. ~PollRequest BY DEF PollRequest, At, Waiting
<1>3. ~Gate BY WordRanges DEF Gate, At, Waiting
<1>4. RunstateClears
  BY <1>1, <1>2, <1>3
  DEF PruNext, At, Boot, BootClear, BootReady,
      GrantCheck, ClearReady, ClearDone, Accept, ReadColor, SetRunning, SetWaitBank,
      AnnounceBank, ClearGateReady, SetResumed, StreamEnd, ReportBank, SettleHold,
      Complete, SetDone, FatalDetail, FatalHalt
<1> QED BY <1>4 DEF RunstateClears, NoWrite

-----------------------------------------------------------------------------
(* What helper and firmware know of each other, across a firmware step.    *)

LEMMA RestFirmware ==
  ASSUME TypeOK, FirmwareInv, SessionAtRest, PruNext, k' = k
  PROVE  SessionAtRest'
<1> SUFFICES ASSUME k.pc \in Outside, clk, mb.magic PROVE SessionAtRest'
  BY FirmwareReads DEF SessionAtRest
<1> USE DEF SessionAtRest, Waiting, BootLabel
<1>1. CASE pru.pc = "reset" \/ Waiting
  BY <1>1, FirmwareHolds DEF FirmwareInv, MagicMeansAlive, TypeOK, Pru
<1>2. CASE Boot BY <1>2 DEF Boot, NoWrite, FirmwareInv, BootIsFresh, BootLabel, At, Step, Fatal, TypeOK, Pru
<1>3. CASE BootClear BY <1>3 DEF BootClear, Step, TypeOK, Pru
<1>4. CASE BootReady
  BY <1>4 DEF BootReady, At, Write, FirmwareInv, BootIsFresh, Step, TypeOK, Pru, Mailbox
<1>5. CASE FatalDetail BY <1>5 DEF FatalDetail, Step, TypeOK, Pru
<1>6. CASE FatalHalt BY <1>6 DEF FatalHalt, At, TypeOK, Pru
<1>7. CASE RunstateClears
  BY <1>7 DEF RunstateClears, NoWrite, TypeOK, Pru
<1> QED
  BY <1>1, <1>2, <1>3, <1>4, <1>5, <1>6, <1>7
  DEF PruNext, At, PollRequest, GrantCheck, ClearReady, ClearDone, Accept, ReadColor, SetRunning,
      SetWaitBank, AnnounceBank, Gate, ClearGateReady, SetResumed, StreamEnd, ReportBank,
      SettleHold, Complete, SetDone


\* Between validation and publication at most a disabled core comes to a stop.
LEMMA BeforeFirmware ==
  ASSUME TypeOK, FirmwareInv, StillValid, PruNext, k.pc \in Before
  PROVE  pru' = [pru EXCEPT !.run = FALSE] /\ UNCHANGED <<mb, pins, clk>>
<1>1. pru.pc = "reset" \/ Waiting BY DEF StillValid
<1> QED BY <1>1, FirmwareHolds

LEMMA ProgressFirmware ==
  ASSUME TypeOK, Bounds, FirmwareInv, FirmwareInv', RequestInProgress, PruNext, k' = k,
         k.pc \in Published
  PROVE  RequestInProgress'
<1>1. /\ mb'.req = k.seq /\ mb'.color = k.wire /\ mb'.lens = k.lens /\ k.lens \in Layouts
  BY FirmwareReads DEF RequestInProgress
<1>2. CASE pru.pc = "reset" \/ Waiting
  <2>1. pru'.pc = pru.pc /\ pru'.r3 = pru.r3 /\ pru'.sent = pru.sent /\ pru'.r4 = pru.r4
        /\ mb' = mb
    BY <1>2, FirmwareHolds DEF TypeOK, Pru
  <2> QED
    BY <1>1, <1>2, <2>1 DEF RequestInProgress, NotTaken, Finished, Waiting, K, EngagedLabel,
      AcceptedLabel, BankLabel, LastLabel, BootLabel
<1> SUFFICES ASSUME pru.pc # "reset", ~Waiting PROVE RequestInProgress'
  BY <1>2
<1> USE <1>1 DEF RequestInProgress, NotTaken, Finished, Waiting, K, EngagedLabel,
      AcceptedLabel, BankLabel, LastLabel, BootLabel, At, Step, Write, NoWrite, TypeOK,
      Pru, Mailbox, FirmwareInv, OneRequest
<1>3. ~Boot /\ ~BootClear /\ ~BootReady BY DEF Boot, BootClear, BootReady
<1>4. CASE PollRequest BY <1>4 DEF PollRequest
<1>5. CASE GrantCheck
  <2>1. mb.grant = 0 BY <1>5 DEF GrantCheck, GateWords
  <2>2. pru.pc = "grantCheck" /\ Step(pru, "clearReady") /\ mb' = mb
    BY <1>5, <2>1 DEF GrantCheck
  <2> QED BY <2>2
<1>6. CASE ClearReady BY <1>6 DEF ClearReady
<1>7. CASE ClearDone BY <1>7 DEF ClearDone
<1>8. CASE Accept BY <1>8 DEF Accept
<1>9. CASE ReadColor BY <1>9 DEF ReadColor
<1>10. CASE SetRunning
  <2>1. ToBank(1) BY <1>10 DEF SetRunning
  <2>2. pru'.pc \in {"group", "settle"} BY <2>1, ToBankArrives
  <2> QED BY <1>10, <2>2 DEF SetRunning
<1>11. CASE SetWaitBank BY <1>11 DEF SetWaitBank
<1>12. CASE AnnounceBank BY <1>12 DEF AnnounceBank
<1>13. CASE Gate
  <2>1. mb.grant = pru.bank BY <1>13, WordRanges DEF Gate, GateWords
  <2>2. pru.pc = "gate" /\ Step(pru, "release") /\ mb' = mb
    BY <1>13, <2>1 DEF Gate
  <2> QED BY <2>2
<1>14. CASE ClearGateReady BY <1>14 DEF ClearGateReady
<1>15. CASE SetResumed BY <1>15 DEF SetResumed
<1>16. CASE StreamEnd
  <2>1. pru'.pc \in {"bankDone", "fatal"} /\ mb' = mb /\ pru.pc = "stream"
    BY <1>16 DEF StreamEnd, Fatal
  <2>2. mb.ready = 0 BY <2>1 DEF GateWords
  <2> QED BY <2>1, <2>2
<1>17. CASE ReportBank
  <2>1. ToBank(pru.bank + 1) /\ pru.bank + 1 \in 1..4 BY <1>17 DEF ReportBank, Bounds, Bank
  <2>2. pru'.pc \in {"group", "settle"} BY <2>1, ToBankArrives
  <2> QED BY <1>17, <2>2 DEF ReportBank
<1>18. CASE SettleHold BY <1>18 DEF SettleHold
<1>19. CASE Complete BY <1>19 DEF Complete
<1>20. CASE SetDone BY <1>20 DEF SetDone, GateWords, SentInOrder
<1>21. CASE FatalDetail BY <1>21 DEF FatalDetail
<1>22. CASE FatalHalt BY <1>22 DEF FatalHalt
<1>23. CASE RunstateClears BY <1>23 DEF RunstateClears
<1> QED
  BY <1>3, <1>4, <1>5, <1>6, <1>7, <1>8, <1>9, <1>10, <1>11, <1>12,
     <1>13, <1>14, <1>15, <1>16, <1>17, <1>18, <1>19, <1>20, <1>21, <1>22, <1>23
  DEF PruNext


\* The reset hold outlasts the burst, and an accepted sequence stays accepted.
LEMMA BurstFirmware ==
  ASSUME TypeOK, Bounds, FirmwareInv, RequestInProgress, MagicUntilGivenUp, BurstIsCoherent,
         TakenTakesNothingUp, FirmwareNext
  PROVE  BurstIsCoherent'
<1> SUFFICES ASSUME k.pc \in {"gateError", "gateAccepted", "gateWord"}
             PROVE  BurstIsCoherent'
  BY DEF BurstIsCoherent, FirmwareNext
<1>1. PruNext /\ k' = k /\ clk' = clk /\ k.pc \in Published
  BY FirmwareReads DEF FirmwareNext, Published, Before, Outside, KernelLabel
<1>2. pru.en \/ pru.pc \in {"reset", "poll", "grantCheck", "fatalStatus"}
  BY <1>1 DEF MagicUntilGivenUp, FirmwareInv, MagicMeansAlive, TakenTakesNothingUp
<1>3. ~SettleHold
  BY <1>2 DEF SettleHold, At, FirmwareNext, SettleOutlastsRead
<1>4. ASSUME pru.pc # "complete", pru.pc # "doneStatus"
      PROVE  pru'.pc # "complete" /\ pru'.pc # "doneStatus"
  <2>1. ~Complete /\ ~SetDone BY <1>4 DEF Complete, SetDone, At
  <2>2. CASE SetRunning
    <3>1. ToBank(1) BY <2>2 DEF SetRunning
    <3> QED BY <3>1, ToBankArrives
  <2>3. CASE ReportBank
    <3>1. ToBank(pru.bank + 1) /\ pru.bank + 1 \in 1..4
      BY <2>3 DEF ReportBank, At, Bounds, Bank
    <3> QED BY <3>1, ToBankArrives
  <2> QED
    BY <1>1, <1>3, <1>4, <2>1, <2>2, <2>3
    DEF PruNext, Step, TypeOK, Pru, Boot, BootClear, BootReady, PollRequest, Gate,
      RunstateClears, GrantCheck, ClearReady, ClearDone, Accept, ReadColor, SetWaitBank,
      AnnounceBank, ClearGateReady, SetResumed, StreamEnd, FatalDetail, FatalHalt, Fatal
<1>5. ASSUME mb.acc = k.seq PROVE mb'.acc = k.seq
  <2>1. ~BootClear BY <1>1 DEF BootClear, At, RequestInProgress, BootLabel
  <2>2. ~Accept
    BY <1>1, <1>5 DEF Accept, At, RequestInProgress, EngagedLabel, AcceptedLabel, BankLabel, LastLabel
  <2> QED
    BY <1>1, <1>5, <2>1, <2>2
    DEF PruNext, TypeOK, Mailbox, Write, NoWrite, Boot, BootReady, PollRequest, Gate,
      RunstateClears, GrantCheck, ClearReady, ClearDone, ReadColor, SetWaitBank, SetRunning,
      AnnounceBank, ClearGateReady, SetResumed, StreamEnd, FatalDetail, FatalHalt,
      ReportBank, SettleHold, Complete, SetDone
<1> QED BY <1>1, <1>4, <1>5 DEF BurstIsCoherent, Final, K

\* A disabled core executes at most the instruction in flight.
LEMMA TakenStops ==
  ASSUME TypeOK, FirmwareInv, TakenTakesNothingUp, PruNext, k' = k
  PROVE  TakenTakesNothingUp'
<1> SUFFICES ASSUME pru'.taken, k.pc \in Published PROVE TakenTakesNothingUp'
  BY DEF TakenTakesNothingUp
<1> USE DEF TakenTakesNothingUp, TypeOK, Pru, At, Step, FirmwareInv, MagicMeansAlive
<1>1. CASE SetRunning \/ ReportBank
  <2>1. pru'.taken = pru.taken /\ pru.pc \in {"running", "bankDone"}
    BY <1>1 DEF SetRunning, ReportBank, ToBank
  <2> QED BY <2>1
<1>2. CASE PollRequest BY <1>2 DEF PollRequest
<1>3. CASE RunstateClears BY <1>3 DEF RunstateClears
<1>4. CASE GrantCheck
  <2>1. pru.pc = "grantCheck" /\ pru.run /\ pru'.taken = pru.taken
    BY <1>4 DEF GrantCheck, Fatal
  <2> QED BY <2>1
<1>5. CASE Gate \/ StreamEnd \/ Boot
  <2>1. pru'.taken = pru.taken /\ pru.pc \in {"gate", "stream", "boot"}
    BY <1>5 DEF Gate, StreamEnd, Boot, Fatal
  <2> QED BY <2>1
<1>6. CASE BootClear \/ BootReady \/ ClearReady \/ ClearDone \/ Accept \/ ReadColor
           \/ SetWaitBank \/ AnnounceBank
  <2>1. pru'.taken = pru.taken /\ pru.pc \notin {"reset", "poll", "grantCheck"}
    BY <1>6
    DEF BootClear, BootReady, ClearReady, ClearDone, Accept, ReadColor, SetWaitBank, AnnounceBank
  <2> QED BY <2>1
<1>7. CASE ClearGateReady \/ SetResumed \/ SettleHold \/ Complete \/ SetDone \/ FatalDetail
           \/ FatalHalt
  <2>1. pru'.taken = pru.taken /\ pru.pc \notin {"reset", "poll", "grantCheck"}
    BY <1>7
    DEF ClearGateReady, SetResumed, SettleHold, Complete, SetDone, FatalDetail, FatalHalt
  <2> QED BY <2>1
<1> QED BY <1>1, <1>2, <1>3, <1>4, <1>5, <1>6, <1>7 DEF PruNext

\* Each part of CallInv, across a firmware step.
LEMMA CallInvFirmware ==
  ASSUME QuietInv, FirmwareInv, FirmwareInv', CallInv, FirmwareNext
  PROVE  CallInv'
<1>1. PruNext /\ k' = k /\ TypeOK /\ Bounds BY DEF FirmwareNext, QuietInv
<1>2. OutcomeGiven' BY <1>1 DEF CallInv, OutcomeGiven, K
<1>3. SessionAtRest' BY <1>1, RestFirmware DEF CallInv
<1>4. StillValid'
  <2> SUFFICES ASSUME k.pc \in Before PROVE StillValid'
    BY <1>1 DEF StillValid
  <2>1. mb' = mb /\ clk' = clk /\ pru'.pc = pru.pc /\ pru'.r3 = pru.r3
    BY <1>1, BeforeFirmware DEF CallInv, TypeOK, Pru
  <2> QED BY <1>1, <2>1 DEF CallInv, StillValid, Waiting, K
<1>5. RequestInProgress'
  <2>1. CASE k.pc \in Published BY <1>1, <2>1, ProgressFirmware DEF CallInv
  <2> QED BY <1>1, <2>1 DEF RequestInProgress
<1>6. MagicUntilGivenUp'
  BY <1>1, FirmwareReads DEF CallInv, MagicUntilGivenUp, K
<1>7. BurstIsCoherent' BY <1>1, BurstFirmware DEF CallInv
<1>8. StaysAtGate'
  <2> SUFFICES ASSUME HeldAtGate PROVE StaysAtGate'
    BY <1>1 DEF StaysAtGate, HeldAtGate
  <2>1. pru.pc = "gate" /\ pru.bank = k.bank /\ mb.grant < pru.bank
    BY DEF CallInv, StaysAtGate
  <2>2. mb' = mb /\ pru'.pc = pru.pc /\ pru'.bank = pru.bank
    BY <1>1, <2>1, FirmwareHolds DEF TypeOK, Pru
  <2> QED BY <1>1, <2>1, <2>2 DEF StaysAtGate
<1>9. SuccessIsFinished'
  <2> SUFFICES ASSUME K("snapshot"), k.err = "none" PROVE SuccessIsFinished'
    BY <1>1 DEF SuccessIsFinished, K
  <2>1. Finished BY DEF CallInv, SuccessIsFinished
  <2>2. /\ mb' = mb /\ pru'.pc = pru.pc /\ pru'.r3 = pru.r3 /\ pru'.r4 = pru.r4
        /\ pru'.sent = pru.sent
    BY <1>1, <2>1, FirmwareHolds DEF TypeOK, Pru, Finished
  <2> QED BY <1>1, <2>1, <2>2 DEF SuccessIsFinished, Finished, Waiting, K
<1>10. TakenTakesNothingUp' BY <1>1, TakenStops DEF CallInv
<1> QED BY <1>2, <1>3, <1>4, <1>5, <1>6, <1>7, <1>8, <1>9, <1>10 DEF CallInv

-----------------------------------------------------------------------------
(* Both parts across a step of the kernel helper.                          *)

LEMMA FirmwareInvKept ==
  ASSUME FirmwareInv, UNCHANGED <<mb, pru, pins>>
  PROVE  FirmwareInv'
  BY DEF FirmwareInv, MagicMeansAlive, BootIsFresh, OneRequest, GateWords, SentInOrder,
         FaultsAreOwn, StatusAndPins

\* The request goes from one step of the published frame to the next.
LEMMA RequestCarried ==
  ASSUME CallInv, k.pc \in Published, k.pc # "clear", k'.pc \in Published,
         k'.seq = k.seq, k'.wire = k.wire, k'.lens = k.lens, k'.result = k.result,
         mb'.req = mb.req, mb'.color = mb.color, mb'.lens = mb.lens, mb'.acc = mb.acc,
         mb'.comp = mb.comp, mb'.ready = mb.ready, mb'.status = mb.status, mb'.done = mb.done,
         pru'.pc = pru.pc, pru'.r3 = pru.r3, pru'.r4 = pru.r4, pru'.sent = pru.sent,
         pru'.taken = pru.taken, pru'.run = pru.run, mb'.grant = mb.grant \/ pru.pc = "gate"
  PROVE  /\ OutcomeGiven' /\ SessionAtRest' /\ StillValid' /\ RequestInProgress'
         /\ TakenTakesNothingUp'
<1>1. k.pc # "return" /\ k'.pc # "return" /\ k'.pc \notin Outside /\ k'.pc \notin Before
  BY DEF Published, Outside, Before
<1>2. RequestInProgress'
  BY DEF CallInv, RequestInProgress, NotTaken, Finished, Waiting, K, EngagedLabel, AcceptedLabel,
         BankLabel, LastLabel, BootLabel
<1> QED BY <1>1, <1>2 DEF CallInv, OutcomeGiven, SessionAtRest, StillValid, TakenTakesNothingUp, K

PublishedLabels == {"gateStatus", "gateError", "gateAccepted", "gateWord",
                    "mask", "check", "drain", "warm", "grant", "spin", "observe",
                    "withdraw", "restore", "unmask", "snapshot", "disable", "stop", "clear"}

LEMMA PublishedIs == Published = PublishedLabels
  BY DEF Published, PublishedLabels, Before, Outside, KernelLabel

\* The steps before publication, and the publication itself.
LEMMA BeforeKernel ==
  ASSUME QuietInv, FirmwareInv, CallInv,
         PreflightFails \/ PreflightPasses \/ PublishGrant \/ PublishColor \/ PublishSeq
  PROVE  FirmwareInv' /\ CallInv'
<1> USE DEF CallInv, K, Before, Outside
<1>0. k \in Kernel /\ mb \in Mailbox BY DEF QuietInv, TypeOK
<1>1. k.pc \in Before /\ k'.pc \notin {"spin", "withdraw", "restore", "unmask"}
  BY ReturnFields, <1>0
  DEF PreflightFails, PreflightPasses, PublishGrant, PublishColor, PublishSeq, Go, AwaitGate, Kernel
<1>2. /\ mb.magic /\ mb.err = "NONE" /\ mb.status \in {"READY", "DONE"} /\ mb.ready = 0
      /\ mb.lens = k.lens /\ k.lens \in Layouts
      /\ k.seq = NextSeq(mb.req) /\ mb.acc = mb.req /\ mb.comp = mb.req
      /\ pru.pc = "reset" \/ Waiting
  BY <1>1 DEF StillValid
<1>3. k.seq # mb.req /\ k.result = "none"
  BY <1>0, <1>1, <1>2, NextSeqDiffers DEF Mailbox, OutcomeGiven
<1>4. ASSUME Return(k, "rejected"), UNCHANGED <<mb, pru, pins, clk>>
      PROVE  FirmwareInv' /\ CallInv'
  <2>1. k'.pc = "return" /\ k'.result = "rejected" BY <1>4, ReturnFields
  <2>2. FirmwareInv' BY <1>4, FirmwareInvKept
  <2>3. SessionAtRest' BY <1>2, <1>4 DEF SessionAtRest, Waiting
  <2> QED
    BY <2>1, <2>2, <2>3
    DEF OutcomeGiven, StillValid, RequestInProgress, Published, MagicUntilGivenUp, BurstIsCoherent,
        StaysAtGate, HeldAtGate, SuccessIsFinished, TakenTakesNothingUp
<1>5. ASSUME NEW label \in Before, Go(k, label),
             mb' \in {mb, [mb EXCEPT !.grant = 0], [mb EXCEPT !.color = k.wire]},
             UNCHANGED <<pru, pins, clk>>,
             label \in {"publishColor", "publishSeq"} => clk /\ mb'.grant = 0,
             label = "publishSeq" => mb'.color = k.wire
      PROVE  FirmwareInv' /\ CallInv'
  <2>1. k' = [k EXCEPT !.pc = label] BY <1>5 DEF Go
  <2>2. /\ k'.pc = label /\ k'.wire = k.wire /\ k'.lens = k.lens /\ k'.seq = k.seq
        /\ k'.result = "none"
    BY <1>0, <1>3, <2>1 DEF Kernel
  <2>3. /\ mb'.magic = mb.magic /\ mb'.err = mb.err /\ mb'.status = mb.status
        /\ mb'.ready = mb.ready /\ mb'.lens = mb.lens /\ mb'.req = mb.req
        /\ mb'.acc = mb.acc /\ mb'.comp = mb.comp /\ (mb'.grant = 0 \/ mb'.grant = mb.grant)
    BY <1>0, <1>5 DEF Mailbox
  <2>4. FirmwareInv'
    BY <1>2, <1>5, <2>3
    DEF FirmwareInv, MagicMeansAlive, BootIsFresh, OneRequest, GateWords, SentInOrder,
        FaultsAreOwn, StatusAndPins, Waiting, BootLabel, BankLabel, LastLabel, AcceptedLabel,
        EngagedLabel
  <2>5. StillValid' BY <1>2, <1>5, <2>2, <2>3 DEF StillValid, Waiting
  <2> QED
    BY <1>5, <2>2, <2>4, <2>5
    DEF OutcomeGiven, SessionAtRest, RequestInProgress, Published, MagicUntilGivenUp,
        BurstIsCoherent, StaysAtGate, HeldAtGate, SuccessIsFinished, TakenTakesNothingUp
<1>6. CASE PreflightFails BY <1>4, <1>6 DEF PreflightFails, TouchNothing
<1>7. CASE PreflightPasses BY <1>5, <1>7 DEF PreflightPasses, TouchNothing
<1>8. CASE PublishGrant
  <2>1. CASE clk /\ Go(k, "publishColor") /\ Touch([mb EXCEPT !.grant = 0])
    <3>1. mb' = [mb EXCEPT !.grant = 0] /\ mb'.grant = 0 BY <1>0, <2>1 DEF Touch, Mailbox
    <3> QED BY <1>5, <2>1, <3>1 DEF Touch
  <2>2. CASE Return(k, "rejected") /\ TouchNothing BY <1>4, <2>2 DEF TouchNothing
  <2> QED BY <1>8, <2>1, <2>2 DEF PublishGrant
<1>9. CASE PublishColor
  <2>1. mb' = [mb EXCEPT !.color = k.wire] BY <1>9 DEF PublishColor, Touch
  <2>2. clk /\ mb.grant = 0 BY <1>9 DEF PublishColor, StillValid
  <2>3. mb'.color = k.wire /\ mb'.grant = 0 BY <1>0, <2>1, <2>2 DEF Mailbox
  <2>4. Go(k, "publishSeq") /\ UNCHANGED <<pru, pins, clk>> BY <1>9 DEF PublishColor, Touch
  <2> QED BY <1>5, <2>1, <2>2, <2>3, <2>4
<1>10. CASE PublishSeq
  <2>1. /\ k'.pc = "gateStatus" /\ k'.seq = k.seq /\ k'.wire = k.wire /\ k'.lens = k.lens
        /\ k'.result = "none"
    BY <1>0, <1>3, <1>10 DEF PublishSeq, AwaitGate, Go, Kernel
  <2>2. mb' = [mb EXCEPT !.req = k.seq] /\ UNCHANGED <<pru, pins, clk>>
    BY <1>10 DEF PublishSeq, Touch
  <2>3. /\ mb'.magic = mb.magic /\ mb'.err = mb.err /\ mb'.status = mb.status
        /\ mb'.ready = mb.ready /\ mb'.lens = mb.lens /\ mb'.req = k.seq
        /\ mb'.acc = mb.acc /\ mb'.comp = mb.comp /\ mb'.grant = mb.grant
        /\ mb'.color = mb.color
    BY <1>0, <2>2 DEF Mailbox
  <2>4. mb.grant = 0 /\ mb.color = k.wire BY <1>10 DEF PublishSeq, StillValid
  <2>5. FirmwareInv'
    BY <1>2, <2>2, <2>3, <2>4
    DEF FirmwareInv, MagicMeansAlive, BootIsFresh, OneRequest, GateWords, SentInOrder,
        FaultsAreOwn, StatusAndPins, Waiting, BootLabel, BankLabel, LastLabel, AcceptedLabel,
        EngagedLabel
  <2>6. NotTaken' BY <1>2, <1>3, <2>1, <2>2, <2>3 DEF NotTaken, Waiting
  <2>7. RequestInProgress'
    BY <1>2, <2>1, <2>2, <2>3, <2>4, <2>6
    DEF RequestInProgress, Waiting, BootLabel, EngagedLabel, AcceptedLabel, BankLabel, LastLabel
  <2> QED
    BY <1>2, <2>1, <2>2, <2>3, <2>5, <2>7
    DEF OutcomeGiven, SessionAtRest, StillValid, MagicUntilGivenUp, Waiting,
        BurstIsCoherent, StaysAtGate, HeldAtGate, SuccessIsFinished, TakenTakesNothingUp
<1> QED BY <1>6, <1>7, <1>8, <1>9, <1>10


\* A bank read as awaited for this request: the firmware is held at its gate.
LEMMA AwaitedMeansHeld ==
  ASSUME QuietInv, FirmwareInv, CallInv, k.pc = "gateWord", k.match, k.bank # 4,
         mb.ready = k.bank
  PROVE  pru.pc = "gate" /\ pru.bank = k.bank /\ mb.grant < k.bank
<1>1. k.pc \in PublishedLabels /\ mb.ready # 0
  BY WordRanges DEF QuietInv, PublishedLabels
<1>2. mb.magic /\ clk
  BY <1>1, PublishedIs DEF CallInv, MagicUntilGivenUp, BurstIsCoherent, PublishedLabels
<1>3. pru.pc \notin {"reset", "poll", "grantCheck", "clearReady", "fatal", "fatalStatus"}
      /\ pru.pc \notin BootLabel
  BY <1>1, PublishedIs DEF CallInv, RequestInProgress, NotTaken, Finished, K
<1>4. pru.pc \in {"gate", "release"} /\ mb.ready = pru.bank
  BY <1>1, <1>3
  DEF FirmwareInv, GateWords, AcceptedLabel, BankLabel, LastLabel, BootLabel, QuietInv, TypeOK,
      Pru, PruLabel
<1>5. Executing
  BY <1>1, <1>2, <1>4, PublishedIs
  DEF Executing, FirmwareInv, MagicMeansAlive, CallInv, TakenTakesNothingUp
<1>6. ~Open
  BY <1>5 DEF QuietInv, Handshake, OpenOnlyInWindow, Window
<1> QED
  BY <1>4, <1>6, WordRanges DEF Open, Streaming, QuietInv

\* A completion read for this request: the firmware has finished it.
LEMMA CompletedMeansFinished ==
  ASSUME CallInv, k.pc = "gateWord", k.match, Final, mb.comp = k.seq
  PROVE  Finished
<1>1. k.pc \in Published BY PublishedIs DEF PublishedLabels
<1> QED
  BY <1>1 DEF CallInv, BurstIsCoherent, RequestInProgress, NotTaken, K

LEMMA GateKernel ==
  ASSUME QuietInv, FirmwareInv, CallInv,
         GateTimeout \/ GateReadStatus \/ GateReadError \/ GateReadAccepted \/ GateReadWord
  PROVE  FirmwareInv' /\ CallInv'
<1>0. k \in Kernel BY DEF QuietInv, TypeOK
<1>1. /\ UNCHANGED <<mb, pru, pins, clk>>
      /\ k.pc \in PublishedLabels /\ k.pc # "clear" /\ k'.pc \in PublishedLabels
      /\ k'.seq = k.seq /\ k'.wire = k.wire /\ k'.lens = k.lens /\ k'.result = k.result
      /\ k'.bank = k.bank
  <2> USE DEF K, Go, TouchNothing, Kernel, PublishedLabels
  <2>1. CASE GateTimeout BY <1>0, <2>1 DEF GateTimeout
  <2>2. CASE GateReadStatus BY <1>0, <2>2 DEF GateReadStatus
  <2>3. CASE GateReadError BY <1>0, <2>3 DEF GateReadError
  <2>4. CASE GateReadAccepted BY <1>0, <2>4 DEF GateReadAccepted
  <2>5. CASE GateReadWord
    <3>1. CASE k.bad BY <1>0, <2>5, <3>1 DEF GateReadWord
    <3>2. CASE ~k.bad /\ GateMatches
      <4>1. CASE Go([k EXCEPT !.err = "fail"], "snapshot")
        BY <1>0, <2>5, <4>1 DEF GateReadWord
      <4>2. CASE Go([k EXCEPT !.match = FALSE, !.tries = 0], IF Final THEN "snapshot" ELSE "mask")
        BY <1>0, <2>5, <4>2 DEF GateReadWord
      <4> QED BY <2>5, <3>2, <4>1, <4>2 DEF GateReadWord
    <3>3. CASE ~k.bad /\ ~GateMatches BY <1>0, <2>5, <3>3 DEF GateReadWord
    <3> QED BY <3>1, <3>2, <3>3
  <2> QED BY <2>1, <2>2, <2>3, <2>4, <2>5
<1>2. FirmwareInv' /\ OutcomeGiven' /\ SessionAtRest' /\ StillValid' /\ RequestInProgress' /\ TakenTakesNothingUp'
  BY <1>1, PublishedIs, FirmwareInvKept, RequestCarried
<1>3. ASSUME MagicUntilGivenUp', BurstIsCoherent', StaysAtGate', SuccessIsFinished'
      PROVE  FirmwareInv' /\ CallInv'
  BY <1>2, <1>3 DEF CallInv
<1>4. k.pc \in {"gateStatus", "gateError", "gateAccepted", "gateWord"} /\ mb.magic
  BY <1>1, PublishedIs
  DEF GateTimeout, GateReadStatus, GateReadError, GateReadAccepted, GateReadWord, K, CallInv,
      MagicUntilGivenUp
<1> USE DEF MagicUntilGivenUp, BurstIsCoherent, StaysAtGate, HeldAtGate, SuccessIsFinished, K
<1>5. CASE GateTimeout
  <2>1. k'.pc = "snapshot" /\ k'.err = "fail" BY <1>0, <1>5 DEF GateTimeout, Go, Kernel
  <2> QED BY <1>1, <1>3, <1>4, <2>1
<1>6. CASE GateReadStatus
  <2>1. /\ k'.pc = "gateError" /\ clk
        /\ k'.match = (mb.status = IF Final THEN "DONE" ELSE "WAIT_BANK")
    BY <1>0, <1>6 DEF GateReadStatus, Go, Kernel
  <2>2. k'.match /\ Final' => mb.status = "DONE" BY <1>1, <2>1 DEF Final
  <2>3. k'.match /\ Final' => pru.pc \notin {"complete", "doneStatus"}
    BY <2>2 DEF FirmwareInv, StatusAndPins, LastLabel
  <2> QED BY <1>1, <1>3, <1>4, <2>1, <2>3
<1>7. CASE GateReadError
  <2>1. k'.pc = "gateAccepted" /\ k'.match = k.match /\ k.pc = "gateError"
    BY <1>0, <1>7 DEF GateReadError, Go, Kernel
  <2> QED BY <1>1, <1>3, <1>4, <2>1 DEF CallInv, Final
<1>8. CASE GateReadAccepted
  <2>1. k'.pc = "gateWord" /\ k'.match = (k.match /\ mb.acc = k.seq) /\ k.pc = "gateAccepted"
    BY <1>0, <1>8 DEF GateReadAccepted, Go, Kernel
  <2> QED BY <1>1, <1>3, <1>4, <2>1 DEF CallInv, Final
<1>9. CASE GateReadWord
  <2>1. k.pc = "gateWord" BY <1>9 DEF GateReadWord
  <2>2. CASE k'.pc = "snapshot" /\ k'.err = "fail" BY <1>1, <1>3, <1>4, <2>2
  <2>3. CASE GateMatches /\ Final /\ k'.pc = "snapshot"
    <3>1. Finished BY <2>1, <2>3, CompletedMeansFinished DEF GateMatches
    <3>2. Finished' BY <1>1, <3>1 DEF Finished, Waiting
    <3> QED BY <1>1, <1>3, <1>4, <2>3, <3>2
  <2>4. CASE GateMatches /\ ~Final /\ k'.pc = "mask"
    <3>1. pru.pc = "gate" /\ pru.bank = k.bank /\ mb.grant < k.bank
      BY <2>1, <2>4, AwaitedMeansHeld DEF GateMatches, Final
    <3> QED BY <1>1, <1>3, <1>4, <2>4, <3>1
  <2>5. CASE k'.pc = "gateStatus" BY <1>1, <1>3, <1>4, <2>5
  <2>6. \/ k'.pc = "snapshot" /\ k'.err = "fail"
        \/ GateMatches /\ k'.pc = IF Final THEN "snapshot" ELSE "mask"
        \/ k'.pc = "gateStatus"
    BY <1>0, <1>9 DEF GateReadWord, Go, Kernel
  <2> QED BY <2>2, <2>3, <2>4, <2>5, <2>6
<1> QED BY <1>5, <1>6, <1>7, <1>8, <1>9


\* The steps that leave the block and the firmware alone.
LEMMA BankKernel ==
  ASSUME QuietInv, FirmwareInv, CallInv,
         \/ AdmissionTimeout \/ MaskInterrupts \/ RefuseBank \/ PauseCpsw \/ DrainFails
         \/ CpswDrained \/ Warm \/ SpinEnds \/ Observe \/ RestoreCpsw \/ Unmask
  PROVE  FirmwareInv' /\ CallInv'
<1>0. k \in Kernel BY DEF QuietInv, TypeOK
<1> DEFINE Carried == /\ UNCHANGED <<mb, pru, pins, clk>>
                      /\ k.pc \in PublishedLabels /\ k.pc # "clear" /\ k'.pc \in PublishedLabels
                      /\ k'.seq = k.seq /\ k'.wire = k.wire /\ k'.lens = k.lens
                      /\ k'.result = k.result
           Shown == MagicUntilGivenUp' /\ BurstIsCoherent' /\ StaysAtGate' /\ SuccessIsFinished'
<1>1. ASSUME Carried, Shown PROVE FirmwareInv' /\ CallInv'
  BY <1>1, PublishedIs, FirmwareInvKept, RequestCarried DEF CallInv
<1>2. ASSUME Carried, k.pc \in {"mask", "check", "drain", "warm"}, k'.bank = k.bank,
             \/ k'.pc \in {"check", "drain", "warm", "grant"}
             \/ k'.pc = "withdraw"
             \/ k'.pc = "snapshot" /\ k'.err = "fail"
      PROVE  FirmwareInv' /\ CallInv'
  <2>1. mb.magic /\ pru.pc = "gate" /\ pru.bank = k.bank /\ mb.grant < k.bank
    BY <1>2, PublishedIs DEF CallInv, MagicUntilGivenUp, StaysAtGate, HeldAtGate
  <2>2. Shown
    BY <1>2, <2>1
    DEF MagicUntilGivenUp, BurstIsCoherent, StaysAtGate, HeldAtGate, SuccessIsFinished, K
  <2> QED BY <1>1, <1>2, <2>2
<1> USE <1>0 DEF K, Go, TouchNothing, TouchHw, Kernel, PublishedLabels
<1>3. CASE AdmissionTimeout BY <1>2, <1>3 DEF AdmissionTimeout
<1>4. CASE MaskInterrupts BY <1>2, <1>4 DEF MaskInterrupts
<1>5. CASE RefuseBank BY <1>2, <1>5 DEF RefuseBank
<1>6. CASE PauseCpsw BY <1>2, <1>6 DEF PauseCpsw
<1>7. CASE DrainFails BY <1>2, <1>7 DEF DrainFails
<1>8. CASE CpswDrained BY <1>2, <1>8 DEF CpswDrained
<1>9. CASE Warm BY <1>2, <1>9 DEF Warm
<1>10. CASE SpinEnds \/ Observe
  <2>1. Carried /\ k.pc \in {"spin", "observe"} /\ k'.pc \in {"observe", "withdraw"}
        /\ k'.granted = k.granted
    BY <1>10 DEF SpinEnds, Observe
  <2>2. k.granted BY <2>1 DEF QuietInv, GrantedFlag
  <2>3. mb.magic BY <2>1, PublishedIs DEF CallInv, MagicUntilGivenUp
  <2>4. Shown
    BY <2>1, <2>2, <2>3
    DEF MagicUntilGivenUp, BurstIsCoherent, StaysAtGate, HeldAtGate, SuccessIsFinished
  <2> QED BY <1>1, <2>1, <2>4
<1>11. CASE RestoreCpsw
  <2>1. Carried /\ k.pc = "restore" /\ k'.pc = "unmask" /\ k'.granted = k.granted
        /\ k'.bank = k.bank /\ (k'.err = k.err \/ k'.err = "fail")
    BY <1>11 DEF RestoreCpsw
  <2>2. Shown
    BY <2>1
    DEF CallInv, MagicUntilGivenUp, BurstIsCoherent, StaysAtGate, HeldAtGate, SuccessIsFinished
  <2> QED BY <1>1, <2>1, <2>2
<1>12. CASE Unmask
  <2>1. Carried /\ k.pc = "unmask" /\ k'.err = k.err
        /\ \/ k'.pc = "gateStatus" /\ k.err = "none"
           \/ k'.pc = "mask" /\ ~k.granted /\ k'.bank = k.bank
           \/ k'.pc = "snapshot" /\ k.err # "none"
    <3>1. CASE k.err = "none" BY <1>12, <3>1 DEF Unmask, AwaitGate
    <3>2. CASE k.err # "none" BY <1>12, <3>2 DEF Unmask
    <3> QED BY <3>1, <3>2
  <2>2. Shown
    BY <2>1
    DEF CallInv, MagicUntilGivenUp, BurstIsCoherent, StaysAtGate, HeldAtGate, SuccessIsFinished
  <2> QED BY <1>1, <2>1, <2>2
<1> QED BY <1>3, <1>4, <1>5, <1>6, <1>7, <1>8, <1>9, <1>10, <1>11, <1>12

\* The grant, to the firmware held at this bank; the withdrawal after a failure.
LEMMA GrantKernel ==
  ASSUME QuietInv, FirmwareInv, CallInv, Grant \/ WithdrawPru
  PROVE  FirmwareInv' /\ CallInv'
<1>0. k \in Kernel /\ mb \in Mailbox /\ pru \in Pru BY DEF QuietInv, TypeOK
<1> USE DEF K, Go, PublishedLabels
<1>1. CASE Grant
  <2>1. /\ k.pc = "grant" /\ k' = [k EXCEPT !.granted = TRUE, !.pc = "spin"]
        /\ mb' = [mb EXCEPT !.grant = k.bank] /\ UNCHANGED <<pru, pins, clk>>
    BY <1>1, <1>0 DEF Grant, Touch, Kernel
  <2>2. /\ k'.pc = "spin" /\ k'.seq = k.seq /\ k'.wire = k.wire /\ k'.lens = k.lens
        /\ k'.result = k.result
    BY <1>0, <2>1 DEF Kernel
  <2>3. pru.pc = "gate" /\ pru.bank = k.bank /\ mb.magic
    BY <2>1, PublishedIs DEF CallInv, StaysAtGate, HeldAtGate, MagicUntilGivenUp
  <2>4. /\ mb'.req = mb.req /\ mb'.color = mb.color /\ mb'.lens = mb.lens /\ mb'.acc = mb.acc
        /\ mb'.comp = mb.comp /\ mb'.ready = mb.ready /\ mb'.status = mb.status
        /\ mb'.done = mb.done /\ mb'.magic = mb.magic /\ mb'.err = mb.err /\ mb'.grant = pru.bank
    BY <1>0, <2>1, <2>3 DEF Mailbox
  <2>5. FirmwareInv'
    BY <2>1, <2>3, <2>4, WordRanges
    DEF FirmwareInv, MagicMeansAlive, BootIsFresh, OneRequest, GateWords, SentInOrder, QuietInv,
        FaultsAreOwn, StatusAndPins, BootLabel, BankLabel, LastLabel, AcceptedLabel, EngagedLabel
  <2>6. OutcomeGiven' /\ SessionAtRest' /\ StillValid' /\ RequestInProgress' /\ TakenTakesNothingUp'
    BY <2>1, <2>2, <2>3, <2>4, PublishedIs, RequestCarried
  <2> QED
    BY <2>2, <2>3, <2>4, <2>5, <2>6
    DEF CallInv, MagicUntilGivenUp, BurstIsCoherent, StaysAtGate, HeldAtGate, SuccessIsFinished
<1>2. CASE WithdrawPru
  <2>1. /\ k.pc = "withdraw" /\ k' = [k EXCEPT !.pc = "restore"]
        /\ UNCHANGED <<pins, clk>>
        /\ \/ /\ k.err # "none" /\ k.granted
              /\ mb' = [mb EXCEPT !.magic = FALSE] /\ pru' = [pru EXCEPT !.en = FALSE]
           \/ mb' = mb /\ pru' = pru
    BY <1>2 DEF WithdrawPru, TouchNothing
  <2>2. /\ k'.pc = "restore" /\ k'.seq = k.seq /\ k'.wire = k.wire /\ k'.lens = k.lens
        /\ k'.result = k.result /\ k'.granted = k.granted /\ k'.err = k.err /\ k'.bank = k.bank
    BY <1>0, <2>1 DEF Kernel
  <2>3. /\ mb'.req = mb.req /\ mb'.color = mb.color /\ mb'.lens = mb.lens /\ mb'.acc = mb.acc
        /\ mb'.comp = mb.comp /\ mb'.ready = mb.ready /\ mb'.status = mb.status
        /\ mb'.done = mb.done /\ mb'.err = mb.err /\ mb'.grant = mb.grant
        /\ pru'.pc = pru.pc /\ pru'.r3 = pru.r3 /\ pru'.r4 = pru.r4 /\ pru'.sent = pru.sent
        /\ pru'.run = pru.run /\ pru'.bank = pru.bank /\ pru'.det = pru.det
        /\ pru'.taken = pru.taken
        /\ \/ k.err # "none" /\ k.granted /\ ~mb'.magic /\ ~pru'.en
           \/ mb'.magic = mb.magic /\ pru'.en = pru.en
    BY <1>0, <2>1 DEF Mailbox, Pru
  <2>4. FirmwareInv'
    BY <2>1, <2>3
    DEF FirmwareInv, MagicMeansAlive, BootIsFresh, OneRequest, GateWords, SentInOrder,
        FaultsAreOwn, StatusAndPins, BootLabel, BankLabel, LastLabel, AcceptedLabel, EngagedLabel
  <2>5. OutcomeGiven' /\ SessionAtRest' /\ StillValid' /\ RequestInProgress' /\ TakenTakesNothingUp'
    BY <2>1, <2>2, <2>3, PublishedIs, RequestCarried
  <2>6. mb.magic BY <2>1, PublishedIs DEF CallInv, MagicUntilGivenUp
  <2> QED
    BY <2>1, <2>2, <2>3, <2>4, <2>5, <2>6
    DEF CallInv, MagicUntilGivenUp, BurstIsCoherent, StaysAtGate, HeldAtGate, SuccessIsFinished
<1> QED BY <1>1, <1>2

\* The end of the frame, in success or after the cleanup.
LEMMA EndKernel ==
  ASSUME QuietInv, FirmwareInv, CallInv,
         Snapshot \/ DisablePrus \/ StopPrus \/ ClearPins \/ CopyOut
  PROVE  FirmwareInv' /\ CallInv'
<1>0. k \in Kernel /\ mb \in Mailbox /\ pru \in Pru BY DEF QuietInv, TypeOK
<1> USE DEF K, Go, TouchNothing, TouchHw, PublishedLabels
<1>1. ASSUME k'.pc \in Outside, SessionAtRest', OutcomeGiven' PROVE CallInv'
  BY <1>1
  DEF CallInv, StillValid, RequestInProgress, Published, Outside, Before, MagicUntilGivenUp,
      BurstIsCoherent, StaysAtGate, HeldAtGate, SuccessIsFinished, TakenTakesNothingUp
<1>2. CASE Snapshot
  <2>1. UNCHANGED <<mb, pru, pins, clk>> /\ k.pc = "snapshot" BY <1>2 DEF Snapshot
  <2>2. FirmwareInv' BY <2>1, FirmwareInvKept
  <2>3. CASE k.err = "none" /\ clk /\ Return(k, "ok")
    <3>1. k'.pc = "return" /\ k'.result = "ok" BY <2>3, ReturnFields
    <3>2. Waiting BY <2>1, <2>3 DEF CallInv, SuccessIsFinished, Finished
    <3> QED BY <1>1, <2>1, <2>2, <3>1, <3>2 DEF SessionAtRest, OutcomeGiven, Waiting, Outside
  <2>4. CASE Go([k EXCEPT !.err = "fail"], "disable")
    <3>1. /\ k'.pc = "disable" /\ k'.seq = k.seq /\ k'.wire = k.wire /\ k'.lens = k.lens
          /\ k'.result = k.result
      BY <1>0, <2>4 DEF Kernel
    <3>2. OutcomeGiven' /\ SessionAtRest' /\ StillValid' /\ RequestInProgress' /\ TakenTakesNothingUp'
      BY <2>1, <3>1, PublishedIs, RequestCarried
    <3> QED
      BY <2>2, <3>1, <3>2
      DEF CallInv, MagicUntilGivenUp, BurstIsCoherent, StaysAtGate, HeldAtGate, SuccessIsFinished
  <2> QED BY <1>2, <2>3, <2>4 DEF Snapshot
<1>3. CASE DisablePrus
  <2>1. /\ k'.pc = "stop" /\ k'.seq = k.seq /\ k'.wire = k.wire /\ k'.lens = k.lens
        /\ k'.result = k.result /\ k.pc = "disable" /\ UNCHANGED <<pins, clk>>
    BY <1>0, <1>3 DEF DisablePrus, Kernel
  <2>2. /\ mb'.req = mb.req /\ mb'.color = mb.color /\ mb'.lens = mb.lens /\ mb'.acc = mb.acc
        /\ mb'.comp = mb.comp /\ mb'.ready = mb.ready /\ mb'.status = mb.status
        /\ mb'.done = mb.done /\ mb'.err = mb.err /\ mb'.grant = mb.grant
        /\ pru'.pc = pru.pc /\ pru'.r3 = pru.r3 /\ pru'.r4 = pru.r4 /\ pru'.sent = pru.sent
        /\ pru'.run = pru.run /\ pru'.bank = pru.bank /\ pru'.det = pru.det
        /\ pru'.taken = pru.taken
        /\ \/ clk /\ ~mb'.magic /\ ~pru'.en
           \/ ~clk /\ mb' = mb /\ pru' = pru
    BY <1>0, <1>3 DEF DisablePrus, Mailbox, Pru
  <2>3. FirmwareInv'
    BY <2>1, <2>2
    DEF FirmwareInv, MagicMeansAlive, BootIsFresh, OneRequest, GateWords, SentInOrder,
        FaultsAreOwn, StatusAndPins, BootLabel, BankLabel, LastLabel, AcceptedLabel, EngagedLabel
  <2>4. OutcomeGiven' /\ SessionAtRest' /\ StillValid' /\ RequestInProgress' /\ TakenTakesNothingUp'
    BY <2>1, <2>2, PublishedIs, RequestCarried
  <2> QED
    BY <2>1, <2>2, <2>3, <2>4
    DEF CallInv, MagicUntilGivenUp, BurstIsCoherent, StaysAtGate, HeldAtGate, SuccessIsFinished
<1>4. CASE StopPrus
  <2>1. /\ k'.pc = "clear" /\ k'.seq = k.seq /\ k'.wire = k.wire /\ k'.lens = k.lens
        /\ k'.result = k.result /\ k.pc = "stop" /\ UNCHANGED <<mb, pins, clk>>
    BY <1>0, <1>4 DEF StopPrus, Kernel
  <2>2. \/ clk /\ pru'.pc = "reset" /\ ~pru'.en /\ ~pru'.run /\ pru'.det = pru.det
        \/ pru' = pru
    BY <1>0, <1>4 DEF StopPrus, Pru
  <2>3. CASE pru' = pru
    <3>1. FirmwareInv' BY <2>1, <2>3, FirmwareInvKept
    <3>2. OutcomeGiven' /\ SessionAtRest' /\ StillValid' /\ RequestInProgress' /\ TakenTakesNothingUp'
      BY <2>1, <2>3, PublishedIs, RequestCarried
    <3> QED
      BY <2>1, <3>1, <3>2
      DEF CallInv, MagicUntilGivenUp, BurstIsCoherent, StaysAtGate, HeldAtGate, SuccessIsFinished
  <2>4. CASE clk /\ pru'.pc = "reset" /\ ~pru'.en /\ ~pru'.run /\ pru'.det = pru.det
    <3>0. ~mb.magic BY <2>1, <2>4 DEF CallInv, MagicUntilGivenUp
    <3>1. FirmwareInv'
      BY <2>1, <2>4, <3>0
      DEF FirmwareInv, MagicMeansAlive, BootIsFresh, OneRequest, GateWords, SentInOrder,
          FaultsAreOwn, StatusAndPins, BootLabel, BankLabel, LastLabel, AcceptedLabel, EngagedLabel
    <3>2. RequestInProgress'
      BY <2>1, <2>4, PublishedIs
      DEF CallInv, RequestInProgress, BootLabel, EngagedLabel, AcceptedLabel, BankLabel, LastLabel
    <3> QED
      BY <2>1, <2>4, <3>1, <3>2
      DEF CallInv, OutcomeGiven, SessionAtRest, StillValid, Outside, Before, MagicUntilGivenUp,
          BurstIsCoherent, StaysAtGate, HeldAtGate, SuccessIsFinished, TakenTakesNothingUp
  <2> QED BY <2>2, <2>3, <2>4
<1>5. CASE ClearPins
  <2>1. /\ k'.pc = "return" /\ k'.result = "failed" /\ k.pc = "clear"
        /\ UNCHANGED <<mb, pru, clk>> /\ (pins' = pins \/ ~pins')
    BY <1>5, ReturnFields DEF ClearPins
  <2>2. FirmwareInv'
    <3>1. CASE pins' = pins BY <2>1, <3>1, FirmwareInvKept
    <3>2. CASE ~pins'
      BY <2>1, <3>2
      DEF FirmwareInv, MagicMeansAlive, BootIsFresh, OneRequest, GateWords, SentInOrder,
          FaultsAreOwn, StatusAndPins
    <3> QED BY <2>1, <3>1, <3>2
  <2> QED BY <1>1, <2>1, <2>2 DEF CallInv, MagicUntilGivenUp, SessionAtRest, OutcomeGiven, Outside
<1>6. CASE CopyOut
  <2>1. k.pc = "return" /\ k'.pc = "idle" /\ k'.result = "none" /\ UNCHANGED <<mb, pru, pins, clk>>
    BY <1>6 DEF CopyOut, Idle
  <2> QED
    BY <1>1, <2>1, FirmwareInvKept
    DEF CallInv, SessionAtRest, OutcomeGiven, Outside, Waiting
<1> QED BY <1>2, <1>3, <1>4, <1>5, <1>6


-----------------------------------------------------------------------------
(* The other steps, and the invariant.                                     *)

LEMMA AdmittedIsAtRest ==
  ASSUME QuietInv, FirmwareInv, CallInv, k.pc = "idle", clk,
         NEW lens \in Layouts, NEW prev \in Seqs, Validate(mb, lens, prev) = "OK"
  PROVE  /\ mb.magic /\ mb.err = "NONE" /\ mb.status \in {"READY", "DONE"} /\ mb.ready = 0
         /\ mb.lens = lens /\ mb.req = prev /\ mb.acc = prev /\ mb.comp = prev
         /\ pru.pc = "reset" \/ Waiting
<1>1. /\ mb.magic /\ mb.err = "NONE" /\ mb.status \in {"READY", "DONE"} /\ mb.ready = 0
      /\ mb.lens = lens /\ mb.req = prev /\ mb.acc = prev /\ mb.comp = prev
  BY DEF Validate, Outstanding
<1>2. SessionAtRest BY DEF CallInv
<1> QED
  BY <1>1, <1>2 DEF SessionAtRest, Outside, FirmwareInv, BootIsFresh, FaultsAreOwn

LEMMA FrameCall ==
  ASSUME QuietInv, FirmwareInv, CallInv,
         NEW wire \in Colors, NEW lens \in Layouts, NEW prev \in Seqs, Call(wire, lens, prev)
  PROVE  FirmwareInv' /\ CallInv'
<1>1. k.pc = "idle" /\ UNCHANGED <<mb, pru, pins, clk>> BY DEF Call, K, TouchNothing
<1>2. FirmwareInv' BY <1>1, FirmwareInvKept
<1>3. CASE Return(Idle, "rejected")
  <2>1. k'.pc = "return" /\ k'.result = "rejected" BY <1>3, ReturnFields
  <2> QED
    BY <1>1, <1>2, <2>1
    DEF CallInv, OutcomeGiven, SessionAtRest, Waiting, StillValid, RequestInProgress, Published,
        Outside, Before, MagicUntilGivenUp, BurstIsCoherent, StaysAtGate, HeldAtGate,
        SuccessIsFinished, TakenTakesNothingUp, K
<1>4. CASE clk /\ Validate(mb, lens, prev) = "OK"
  <2>1. k' = [Idle EXCEPT !.pc = "preflight", !.wire = wire, !.lens = lens, !.seq = NextSeq(prev)]
    BY <1>4 DEF Call
  <2>2. /\ k'.pc = "preflight" /\ k'.lens = lens /\ k'.seq = NextSeq(prev)
        /\ k'.result = "none"
    BY <2>1 DEF Idle
  <2>3. StillValid'
    BY <1>1, <1>4, <2>2, AdmittedIsAtRest DEF StillValid, Waiting, K
  <2> QED
    BY <1>2, <2>2, <2>3
    DEF CallInv, OutcomeGiven, SessionAtRest, RequestInProgress, Published,
        Outside, Before, MagicUntilGivenUp, BurstIsCoherent, StaysAtGate, HeldAtGate,
        SuccessIsFinished, TakenTakesNothingUp, K
<1> QED BY <1>3, <1>4 DEF Call

LEMMA FrameInit ==
  ASSUME QuietInv, FirmwareInv, CallInv, InitNext
  PROVE  FirmwareInv' /\ CallInv'
<1>0. mb \in Mailbox /\ pru \in Pru BY DEF QuietInv, TypeOK
<1>1. k.pc = "idle" /\ k' = k /\ clk' = clk
  BY DEF InitNext, InitDisable, InitReset, InitErase, Touch, InitStart, InitKilled, K
<1>2. ASSUME SessionAtRest' PROVE CallInv'
  BY <1>1, <1>2
  DEF CallInv, OutcomeGiven, StillValid, RequestInProgress, Published,
      Outside, Before, MagicUntilGivenUp, BurstIsCoherent, StaysAtGate, HeldAtGate,
      SuccessIsFinished, TakenTakesNothingUp, K
<1> USE DEF FirmwareInv, MagicMeansAlive, BootIsFresh, OneRequest, GateWords, SentInOrder,
            FaultsAreOwn, StatusAndPins, BootLabel, BankLabel, LastLabel, AcceptedLabel,
            EngagedLabel
<1>3. CASE InitDisable
  <2>1. /\ pru'.pc = pru.pc /\ pru'.r3 = pru.r3 /\ pru'.r4 = pru.r4 /\ pru'.sent = pru.sent
        /\ pru'.run = pru.run /\ pru'.bank = pru.bank /\ pru'.det = pru.det
        /\ ~pru'.en /\ pru'.taken /\ mb' = mb /\ pins' = pins
    BY <1>0, <1>3 DEF InitDisable, Pru
  <2>2. FirmwareInv' BY <2>1
  <2>3. SessionAtRest' BY <1>1, <2>1 DEF CallInv, SessionAtRest, Waiting
  <2> QED BY <1>2, <2>2, <2>3
<1>a. CASE InitReset
  <2>1. /\ pru'.pc = "reset" /\ ~pru'.en /\ ~pru'.run /\ pru'.taken /\ pru'.det = pru.det
        /\ mb' = mb
    BY <1>0, <1>a DEF InitReset, Pru
  <2>2. FirmwareInv' BY <2>1
  <2> QED BY <1>2, <2>1, <2>2 DEF SessionAtRest
<1>b. CASE InitErase
  <2>1. /\ pru' = pru /\ pru.taken /\ mb'.req = mb.req /\ mb'.color = mb.color /\ mb'.lens = mb.lens /\ mb'.acc = mb.acc
        /\ mb'.comp = mb.comp /\ mb'.ready = mb.ready /\ mb'.status = mb.status
        /\ mb'.done = mb.done /\ mb'.err = mb.err /\ mb'.grant = mb.grant /\ ~mb'.magic
        /\ pins' = pins
    BY <1>0, <1>b DEF InitErase, Touch, Mailbox
  <2>2. FirmwareInv' BY <2>1
  <2> QED BY <1>2, <2>1, <2>2 DEF SessionAtRest
<1>4. ASSUME NEW lens \in Layouts, InitStart(lens) PROVE FirmwareInv' /\ CallInv'
  <2>1. /\ pru'.pc = "boot" /\ pru'.en /\ pru'.run /\ pru'.det = "NONE" /\ ~pins' /\ ~pru'.taken
    BY <1>4 DEF InitStart, ResetPru
  <2>2. mb'.magic /\ mb'.req = 0 /\ mb'.status = "INITIALIZING"
    BY <1>0, <1>4 DEF InitStart, Populated, Mailbox
  <2>3. FirmwareInv' BY <2>1, <2>2
  <2> QED BY <1>2, <2>1, <2>3 DEF SessionAtRest
<1>5. ASSUME NEW lens \in Layouts, NEW n \in 1..4, InitKilled(n, lens)
      PROVE  FirmwareInv' /\ CallInv'
  <2>1. /\ pru'.pc = "reset" /\ ~pru'.en /\ ~pru'.run /\ pru'.det = "NONE" /\ pru'.taken
    BY <1>5 DEF InitKilled, ResetPru
  <2>2. FirmwareInv' BY <2>1
  <2> QED BY <1>2, <2>1, <2>2 DEF SessionAtRest
<1> QED BY <1>3, <1>a, <1>b, <1>4, <1>5 DEF InitNext

LEMMA FrameEnvironment ==
  ASSUME QuietInv, FirmwareInv, CallInv, Environment
  PROVE  FirmwareInv' /\ CallInv'
<1>1. UNCHANGED <<mb, pru, pins, k>> /\ (clk' = clk \/ (~clk' /\ ~Masked))
  BY DEF Environment, DmaStarts, DmaEnds, CpswStarts, CpswEnds, CpswRecovered, ClockLost, TouchHw
<1>2. FirmwareInv' BY <1>1, FirmwareInvKept
<1> QED
  BY <1>1, <1>2
  DEF CallInv, OutcomeGiven, SessionAtRest, StillValid, RequestInProgress, MagicUntilGivenUp,
      BurstIsCoherent, StaysAtGate, HeldAtGate, SuccessIsFinished, K, Waiting, NotTaken, Finished,
      Final, Masked, TakenTakesNothingUp

LEMMA FrameInvInit == Init => FrameInv
<1> SUFFICES ASSUME Init PROVE FrameInv OBVIOUS
<1>1. /\ pru.pc = "reset" /\ ~pru.en /\ ~pru.run /\ pru.det = "NONE" /\ k.pc = "idle"
      /\ ~mb.magic /\ k.result = "none"
  BY DEF Init, ResetPru, Idle
<1>2. FirmwareInv
  BY <1>1
  DEF FirmwareInv, MagicMeansAlive, BootIsFresh, OneRequest, GateWords, SentInOrder,
      FaultsAreOwn, StatusAndPins, BootLabel, BankLabel, LastLabel, AcceptedLabel, EngagedLabel
<1>3. CallInv
  BY <1>1
  DEF CallInv, OutcomeGiven, SessionAtRest, StillValid, RequestInProgress, Published,
      Outside, Before, MagicUntilGivenUp, BurstIsCoherent, StaysAtGate, HeldAtGate,
      SuccessIsFinished, TakenTakesNothingUp, K
<1> QED BY <1>2, <1>3, QuietInvInit DEF FrameInv

LEMMA FrameInvStep == FrameInv /\ [Next]_vars => FrameInv'
<1> SUFFICES ASSUME FrameInv, [Next]_vars PROVE FrameInv' OBVIOUS
<1>1. QuietInv /\ FirmwareInv /\ CallInv BY DEF FrameInv
<1>2. QuietInv' BY <1>1, QuietInvStep
<1> SUFFICES FirmwareInv' /\ CallInv' BY <1>2 DEF FrameInv
<1>3. CASE FirmwareNext
  <2>1. FirmwareInv' BY <1>1, <1>3, FirmwareInvStep DEF FirmwareNext, QuietInv
  <2> QED BY <1>1, <1>3, <2>1, CallInvFirmware
<1>4. CASE KernelStep
  BY <1>1, <1>4, BeforeKernel, GateKernel, BankKernel, GrantKernel, EndKernel DEF KernelStep
<1>5. CASE KernelNext BY <1>1, <1>4, <1>5, FrameCall DEF KernelNext
<1>6. CASE InitNext BY <1>1, <1>6, FrameInit
<1>7. CASE Environment BY <1>1, <1>7, FrameEnvironment
<1>8. CASE UNCHANGED vars
  BY <1>1, <1>8, FirmwareInvKept
  DEF vars, CallInv, OutcomeGiven, SessionAtRest, StillValid, RequestInProgress, MagicUntilGivenUp,
      BurstIsCoherent, StaysAtGate, HeldAtGate, SuccessIsFinished, K, Waiting, NotTaken, Finished,
      Final, TakenTakesNothingUp
<1> QED BY <1>3, <1>5, <1>6, <1>7, <1>8 DEF Next


-----------------------------------------------------------------------------
(* The theorems.                                                           *)

(***************************************************************************)
(* A session a command takes for usable is admitted by the kernel as well, *)
(* its firmware waits in the poll loop, or a killed dld-init left it       *)
(* disabled there or in reset, and no grant of an earlier frame is left    *)
(* that the firmware could meet (dld_check_mailbox, validate,              *)
(* REQUEST_LOOP, dld_hw_take_control).                                     *)
(***************************************************************************)
THEOREM SessionAlwaysSound == Spec => []SessionIsSound
<1>1. FrameInv => SessionIsSound
  <2> SUFFICES ASSUME FrameInv PROVE SessionIsSound OBVIOUS
  <2>1. NoGateFault BY DEF FrameInv, FirmwareInv, FaultsAreOwn, NoGateFault
  <2>2. GuardsAgree BY GuardsAlwaysAgree DEF FrameInv, QuietInv, TypeOK, GuardsAgree
  <2>3. UsableSessionIsWaiting
    <3> SUFFICES ASSUME K("idle"), clk, CheckMailbox(mb) = "OK"
                 PROVE  UsableSessionIsWaiting
      BY DEF UsableSessionIsWaiting
    <3>1. mb.magic /\ mb.err = "NONE" /\ mb.status # "INITIALIZING"
      BY DEF CheckMailbox
    <3>2. pru.pc \in {"reset"} \/ Waiting
      BY <3>1 DEF FrameInv, CallInv, SessionAtRest, Outside, K, FirmwareInv, BootIsFresh, FaultsAreOwn
    <3> QED
      BY <3>1, <3>2
      DEF FrameInv, FirmwareInv, MagicMeansAlive, Waiting, UsableSessionIsWaiting
  <2> QED BY <2>1, <2>2, <2>3 DEF SessionIsSound
<1> QED BY <1>1, FrameInvInit, FrameInvStep, PTL DEF Spec

\* Only one step grants a bank; no step but SetResumed lengthens what was sent.
LEMMA OtherStepsNeitherGrantNorSend ==
  ASSUME FrameInv, [Next]_vars, ~Grant, ~(FirmwareNext /\ SetResumed)
  PROVE  mb'.grant \in {mb.grant, 0} /\ pru'.sent \in {pru.sent, {}}
<1>0. mb \in Mailbox /\ pru \in Pru /\ TypeOK BY DEF FrameInv, QuietInv, TypeOK
<1>1. CASE FirmwareNext
  <2>1. mb'.grant = mb.grant BY <1>0, <1>1, FirmwareReads DEF FirmwareNext
  <2>2. pru'.sent \in {pru.sent, {}}
    <3>1. CASE SetRunning
      <4>1. ToBank(1) BY <3>1 DEF SetRunning
      <4> QED BY <1>0, <4>1, ToBankArrives
    <3>2. CASE ReportBank
      <4>1. ToBank(pru.bank + 1) /\ pru.bank + 1 \in 1..4
        BY <3>2 DEF ReportBank, At, FrameInv, QuietInv, Bounds, Bank
      <4> QED BY <1>0, <4>1, ToBankArrives
    <3> QED
      BY <1>0, <1>1, <3>1, <3>2
      DEF FirmwareNext, PruNext, Step, Pru, Boot, BootClear, BootReady, PollRequest, Gate,
        RunstateClears, GrantCheck, ClearReady, ClearDone, Accept, ReadColor, SetWaitBank,
        AnnounceBank, ClearGateReady, StreamEnd, FatalDetail, FatalHalt, Fatal, SettleHold,
        Complete, SetDone
  <2> QED BY <2>1, <2>2
<1>2. CASE KernelStep
  BY <1>0, <1>2
  DEF KernelStep, Touch, TouchNothing, TouchHw, Mailbox, Pru, PreflightFails, PreflightPasses,
      PublishGrant, PublishColor, PublishSeq, GateTimeout, GateReadStatus, GateReadError,
      GateReadAccepted, GateReadWord, AdmissionTimeout, MaskInterrupts, RefuseBank, PauseCpsw,
      DrainFails, CpswDrained, Warm, SpinEnds, Observe, WithdrawPru, RestoreCpsw, Unmask,
      Snapshot, DisablePrus, StopPrus, ClearPins, CopyOut
<1>3. CASE KernelNext BY <1>2, <1>3 DEF KernelNext, Call, TouchNothing
<1>4. CASE InitDisable \/ InitReset \/ InitErase
  BY <1>0, <1>4 DEF InitDisable, InitReset, InitErase, Touch, Mailbox, Pru
<1>5. ASSUME NEW lens \in Layouts, NEW n \in 1..4, pru'.sent = {}, mb' = Populated(n, lens)
      PROVE  mb'.grant \in {mb.grant, 0} /\ pru'.sent \in {pru.sent, {}}
  <2> DEFINE m1 == [mb EXCEPT !.magic = TRUE]
             m2 == [m1 EXCEPT !.lens = lens]
             m3 == [m2 EXCEPT !.color = Black, !.req = 0, !.comp = 0, !.err = "NONE",
                              !.ready = 0, !.grant = 0, !.done = 0, !.acc = 0]
             m4 == [m3 EXCEPT !.status = "INITIALIZING"]
  <2>1. m1.grant = mb.grant /\ m2.grant = mb.grant /\ m3.grant = 0 /\ m4.grant = 0
    BY <1>0 DEF Mailbox
  <2>2. mb' = <<m1, m2, m3, m4>>[n] BY <1>5 DEF Populated
  <2> HIDE DEF m1, m2, m3, m4
  <2>3. mb' \in {m1, m2, m3, m4} BY <2>2
  <2> QED BY <1>5, <2>1, <2>3
<1>6. CASE InitNext
  <2>1. ASSUME NEW lens \in Layouts, InitStart(lens)
        PROVE  mb'.grant \in {mb.grant, 0} /\ pru'.sent \in {pru.sent, {}}
    <3>1. mb' = Populated(4, lens) /\ pru'.sent = {} BY <2>1 DEF InitStart, ResetPru
    <3> QED BY <1>5, <3>1
  <2>2. ASSUME NEW n \in 1..4, NEW lens \in Layouts, InitKilled(n, lens)
        PROVE  mb'.grant \in {mb.grant, 0} /\ pru'.sent \in {pru.sent, {}}
    <3>1. mb' = Populated(n, lens) /\ pru'.sent = {} BY <2>2 DEF InitKilled, ResetPru
    <3> QED BY <1>5, <3>1
  <2> QED BY <1>4, <1>6, <2>1, <2>2 DEF InitNext
<1>7. CASE Environment
  BY <1>7 DEF Environment, DmaStarts, DmaEnds, CpswStarts, CpswEnds, CpswRecovered, ClockLost, TouchHw
<1> QED BY <1>1, <1>3, <1>6, <1>7 DEF Next, vars

\* No step but the store of the grant itself leaves "grant" for a granted window.
LEMMA OnlyGrantGrants ==
  ASSUME FrameInv, [Next]_vars, ~Grant
  PROVE  ~(K("grant") /\ k'.granted)
<1> SUFFICES ASSUME K("grant") PROVE ~k'.granted
  OBVIOUS
<1>1. ~k.granted BY DEF FrameInv, QuietInv, GrantedFlag, K
<1>2. ~KernelNext
  BY DEF KernelNext, KernelStep, Call, K, PreflightFails, PreflightPasses, PublishGrant,
      PublishColor, PublishSeq, GateTimeout, GateReadStatus, GateReadError, GateReadAccepted,
      GateReadWord, AdmissionTimeout, MaskInterrupts, RefuseBank, PauseCpsw, DrainFails,
      CpswDrained, Warm, SpinEnds, Observe, WithdrawPru, RestoreCpsw, Unmask, Snapshot,
      DisablePrus, StopPrus, ClearPins, CopyOut
<1>3. k' = k
  BY <1>2
  DEF Next, vars, K, FirmwareNext, InitNext, InitDisable, InitReset, InitErase, InitStart,
      InitKilled, Environment, DmaStarts, DmaEnds, CpswStarts, CpswEnds, CpswRecovered, ClockLost,
      TouchHw
<1> QED BY <1>1, <1>3

\* The grant goes to firmware that announced this bank for this request.
LEMMA GrantStep ==
  ASSUME FrameInv, Grant
  PROVE  /\ mb.ready = k.bank /\ mb.acc = k.seq /\ mb.grant < k.bank
         /\ mb'.grant = k.bank /\ pru' = pru
<1>1. k.pc = "grant" /\ mb' = [mb EXCEPT !.grant = k.bank] /\ pru' = pru
  BY DEF Grant, Touch, K
<1>2. pru.pc = "gate" /\ pru.bank = k.bank /\ mb.grant < k.bank
  BY <1>1 DEF FrameInv, CallInv, StaysAtGate, HeldAtGate
<1>3. mb.ready = k.bank /\ mb.acc = mb.req
  BY <1>2 DEF FrameInv, FirmwareInv, GateWords, OneRequest, AcceptedLabel, EngagedLabel, BankLabel
<1>4. mb.req = k.seq
  BY <1>1, PublishedIs DEF FrameInv, CallInv, RequestInProgress, PublishedLabels
<1> QED BY <1>1, <1>2, <1>3, <1>4 DEF FrameInv, QuietInv, TypeOK, Mailbox

\* While a frame is in progress the bank it resumes is the next in its layout.
LEMMA ResumeStep ==
  ASSUME FrameInv, FirmwareNext, SetResumed
  PROVE  /\ pru.bank \in mb.lens \ pru.sent /\ pru'.sent = pru.sent \cup {pru.bank}
         /\ \A c \in mb.lens : c < pru.bank <=> c \in pru.sent
         /\ pru.r3 = mb.req /\ mb.acc = mb.req /\ pru.r4 = mb.color /\ pru'.r4 = pru.r4
         /\ mb' = [mb EXCEPT !.status = "RUNNING"] /\ clk' = clk /\ k' = k
<1>1. pru.pc = "resume" /\ mb' = [mb EXCEPT !.status = "RUNNING"] /\ clk' = clk /\ k' = k
  BY DEF SetResumed, At, FirmwareNext
<1>2. pru'.sent = pru.sent \cup {pru.bank} /\ pru'.r4 = pru.r4
  BY DEF SetResumed, Step, FrameInv, QuietInv, TypeOK, Pru
<1>3. pru.bank \in mb.lens /\ pru.sent = {c \in mb.lens : c < pru.bank}
  BY <1>1 DEF FrameInv, FirmwareInv, SentInOrder, BankLabel
<1>4. pru.r3 = mb.req /\ mb.acc = mb.req /\ pru.r4 = mb.color
  BY <1>1 DEF FrameInv, FirmwareInv, OneRequest, AcceptedLabel, EngagedLabel, BankLabel
<1> QED BY <1>1, <1>2, <1>3, <1>4, WordRanges DEF FrameInv, QuietInv

(***************************************************************************)
(* Helper and firmware agree on one request: each bank is granted once, in *)
(* transmit order, to firmware that announced it for this very sequence,   *)
(* and what starts to stream is the next configured bank, in that          *)
(* request's colour, only while its call is in progress (spec.md 9.4).     *)
(***************************************************************************)
THEOREM RequestFollowed == Spec => RequestIsFollowed
<1>1. FrameInv /\ [Next]_vars => [GrantIsAwaited /\ StreamsTheRequest]_vars
  <2> SUFFICES ASSUME FrameInv, [Next]_vars PROVE GrantIsAwaited /\ StreamsTheRequest
    OBVIOUS
  <2>1. CASE ~Grant /\ ~(FirmwareNext /\ SetResumed)
    BY <2>1, OtherStepsNeitherGrantNorSend, OnlyGrantGrants DEF GrantIsAwaited, StreamsTheRequest
  <2>2. CASE Grant
    BY <2>2, GrantStep DEF GrantIsAwaited, StreamsTheRequest
  <2>3. CASE FirmwareNext /\ SetResumed
    <3>1. GrantIsAwaited
      <4>1. ~(K("grant") /\ k'.granted)
        BY <2>3 DEF FirmwareNext, FrameInv, QuietInv, GrantedFlag, K
      <4> QED BY <2>3, <4>1, FirmwareReads DEF GrantIsAwaited, FirmwareNext, FrameInv, QuietInv
    <3>2. CASE ~pru.en BY <3>1, <3>2 DEF StreamsTheRequest
    <3>3. CASE pru.en
      <4>1. Executing /\ Open
        BY <2>3, <3>3 DEF SetResumed, At, Executing, Open, Streaming
      <4>2. k.pc \in {"spin", "observe", "withdraw"} /\ pru.bank = k.bank
        BY <4>1 DEF FrameInv, QuietInv, Handshake, OpenOnlyInWindow, Window
      <4>3. mb.req = k.seq /\ mb.color = k.wire
        BY <4>2, PublishedIs DEF FrameInv, CallInv, RequestInProgress, PublishedLabels
      <4>4. k.pc \notin {"idle", "return"} BY <4>2
      <4>5. \E b \in mb.lens \ pru.sent :
              /\ pru'.sent = pru.sent \cup {b}
              /\ \A c \in mb.lens : c < b <=> c \in pru.sent
              /\ k.bank = b /\ pru.r3 = k.seq /\ pru.r4 = k.wire
        BY <2>3, <4>2, <4>3, ResumeStep
      <4> QED BY <3>1, <4>4, <4>5 DEF StreamsTheRequest
    <3> QED BY <3>1, <3>2, <3>3
  <2> QED BY <2>1, <2>2, <2>3
<1> QED BY <1>1, FrameInvInit, FrameInvStep, PTL DEF Spec, RequestIsFollowed


(***************************************************************************)
(* A send that returns success has sent every configured bank in its       *)
(* colour, leaves the data pins low, and leaves a session that admits the  *)
(* next send: no DONE of an earlier frame is mistaken for its own.         *)
(***************************************************************************)
THEOREM SuccessAlwaysSent == Spec => SuccessMeansSent
<1> DEFINE Sent == /\ pru.sent = k.lens /\ pru.r4 = k.wire
                   /\ pru.pc = "poll" /\ ~pins
                   /\ Validate(mb, k.lens, k.seq) = "OK"
<1>1. FrameInv /\ [Next]_vars => [K("snapshot") /\ k'.result = "ok" => Sent]_vars
  <2> SUFFICES ASSUME FrameInv, [Next]_vars, K("snapshot"), k'.result = "ok" PROVE Sent
    OBVIOUS
  <2>1. k.result = "none" /\ k \in Kernel
    BY DEF FrameInv, CallInv, OutcomeGiven, K, QuietInv, TypeOK
  <2>2. Snapshot
    BY <2>1
    DEF Next, vars, K, FirmwareNext, KernelNext, Call, KernelStep, PreflightFails, PreflightPasses,
      PublishGrant, PublishColor, PublishSeq, GateTimeout, GateReadStatus, GateReadError,
      GateReadAccepted, GateReadWord, AdmissionTimeout, MaskInterrupts, RefuseBank, PauseCpsw,
      DrainFails, CpswDrained, Warm, Grant, SpinEnds, Observe, WithdrawPru, RestoreCpsw, Unmask,
      DisablePrus, StopPrus, ClearPins, CopyOut, InitNext, InitDisable, InitReset, InitErase, Touch, InitStart, InitKilled,
      Environment, DmaStarts, DmaEnds, CpswStarts, CpswEnds, CpswRecovered, ClockLost, TouchHw
  <2>3. k.err = "none"
    BY <2>1, <2>2 DEF Snapshot, Go, Kernel
  <2>4. Finished /\ mb.magic
    BY <2>3 DEF FrameInv, CallInv, SuccessIsFinished, MagicUntilGivenUp
  <2>5. mb.req = k.seq /\ mb.color = k.wire /\ mb.lens = k.lens
    BY PublishedIs DEF FrameInv, CallInv, RequestInProgress, PublishedLabels, K
  <2>6. mb.err = "NONE" /\ ~pins
    BY <2>4 DEF FrameInv, FirmwareInv, FaultsAreOwn, StatusAndPins, Finished, Waiting
  <2>7. Validate(mb, k.lens, k.seq) = "OK"
    BY <2>4, <2>5, <2>6 DEF Validate, Outstanding, Finished, Waiting
  <2> QED BY <2>4, <2>5, <2>6, <2>7 DEF Finished, Waiting
<1> QED BY <1>1, FrameInvInit, FrameInvStep, PTL DEF Spec, SuccessMeansSent


-----------------------------------------------------------------------------
(* The frame implements the service.                                       *)

\* What the service sees of the frame.
Usable == clk /\ (mb.magic \/ InSend)
CallSeen == IF InSend THEN [phase |-> "sending", wire |-> k.wire, lens |-> k.lens]
            ELSE IF K("idle") THEN [phase |-> "none"] ELSE [phase |-> k.result]
Lit == IF InSend /\ mb.acc = k.seq THEN {<<b, pru.r4>> : b \in pru.sent} ELSE {}

LEMMA ServiceStutters ==
  ASSUME Usable' = Usable, CallSeen' = CallSeen, Lit' = Lit
  PROVE  UNCHANGED Service!service
  BY DEF Usable, CallSeen, Lit, Service!service

\* A step of the firmware that resumes no bank shows the service nothing.
LEMMA FirmwareShowsNothing ==
  ASSUME FrameInv, FirmwareNext, ~SetResumed
  PROVE  Usable' = Usable /\ CallSeen' = CallSeen /\ Lit' = Lit
<1>1. /\ PruNext /\ k' = k /\ clk' = clk /\ mb'.magic = mb.magic /\ TypeOK /\ Bounds
      /\ FirmwareInv /\ CallInv /\ mb \in Mailbox /\ pru \in Pru
  BY FirmwareReads DEF FirmwareNext, FrameInv, QuietInv, TypeOK
<1>2. Usable' = Usable /\ CallSeen' = CallSeen BY <1>1 DEF Usable, CallSeen, InSend, K
<1>3. CASE ~InSend BY <1>1, <1>2, <1>3 DEF Lit, InSend
<1>4. CASE InSend
  <2>0. CASE k.pc \in Before
    <3>1. mb' = mb /\ pru'.sent = pru.sent /\ pru'.r4 = pru.r4
      BY <1>1, <2>0, BeforeFirmware DEF CallInv, Pru
    <3> QED BY <1>1, <1>2, <3>1 DEF Lit, InSend
  <2> SUFFICES ASSUME k.pc \notin Before PROVE Lit' = Lit
    BY <1>2, <2>0
  <2>1. k.pc \in Published
    BY <1>1, <1>4 DEF InSend, Published, Before, Outside, TypeOK, Kernel
  <2>2. ~BootClear BY <1>1, <2>1 DEF BootClear, At, CallInv, RequestInProgress, BootLabel
  <2>3. CASE Accept
    <3>1. mb.acc # k.seq
      BY <1>1, <2>1, <2>3
      DEF Accept, At, CallInv, RequestInProgress, EngagedLabel, AcceptedLabel, BankLabel, LastLabel
    <3>2. pru'.sent = {} BY <1>1, <2>3 DEF Accept, Step, Pru
    <3> QED BY <1>2, <3>1, <3>2 DEF Lit
  <2>4. CASE ReadColor
    <3>1. pru.sent = {} /\ pru'.sent = pru.sent /\ mb' = mb
      BY <1>1, <2>4 DEF ReadColor, At, Step, Pru, NoWrite, FirmwareInv, SentInOrder
    <3> QED BY <1>1, <1>2, <3>1 DEF Lit, InSend
  <2>5. ASSUME ~Accept, ~ReadColor
        PROVE  mb'.acc = mb.acc /\ pru'.sent = pru.sent /\ pru'.r4 = pru.r4
    <3>1. mb'.acc = mb.acc
      BY <1>1, <2>2, <2>5
      DEF PruNext, Mailbox, Write, NoWrite, Boot, BootReady, PollRequest, Gate,
        RunstateClears, GrantCheck, ClearReady, ClearDone, SetWaitBank, SetRunning,
        AnnounceBank, ClearGateReady, SetResumed, StreamEnd, FatalDetail, FatalHalt,
        ReportBank, SettleHold, Complete, SetDone
    <3>2. CASE SetRunning
      <4>1. ToBank(1) BY <3>2 DEF SetRunning
      <4> QED BY <1>1, <3>1, <4>1, ToBankArrives
    <3>3. CASE ReportBank
      <4>1. ToBank(pru.bank + 1) /\ pru.bank + 1 \in 1..4
        BY <1>1, <3>3 DEF ReportBank, At, Bounds, Bank
      <4> QED BY <1>1, <3>1, <4>1, ToBankArrives
    <3> QED
      BY <1>1, <2>2, <2>5, <3>1, <3>2, <3>3
      DEF PruNext, Step, Pru, Boot, BootReady, PollRequest, Gate,
        RunstateClears, GrantCheck, ClearReady, ClearDone, SetWaitBank,
        AnnounceBank, ClearGateReady, StreamEnd, FatalDetail, FatalHalt, Fatal, SettleHold,
        Complete, SetDone
  <2> QED BY <1>1, <1>2, <2>3, <2>4, <2>5 DEF Lit, InSend
<1> QED BY <1>3, <1>4

\* Before publication nothing is lit for the call; after it ends nothing is.
LEMMA UnlitBefore ==
  ASSUME FrameInv, k.pc \in Before
  PROVE  Lit = {} /\ InSend /\ mb.magic /\ mb.acc # k.seq
<1>1. mb.acc # k.seq /\ mb.magic
  BY NextSeqDiffers DEF FrameInv, CallInv, StillValid, QuietInv, TypeOK, Mailbox
<1> QED BY <1>1 DEF Lit, InSend, Before

LEMMA ResumeLights ==
  ASSUME FrameInv, FirmwareNext, SetResumed
  PROVE  [Service!Next]_(Service!service)
<1>1. /\ pru.bank \in mb.lens \ pru.sent /\ pru'.sent = pru.sent \cup {pru.bank}
      /\ \A c \in mb.lens : c < pru.bank <=> c \in pru.sent
      /\ pru.r3 = mb.req /\ mb.acc = mb.req /\ pru.r4 = mb.color /\ pru'.r4 = pru.r4
      /\ mb' = [mb EXCEPT !.status = "RUNNING"] /\ clk' = clk /\ k' = k
  BY ResumeStep
<1>2. mb'.acc = mb.acc /\ mb'.magic = mb.magic BY <1>1 DEF FrameInv, QuietInv, TypeOK, Mailbox
<1>3. Usable' = Usable /\ CallSeen' = CallSeen
  BY <1>1, <1>2 DEF Usable, CallSeen, InSend, K
<1>4. CASE ~InSend
  <2>1. Lit' = Lit BY <1>1, <1>4 DEF Lit, InSend
  <2> QED BY <1>3, <2>1, ServiceStutters
<1>5. CASE InSend
  <2>1. k.pc \in Published
    <3>1. pru.pc = "resume" BY DEF SetResumed, At
    <3>2. k.pc \notin Before
      BY <3>1 DEF FrameInv, CallInv, StillValid, Waiting
    <3> QED
      BY <1>5, <3>2 DEF FrameInv, QuietInv, InSend, Published, Before, Outside, TypeOK, Kernel
  <2>2. mb.req = k.seq /\ mb.color = k.wire /\ mb.lens = k.lens /\ k.lens \in Layouts
    BY <2>1 DEF FrameInv, CallInv, RequestInProgress
  <2>3. Lit = {<<b, k.wire>> : b \in pru.sent} BY <1>1, <1>5, <2>2 DEF Lit
  <2>4. Lit' = {<<b, k.wire>> : b \in pru.sent \cup {pru.bank}}
    BY <1>1, <1>2, <1>5, <2>2 DEF Lit, InSend
  <2>5. Lit' = Lit \cup {<<pru.bank, k.wire>>} BY <2>3, <2>4
  <2>6. \A other \in k.lens : other < pru.bank <=> <<other, k.wire>> \in Lit
    BY <1>1, <2>2, <2>3
  <2>7. /\ CallSeen.phase = "sending" /\ CallSeen.wire = k.wire /\ CallSeen.lens = k.lens
    BY <1>5 DEF CallSeen
  <2>8. pru.bank \in k.lens /\ pru.bank \in UNION Layouts BY <1>1, <2>2
  <2>9. PICK bank \in UNION Layouts : bank = pru.bank BY <2>8
  <2>10. Service!Light(bank)
    BY <1>3, <2>5, <2>6, <2>7, <2>8, <2>9 DEF Service!Light, Usable, CallSeen, Lit
  <2>11. Service!Next BY <2>10 DEF Service!Next
  <2> QED BY <2>11
<1> QED BY <1>4, <1>5


\* The helper goes on with the call: the service sees no change.
Continues == /\ InSend /\ InSend'
             /\ k'.seq = k.seq /\ k'.wire = k.wire /\ k'.lens = k.lens
             /\ mb'.acc = mb.acc /\ pru'.sent = pru.sent /\ pru'.r4 = pru.r4 /\ clk' = clk

LEMMA ContinuingStutters ==
  ASSUME Continues PROVE UNCHANGED Service!service
<1>1. Usable' = Usable BY DEF Continues, Usable
<1>2. CallSeen' = CallSeen BY DEF Continues, CallSeen
<1>3. Lit' = Lit BY DEF Continues, Lit
<1> QED BY <1>1, <1>2, <1>3, ServiceStutters

LEMMA KernelContinues ==
  ASSUME TypeOK, KernelStep, ~PreflightFails, ~ClearPins, ~CopyOut, k'.pc # "return"
  PROVE  Continues
<1> USE ReturnFields
    DEF TypeOK, K, Go, Touch, TouchNothing, TouchHw, Kernel, Mailbox, Pru, Continues, InSend
<1>1. CASE PreflightPasses BY <1>1 DEF PreflightPasses
<1>2. CASE PublishGrant BY <1>2 DEF PublishGrant
<1>3. CASE PublishColor BY <1>3 DEF PublishColor
<1>4. CASE PublishSeq BY <1>4 DEF PublishSeq, AwaitGate
<1>5. CASE GateTimeout BY <1>5 DEF GateTimeout
<1>6. CASE GateReadStatus BY <1>6 DEF GateReadStatus
<1>7. CASE GateReadError BY <1>7 DEF GateReadError
<1>8. CASE GateReadAccepted BY <1>8 DEF GateReadAccepted
<1>9. CASE GateReadWord
  <2>1. CASE k.bad BY <1>9, <2>1 DEF GateReadWord
  <2>2. CASE Go([k EXCEPT !.err = "fail"], "snapshot") BY <1>9, <2>2 DEF GateReadWord
  <2>3. CASE Go([k EXCEPT !.match = FALSE, !.tries = 0], IF Final THEN "snapshot" ELSE "mask")
    BY <1>9, <2>3 DEF GateReadWord
  <2>4. CASE Go([k EXCEPT !.match = FALSE, !.tries = @ + 1], "gateStatus")
    BY <1>9, <2>4 DEF GateReadWord
  <2> QED BY <1>9, <2>1, <2>2, <2>3, <2>4 DEF GateReadWord
<1>10. CASE AdmissionTimeout BY <1>10 DEF AdmissionTimeout
<1>11. CASE MaskInterrupts BY <1>11 DEF MaskInterrupts
<1>12. CASE RefuseBank BY <1>12 DEF RefuseBank
<1>13. CASE PauseCpsw BY <1>13 DEF PauseCpsw
<1>14. CASE DrainFails BY <1>14 DEF DrainFails
<1>15. CASE CpswDrained BY <1>15 DEF CpswDrained
<1>16. CASE Warm BY <1>16 DEF Warm
<1>17. CASE Grant BY <1>17 DEF Grant
<1>18. CASE SpinEnds BY <1>18 DEF SpinEnds
<1>19. CASE Observe BY <1>19 DEF Observe
<1>20. CASE WithdrawPru BY <1>20 DEF WithdrawPru
<1>21. CASE RestoreCpsw
  <2>1. CASE Go(k, "unmask") BY <1>21, <2>1 DEF RestoreCpsw
  <2>2. CASE Go([k EXCEPT !.restoreFailed = TRUE, !.err = "fail"], "unmask")
    BY <1>21, <2>2 DEF RestoreCpsw
  <2> QED BY <1>21, <2>1, <2>2 DEF RestoreCpsw
<1>22. CASE Unmask
  <2>1. CASE k.err = "none" BY <1>22, <2>1 DEF Unmask, AwaitGate
  <2>2. CASE k.err # "none" BY <1>22, <2>2 DEF Unmask
  <2> QED BY <2>1, <2>2
<1>23. CASE Snapshot BY <1>23 DEF Snapshot
<1>24. CASE DisablePrus BY <1>24 DEF DisablePrus
<1>25. CASE StopPrus BY <1>25 DEF StopPrus
<1> QED
  BY <1>1, <1>2, <1>3, <1>4, <1>5, <1>6, <1>7, <1>8, <1>9, <1>10, <1>11, <1>12, <1>13,
     <1>14, <1>15, <1>16, <1>17, <1>18, <1>19, <1>20, <1>21, <1>22, <1>23, <1>24, <1>25
  DEF KernelStep

LEMMA KernelServes ==
  ASSUME FrameInv, KernelStep
  PROVE  [Service!Next]_(Service!service)
<1>0. k \in Kernel /\ mb \in Mailbox /\ TypeOK BY DEF FrameInv, QuietInv, TypeOK
\* Nothing was lit, so the call may still be refused.
<1>1. ASSUME k.pc \in Before, Return(k, "rejected"), UNCHANGED <<mb, pru, clk>>
      PROVE  Service!Next
  <2>1. k'.pc = "return" /\ k'.result = "rejected" BY <1>1, ReturnFields
  <2>2. Lit = {} /\ InSend /\ mb.magic BY <1>1, UnlitBefore
  <2>3. Usable' = Usable BY <1>1, <2>1, <2>2 DEF Usable, InSend
  <2>4. CallSeen.phase = "sending" /\ CallSeen' = [phase |-> "rejected"] /\ Lit' = {}
    BY <2>1, <2>2 DEF CallSeen, Lit, InSend, K
  <2>5. Service!Refuse
    BY <2>2, <2>3, <2>4
    DEF Service!Refuse, Service!Outcome, Usable, CallSeen, Lit
  <2> QED BY <2>5 DEF Service!Next
<1>2. CASE PreflightFails BY <1>1, <1>2 DEF PreflightFails, Before, TouchNothing, K
<1>3. CASE PublishGrant /\ k'.pc = "return"
  <2>1. k.pc = "publish" /\ Return(k, "rejected") /\ TouchNothing
    BY <1>0, <1>3 DEF PublishGrant, Go, Kernel, K
  <2> QED BY <1>1, <2>1 DEF TouchNothing, Before
<1>4. CASE Snapshot /\ k'.pc = "return"
  <2>1. k.pc = "snapshot" /\ k.err = "none" /\ clk /\ Return(k, "ok") /\ TouchNothing
    BY <1>0, <1>4 DEF Snapshot, Go, Kernel, K
  <2>2. k'.pc = "return" /\ k'.result = "ok" BY <2>1, ReturnFields
  <2>3. Finished /\ mb.magic /\ mb.color = k.wire /\ mb.lens = k.lens
    BY <2>1, PublishedIs
    DEF FrameInv, CallInv, SuccessIsFinished, MagicUntilGivenUp, RequestInProgress,
        PublishedLabels, K
  <2>4. InSend /\ ~InSend' BY <2>1, <2>2 DEF InSend
  <2>5. /\ CallSeen.phase = "sending" /\ CallSeen.wire = k.wire /\ CallSeen.lens = k.lens
        /\ CallSeen' = [phase |-> "ok"]
    BY <2>2, <2>4 DEF CallSeen, K
  <2>6. Lit = {<<b, k.wire>> : b \in k.lens} /\ Lit' = {}
    BY <2>3, <2>4 DEF Lit, Finished
  <2>7. Usable /\ Usable' = Usable BY <2>1, <2>3, <2>4 DEF Usable, TouchNothing
  <2>8. Service!Succeed
    BY <2>5, <2>6, <2>7 DEF Service!Succeed, Service!Outcome, Usable, CallSeen, Lit
  <2> QED BY <2>8 DEF Service!Next
<1>5. CASE ClearPins
  <2>1. /\ k.pc = "clear" /\ k'.pc = "return" /\ k'.result = "failed" /\ UNCHANGED <<mb, clk>>
    BY <1>5, ReturnFields DEF ClearPins, TouchNothing, K
  <2>2. clk => ~mb.magic BY <2>1 DEF FrameInv, CallInv, MagicUntilGivenUp
  <2>3. InSend /\ ~InSend' BY <2>1 DEF InSend
  <2>4. CallSeen.phase = "sending" /\ CallSeen' = [phase |-> "failed"] /\ Lit' = {}
        /\ Usable' = FALSE
    BY <2>1, <2>2, <2>3 DEF CallSeen, Lit, Usable, K
  <2>5. Service!Fail
    BY <2>4 DEF Service!Fail, Service!Outcome, Usable, CallSeen, Lit
  <2> QED BY <2>5 DEF Service!Next
<1>6. CASE CopyOut
  <2>1. k.pc = "return" /\ k'.pc = "idle" /\ UNCHANGED <<mb, clk>> /\ k.result \in {"ok", "rejected", "failed"}
    BY <1>6 DEF CopyOut, Idle, TouchHw, K, FrameInv, CallInv, OutcomeGiven
  <2>2. ~InSend /\ ~InSend' BY <2>1 DEF InSend
  <2>3. /\ CallSeen.phase \in {"ok", "rejected", "failed"} /\ CallSeen' = [phase |-> "none"]
        /\ Lit' = Lit /\ Usable' = Usable
    BY <2>1, <2>2 DEF CallSeen, Lit, Usable, K
  <2>4. Service!Finish
    BY <2>3 DEF Service!Finish, Service!None, Usable, CallSeen, Lit
  <2> QED BY <2>4 DEF Service!Next
<1>7. CASE ~PreflightFails /\ ~ClearPins /\ ~CopyOut /\ k'.pc # "return"
  BY <1>0, <1>7, KernelContinues, ContinuingStutters
<1>8. CASE ~PreflightFails /\ ~ClearPins /\ ~CopyOut /\ k'.pc = "return"
  <2>1. PublishGrant \/ Snapshot
    BY <1>0, <1>8
    DEF KernelStep, Go, Kernel, K, PreflightPasses, PublishColor, PublishSeq, AwaitGate, GateTimeout,
      GateReadStatus, GateReadError, GateReadAccepted, GateReadWord, AdmissionTimeout,
      MaskInterrupts, RefuseBank, PauseCpsw, DrainFails, CpswDrained, Warm, Grant, SpinEnds,
      Observe, WithdrawPru, RestoreCpsw, Unmask, DisablePrus, StopPrus
  <2> QED BY <1>3, <1>4, <1>8, <2>1
<1> QED BY <1>2, <1>5, <1>6, <1>7, <1>8

LEMMA CallServes ==
  ASSUME FrameInv, NEW wire \in Colors, NEW lens \in Layouts, NEW prev \in Seqs,
         Call(wire, lens, prev)
  PROVE  Service!Next
<1>1. k.pc = "idle" /\ UNCHANGED <<mb, pru, pins, clk>> BY DEF Call, K, TouchNothing
<1>2. ~InSend /\ CallSeen = [phase |-> "none"] /\ Lit = {}
  BY <1>1 DEF InSend, CallSeen, Lit, K
<1>3. CASE Return(Idle, "rejected")
  <2>1. k'.pc = "return" /\ k'.result = "rejected" BY <1>3, ReturnFields
  <2>2. CallSeen' = [phase |-> "rejected"] /\ Lit' = {} /\ Usable' = Usable
    BY <1>1, <1>2, <2>1 DEF CallSeen, Lit, Usable, InSend, K
  <2>3. Service!Refuse
    BY <1>2, <2>2 DEF Service!Refuse, Service!Outcome, Service!None, Usable, CallSeen, Lit
  <2> QED BY <2>3 DEF Service!Next
<1>4. CASE clk /\ Validate(mb, lens, prev) = "OK"
  <2>1. k' = [Idle EXCEPT !.pc = "preflight", !.wire = wire, !.lens = lens, !.seq = NextSeq(prev)]
    BY <1>4 DEF Call
  <2>2. /\ k'.pc = "preflight" /\ k'.lens = lens /\ k'.seq = NextSeq(prev) /\ k'.wire = wire
    BY <2>1 DEF Idle
  <2>3. mb.magic /\ mb.acc = prev /\ NextSeq(prev) # prev
    BY <1>1, <1>4, AdmittedIsAtRest, NextSeqDiffers DEF FrameInv
  <2>4. InSend' /\ Usable /\ Usable' /\ Lit' = {}
    BY <1>1, <1>4, <2>2, <2>3 DEF InSend, Usable, Lit
  <2>5. CallSeen' = [phase |-> "sending", wire |-> wire, lens |-> lens]
    BY <2>2, <2>4 DEF CallSeen
  <2>6. Usable' = Usable BY <2>4 DEF Usable
  <2>7. Service!Begin(wire, lens)
    BY <1>2, <2>4, <2>5, <2>6
    DEF Service!Begin, Service!None, Service!Sending, Usable, CallSeen, Lit
  <2> QED BY <2>7 DEF Service!Next
<1> QED BY <1>3, <1>4 DEF Call

LEMMA InitServes ==
  ASSUME FrameInv, InitNext
  PROVE  Service!Next
<1>1. k.pc = "idle" /\ k' = k /\ clk' \in BOOLEAN
  BY DEF InitNext, InitDisable, InitReset, InitErase, Touch, InitStart, InitKilled, K, FrameInv, QuietInv, TypeOK
<1>2. ~InSend /\ CallSeen = [phase |-> "none"] /\ CallSeen' = CallSeen /\ Lit' = Lit
  BY <1>1 DEF InSend, CallSeen, Lit, K
<1>3. Usable' \in BOOLEAN BY DEF Usable
<1>4. Service!Reconfigure
  BY <1>2, <1>3 DEF Service!Reconfigure, Service!None, Usable, CallSeen, Lit
<1> QED BY <1>4 DEF Service!Next

LEMMA EnvironmentServes ==
  ASSUME FrameInv, Environment
  PROVE  [Service!Next]_(Service!service)
<1>1. UNCHANGED <<mb, pru, k>> /\ (clk' = clk \/ clk' = FALSE)
  BY DEF Environment, DmaStarts, DmaEnds, CpswStarts, CpswEnds, CpswRecovered, ClockLost, TouchHw
<1>2. CallSeen' = CallSeen /\ Lit' = Lit BY <1>1 DEF CallSeen, Lit, InSend, K
<1>3. CASE clk' = clk
  <2>1. Usable' = Usable BY <1>1, <1>3 DEF Usable, InSend
  <2> QED BY <1>2, <2>1, ServiceStutters
<1>4. CASE clk' = FALSE
  <2>1. Usable' = FALSE BY <1>4 DEF Usable
  <2>2. Service!Lose BY <1>2, <2>1 DEF Service!Lose, Usable, CallSeen, Lit
  <2> QED BY <2>2 DEF Service!Next
<1> QED BY <1>1, <1>3, <1>4

(***************************************************************************)
(* The firmware, the helper, dld-init and the board together implement the *)
(* frame service: a call succeeds with every bank lit once, in order and   *)
(* in its colour; or fails and the session is gone; or is refused with     *)
(* nothing lit (perform_send and REQUEST_LOOP, end to end).                *)
(***************************************************************************)
THEOREM FrameImplementsService == Spec => ImplementsService
<1>1. Init => Service!Init
  BY DEF Init, Idle, Service!Init, Service!None, InSend, K
<1>2. FrameInv /\ [Next]_vars => [Service!Next]_(Service!service)
  <2> SUFFICES ASSUME FrameInv, [Next]_vars PROVE [Service!Next]_(Service!service)
    OBVIOUS
  <2>1. CASE FirmwareNext /\ SetResumed BY <2>1, ResumeLights
  <2>2. CASE FirmwareNext /\ ~SetResumed BY <2>2, FirmwareShowsNothing, ServiceStutters
  <2>3. CASE KernelStep BY <2>3, KernelServes
  <2>4. ASSUME NEW wire \in Colors, NEW lens \in Layouts, NEW prev \in Seqs,
               Call(wire, lens, prev)
        PROVE  Service!Next
    BY <2>4, CallServes
  <2>5. CASE KernelNext BY <2>3, <2>4, <2>5 DEF KernelNext
  <2>6. CASE InitNext BY <2>6, InitServes
  <2>7. CASE Environment BY <2>7, EnvironmentServes
  <2>8. CASE UNCHANGED vars
    <3>1. Usable' = Usable /\ CallSeen' = CallSeen /\ Lit' = Lit
      BY <2>8 DEF vars, Usable, CallSeen, Lit, InSend, K
    <3> QED BY <3>1, ServiceStutters
  <2> QED BY <2>1, <2>2, <2>5, <2>6, <2>7, <2>8 DEF Next
<1>3. Spec => Service!Spec
  BY <1>1, <1>2, FrameInvInit, FrameInvStep, PTL DEF Spec, Service!Spec
<1> QED BY <1>3 DEF ImplementsService

=============================================================================
