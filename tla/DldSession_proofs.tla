------------------------- MODULE DldSession_proofs -------------------------
(***************************************************************************)
(* Theorems about the commands around a board: the lock is exclusive, and  *)
(* a frame is not interrupted from its validation to the return of the     *)
(* ioctl.                                                                  *)
(*                                                                         *)
(* The argument is one invariant: who is between lock and unlock holds the *)
(* lock, and a call belongs to a process that is inside the ioctl.  So     *)
(* while a call is in progress nobody else is where a session can be       *)
(* changed.                                                                *)
(***************************************************************************)
EXTENDS DldSession, TLAPS

CallIsOwned == call # Frame!None => \E x \in Proc : At(x, "kernel")

LockInv == TypeOK /\ CallIsOwned /\ LockProtects

\* What a step of process x does to the processes, the lock and the call.
Turn(x) ==
  /\ p' = [p EXCEPT ![x] = p'[x]] /\ p'[x] \in Process
  /\ \/ lock' = lock /\ (p'[x].pc \in Locked => p[x].pc \in Locked)
     \/ lock = Nobody /\ lock' = x
     \/ lock = x /\ lock' = Nobody /\ p'[x].pc \notin Locked
  /\ \/ call' = Frame!None
     \/ p'[x].pc = "kernel"
     \/ call' = call /\ ~At(x, "kernel")

LEMMA NotRunningTyped == NotRunning \in Process /\ NotRunning.pc = "off"
<1>1. SomeColor \in Colors /\ SomeLayout \in Layouts
  BY ChoicesAssumption DEF SomeColor, SomeLayout
<1> QED BY <1>1 DEF NotRunning, Process, Found, Shown, Label, Code

LEMMA TurnKeepsLock ==
  ASSUME LockInv, NEW x \in Proc, Turn(x)
  PROVE  CallIsOwned' /\ LockProtects' /\ p' \in [Proc -> Process] /\ lock' \in Proc \cup {Nobody}
<1> USE DEF LockInv, TypeOK
<1>1. \A y \in Proc : y # x => p'[y] = p[y] BY DEF Turn
<1>2. p' \in [Proc -> Process] BY DEF Turn
<1>3. \A y \in Proc : p[y].pc \in Locked => lock = y BY DEF LockProtects
<1>4. Nobody \notin Proc BY NobodyAssumption DEF Proc
<1>5. LockProtects'
  <2> SUFFICES ASSUME NEW y \in Proc, p'[y].pc \in Locked PROVE lock' = y
    BY DEF LockProtects
  <2>1. CASE lock' = lock /\ (p'[x].pc \in Locked => p[x].pc \in Locked) BY <2>1, <1>1, <1>3
  <2>2. CASE lock = Nobody /\ lock' = x BY <2>2, <1>1, <1>3, <1>4
  <2>3. CASE lock = x /\ lock' = Nobody /\ p'[x].pc \notin Locked BY <2>3, <1>1, <1>3
  <2> QED BY <2>1, <2>2, <2>3 DEF Turn
<1>6. CallIsOwned'
  <2> SUFFICES ASSUME call' # Frame!None PROVE \E y \in Proc : p'[y].pc = "kernel"
    BY DEF CallIsOwned, At, Frame!None
  <2>1. CASE p'[x].pc = "kernel" BY <2>1
  <2>2. CASE call' = call /\ ~At(x, "kernel") BY <2>2, <1>1 DEF CallIsOwned, At
  <2> QED BY <2>1, <2>2 DEF Turn
<1> QED BY <1>2, <1>5, <1>6 DEF Turn

LEMMA Becomes ==
  ASSUME TypeOK, NEW x \in Proc, NEW r \in Process, Become(x, r)
  PROVE  p' = [p EXCEPT ![x] = p'[x]] /\ p'[x] = r /\ p' \in [Proc -> Process]
  BY DEF TypeOK, Become

\* A process record with another label, code or fault is a process record.
LEMMA Labelled ==
  ASSUME TypeOK, NEW x \in Proc, NEW label \in Label, NEW code \in Code,
         \/ Go(x, label)
         \/ Become(x, [p[x] EXCEPT !.pc = label, !.code = code])
         \/ Become(x, [p[x] EXCEPT !.pc = label, !.faulted = code])
  PROVE  p' = [p EXCEPT ![x] = p'[x]] /\ p'[x] \in Process /\ p'[x].pc = label
<1>1. p[x] \in Process BY DEF TypeOK
<1>2. CASE Go(x, label)
  <2> DEFINE r == [p[x] EXCEPT !.pc = label]
  <2>1. r \in Process /\ r.pc = label BY <1>1 DEF Process
  <2>2. Become(x, r) BY <1>2 DEF Go
  <2> HIDE DEF r
  <2> QED BY <2>1, <2>2, Becomes
<1>3. CASE Become(x, [p[x] EXCEPT !.pc = label, !.code = code])
  <2> DEFINE r == [p[x] EXCEPT !.pc = label, !.code = code]
  <2>1. r \in Process /\ r.pc = label BY <1>1 DEF Process
  <2>2. Become(x, r) BY <1>3 DEF Go
  <2> HIDE DEF r
  <2> QED BY <2>1, <2>2, Becomes
<1>4. CASE Become(x, [p[x] EXCEPT !.pc = label, !.faulted = code])
  <2> DEFINE r == [p[x] EXCEPT !.pc = label, !.faulted = code]
  <2>1. r \in Process /\ r.pc = label BY <1>1 DEF Process
  <2>2. Become(x, r) BY <1>4 DEF Go
  <2> HIDE DEF r
  <2> QED BY <2>1, <2>2, Becomes
<1> QED BY <1>2, <1>3, <1>4

LEMMA Labels ==
  /\ InitLabel \cup ClientLabel \cup CleanupLabel \cup {"off", "unlock", "close"} \subseteq Label
  /\ {"open", "take", "invalidate", "configure", "magic", "populate", "start", "wait", "attach",
      "check", "ioctl", "kernel", "stop", "erase", "lower", "unlock", "close"} \subseteq Locked
  /\ "off" \notin Locked /\ "idle" \notin Locked
  /\ {"NONE", "OK", "PREREQUISITE", "INIT_FAILURE", "CRITICAL", "BUSY", "NOT_INITIALIZED"} = Code
  BY DEF Label, InitLabel, ClientLabel, CleanupLabel, Locked, Code

LEMMA ReturnedTyped ==
  ASSUME TypeOK, NEW x \in Proc, NEW code \in Code
  PROVE  Returned(x, code) \in Process /\ Returned(x, code).pc = "idle"
<1>1. p[x].cancelled \in BOOLEAN BY DEF TypeOK, Process
<1>2. "idle" \in Label BY DEF Label, ClientLabel
<1> QED BY <1>1, <1>2, NotRunningTyped DEF Returned, Process

LEMMA InitTurns ==
  ASSUME TypeOK, NEW x \in Proc, InitSteps(x) \/ CleanupSteps(x)
  PROVE  Turn(x)
<1> USE Labelled, Labels DEF Turn, At, Exit, Abandon, service, InitLabel, CleanupLabel
<1>1. CASE InitOpen(x) BY <1>1 DEF InitOpen
<1>2. CASE InitTake(x) BY <1>2 DEF InitTake, service
<1>3. CASE InitInvalidate(x) BY <1>3 DEF InitInvalidate
<1>4. CASE InitConfigure(x) BY <1>4 DEF InitConfigure
<1>5. CASE InitMagic(x) BY <1>5 DEF InitMagic
<1>6. CASE InitPopulate(x) BY <1>6 DEF InitPopulate
<1>7. CASE InitRun(x) BY <1>7 DEF InitRun
<1>8. CASE InitWait(x) BY <1>8 DEF InitWait
<1>9. CASE CleanupStop(x) BY <1>9 DEF CleanupStop
<1>10. CASE CleanupErase(x) BY <1>10 DEF CleanupErase
<1>11. CASE CleanupLower(x)
  <2>1. CASE x \in Inits
    <3>1. Go(x, "close") BY <1>11, <2>1 DEF CleanupLower, Go
    <3> QED BY <1>11, <3>1 DEF CleanupLower
  <2>2. CASE x \notin Inits BY <1>11, <2>2 DEF CleanupLower
  <2> QED BY <2>1, <2>2
<1> QED BY <1>1, <1>2, <1>3, <1>4, <1>5, <1>6, <1>7, <1>8, <1>9, <1>10, <1>11 DEF InitSteps, CleanupSteps

LEMMA ClientTurns ==
  ASSUME LockInv, NEW x \in Proc, ClientSteps(x) \/ Close(x) \/ Signal(x) \/ Kill(x)
  PROVE  Turn(x)
<1> TypeOK BY DEF LockInv
<1>00. p[x] \in Process /\ board.lens \in Layouts BY DEF TypeOK, Board
<1> USE Labelled, Labels DEF Turn, At, Exit, Sent, Abandon, service, InitLabel, CleanupLabel, ClientLabel
<1>0. p[x].pc \in Locked => lock = x BY DEF LockInv, LockProtects
<1>1. CASE Attach(x)
  <2>1. CASE CheckMailbox = "OK" /\ Become(x, Returned(x, "NONE")) /\ lock' = Nobody
    BY <1>0, <1>1, <2>1, ReturnedTyped, Becomes DEF Attach
  <2>2. CASE Exit(x, "PREREQUISITE") /\ UNCHANGED lock BY <1>1, <2>2 DEF Attach
  <2>3. CASE CheckMailbox # "OK" /\ Exit(x, CheckMailbox) /\ UNCHANGED lock
    BY <1>1, <2>3 DEF Attach, CheckMailbox
  <2> QED BY <1>1, <2>1, <2>2, <2>3 DEF Attach
<1>2. CASE SendCheck(x)
  <2>1. CASE Sent(x, CheckMailbox) \/ Sent(x, "PREREQUISITE")
    BY <1>2, <2>1 DEF SendCheck, CheckMailbox
  <2>2. CASE Become(x, [p[x] EXCEPT !.pc = "ioctl", !.lens = board.lens])
    <3> DEFINE r == [p[x] EXCEPT !.pc = "ioctl", !.lens = board.lens]
    <3>1. r \in Process /\ r.pc = "ioctl" BY <1>00 DEF Process
    <3>2. Become(x, r) BY <2>2
    <3> HIDE DEF r
    <3> QED BY <1>2, <3>1, <3>2, Becomes DEF SendCheck
  <2> QED BY <1>2, <2>1, <2>2 DEF SendCheck
<1>3. CASE IoctlRejected(x) BY <1>3 DEF IoctlRejected
<1>4. CASE IoctlBegins(x) BY <1>4 DEF IoctlBegins
<1>5. CASE IoctlReturns(x)
  <2>1. call' = Frame!None BY <1>5 DEF IoctlReturns, Frame!Finish
  <2>2. CASE p[x].killed BY <1>0, <1>5, <2>1, <2>2, NotRunningTyped, Becomes DEF IoctlReturns
  <2>3. CASE ~p[x].killed BY <1>5, <2>1, <2>3 DEF IoctlReturns
  <2> QED BY <2>2, <2>3
<1>6. CASE Unlock(x)
  <2>1. p[x].faulted \in Code BY <1>00 DEF Process
  <2>2. \E code \in Code : Become(x, Returned(x, code)) BY <1>6, <2>1 DEF Unlock
  <2>3. PICK code \in Code : Become(x, Returned(x, code)) BY <2>2
  <2>4. Returned(x, code) \in Process /\ Returned(x, code).pc = "idle" BY ReturnedTyped
  <2>5. p'[x] \in Process /\ p'[x].pc = "idle" /\ p' = [p EXCEPT ![x] = p'[x]]
    <3> HIDE DEF Turn, At, Exit, Sent, Abandon, service
    <3> QED BY <2>3, <2>4, Becomes
  <2> QED BY <1>0, <1>6, <2>5 DEF Unlock
<1>7. CASE Close(x) BY <1>0, <1>7, NotRunningTyped, Becomes DEF Close
<1>8. CASE Signal(x)
  <2> DEFINE r == [p[x] EXCEPT !.cancelled = TRUE]
  <2>1. r \in Process /\ r.pc = p[x].pc BY <1>00 DEF Process
  <2>2. Become(x, r) BY <1>8 DEF Signal
  <2> HIDE DEF r
  <2> QED BY <1>8, <2>1, <2>2, Becomes DEF Signal
<1>9. CASE Kill(x)
  <2>1. CASE At(x, "kernel")
    <3> DEFINE r == [p[x] EXCEPT !.killed = TRUE]
    <3>1. r \in Process /\ r.pc = p[x].pc BY <1>00 DEF Process
    <3>2. Become(x, r) BY <1>9, <2>1 DEF Kill
    <3> HIDE DEF r
    <3> QED BY <1>9, <2>1, <3>1, <3>2, Becomes DEF Kill
  <2>2. CASE ~At(x, "kernel")
    <3>1. p'[x] \in Process /\ p'[x].pc = "off" /\ p' = [p EXCEPT ![x] = p'[x]]
      BY <1>9, <2>2, NotRunningTyped, Becomes DEF Kill
    <3> QED BY <1>0, <1>9, <2>2, <3>1 DEF Kill
  <2> QED BY <2>1, <2>2
<1> QED BY <1>1, <1>2, <1>3, <1>4, <1>5, <1>6, <1>7, <1>8, <1>9 DEF ClientSteps

LEMMA StartTurns ==
  ASSUME LockInv, NEW x \in Proc,
         \/ \E label \in {"open", "attach"}, lens \in Layouts : Start(x, label, lens)
         \/ \E wire \in Colors : SendLock(x, wire)
  PROVE  Turn(x)
<1> TypeOK BY DEF LockInv
<1>0. Seen \in Found BY DEF TypeOK, Seen, Found
<1>00. p[x] \in Process BY DEF TypeOK
<1>1. ASSUME NEW label \in {"open", "attach"}, NEW lens \in Layouts, Start(x, label, lens)
      PROVE  Turn(x)
  <2> DEFINE r == [NotRunning EXCEPT !.pc = label, !.lens = lens, !.before = Seen]
  <2>1. r \in Process /\ r.pc = label
    BY <1>0, NotRunningTyped DEF Process, Label, InitLabel, ClientLabel
  <2>2. CASE lock = Nobody
    <3>1. Become(x, r) /\ lock' = x BY <1>1, <2>2 DEF Start
    <3> HIDE DEF r
    <3> QED BY <1>1, <2>1, <2>2, <3>1, Becomes DEF Start, Turn, service, At
  <2>3. CASE lock # Nobody BY <1>1, <2>3 DEF Start, Turn, service, At, TypeOK
  <2> QED BY <2>2, <2>3
<1>2. ASSUME NEW wire \in Colors, SendLock(x, wire)
      PROVE  Turn(x)
  <2> DEFINE r == [p[x] EXCEPT !.pc = "check", !.wire = wire, !.before = Seen]
  <2>1. r \in Process /\ r.pc = "check"
    BY <1>0, <1>00 DEF Process, Label, ClientLabel
  <2>2. CASE p[x].faulted # "NONE" \/ lock # Nobody
    <3>1. lock' = lock /\ p' = p /\ call' = call BY <1>2, <2>2 DEF SendLock, service
    <3>2. p' = [p EXCEPT ![x] = p'[x]] BY <3>1 DEF TypeOK
    <3> QED BY <1>00, <1>2, <3>1, <3>2 DEF SendLock, Turn, At
  <2>3. CASE ~(p[x].faulted # "NONE" \/ lock # Nobody)
    <3>1. Become(x, r) /\ lock' = x BY <1>2, <2>3 DEF SendLock
    <3> HIDE DEF r
    <3> QED BY <1>2, <2>1, <2>3, <3>1, Becomes DEF SendLock, Turn, service, At
  <2> QED BY <2>2, <2>3
<1> QED BY <1>1, <1>2

\* The state that is not the processes' own.
BlockTyped ==
  /\ usable \in BOOLEAN
  /\ call \in Calls
  /\ lit \subseteq (1..3) \X Colors
  /\ board \in Board
  /\ shown \in Shown

Steps(x) == InitSteps(x) \/ CleanupSteps(x) \/ ClientSteps(x) \/ Close(x) \/ Signal(x) \/ Kill(x)
            \/ (\E label \in {"open", "attach"}, lens \in Layouts : Start(x, label, lens))
            \/ (\E wire \in Colors : SendLock(x, wire))

Others == Kernel \/ FirmwareBoots \/ StuckFinishes

LEMMA NextSplits ==
  ASSUME Next
  PROVE  Others \/ \E x \in Proc : Steps(x)
<1>1. ASSUME NEW x \in Inits, NEW lens \in Layouts, Start(x, "open", lens) PROVE \E y \in Proc : Steps(y)
  BY <1>1 DEF Proc, Steps
<1>2. ASSUME NEW x \in Clients, Start(x, "attach", SomeLayout) PROVE \E y \in Proc : Steps(y)
  BY <1>2, ChoicesAssumption DEF Proc, Steps, SomeLayout
<1>3. ASSUME NEW x \in Clients, NEW wire \in Colors, SendLock(x, wire) PROVE \E y \in Proc : Steps(y)
  BY <1>3 DEF Proc, Steps
<1>4. ASSUME NEW x \in Proc, InitSteps(x) \/ ClientSteps(x) \/ CleanupSteps(x) \/ Close(x)
      PROVE  \E y \in Proc : Steps(y)
  BY <1>4 DEF Steps
<1>5. ASSUME NEW x \in Proc, Signal(x) \/ Kill(x) PROVE \E y \in Proc : Steps(y)
  BY <1>5 DEF Steps
<1> QED BY <1>1, <1>2, <1>3, <1>4, <1>5 DEF Next, Others

LEMMA StepsTurn ==
  ASSUME LockInv, NEW x \in Proc, Steps(x)
  PROVE  Turn(x)
  BY InitTurns, ClientTurns, StartTurns DEF Steps, LockInv

LEMMA CallFields ==
  ASSUME BlockTyped
  PROVE  /\ call = Frame!None => call.phase = "none"
         /\ call.phase = "sending" => call.wire \in Colors /\ call.lens \in Layouts
  BY DEF BlockTyped, Calls, Frame!None, Frame!Sending, Frame!Outcome

LEMMA InitStepsTyped ==
  ASSUME BlockTyped, NEW x \in Proc, p[x] \in Process, InitSteps(x) \/ CleanupSteps(x)
  PROVE  BlockTyped'
<1> USE DEF service
<1>0. board \in Board BY DEF BlockTyped
<1>1. CASE InitOpen(x) BY <1>1 DEF InitOpen, BlockTyped
<1>2. CASE InitTake(x)
  <2>1. board' \in Board BY <1>0, <1>2 DEF InitTake, AfterStop, Board
  <2> QED BY <1>2, <2>1 DEF InitTake, BlockTyped
<1>3. CASE InitInvalidate(x)
  <2>1. usable' = FALSE /\ UNCHANGED <<call, lit, board, shown>> BY <1>3 DEF InitInvalidate
  <2> QED BY <2>1 DEF BlockTyped
<1>4. CASE InitConfigure(x)
  <2>1. board' \in Board BY <1>0, <1>4 DEF InitConfigure, Board
  <2>2. UNCHANGED <<usable, call, lit, shown>> BY <1>4 DEF InitConfigure
  <2> QED BY <2>1, <2>2 DEF BlockTyped
<1>5. CASE InitMagic(x) BY <1>5 DEF InitMagic, BlockTyped
<1>6. CASE InitPopulate(x)
  <2>1. p[x].lens \in Layouts BY DEF Process
  <2>2. board' = [board EXCEPT !.lens = p[x].lens, !.status = "INITIALIZING"]
        /\ UNCHANGED <<usable, call, lit, shown>>
    BY <1>6 DEF InitPopulate
  <2>3. board' \in Board BY <1>0, <2>1, <2>2 DEF Board
  <2> QED BY <2>2, <2>3 DEF BlockTyped
<1>7. CASE InitRun(x)
  <2>1. board' \in Board BY <1>0, <1>7 DEF InitRun, Board
  <2> QED BY <1>7, <2>1 DEF InitRun, BlockTyped
<1>8. CASE InitWait(x) BY <1>8 DEF InitWait, BlockTyped
<1>9. CASE CleanupStop(x)
  <2>1. board' \in Board BY <1>0, <1>9 DEF CleanupStop, AfterStop, Board
  <2> QED BY <1>9, <2>1 DEF CleanupStop, BlockTyped
<1>10. CASE CleanupErase(x)
  <2>1. usable' = FALSE /\ UNCHANGED <<call, lit, board, shown>> BY <1>10 DEF CleanupErase
  <2> QED BY <2>1 DEF BlockTyped
<1>11. CASE CleanupLower(x)
  <2>1. board' \in Board BY <1>0, <1>11 DEF CleanupLower, Board
  <2>2. UNCHANGED <<usable, call, lit, shown>> BY <1>11 DEF CleanupLower
  <2> QED BY <2>1, <2>2 DEF BlockTyped
<1> QED BY <1>1, <1>2, <1>3, <1>4, <1>5, <1>6, <1>7, <1>8, <1>9, <1>10, <1>11 DEF InitSteps, CleanupSteps

LEMMA ClientStepsTyped ==
  ASSUME BlockTyped, NEW x \in Proc, p[x] \in Process,
         ClientSteps(x) \/ Close(x) \/ Signal(x) \/ Kill(x)
         \/ (\E label \in {"open", "attach"}, lens \in Layouts : Start(x, label, lens))
         \/ (\E wire \in Colors : SendLock(x, wire))
  PROVE  BlockTyped'
<1> USE DEF BlockTyped, service
<1>1. CASE Attach(x) \/ SendCheck(x) \/ IoctlRejected(x) \/ Unlock(x)
  BY <1>1 DEF Attach, SendCheck, IoctlRejected, Unlock
<1>2. CASE IoctlBegins(x)
  <2>1. p[x].wire \in Colors /\ p[x].lens \in Layouts BY DEF Process
  <2>2. call' = Frame!Sending(p[x].wire, p[x].lens) /\ UNCHANGED <<usable, lit, board, shown>>
    BY <1>2 DEF IoctlBegins, Frame!Begin
  <2>3. call' \in Calls BY <2>1, <2>2 DEF Calls
  <2> QED BY <2>2, <2>3
<1>3. CASE IoctlReturns(x) BY <1>3 DEF IoctlReturns, Frame!Finish, Calls
<1>4. CASE Close(x) \/ Signal(x) \/ Kill(x) BY <1>4 DEF Close, Signal, Kill
<1>5. CASE \/ \E label \in {"open", "attach"}, lens \in Layouts : Start(x, label, lens)
           \/ \E wire \in Colors : SendLock(x, wire)
  <2>1. UNCHANGED <<usable, call, lit, board, shown>> BY <1>5 DEF Start, SendLock
  <2> QED BY <2>1
<1> QED BY <1>1, <1>2, <1>3, <1>4, <1>5 DEF ClientSteps

LEMMA OthersTyped ==
  ASSUME BlockTyped, Others
  PROVE  BlockTyped' /\ UNCHANGED <<p, lock>> /\ (call' # Frame!None => call # Frame!None)
<1> USE DEF BlockTyped
<1>1. CASE KernelRefuses BY <1>1 DEF KernelRefuses, Frame!Refuse, Calls
<1>2. CASE KernelLights
  <2>1. PICK bank \in UNION Layouts : Frame!Light(bank) BY <1>2 DEF KernelLights
  <2>2. bank \in 1..3 BY ChoicesAssumption
  <2>3. call.wire \in Colors BY <2>1, CallFields DEF Frame!Light
  <2>4. lit' \subseteq (1..3) \X Colors BY <2>1, <2>2, <2>3 DEF Frame!Light
  <2> QED BY <1>2, <2>1, <2>4 DEF KernelLights, Frame!Light, Shown
<1>3. CASE KernelSucceeds
  <2>1. call.wire \in Colors /\ call.lens \in Layouts
    BY <1>3, CallFields DEF KernelSucceeds, Frame!Succeed
  <2>2. shown' \in Shown BY <1>3, <2>1 DEF KernelSucceeds, Shown
  <2>3. board' \in Board BY <1>3 DEF KernelSucceeds, Board
  <2>4. call # Frame!None BY <1>3, CallFields DEF KernelSucceeds, Frame!Succeed
  <2> QED BY <1>3, <2>2, <2>3, <2>4 DEF KernelSucceeds, Frame!Succeed, Calls
<1>4. CASE KernelFails
  <2>0. board \in Board OBVIOUS
  <2>1. board' \in Board
    <3>1. PICK core \in AfterStop, low \in BOOLEAN : board' = [board EXCEPT !.core = core, !.low = low]
      BY <1>4 DEF KernelFails
    <3>2. core \in {"stopped", "booting", "running", "stuck"} BY <3>1 DEF AfterStop
    <3> QED BY <2>0, <3>1, <3>2 DEF Board
  <2>2. call # Frame!None BY <1>4, CallFields DEF KernelFails, Frame!Fail
  <2>3. /\ usable' = FALSE /\ call' = Frame!Outcome("failed") /\ lit' = {}
        /\ shown' = Nobody /\ UNCHANGED <<lock, p>>
    BY <1>4 DEF KernelFails, Frame!Fail
  <2>4. shown' \in Shown /\ call' \in Calls BY <2>3 DEF Shown, Calls
  <2> QED BY <2>1, <2>2, <2>3, <2>4
<1>5. CASE FirmwareBoots
  <2>0. board \in Board OBVIOUS
  <2>1. board' \in Board BY <1>5, <2>0 DEF FirmwareBoots, Board
  <2>2. UNCHANGED <<usable, call, lit, lock, p, shown>> BY <1>5 DEF FirmwareBoots, service
  <2> QED BY <2>1, <2>2
<1>6. CASE StuckFinishes
  <2>0. board \in Board OBVIOUS
  <2>1. PICK status \in {board.status, "READY", "DONE", "ERROR"}, low \in {board.low, FALSE} :
          board' = [board EXCEPT !.core = "stopped", !.status = status, !.low = low]
    BY <1>6 DEF StuckFinishes
  <2>2. board' \in Board BY <2>0, <2>1 DEF Board
  <2>3. UNCHANGED <<usable, call, lit, lock, p, shown>> BY <1>6 DEF StuckFinishes, service
  <2> QED BY <2>2, <2>3
<1> QED BY <1>1, <1>2, <1>3, <1>4, <1>5, <1>6 DEF Others, Kernel

LEMMA InitLocks == ASSUME Init PROVE LockInv
<1>1. board \in Board BY ChoicesAssumption DEF Init, Board, SomeLayout
<1>2. p \in [Proc -> Process] /\ \A x \in Proc : p[x].pc = "off" BY NotRunningTyped DEF Init
<1>0. call \in Calls /\ shown \in Shown BY DEF Init, Calls, Shown
<1>01. usable \in BOOLEAN /\ lit \subseteq (1..3) \X Colors /\ lock \in Proc \cup {Nobody} BY DEF Init
<1>3. TypeOK BY <1>0, <1>01, <1>1, <1>2 DEF TypeOK
<1>4. CallIsOwned BY DEF Init, CallIsOwned
<1>5. LockProtects BY <1>2 DEF LockProtects, Locked
<1> QED BY <1>3, <1>4, <1>5 DEF LockInv

LEMMA NextLocks == ASSUME LockInv, [Next]_vars PROVE LockInv'
<1>1. CASE UNCHANGED vars
  BY <1>1 DEF vars, service, LockInv, TypeOK, CallIsOwned, LockProtects, At
<1>2. BlockTyped /\ p \in [Proc -> Process] /\ lock \in Proc \cup {Nobody} BY DEF LockInv, TypeOK, BlockTyped
<1>3. ASSUME NEW x \in Proc, Steps(x) PROVE LockInv'
  <2>1. Turn(x) BY <1>3, StepsTurn
  <2>2. BlockTyped' BY <1>2, <1>3, InitStepsTyped, ClientStepsTyped DEF Steps
  <2> QED BY <2>1, <2>2, TurnKeepsLock DEF LockInv, TypeOK, BlockTyped
<1>4. CASE Others
  <2>1. BlockTyped' /\ UNCHANGED <<p, lock>> /\ (call' # Frame!None => call # Frame!None)
    BY <1>2, <1>4, OthersTyped
  <2>2. CallIsOwned' /\ LockProtects'
    BY <2>1 DEF LockInv, CallIsOwned, LockProtects, At, Frame!None
  <2> QED BY <1>2, <2>1, <2>2 DEF LockInv, TypeOK, BlockTyped
<1> QED BY <1>1, <1>3, <1>4, NextSplits

\* The inductive invariant of the commands (dld_lock, dld_sender_send).
THEOREM SessionsLock == Spec => []LockInv
<1>1. Init => LockInv BY InitLocks
<1>2. LockInv /\ [Next]_vars => LockInv' BY NextLocks
<1> QED BY <1>1, <1>2, PTL DEF Spec

\* Every part of the commands' state has its type.
THEOREM SessionTypeCorrect == Spec => []TypeOK
<1>1. LockInv => TypeOK BY DEF LockInv
<1> QED BY <1>1, SessionsLock, PTL

\* Whoever is between lock and unlock holds the one command lock.
THEOREM LockIsExclusive == Spec => []LockProtects
<1>1. LockInv => LockProtects BY DEF LockInv
<1> QED BY <1>1, SessionsLock, PTL

-----------------------------------------------------------------------------
(* While a call is in progress only its own process is under the lock.     *)

LEMMA Exclusive ==
  ASSUME LockInv, NEW x \in Proc, p[x].pc \in Locked, p[x].pc # "kernel"
  PROVE  call = Frame!None
<1> SUFFICES ASSUME call # Frame!None PROVE FALSE OBVIOUS
<1>1. PICK y \in Proc : p[y].pc = "kernel" BY DEF LockInv, CallIsOwned, At
<1>2. lock = x BY DEF LockInv, LockProtects
<1>3. lock = y BY <1>1, Labels DEF LockInv, LockProtects
<1> QED BY <1>1, <1>2, <1>3

\* What a command does to the session it does when there is no call.
LEMMA CommandsSpareCalls ==
  ASSUME LockInv, NEW x \in Proc, Steps(x)
  PROVE  \/ call = Frame!None /\ usable' \in BOOLEAN /\ UNCHANGED <<call, lit>>
         \/ UNCHANGED <<usable, call, lit, board>>
         \/ \E wire \in Colors, lens \in Layouts : Frame!Begin(wire, lens)
         \/ Frame!Finish
<1> USE DEF service
<1>0. p[x] \in Process /\ usable \in BOOLEAN BY DEF LockInv, TypeOK
<1>1. CASE InitSteps(x) \/ CleanupSteps(x)
  <2>1. p[x].pc \in Locked /\ p[x].pc # "kernel"
    BY <1>1, Labels DEF InitSteps, CleanupSteps, At, InitOpen, InitTake, InitInvalidate, InitConfigure,
       InitMagic, InitPopulate, InitRun, InitWait, CleanupStop, CleanupErase, CleanupLower
  <2>2. call = Frame!None BY <2>1, Exclusive
  <2>3. usable' \in {usable, TRUE, FALSE} /\ UNCHANGED <<call, lit>>
    BY <1>1 DEF InitSteps, CleanupSteps, InitOpen, InitTake, InitInvalidate, InitConfigure,
       InitMagic, InitPopulate, InitRun, InitWait, CleanupStop, CleanupErase, CleanupLower
  <2> QED BY <1>0, <2>2, <2>3
<1>2. CASE IoctlBegins(x)
  <2>1. p[x].wire \in Colors /\ p[x].lens \in Layouts BY <1>0 DEF Process
  <2> QED BY <1>2, <2>1 DEF IoctlBegins
<1>3. CASE IoctlReturns(x) BY <1>3 DEF IoctlReturns
<1>4. CASE Attach(x) \/ SendCheck(x) \/ IoctlRejected(x) \/ Unlock(x) \/ Close(x) \/ Signal(x) \/ Kill(x)
  BY <1>4 DEF Attach, SendCheck, IoctlRejected, Unlock, Close, Signal, Kill
<1>5. CASE \/ \E label \in {"open", "attach"}, lens \in Layouts : Start(x, label, lens)
           \/ \E wire \in Colors : SendLock(x, wire)
  BY <1>5 DEF Start, SendLock
<1> QED BY <1>1, <1>2, <1>3, <1>4, <1>5 DEF Steps, ClientSteps

\* While a call is in progress its session, its layout and its core stay.
LEMMA UninterruptedStep ==
  ASSUME LockInv, [Next]_vars, call # Frame!None, call' = call
  PROVE  /\ usable' = usable /\ board'.lens = board.lens
         /\ board.core = "running" => board'.core = "running"
<1>1. CASE UNCHANGED vars BY <1>1 DEF vars, service
<1>2. ASSUME NEW x \in Proc, Steps(x) PROVE UNCHANGED <<usable, call, lit, board>>
  <2>1. CASE Frame!Finish BY <2>1 DEF Frame!Finish
  <2>2. CASE \E wire \in Colors, lens \in Layouts : Frame!Begin(wire, lens) BY <2>2 DEF Frame!Begin
  <2> QED BY <1>2, <2>1, <2>2, CommandsSpareCalls
<1>3. CASE Others
  <2>0. board \in Board BY DEF LockInv, TypeOK
  <2>1. CASE KernelRefuses BY <2>1 DEF KernelRefuses, Frame!Refuse, Frame!Outcome
  <2>2. CASE KernelLights BY <2>2 DEF KernelLights, Frame!Light
  <2>3. CASE KernelSucceeds BY <2>3 DEF KernelSucceeds, Frame!Succeed, Frame!Outcome
  <2>4. CASE KernelFails BY <2>4 DEF KernelFails, Frame!Fail, Frame!Outcome
  <2>5. CASE FirmwareBoots BY <2>0, <2>5 DEF FirmwareBoots, service, Board
  <2>6. CASE StuckFinishes
    <3>1. usable' = usable /\ board.core = "stuck" BY <2>6 DEF StuckFinishes, service
    <3>2. board'.lens = board.lens BY <2>0, <2>6 DEF StuckFinishes, Board
    <3> QED BY <3>1, <3>2
  <2> QED BY <1>3, <2>1, <2>2, <2>3, <2>4, <2>5, <2>6 DEF Others, Kernel
<1> QED BY <1>1, <1>2, <1>3, NextSplits

\* No command makes, withdraws, replaces or stops a session from the validation
\* of a frame to the return of its ioctl.
THEOREM FramesAreUninterrupted == Spec => FrameIsUninterrupted
<1>1. LockInv /\ [Next]_vars =>
        [call # Frame!None /\ call' = call =>
           /\ usable' = usable /\ board'.lens = board.lens
           /\ board.core = "running" => board'.core = "running"]_vars
  BY UninterruptedStep
<1> QED BY <1>1, SessionsLock, PTL DEF Spec, FrameIsUninterrupted

-----------------------------------------------------------------------------
(* Exit codes: what each label under the lock knows of the block, from the *)
(* steps its own process has taken.                                        *)

\* Before a command has changed anything.
Untouched(x) ==
  p[x].pc \in {"open", "attach", "check", "ioctl"} => Seen = p[x].before

\* dld-init works on a stopped core until it starts its own firmware.
Prepared(x) ==
  /\ p[x].pc \in {"configure", "magic", "populate", "start"} => board.core = "stopped"
  /\ p[x].pc \in {"magic", "populate", "start", "wait"} => board.low
  /\ p[x].pc \in {"populate", "start", "wait"} => usable
  /\ p[x].pc \in {"start", "wait"} => board.lens = p[x].lens
  /\ p[x].pc = "start" => board.status = "INITIALIZING"
  /\ p[x].pc = "wait" => <<board.core, board.status>> \in
       {<<"booting", "INITIALIZING">>, <<"running", "READY">>, <<"stopped", "ERROR">>}

Cleaned(x) ==
  /\ p[x].pc \in {"stop", "erase", "lower"} => p[x].code \in {"INIT_FAILURE", "CRITICAL"}
  /\ p[x].pc \in {"erase", "lower"} => board.core \in {"stopped", "stuck"}
  /\ p[x].pc = "lower" => ~usable

\* The call is this process's own, and only a running core completes it.
InCall(x) ==
  p[x].pc = "kernel" =>
    /\ call.phase = "sending" =>
         usable /\ call.wire = p[x].wire /\ call.lens = p[x].lens /\ board.lens = p[x].lens
    /\ call.phase = "rejected" \/ (call.phase = "sending" /\ lit = {}) => Seen = p[x].before
    /\ call.phase = "ok" =>
         /\ usable /\ board.status = "DONE" /\ board.core = "running"
         /\ shown = [wire |-> p[x].wire, lens |-> board.lens]

KilledInCall(x) == p[x].killed => p[x].pc = "kernel"

\* What the exit code says, with what keeps it true until the lock is given up.
CodeHolds(x) ==
  p[x].pc \in {"unlock", "close"} =>
    /\ p[x].code \in {"BUSY", "NOT_INITIALIZED", "PREREQUISITE"} => Seen = p[x].before
    /\ p[x].code = "CRITICAL" => Withdrawn
    /\ p[x].code = "INIT_FAILURE" => Withdrawn \/ Seen = p[x].before
    /\ p[x].code = "OK" => usable /\ board.core = "running" /\ board.status \in {"READY", "DONE"}
    /\ p[x].pc = "unlock" /\ p[x].code = "OK" => shown = [wire |-> p[x].wire, lens |-> board.lens]
    /\ p[x].pc = "close" /\ p[x].code = "OK" =>
         board.status = "READY" /\ board.low /\ board.lens = p[x].lens

Holding(x) == /\ Untouched(x) /\ Prepared(x) /\ Cleaned(x) /\ InCall(x)
              /\ KilledInCall(x) /\ CodeHolds(x)

SessionInv == LockInv /\ \A x \in Proc : Holding(x)

\* A step of x that changes no more of its record than the label and the code.
Moved(x, label, code) ==
  /\ p'[x].pc = label /\ p'[x].code = code
  /\ p'[x].wire = p[x].wire /\ p'[x].lens = p[x].lens
  /\ p'[x].before = p[x].before /\ p'[x].killed = p[x].killed

Still == UNCHANGED <<usable, call, lit, board, shown>>

LEMMA Moves ==
  ASSUME TypeOK, NEW x \in Proc, NEW label, NEW code
  PROVE  /\ Go(x, label) => Moved(x, label, p[x].code)
         /\ Exit(x, code) => Moved(x, "close", code)
         /\ Sent(x, code) => Moved(x, "unlock", code)
         /\ Abandon(x, code) => Moved(x, "stop", code)
<1>1. p \in [Proc -> Process] /\ p[x] \in Process BY DEF TypeOK
<1>2. Go(x, label) => Moved(x, label, p[x].code) BY <1>1 DEF Go, Become, Moved, Process
<1>3. Exit(x, code) => Moved(x, "close", code) BY <1>1 DEF Exit, Become, Moved, Process
<1>4. Sent(x, code) => Moved(x, "unlock", code) BY <1>1 DEF Sent, Become, Moved, Process
<1>5. Abandon(x, code) => Moved(x, "stop", code) BY <1>1 DEF Abandon, Become, Moved, Process
<1> QED BY <1>2, <1>3, <1>4, <1>5

LEMMA NotRunningFields ==
  NotRunning.pc = "off" /\ NotRunning.killed = FALSE
  BY DEF NotRunning

\* A process that is not under the lock claims nothing of the block.
LEMMA OutsideHolds ==
  ASSUME NEW x \in Proc, p'[x].pc \in {"off", "idle"}, ~p'[x].killed
  PROVE  Holding(x)'
  BY DEF Holding, Untouched, Prepared, Cleaned, InCall, KilledInCall, CodeHolds

LEMMA ReturnedFields ==
  ASSUME NEW x \in Proc, NEW code
  PROVE  Returned(x, code).pc = "idle" /\ Returned(x, code).killed = FALSE
  BY DEF Returned, NotRunning

LEMMA ReturnedHolds ==
  ASSUME NEW x \in Proc, NEW code, p'[x] = Returned(x, code)
  PROVE  Holding(x)'
<1>1. p'[x].pc = "idle" /\ p'[x].killed = FALSE BY ReturnedFields
<1> QED BY <1>1, OutsideHolds

\* Giving up before anything was changed.
LEMMA RefusedHolds ==
  ASSUME NEW x \in Proc, Holding(x), p[x].pc # "kernel",
         NEW label \in {"unlock", "close"},
         NEW code \in {"BUSY", "NOT_INITIALIZED", "PREREQUISITE", "INIT_FAILURE"},
         Moved(x, label, code), Seen' = p[x].before
  PROVE  Holding(x)'
<1>1. p'[x].pc = label /\ p'[x].code = code /\ ~p'[x].killed /\ Seen' = p'[x].before
  BY DEF Moved, Holding, KilledInCall
<1> QED
  BY <1>1 DEF Holding, Untouched, Prepared, Cleaned, InCall, KilledInCall, CodeHolds

LEMMA InitHolds ==
  ASSUME SessionInv, NEW x \in Proc, InitSteps(x) \/ CleanupSteps(x)
  PROVE  Holding(x)'
<1> TypeOK BY DEF SessionInv, LockInv
<1>0. board \in Board BY DEF TypeOK
<1>00. Holding(x) BY DEF SessionInv
<1> USE <1>00, Moves DEF Holding, Untouched, Prepared, Cleaned, InCall, KilledInCall, CodeHolds, Moved, At, service
<1>1. CASE InitOpen(x)
  <2>1. Still /\ p[x].pc = "open" BY <1>1 DEF InitOpen, Still
  <2>2. Seen' = Seen BY <2>1 DEF Still, Seen
  <2>3. ASSUME NEW code \in {"PREREQUISITE", "INIT_FAILURE"}, Exit(x, code) PROVE Holding(x)'
    <3>1. Moved(x, "close", code) BY <2>3
    <3>2. Seen' = p[x].before BY <2>1, <2>2
    <3> QED BY <2>1, <3>1, <3>2, RefusedHolds
  <2>5. CASE Go(x, "take") BY <2>1, <2>2, <2>5
  <2> QED BY <1>1, <2>3, <2>5 DEF InitOpen
<1>2. CASE InitTake(x)
  <2>1. Go(x, "invalidate") /\ p[x].pc = "take" BY <1>2 DEF InitTake
  <2> QED BY <2>1
<1>3. CASE InitInvalidate(x)
  <2>1. usable' = FALSE /\ board' = board /\ p[x].pc = "invalidate" BY <1>3 DEF InitInvalidate
  <2>2. CASE board.core = "stopped" /\ Go(x, "configure") BY <2>1, <2>2
  <2>3. CASE Abandon(x, "INIT_FAILURE") BY <2>1, <2>3
  <2> QED BY <1>3, <2>2, <2>3 DEF InitInvalidate
<1>4. CASE InitConfigure(x)
  <2>1. CASE board' = [board EXCEPT !.low = TRUE] /\ Go(x, "magic")
    <3>1. board'.low /\ board'.core = board.core /\ p[x].pc = "configure"
      BY <1>0, <1>4, <2>1 DEF InitConfigure, Board
    <3> QED BY <2>1, <3>1
  <2>2. CASE Abandon(x, "INIT_FAILURE") BY <1>4, <2>2 DEF InitConfigure
  <2> QED BY <1>4, <2>1, <2>2 DEF InitConfigure
<1>5. CASE InitMagic(x)
  <2>1. Go(x, "populate") /\ usable' = TRUE /\ board' = board /\ p[x].pc = "magic"
    BY <1>5 DEF InitMagic
  <2> QED BY <2>1
<1>6. CASE InitPopulate(x)
  <2>1. /\ board'.lens = p[x].lens /\ board'.status = "INITIALIZING" /\ board'.core = board.core
        /\ board'.low = board.low /\ usable' = usable /\ p[x].pc = "populate"
    BY <1>0, <1>6 DEF InitPopulate, Board
  <2>2. CASE Abandon(x, "INIT_FAILURE") BY <2>1, <2>2
  <2>3. CASE Go(x, "start") BY <2>1, <2>3
  <2> QED BY <1>6, <2>2, <2>3 DEF InitPopulate
<1>7. CASE InitRun(x)
  <2>1. CASE board' = [board EXCEPT !.core = "booting"] /\ Go(x, "wait")
    <3>1. /\ board'.lens = board.lens /\ board'.status = board.status /\ board'.core = "booting"
          /\ board'.low = board.low /\ usable' = usable /\ p[x].pc = "start"
      BY <1>0, <1>7, <2>1 DEF InitRun, Board
    <3> QED BY <2>1, <3>1
  <2>2. CASE Abandon(x, "INIT_FAILURE") BY <1>7, <2>2 DEF InitRun
  <2> QED BY <1>7, <2>1, <2>2 DEF InitRun
<1>8. CASE InitWait(x)
  <2>1. Still /\ p[x].pc = "wait" BY <1>8 DEF InitWait, Still
  <2>2. CASE board.status = "READY" /\ Exit(x, "OK")
    <3>1. Moved(x, "close", "OK") BY <2>2
    <3>2. board.core = "running" /\ usable /\ board.low /\ board.lens = p[x].lens
      BY <2>1, <2>2
    <3> QED BY <2>1, <2>2, <3>1, <3>2 DEF Still
  <2>3. CASE Abandon(x, "INIT_FAILURE") BY <2>1, <2>3
  <2> QED BY <1>8, <2>2, <2>3 DEF InitWait
<1>9. CASE CleanupStop(x)
  <2>1. PICK core \in AfterStop : board' = [board EXCEPT !.core = core] BY <1>9 DEF CleanupStop
  <2>2. board'.core \in {"stopped", "stuck"} BY <1>0, <2>1 DEF AfterStop, Board
  <2>3. Go(x, "erase") /\ p[x].pc = "stop" BY <1>9 DEF CleanupStop
  <2> QED BY <2>2, <2>3
<1>10. CASE CleanupErase(x)
  <2>1. Go(x, "lower") /\ p[x].pc = "erase" /\ usable' = FALSE /\ board' = board
    BY <1>10 DEF CleanupErase
  <2> QED BY <2>1
<1>11. CASE CleanupLower(x)
  <2>1. board'.core = board.core /\ usable' = usable /\ p[x].pc = "lower"
    BY <1>0, <1>11 DEF CleanupLower, Board
  <2>2. p[x] \in Process /\ p \in [Proc -> Process] BY DEF TypeOK
  <2>3. CASE x \in Inits
    <3>1. Go(x, "close") BY <1>11, <2>3 DEF CleanupLower, Go
    <3> QED BY <2>1, <3>1 DEF Withdrawn
  <2>4. CASE x \notin Inits
    <3>1. p'[x] = [p[x] EXCEPT !.pc = "unlock", !.faulted = "CRITICAL"]
      BY <1>11, <2>2, <2>4 DEF CleanupLower, Become
    <3>2. Moved(x, "unlock", p[x].code) BY <2>2, <3>1 DEF Process
    <3> QED BY <2>1, <3>2 DEF Withdrawn
  <2> QED BY <2>3, <2>4
<1> QED BY <1>1, <1>2, <1>3, <1>4, <1>5, <1>6, <1>7, <1>8, <1>9, <1>10, <1>11
  DEF InitSteps, CleanupSteps

LEMMA ClientHolds ==
  ASSUME SessionInv, NEW x \in Proc, ClientSteps(x)
  PROVE  Holding(x)'
<1> TypeOK BY DEF SessionInv, LockInv
<1>0. p \in [Proc -> Process] /\ p[x] \in Process BY DEF TypeOK
<1>00. Holding(x) BY DEF SessionInv
<1> USE <1>00, Moves DEF Holding, Untouched, Prepared, Cleaned, InCall, KilledInCall, CodeHolds, Moved, At, service
<1>1. CASE Attach(x)
  <2>1. Still /\ p[x].pc = "attach" BY <1>1 DEF Attach, Still
  <2>2. Seen' = Seen BY <2>1 DEF Still, Seen
  <2>3. ASSUME NEW code \in {"PREREQUISITE", "NOT_INITIALIZED"}, Exit(x, code) PROVE Holding(x)'
    <3>1. Moved(x, "close", code) BY <2>3
    <3>2. Seen' = p[x].before BY <2>1, <2>2
    <3> QED BY <2>1, <3>1, <3>2, RefusedHolds
  <2>4. CASE CheckMailbox # "OK" /\ Exit(x, CheckMailbox)
    <3>1. Exit(x, "NOT_INITIALIZED") BY <2>4 DEF CheckMailbox
    <3> QED BY <2>3, <3>1
  <2>5. CASE Become(x, Returned(x, "NONE"))
    <3>1. p'[x] = Returned(x, "NONE") BY <1>0, <2>5 DEF Become
    <3> QED BY <3>1, ReturnedHolds
  <2> QED BY <1>1, <2>3, <2>4, <2>5 DEF Attach
<1>2. CASE SendCheck(x)
  <2>1. Still /\ p[x].pc = "check" BY <1>2 DEF SendCheck, Still
  <2>2. Seen' = Seen BY <2>1 DEF Still, Seen
  <2>3. CASE CheckMailbox # "OK" /\ Sent(x, CheckMailbox)
    <3>1. Sent(x, "NOT_INITIALIZED") BY <2>3 DEF CheckMailbox
    <3> QED BY <2>1, <2>2, <3>1
  <2>4. CASE Sent(x, "PREREQUISITE") BY <2>1, <2>2, <2>4
  <2>5. CASE Become(x, [p[x] EXCEPT !.pc = "ioctl", !.lens = board.lens])
    <3>1. p'[x] = [p[x] EXCEPT !.pc = "ioctl", !.lens = board.lens] BY <1>0, <2>5 DEF Become
    <3>2. /\ p'[x].pc = "ioctl" /\ p'[x].before = p[x].before /\ p'[x].killed = p[x].killed
      BY <1>0, <3>1 DEF Process
    <3> QED BY <2>1, <2>2, <3>2
  <2> QED BY <1>2, <2>3, <2>4, <2>5 DEF SendCheck
<1>3. CASE IoctlRejected(x)
  <2>1. Still /\ p[x].pc = "ioctl" BY <1>3 DEF IoctlRejected, Still
  <2>2. Seen' = Seen BY <2>1 DEF Still, Seen
  <2>3. CASE Abandon(x, "CRITICAL") BY <2>1, <2>3
  <2>4. ASSUME NEW code \in {"PREREQUISITE", "BUSY", "NOT_INITIALIZED"}, Sent(x, code)
        PROVE  Holding(x)'
    <3>1. Moved(x, "unlock", code) BY <2>4
    <3>2. Seen' = p[x].before BY <2>1, <2>2
    <3> QED BY <2>1, <3>1, <3>2, RefusedHolds
  <2> QED BY <1>3, <2>3, <2>4 DEF IoctlRejected
<1>4. CASE IoctlBegins(x)
  <2>1. /\ p[x].pc = "ioctl" /\ usable' = usable /\ lit' = lit /\ board' = board /\ shown' = shown
        /\ CheckMailbox = "OK" /\ p[x].lens = board.lens
        /\ call' = Frame!Sending(p[x].wire, p[x].lens)
    BY <1>4 DEF IoctlBegins, Frame!Begin
  <2>2. Seen' = Seen BY <2>1 DEF Seen
  <2>3. call'.phase = "sending" /\ call'.wire = p[x].wire /\ call'.lens = p[x].lens
    BY <2>1 DEF Frame!Sending
  <2>4. usable BY <2>1 DEF CheckMailbox
  <2>5. Moved(x, "kernel", p[x].code) BY <1>4 DEF IoctlBegins
  <2> QED BY <2>1, <2>2, <2>3, <2>4, <2>5
<1>5. CASE IoctlReturns(x)
  <2>1. /\ p[x].pc = "kernel" /\ usable' = usable /\ board' = board /\ shown' = shown
        /\ call.phase \in {"ok", "rejected", "failed"}
    BY <1>5 DEF IoctlReturns, Frame!Finish
  <2>2. Seen' = Seen BY <2>1 DEF Seen
  <2>3. CASE p[x].killed
    <3>1. p'[x] = NotRunning BY <1>0, <1>5, <2>3 DEF IoctlReturns, Become
    <3> QED BY <3>1, NotRunningFields, OutsideHolds
  <2>4. CASE ~p[x].killed /\ Abandon(x, "CRITICAL") BY <2>1, <2>4
  <2>5. ASSUME ~p[x].killed, call.phase = "rejected", NEW code \in {"BUSY", "PREREQUISITE"},
               Sent(x, code)
        PROVE  Holding(x)'
    BY <2>1, <2>2, <2>5
  <2>6. CASE ~p[x].killed /\ call.phase = "ok" /\ Sent(x, "OK") BY <2>1, <2>6
  <2> QED BY <1>5, <2>3, <2>4, <2>5, <2>6 DEF IoctlReturns
<1>6. CASE Unlock(x)
  <2>1. \E code \in {"PREREQUISITE", p[x].faulted} : p'[x] = Returned(x, code)
    BY <1>0, <1>6 DEF Unlock, Become
  <2>2. PICK code \in {"PREREQUISITE", p[x].faulted} : p'[x] = Returned(x, code) BY <2>1
  <2> QED BY <2>2, ReturnedHolds
<1> QED BY <1>1, <1>2, <1>3, <1>4, <1>5, <1>6 DEF ClientSteps

LEMMA OwnHolds ==
  ASSUME SessionInv, NEW x \in Proc, Steps(x)
  PROVE  Holding(x)'
<1> TypeOK BY DEF SessionInv, LockInv
<1>0. p \in [Proc -> Process] /\ p[x] \in Process BY DEF TypeOK
<1>00. Holding(x) BY DEF SessionInv
<1>1. CASE InitSteps(x) \/ CleanupSteps(x) \/ ClientSteps(x) BY <1>1, InitHolds, ClientHolds
<1>2. CASE Close(x)
  <2>1. p'[x] = NotRunning BY <1>0, <1>2 DEF Close, Become
  <2> QED BY <2>1, NotRunningFields, OutsideHolds
<1>3. CASE Signal(x)
  <2>1. p'[x] = [p[x] EXCEPT !.cancelled = TRUE] /\ Still BY <1>0, <1>3 DEF Signal, Become, Still, service
  <2>2. Moved(x, p[x].pc, p[x].code) BY <1>0, <2>1 DEF Process, Moved
  <2>3. Seen' = Seen BY <2>1 DEF Still, Seen
  <2> QED
    BY <1>00, <2>1, <2>2, <2>3 DEF Still, Moved, Holding, Untouched, Prepared, Cleaned, InCall,
       KilledInCall, CodeHolds, Withdrawn
<1>4. CASE Kill(x)
  <2>1. CASE At(x, "kernel")
    <3>1. p'[x] = [p[x] EXCEPT !.killed = TRUE] /\ Still
      BY <1>0, <1>4, <2>1 DEF Kill, Become, Still, service
    <3>2. /\ p'[x].pc = "kernel" /\ p[x].pc = "kernel" /\ p'[x].wire = p[x].wire
          /\ p'[x].lens = p[x].lens /\ p'[x].before = p[x].before
      BY <1>0, <2>1, <3>1 DEF Process, At
    <3>3. Seen' = Seen BY <3>1 DEF Still, Seen
    <3> QED
      BY <1>00, <3>1, <3>2, <3>3 DEF Still, Holding, Untouched, Prepared, Cleaned, InCall,
         KilledInCall, CodeHolds
  <2>2. CASE ~At(x, "kernel")
    <3>1. p'[x] = NotRunning BY <1>0, <1>4, <2>2 DEF Kill, Become
    <3> QED BY <3>1, NotRunningFields, OutsideHolds
  <2> QED BY <2>1, <2>2
<1>5. ASSUME NEW label \in {"open", "attach"}, NEW lens \in Layouts, Start(x, label, lens)
      PROVE  Holding(x)'
  <2>1. Still /\ p[x].pc = "off" BY <1>5 DEF Start, Still, service, At
  <2>2. Seen' = Seen BY <2>1 DEF Still, Seen
  <2>3. CASE lock = Nobody
    <3>1. p'[x] = [NotRunning EXCEPT !.pc = label, !.lens = lens, !.before = Seen]
      BY <1>0, <1>5, <2>3 DEF Start, Become
    <3>2. p'[x].pc = label /\ p'[x].before = Seen /\ ~p'[x].killed BY <3>1 DEF NotRunning
    <3> QED BY <2>2, <3>2 DEF Holding, Untouched, Prepared, Cleaned, InCall, KilledInCall, CodeHolds
  <2>4. CASE lock # Nobody
    <3>1. p' = p BY <1>5, <2>4 DEF Start
    <3>2. ~p[x].killed BY <1>00, <2>1 DEF Holding, KilledInCall
    <3> QED BY <2>1, <3>1, <3>2, OutsideHolds
  <2> QED BY <2>3, <2>4
<1>6. ASSUME NEW wire \in Colors, SendLock(x, wire) PROVE Holding(x)'
  <2>1. Still /\ p[x].pc = "idle" BY <1>6 DEF SendLock, Still, service, At
  <2>2. Seen' = Seen BY <2>1 DEF Still, Seen
  <2>3. ~p[x].killed BY <1>00, <2>1 DEF Holding, KilledInCall
  <2>4. CASE p' = p BY <2>1, <2>3, <2>4, OutsideHolds
  <2>5. CASE p' # p
    <3>1. p'[x] = [p[x] EXCEPT !.pc = "check", !.wire = wire, !.before = Seen]
      BY <1>0, <1>6, <2>5 DEF SendLock, Become
    <3>2. p'[x].pc = "check" /\ p'[x].before = Seen /\ p'[x].killed = p[x].killed
      BY <1>0, <3>1 DEF Process
    <3> QED BY <2>2, <2>3, <3>2 DEF Holding, Untouched, Prepared, Cleaned, InCall, KilledInCall, CodeHolds
  <2> QED BY <2>4, <2>5
<1> QED BY <1>1, <1>2, <1>3, <1>4, <1>5, <1>6 DEF Steps

\* A step of another process leaves alone the block that this one's lock protects.
LEMMA BystanderHolds ==
  ASSUME SessionInv, NEW x \in Proc, NEW y \in Proc, x # y, Steps(x)
  PROVE  Holding(y)'
<1> LockInv BY DEF SessionInv
<1>0. p \in [Proc -> Process] BY DEF LockInv, TypeOK
<1>00. Holding(y) BY DEF SessionInv
<1>1. p'[y] = p[y] BY <1>0, StepsTurn DEF Turn
<1>2. CASE p[y].pc \notin Locked
  <2>1. p[y].pc \in {"off", "idle"} BY <1>0, <1>2 DEF Process, Locked
  <2>2. ~p[y].killed BY <1>00, <2>1 DEF Holding, KilledInCall
  <2> QED BY <1>1, <2>1, <2>2, OutsideHolds
<1>3. CASE p[y].pc \in Locked
  <2>1. lock = y /\ p[x].pc \notin Locked BY <1>3 DEF LockInv, LockProtects
  <2>2. p[x].pc \in {"off", "idle"} BY <1>0, <2>1 DEF Process, Locked
  <2>3. Still
    <3>1. ~(InitSteps(x) \/ CleanupSteps(x))
      BY <2>2 DEF InitSteps, CleanupSteps, At, InitOpen, InitTake, InitInvalidate, InitConfigure,
         InitMagic, InitPopulate, InitRun, InitWait, CleanupStop, CleanupErase, CleanupLower
    <3>2. ~ClientSteps(x)
      BY <2>2 DEF ClientSteps, At, Attach, SendCheck, IoctlRejected, IoctlBegins, IoctlReturns, Unlock
    <3>3. CASE Close(x) \/ Signal(x) \/ Kill(x) BY <3>3 DEF Close, Signal, Kill, Still, service
    <3>4. CASE \/ \E label \in {"open", "attach"}, lens \in Layouts : Start(x, label, lens)
               \/ \E wire \in Colors : SendLock(x, wire)
      BY <3>4 DEF Start, SendLock, Still, service
    <3> QED BY <3>1, <3>2, <3>3, <3>4 DEF Steps
  <2>4. Seen' = Seen BY <2>3 DEF Still, Seen
  <2> QED
    BY <1>00, <1>1, <2>3, <2>4 DEF Still, Holding, Untouched, Prepared, Cleaned, InCall,
       KilledInCall, CodeHolds, Withdrawn
<1> QED BY <1>2, <1>3

\* The helper works for the process inside the ioctl; a core that boots or stops late
\* changes nothing a label relies on.
LEMMA OthersHold ==
  ASSUME SessionInv, NEW x \in Proc, Others
  PROVE  Holding(x)'
<1> LockInv BY DEF SessionInv
<1>0. BlockTyped /\ board \in Board /\ p \in [Proc -> Process] BY DEF LockInv, TypeOK, BlockTyped
<1>00. Holding(x) BY DEF SessionInv
<1>1. UNCHANGED <<p, lock>> BY <1>0, OthersTyped
<1>2. CASE p[x].pc \notin Locked
  <2>1. p[x].pc \in {"off", "idle"} BY <1>0, <1>2 DEF Process, Locked
  <2>2. ~p[x].killed BY <1>00, <2>1 DEF Holding, KilledInCall
  <2> QED BY <1>1, <2>1, <2>2, OutsideHolds
<1>3. CASE Kernel /\ p[x].pc \in Locked
  <2>1. call # Frame!None
    BY <1>0, <1>3, CallFields DEF Kernel, KernelRefuses, KernelLights, KernelSucceeds, KernelFails,
       Frame!Light, Frame!Succeed, Frame!Fail
  <2>2. p[x].pc = "kernel" BY <1>3, <2>1, Exclusive
  <2> SUFFICES InCall(x)'
    BY <1>1, <2>2 DEF Holding, Untouched, Prepared, Cleaned, KilledInCall, CodeHolds
  <2> USE <1>00, <1>1, <2>2 DEF Holding, InCall
  <2>3. CASE KernelRefuses
    <3>1. /\ call.phase = "sending" /\ lit = {} /\ call'.phase = "rejected"
          /\ usable' = usable /\ shown' = shown
      BY <2>1, <2>3 DEF KernelRefuses, Frame!Refuse, Frame!Outcome
    <3>2. Seen' = Seen BY <3>1 DEF Seen
    <3> QED BY <3>1, <3>2
  <2>4. CASE KernelLights
    <3>1. /\ call.phase = "sending" /\ call' = call /\ usable' = usable /\ board' = board /\ lit' # {}
      BY <2>4 DEF KernelLights, Frame!Light
    <3> QED BY <3>1
  <2>5. CASE KernelSucceeds
    <3>1. /\ call.phase = "sending" /\ call'.phase = "ok" /\ usable' = usable
          /\ board.core = "running" /\ shown' = [wire |-> call.wire, lens |-> call.lens]
      BY <2>5 DEF KernelSucceeds, Frame!Succeed, Frame!Outcome
    <3>2. board'.core = board.core /\ board'.lens = board.lens /\ board'.status = "DONE"
      BY <1>0, <2>5 DEF KernelSucceeds, Board
    <3> QED BY <3>1, <3>2
  <2>6. CASE KernelFails
    <3>1. call'.phase = "failed" BY <2>6 DEF KernelFails, Frame!Fail, Frame!Outcome
    <3> QED BY <3>1
  <2> QED BY <1>3, <2>3, <2>4, <2>5, <2>6 DEF Kernel
<1>4. CASE FirmwareBoots
  <2>1. /\ UNCHANGED <<usable, call, lit, shown>> /\ board.core = "booting"
        /\ board'.lens = board.lens /\ board'.low = board.low
        /\ <<board'.core, board'.status>> \in {<<"running", "READY">>, <<"stopped", "ERROR">>}
    BY <1>0, <1>4 DEF FirmwareBoots, service, Board
  <2>2. Seen' = Seen BY <2>1 DEF Seen
  <2> QED
    BY <1>00, <1>1, <2>1, <2>2 DEF Holding, Untouched, Prepared, Cleaned, InCall,
       KilledInCall, CodeHolds, Withdrawn
<1>5. CASE StuckFinishes
  <2>1. /\ UNCHANGED <<usable, call, lit, shown>> /\ board.core = "stuck"
        /\ board'.lens = board.lens /\ board'.core = "stopped"
    BY <1>0, <1>5 DEF StuckFinishes, service, Board
  <2>2. Seen' = Seen BY <2>1 DEF Seen
  <2> QED
    BY <1>00, <1>1, <2>1, <2>2 DEF Holding, Untouched, Prepared, Cleaned, InCall,
       KilledInCall, CodeHolds, Withdrawn
<1> QED BY <1>2, <1>3, <1>4, <1>5 DEF Others

\* The inductive invariant behind the exit codes.
THEOREM SessionsHold == Spec => []SessionInv
<1>1. Init => SessionInv
  <2> SUFFICES ASSUME Init PROVE SessionInv OBVIOUS
  <2>1. \A x \in Proc : p[x].pc = "off" /\ ~p[x].killed BY NotRunningFields DEF Init
  <2>2. \A x \in Proc : Holding(x)
    BY <2>1 DEF Holding, Untouched, Prepared, Cleaned, InCall, KilledInCall, CodeHolds
  <2> QED BY <2>2, InitLocks DEF SessionInv
<1>2. SessionInv /\ [Next]_vars => SessionInv'
  <2> SUFFICES ASSUME SessionInv, [Next]_vars PROVE SessionInv' OBVIOUS
  <2>1. LockInv' BY NextLocks DEF SessionInv
  <2>2. \A x \in Proc : Holding(x)'
    <3> SUFFICES ASSUME NEW x \in Proc PROVE Holding(x)' OBVIOUS
    <3>1. CASE UNCHANGED vars
      <4>1. Holding(x) BY DEF SessionInv
      <4>2. UNCHANGED <<usable, call, lit, board, p, shown>> BY <3>1 DEF vars, service
      <4>3. Seen' = Seen BY <4>2 DEF Seen
      <4> QED
        BY <4>1, <4>2, <4>3 DEF Holding, Untouched, Prepared, Cleaned, InCall, KilledInCall,
           CodeHolds, Withdrawn
    <3>2. ASSUME NEW y \in Proc, Steps(y) PROVE Holding(x)'
      BY <3>2, OwnHolds, BystanderHolds
    <3>3. CASE Others BY <3>3, OthersHold
    <3> QED BY <3>1, <3>2, <3>3, NextSplits
  <2> QED BY <2>1, <2>2 DEF SessionInv
<1> QED BY <1>1, <1>2, PTL DEF Spec

\* Success, a refusal, a withdrawn session and a live one are never confused
\* in an exit code (spec.md 9.6).
THEOREM ExitsTellTheTruth == Spec => []ExitCodesAreTrue
<1>1. SessionInv => ExitCodesAreTrue
  <2> SUFFICES ASSUME SessionInv, NEW x \in Proc
               PROVE  OkIsShown(x) /\ RefusalLeavesSession(x) /\ FailureWithdraws(x) /\ InitSuccessIsLive(x)
    BY DEF ExitCodesAreTrue
  <2>1. CodeHolds(x) BY DEF SessionInv, Holding
  <2>2. OkIsShown(x) BY <2>1 DEF CodeHolds, OkIsShown, At, CheckMailbox
  <2>3. RefusalLeavesSession(x) BY <2>1 DEF CodeHolds, RefusalLeavesSession
  <2>4. FailureWithdraws(x) BY <2>1 DEF CodeHolds, FailureWithdraws
  <2>5. InitSuccessIsLive(x) BY <2>1 DEF CodeHolds, InitSuccessIsLive, At, CheckMailbox
  <2> QED BY <2>2, <2>3, <2>4, <2>5
<1> QED BY <1>1, SessionsHold, PTL

LEMMA KilledStep ==
  ASSUME SessionInv, [Next]_vars, NEW x \in Proc, p[x].killed, p'[x].pc = "off", call.phase = "ok"
  PROVE  /\ lock' = Nobody /\ CheckMailbox' = "OK"
         /\ shown' = [wire |-> p[x].wire, lens |-> board.lens]
<1> LockInv BY DEF SessionInv
<1>0. p \in [Proc -> Process] /\ BlockTyped BY DEF LockInv, TypeOK, BlockTyped
<1>1. p[x].pc = "kernel" /\ InCall(x) BY DEF SessionInv, Holding, KilledInCall
<1>2. p'[x] # p[x] BY <1>1
<1>3. ~(UNCHANGED vars) BY <1>2 DEF vars
<1>4. ~Others BY <1>0, <1>2, OthersTyped
<1>5. PICK y \in Proc : Steps(y) BY <1>3, <1>4, NextSplits
<1>6. y = x BY <1>0, <1>2, <1>5, StepsTurn DEF Turn
<1>7. IoctlReturns(x)
  <2>1. ~(InitSteps(x) \/ CleanupSteps(x))
    BY <1>1 DEF InitSteps, CleanupSteps, At, InitOpen, InitTake, InitInvalidate, InitConfigure,
       InitMagic, InitPopulate, InitRun, InitWait, CleanupStop, CleanupErase, CleanupLower
  <2>2. ~(Close(x) \/ Kill(x)) BY <1>1 DEF Close, Kill, At
  <2>3. ~Signal(x)
    <3>1. Signal(x) => p'[x].pc = p[x].pc BY <1>0 DEF Signal, Become, Process
    <3> QED BY <1>1, <3>1
  <2>4. ~(\E label \in {"open", "attach"}, lens \in Layouts : Start(x, label, lens))
    BY <1>1 DEF Start, At
  <2>5. ~(\E wire \in Colors : SendLock(x, wire)) BY <1>1 DEF SendLock, At
  <2>6. ClientSteps(x) BY <1>5, <1>6, <2>1, <2>2, <2>3, <2>4, <2>5 DEF Steps
  <2> QED BY <1>1, <2>6 DEF ClientSteps, At, Attach, SendCheck, IoctlRejected, IoctlBegins, Unlock
<1>8. lock' = Nobody /\ UNCHANGED <<usable, board, shown>>
  BY <1>7 DEF IoctlReturns, Frame!Finish
<1> QED BY <1>1, <1>8 DEF InCall, CheckMailbox

\* A frame that succeeds after its sender was killed leaves the lock free and a
\* session the next sender may use (spec.md 8.3).
THEOREM SessionsOutliveSenders == Spec => SessionOutlivesSender
<1>1. SessionInv /\ [Next]_vars =>
        [\A x \in Clients : p[x].killed /\ p'[x].pc = "off" /\ call.phase = "ok" =>
           /\ lock' = Nobody /\ CheckMailbox' = "OK"
           /\ shown' = [wire |-> p[x].wire, lens |-> board.lens]]_vars
  BY KilledStep DEF Proc
<1> QED BY <1>1, SessionsHold, PTL DEF Spec, SessionOutlivesSender
=============================================================================
