--------------------------- MODULE QuietFrameInv ----------------------------
(***************************************************************************)
(* The inductive invariants of a frame.  QuietInv is the one behind        *)
(* StreamsOnlyInQuietWindow, and no part of it speaks of sequence numbers: *)
(* what keeps the waveform inside the window is the handshake on           *)
(* bank_ready, bank_grant and bank_done alone.  FrameInv adds what the     *)
(* firmware and the helper know of the request they work on.               *)
(***************************************************************************)
EXTENDS QuietFrame

\* The counters stay in range wherever a later step adds to them.
Bounds ==
  /\ pru.pc \in {"group", "ready", "gate", "release", "resume", "stream", "bankDone"}
       => pru.bank \in Bank
  /\ k.pc \in {"mask", "check", "drain", "warm", "grant", "spin", "observe",
               "withdraw", "restore", "unmask"} => k.bank \in Bank
  /\ k.pc \in {"gateError", "gateAccepted", "gateWord", "check", "drain", "warm",
               "grant", "spin", "observe", "withdraw", "restore", "unmask"}
       => k.tries < MaxTries

Halting == pru.pc \in {"fatal", "fatalStatus"}

\* The gate lets the firmware into the stream, or it is there already.
Open == Streaming \/ (pru.pc = "gate" /\ mb.grant >= pru.bank)

\* The protected window of a granted bank that has not been seen to finish.
Window == /\ k.granted
          /\ \/ k.pc \in {"spin", "observe"}
             \/ k.pc = "withdraw" /\ k.err # "none"

\* bank_ready names the firmware's bank while it holds at the gate, else zero.
ReadyNamesBank ==
  Executing /\ mb.ready # 0 =>
    Halting \/ (pru.pc \in {"gate", "release"} /\ mb.ready = pru.bank)

\* Before its gate the firmware has neither a grant nor a done for its bank.
NoGrantAhead ==
  Executing =>
    /\ pru.pc \in {"clearReady", "clearDone", "accept", "color", "running"} => mb.grant = 0
    /\ pru.pc \in {"group", "ready"} => mb.grant < pru.bank
    /\ pru.pc \in {"gate", "release", "resume", "stream", "bankDone"} => mb.grant <= pru.bank

NoDoneAhead ==
  Executing =>
    /\ pru.pc \in {"accept", "color", "running"} => mb.done = 0
    /\ pru.pc \in {"group", "ready", "gate", "release", "resume", "stream", "bankDone"}
         => mb.done < pru.bank

\* Until it grants, the helper holds firmware that waits at the gate of k.bank.
HeldAtGate ==
  \/ k.pc \in {"mask", "check", "drain", "warm", "grant"}
  \/ k.pc \in {"withdraw", "restore", "unmask"} /\ ~k.granted

Held ==
  HeldAtGate /\ Executing =>
    Halting \/ (pru.pc = "gate" /\ pru.bank = k.bank /\ mb.grant < pru.bank)

\* Nothing is granted before the window, and the window is quiet.
GrantedFlag ==
  /\ k.pc \in {"gateStatus", "gateError", "gateAccepted", "gateWord",
               "mask", "check", "drain", "warm", "grant"} => ~k.granted
  /\ k.pc \in {"spin", "observe"} => k.granted

QuietSoFar ==
  /\ k.pc \in {"drain", "warm", "grant"} \/ Window => hw.cmdIdle
  /\ k.pc \in {"warm", "grant"} \/ Window => ~hw.cpswBusy /\ ~hw.dmaBusy

OpenOnlyInWindow == Executing /\ Open => Window /\ pru.bank = k.bank

Handshake == ReadyNamesBank /\ NoGrantAhead /\ NoDoneAhead /\ Held /\ OpenOnlyInWindow

QuietInv == TypeOK /\ Bounds /\ GrantedFlag /\ QuietSoFar /\ Handshake

-----------------------------------------------------------------------------
(* What is known of CMD_IDLE and of a failed frame while they last.        *)

CpswAccounted ==
  hw.cmdIdle /\ k.changed =>
    \/ k.pc \in {"drain", "warm", "grant", "spin", "observe", "withdraw", "restore"}
    \/ k.restoreFailed /\ k.err = "fail"
         /\ k.pc \in {"unmask", "snapshot", "disable", "stop", "clear"}

CleanupSoFar ==
  /\ k.result = "failed" => k.pc = "return"
  /\ ~k.stopFailed /\ (k.pc \in {"stop", "clear"} \/ k.result = "failed")
       => ~mb.magic /\ ~pru.en
  /\ ~k.stopFailed /\ (k.pc = "clear" \/ k.result = "failed") => ~pru.run
  /\ ~k.stopFailed /\ k.result = "failed" => k.lowFailed \/ ~pins

CleanupInv == TypeOK /\ CpswAccounted /\ CleanupSoFar
-----------------------------------------------------------------------------
(* The inductive invariant behind SessionIsSound, RequestIsFollowed,       *)
(* SuccessMeansSent and ImplementsService.  First what holds of the        *)
(* firmware at each place in its program, whatever the helper does.        *)

BootLabel == {"boot", "bootClear", "bootReady"}
BankLabel == {"group", "ready", "gate", "release", "resume", "stream", "bankDone"}
LastLabel == {"settle", "complete", "doneStatus"}

\* The firmware has accepted a request; it has taken one up.
AcceptedLabel == {"color", "running"} \cup BankLabel \cup LastLabel
EngagedLabel == {"grantCheck", "clearReady", "clearDone", "accept"} \cup AcceptedLabel

\* A core that no dld-init has taken is only disabled together with its magic,
\* so its block belongs to firmware that runs or has halted itself.
MagicMeansAlive ==
  /\ pru.en => mb.magic /\ pru.run /\ ~pru.taken
  /\ mb.magic => pru.en \/ pru.pc = "fatalStatus" \/ pru.taken
  /\ pru.pc = "reset" => ~pru.en /\ ~pru.run

BootIsFresh ==
  pru.pc \in BootLabel =>
    mb.req = 0 /\ mb.status = "INITIALIZING" /\ (pru.pc = "bootReady" => pru.r3 = 0)

\* Its registers and the block name one request.
OneRequest ==
  /\ pru.pc \in EngagedLabel => pru.r3 = mb.req
  /\ pru.pc \in AcceptedLabel => mb.acc = pru.r3
  /\ pru.pc \in AcceptedLabel \ {"color"} => pru.r4 = mb.color
  /\ pru.pc = "doneStatus" => mb.comp = pru.r3

\* The gate words at each label, with no grant ahead of the announcement.
GateWords ==
  /\ pru.pc = "poll" /\ pru.r3 # mb.req => mb.grant = 0
  /\ pru.pc \in EngagedLabel \ (BankLabel \cup LastLabel) => mb.grant = 0
  /\ pru.pc \in {"group", "ready"} => mb.grant < pru.bank
  /\ pru.pc = "gate" => mb.grant <= pru.bank
  /\ pru.pc \in {"release", "resume", "stream", "bankDone"} => mb.grant = pru.bank
  /\ pru.pc \in {"accept", "color", "running"} => mb.done = 0
  /\ pru.pc \in LastLabel => mb.grant = LastBank(mb.lens) /\ mb.done = mb.grant
  /\ pru.pc \in {"clearDone", "accept"} \cup AcceptedLabel =>
       mb.ready = IF pru.pc \in {"gate", "release"} THEN pru.bank ELSE 0

\* The banks sent so far are exactly those before the one it is at.
SentInOrder ==
  /\ pru.pc \in {"color", "running"} => pru.sent = {}
  /\ pru.pc \in BankLabel => pru.bank \in mb.lens
  /\ pru.pc \in {"group", "ready", "gate", "release", "resume"} =>
       pru.sent = {c \in mb.lens : c < pru.bank}
  /\ pru.pc \in {"stream", "bankDone"} => pru.sent = {c \in mb.lens : c <= pru.bank}
  /\ pru.pc \in LastLabel => pru.sent = mb.lens

\* A fault is never about a gate, and is in the block before ERROR is.
FaultsAreOwn ==
  /\ pru.det # "GATE"
  /\ pru.pc \in {"fatal", "fatalStatus"} => pru.det # "NONE"
  /\ pru.pc = "fatalStatus" => mb.err # "NONE"
  /\ pru.pc \in {"bootReady", "poll"} \cup EngagedLabel => mb.err = "NONE"

StatusAndPins ==
  /\ pru.pc \in {"group", "stream", "bankDone"} \cup LastLabel => mb.status = "RUNNING"
  /\ pru.pc \notin {"stream", "fatal", "fatalStatus", "reset"} => ~pins

FirmwareInv == /\ MagicMeansAlive /\ BootIsFresh /\ OneRequest /\ GateWords
               /\ SentInOrder /\ FaultsAreOwn /\ StatusAndPins

-----------------------------------------------------------------------------
(* Then what the helper and the firmware know of each other.               *)

Before == {"preflight", "publish", "publishColor", "publishSeq"}
Outside == {"idle", "return"}
Published == KernelLabel \ (Before \cup Outside)

OutcomeGiven ==
  IF K("return") THEN k.result \in {"ok", "rejected", "failed"} ELSE k.result = "none"

Waiting == pru.pc = "poll" /\ pru.r3 = mb.req

\* Between calls a live session has firmware that boots, waits or has halted.
SessionAtRest ==
  k.pc \in Outside /\ clk /\ mb.magic =>
    \/ pru.pc \in BootLabel \cup {"reset", "fatalStatus"} \/ Waiting
    \/ pru.pc = "fatal" /\ mb.status = "INITIALIZING"

\* From validation to publication the session stays the one validated.
StillValid ==
  k.pc \in Before =>
    /\ mb.magic /\ mb.err = "NONE" /\ mb.status \in {"READY", "DONE"} /\ mb.ready = 0
    /\ mb.lens = k.lens /\ k.lens \in Layouts
    /\ k.seq = NextSeq(mb.req) /\ mb.acc = mb.req /\ mb.comp = mb.req
    /\ pru.pc = "reset" \/ Waiting
    /\ k.pc \in {"publishColor", "publishSeq"} => clk /\ mb.grant = 0
    /\ K("publishSeq") => mb.color = k.wire

\* The firmware has not taken the request up yet; or it has completed it.
NotTaken == /\ pru.pc = "reset" \/ (pru.pc = "poll" /\ pru.r3 # k.seq)
            /\ mb.acc # k.seq /\ mb.comp # k.seq /\ mb.ready = 0
Finished == /\ Waiting /\ mb.acc = k.seq /\ mb.comp = k.seq /\ mb.status = "DONE"
            /\ mb.ready = 0 /\ mb.grant = LastBank(mb.lens) /\ mb.done = mb.grant
            /\ pru.sent = mb.lens /\ pru.r4 = mb.color

\* From publication on the block carries this request and no other, and its
\* completion appears only when the firmware is through with it.
RequestInProgress ==
  k.pc \in Published =>
    /\ mb.req = k.seq /\ mb.color = k.wire /\ mb.lens = k.lens /\ k.lens \in Layouts
    /\ pru.pc \notin BootLabel
    /\ pru.pc \in {"reset", "poll"} => NotTaken \/ Finished \/ (pru.pc = "reset" /\ K("clear"))
    /\ pru.pc \in EngagedLabel \ AcceptedLabel => mb.acc # k.seq
    /\ pru.pc \in {"grantCheck", "clearReady", "fatal", "fatalStatus"} => mb.ready = 0
    /\ pru.pc \notin {"reset", "poll", "doneStatus"} => mb.comp # k.seq

\* The session is given up only by the cleanup of a granted bank or a frame.
MagicUntilGivenUp ==
  /\ k.pc \in Published \ {"restore", "unmask", "snapshot", "disable", "stop", "clear"} => mb.magic
  /\ k.pc \in {"restore", "unmask"} => mb.magic \/ (k.granted /\ k.err # "none")
  /\ K("snapshot") /\ k.err = "none" => mb.magic
  /\ k.pc \in {"stop", "clear"} /\ clk => ~mb.magic

\* No burst of reads spans the reset hold, so a DONE status that was read
\* before the hold is never paired with the completion written after it.
BurstIsCoherent ==
  k.pc \in {"gateError", "gateAccepted", "gateWord"} =>
    /\ clk
    /\ k.match /\ Final => pru.pc \notin {"complete", "doneStatus"}
    /\ K("gateWord") /\ k.match => mb.acc = k.seq

\* Until it grants, the firmware stays at the gate of this bank, run or not.
StaysAtGate == HeldAtGate => pru.pc = "gate" /\ pru.bank = k.bank /\ mb.grant < k.bank

SuccessIsFinished == K("snapshot") /\ k.err = "none" => Finished

\* A core that a killed dld-init left disabled ends its one last instruction, and
\* if that was the poll loop's it has stopped before it takes the request up.
TakenTakesNothingUp ==
  pru.taken /\ k.pc \in Published =>
    pru.pc \in {"reset", "poll"} \/ (pru.pc = "grantCheck" /\ ~pru.run)

CallInv == /\ OutcomeGiven /\ SessionAtRest /\ StillValid /\ RequestInProgress
           /\ MagicUntilGivenUp /\ BurstIsCoherent /\ StaysAtGate /\ SuccessIsFinished
          /\ TakenTakesNothingUp

FrameInv == QuietInv /\ FirmwareInv /\ CallInv
=============================================================================
