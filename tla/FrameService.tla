---------------------------- MODULE FrameService ----------------------------
(***************************************************************************)
(* What one session promises the process that sends frames, without a      *)
(* mailbox, a firmware or an interrupt mask: a call either succeeds, and   *)
(* then every configured bank was lit exactly once, in order, with the     *)
(* colour asked for; or it fails, and then the session is gone; or it is   *)
(* refused, and then nothing was lit and the session is as it was.         *)
(***************************************************************************)
EXTENDS Naturals

CONSTANTS Colors, Layouts

VARIABLES usable,   \* is there a session: a configured block, a live clock
          call,     \* "none", the colour and layout being sent, or an outcome
          lit       \* the banks lit for the call in progress

service == <<usable, call, lit>>

None == [phase |-> "none"]
Sending(wire, lens) == [phase |-> "sending", wire |-> wire, lens |-> lens]
Outcome(result) == [phase |-> result]

Init == usable = FALSE /\ call = None /\ lit = {}

Begin(wire, lens) ==
  /\ call = None /\ usable
  /\ call' = Sending(wire, lens)
  /\ UNCHANGED <<usable, lit>>

Refuse ==
  /\ \/ call = None
     \/ call.phase = "sending" /\ lit = {}
  /\ call' = Outcome("rejected")
  /\ UNCHANGED <<usable, lit>>

\* The pair in lit carries the colour that really left the pins.
Light(bank) ==
  /\ call.phase = "sending"
  /\ bank \in call.lens
  /\ \A other \in call.lens : other < bank <=> <<other, call.wire>> \in lit
  /\ lit' = lit \cup {<<bank, call.wire>>}
  /\ UNCHANGED <<usable, call>>

Succeed ==
  /\ call.phase = "sending" /\ usable
  /\ lit = {<<bank, call.wire>> : bank \in call.lens}
  /\ call' = Outcome("ok")
  /\ lit' = {}
  /\ UNCHANGED usable

Fail ==
  /\ call.phase = "sending"
  /\ call' = Outcome("failed")
  /\ usable' = FALSE
  /\ lit' = {}

Finish ==
  /\ call.phase \in {"ok", "rejected", "failed"}
  /\ call' = None
  /\ UNCHANGED <<usable, lit>>

\* Between calls an operator makes or removes a session.
Reconfigure ==
  /\ call = None
  /\ usable' \in BOOLEAN
  /\ UNCHANGED <<call, lit>>

\* The PRUSS clock may be lost at any time.
Lose ==
  /\ usable' = FALSE
  /\ UNCHANGED <<call, lit>>

Next ==
  \/ \E wire \in Colors, lens \in Layouts : Begin(wire, lens)
  \/ Refuse \/ Succeed \/ Fail \/ Finish \/ Reconfigure \/ Lose
  \/ \E bank \in UNION Layouts : Light(bank)

Spec == Init /\ [][Next]_service
=============================================================================
