----------------------------- MODULE BenchCapture -----------------------------
(***************************************************************************)
(* A driver on the bench and a capture of what it sends.                   *)
(*                                                                         *)
(* In a case (tools/bench_matrix.py, run_case) a capture is armed, a       *)
(* sender runs to its end, the capture is stopped by a file and analysed   *)
(* with the number of frames it must hold.  In a chunk (tools/             *)
(* bench_soak.py) the driver sends all the time and the capture is cut out *)
(* of it.  capture_once (tools/bench_capture.py) is a process of its own.  *)
(*                                                                         *)
(* The driver may go wrong once, in any of the ways of Stray: the question *)
(* is what the checker makes of it.  Waits may run into their limit at any *)
(* time; only the driver's stream takes time.                              *)
(***************************************************************************)
EXTENDS CaptureCheck

CONSTANTS Layouts,     \* the string_lengths considered
          Count,       \* commands of a case
          Stream,      \* bound: commands of the run a chunk is cut out of
          BankGap,     \* between two banks, in pixels
          Settle       \* after a command

ASSUME DriverAssumption ==
  /\ Settle \in Nat /\ Settle >= MinReset /\ BankGap \in Nat
  /\ {Count, Stream} \subseteq Nat \ {0}
  /\ Layouts \subseteq [Pin -> Nat]

VARIABLES d,   \* the driver and what it has sent
          c,   \* the capture process
          m    \* run_case

vars == <<d, c, m>>

Cycle == <<"red", "green", "blue">>             \* CYCLE
Color == {Cycle[i] : i \in 1 .. 3}
Successor(rgb) == CHOOSE next \in Color : \E i \in 1 .. 3 : Cycle[i] = rgb /\ Cycle[(i % 3) + 1] = next

TopBank(len) == IF ActiveBanks(len) = {} THEN 0 ELSE Max(ActiveBanks(len))

Init ==
  \E len \in Layouts, work \in {"case", "chunk"}, rule \in {"fixed", "cycle", "random"} :
    /\ work = "case" => rule = "fixed"
    /\ d = [len |-> len, rule |-> rule, t |-> Settle, k |-> 1, bank |-> TopBank(len), rgb |-> "red",
            sent |-> << >>, run |-> "off",
            fault |-> "none", at |-> 0]         \* what went wrong, in which command
    /\ c = [pc |-> "connect", armed |-> FALSE, end |-> 0, late |-> FALSE, code |-> 0]
    /\ m = [work |-> work, pc |-> "arm", stop |-> FALSE, sender |-> "none", verdict |-> {},
            begin |-> 0, end |-> 0, result |-> "none",
            raised |-> FALSE]                   \* the handler of an exception failed itself

Commands == IF m.work = "case" THEN Count ELSE Stream
Over == d.k > Commands

-----------------------------------------------------------------------------
(* The driver's stream, one bank at a time.  d.sent has a burst for each   *)
(* pin and bank sent, an empty one where the pin stays low.                *)

Active == ActiveBanks(d.len)
Burst(at, length, rgb) == [at |-> at, to |-> at + length, rgb |-> rgb]
IsHigh(burst) == burst.at < burst.to
LongestOf(bank) == d.len[Anchor(bank, d.len)]

Uniform(bank) ==
  [p \in Pin |-> Burst(d.t, IF p \in Members(bank, d.len) THEN d.len[p] ELSE 0, d.rgb)]
Sends(bank, burst) == Append(d.sent, [k |-> d.k, bank |-> bank, burst |-> burst])

\* What a pin's channel shows of it.
Wire(p) == [s \in {x \in DOMAIN d.sent : IsHigh(d.sent[x].burst[p])} |-> d.sent[s].burst[p]]

\* The next bank, or the next command and its colour.
Proceeds(time) ==
  LET bank == NextBank(d.bank, Active) IN
  IF bank < d.bank THEN {[d EXCEPT !.bank = bank, !.t = time + BankGap]}
  ELSE {[d EXCEPT !.bank = bank, !.k = @ + 1, !.t = time + Settle, !.rgb = rgb] :
          rgb \in CASE d.rule = "fixed" -> {d.rgb}
                    [] d.rule = "cycle" -> {Successor(d.rgb)}
                    [] d.rule = "random" -> {d.rgb, Successor(d.rgb)}}

SendBank ==
  /\ d.run = "on" /\ ~Over /\ Active # {}
  /\ \E after \in Proceeds(d.t + LongestOf(d.bank)) :
       d' = [after EXCEPT !.sent = Sends(d.bank, Uniform(d.bank))]
  /\ UNCHANGED <<c, m>>

\* A command for a panel whose strings are all disabled.
SendNothing ==
  /\ d.run = "on" /\ ~Over /\ Active = {}
  /\ d' = [d EXCEPT !.k = @ + 1, !.t = @ + Settle]
  /\ UNCHANGED <<c, m>>

\* One pin is sent something else: nothing, a pixel less or more, another colour, or late.
\* Of a pin alone in its bank, nothing is a bank left out, and it cannot be late; another
\* colour of an only string is none the wiser where any is allowed.
StrayBursts(bank, p) ==
  LET alone == Members(bank, d.len) = {p}
      lengths == {0, d.len[p] - 1, d.len[p] + 1} \ (IF alone THEN {0} ELSE {})
      colors == {"mixed"} \cup (IF alone /\ Active = {bank} /\ d.rule = "random" THEN {} ELSE Color) IN
  {Burst(d.t, length, d.rgb) : length \in lengths}
  \cup {Burst(d.t, d.len[p], rgb) : rgb \in colors \ {d.rgb}}
  \cup (IF alone THEN {} ELSE {Burst(d.t + 1, d.len[p], d.rgb)})

StrayPin ==
  \E p \in Members(d.bank, d.len) : \E burst \in StrayBursts(d.bank, p) :
    \E after \in Proceeds(d.t + LongestOf(d.bank) + 1) :
      d' = [after EXCEPT !.sent = Sends(d.bank, [Uniform(d.bank) EXCEPT ![p] = burst]),
                         !.fault = "pin", !.at = d.k]

\* A bank is left out, replaced by another, sent twice, or the next begins before its end.
\* Two bursts closer than Separator would be one: BankGap decides whether it can be replaced.
StrayBank ==
  /\ Active # {d.bank}
  /\ \/ \E after \in Proceeds(d.t - BankGap) :
          d' = [after EXCEPT !.fault = "bank", !.at = d.k]
     \/ \E other \in Active \ {d.bank} :
          /\ BankGap >= Separator
          /\ \E after \in Proceeds(d.t + LongestOf(other)) :
               d' = [after EXCEPT !.sent = Sends(other, Uniform(other)), !.fault = "bank", !.at = d.k]
     \/ d' = [d EXCEPT !.sent = Sends(d.bank, Uniform(d.bank)), !.t = @ + LongestOf(d.bank) + Settle,
                       !.fault = "bank", !.at = d.k]
     \/ /\ NextBank(d.bank, Active) < d.bank
        /\ d' = [d EXCEPT !.sent = Sends(d.bank, Uniform(d.bank)), !.bank = NextBank(@, Active),
                          !.t = @ + LongestOf(d.bank) - 1, !.fault = "bank", !.at = d.k]

\* A command is lost; with one bank, it may be sent twice or the reset after it be too short.
StrayCommand ==
  \/ /\ d.bank = Max(Active)
     /\ \E rgb \in (IF d.rule = "cycle" THEN {Successor(d.rgb)} ELSE {d.rgb}) :
          d' = [d EXCEPT !.k = @ + 1, !.rgb = rgb, !.t = @ + Settle, !.fault = "command", !.at = d.k]
  \/ /\ Active = {d.bank}
     /\ d' = [d EXCEPT !.sent = Sends(d.bank, Uniform(d.bank)), !.t = @ + LongestOf(d.bank) + Settle,
                       !.fault = "command", !.at = d.k]
  \/ /\ Active = {d.bank}
     /\ \E gap \in Separator .. MinReset - 1 :
        \E after \in Proceeds(d.t + LongestOf(d.bank) - Settle + gap) :
          d' = [after EXCEPT !.sent = Sends(d.bank, Uniform(d.bank)), !.fault = "reset", !.at = d.k]

Stray ==
  /\ d.run = "on" /\ ~Over /\ Active # {} /\ d.fault = "none"
  /\ StrayPin \/ StrayBank \/ StrayCommand
  /\ UNCHANGED <<c, m>>

-----------------------------------------------------------------------------
(* capture_once of a case, with a stop file. *)

CaptureConnects ==
  /\ m.work = "case" /\ c.pc = "connect"
  /\ c' \in {[c EXCEPT !.pc = "capturing"], [c EXCEPT !.pc = "gone", !.code = 1]}
  /\ UNCHANGED <<d, m>>

\* The ready file is written when the capture has started.
CaptureArms ==
  /\ c.pc = "capturing" /\ ~c.armed
  /\ c' \in {[c EXCEPT !.armed = TRUE], [c EXCEPT !.pc = "gone", !.code = 1]}
  /\ UNCHANGED <<d, m>>

\* The stop file is there, or the safety limit is reached; stop_reason is read after that.
CaptureStops ==
  /\ c.pc = "capturing" /\ c.armed
  /\ c' = [c EXCEPT !.pc = "exporting", !.late = ~m.stop, !.end = d.t]
  /\ UNCHANGED <<d, m>>

CaptureEnds ==
  /\ c.pc = "exporting"
  /\ \E exported \in BOOLEAN :
       c' = [c EXCEPT !.pc = "gone", !.code = IF exported /\ ~c.late THEN 0 ELSE 1]
  /\ UNCHANGED <<d, m>>

CaptureStep == CaptureConnects \/ CaptureArms \/ CaptureStops \/ CaptureEnds

-----------------------------------------------------------------------------
(* run_case. *)

At(label) == m.work = "case" /\ m.pc = label
Go(label) == m' = [m EXCEPT !.pc = label]

\* Any exception while the capture runs leads to the handler.
Abandons == Go("abandon")

AwaitArmed ==
  /\ At("arm")
  /\ \/ c.armed /\ m' = [m EXCEPT !.pc = "sender"] /\ d' = [d EXCEPT !.run = "on"]
     \/ ~c.armed /\ Abandons /\ UNCHANGED d
  /\ UNCHANGED c

\* The sender ends by itself, having sent everything or failed; ssh hands on its exit, fails,
\* or is given up after its 30 s, and then the sender may go on.
SenderReturns ==
  /\ At("sender")
  /\ \/ Over /\ m' = [m EXCEPT !.pc = "stop", !.sender = "exact"] /\ d' = [d EXCEPT !.run = "off"]
     \/ m' = [m EXCEPT !.pc = "stop", !.sender = "failed"] /\ d' = [d EXCEPT !.run = "off"]
     \/ m' = [m EXCEPT !.pc = "stop", !.sender = "failed"] /\ UNCHANGED d
     \/ Abandons /\ UNCHANGED d
  /\ UNCHANGED c

\* A mutant: the capture's exit is not awaited.
AwaitCaptureForgotten ==
  /\ At("await")
  /\ m' = [m EXCEPT !.pc = "judge"]
  /\ UNCHANGED <<d, c>>

\* The stop file may be unwritable, or made and left empty.
StopCapture ==
  /\ At("stop")
  /\ \/ m' = [m EXCEPT !.pc = "await", !.stop = TRUE]
     \/ \E made \in {m.stop, TRUE} : m' = [m EXCEPT !.pc = "abandon", !.stop = made]
  /\ UNCHANGED <<d, c>>

AwaitCapture ==
  /\ At("await")
  /\ \/ c.pc = "gone" /\ Go("judge")
     \/ c.pc # "gone" /\ Abandons
  /\ UNCHANGED <<d, c>>

\* Both exits, and the sender's summary, which must be fetched and show the exact count.
Judge ==
  /\ At("judge")
  /\ \/ m' = [m EXCEPT !.pc = "done", !.result = "fail"]
     \/ /\ c.code = 0 /\ m.sender = "exact"
        /\ m' = [m EXCEPT !.pc = "analyse", !.end = c.end]
  /\ UNCHANGED <<d, c>>

CaseArgs == [colors |-> {"red"}, sequence |-> << >>, expected |-> Count]

\* The analysis, and no boundary fragment in any channel.
Analyse ==
  /\ At("analyse")
  /\ LET wires == [p \in Pin |-> Wire(p)]
         fragments == \E p \in Pin :
           LET frames == Frames(wires[p], m.begin, m.end, d.len[p], CaseArgs) IN
           Complete(frames) # DOMAIN frames
         found == Violations(wires, m.begin, m.end, d.len, CaseArgs) IN
     m' = [m EXCEPT !.pc = "done", !.verdict = found,
                    !.result = IF found = {} /\ ~fragments THEN "pass" ELSE "fail"]
  /\ UNCHANGED <<d, c>>

\* The handler writes the stop file first, once more or for the first time; when that
\* raises, it goes no further.
AbandonStop ==
  /\ At("abandon")
  /\ \/ m' = [m EXCEPT !.pc = "reap", !.stop = TRUE]
     \/ \E made \in {m.stop, TRUE} :
          m' = [m EXCEPT !.pc = "done", !.result = "fail", !.stop = made, !.raised = TRUE]
  /\ UNCHANGED <<d, c>>

\* capture.wait, and terminate and kill when it does not end; a second interrupt, or a last
\* wait that times out, leaves it.
Reap ==
  /\ At("reap")
  /\ \/ /\ m' = [m EXCEPT !.pc = "done", !.result = "fail"]
        /\ c' = IF c.pc = "gone" THEN c ELSE [c EXCEPT !.pc = "gone", !.code = 1]
     \/ /\ m' = [m EXCEPT !.pc = "done", !.result = "fail", !.raised = TRUE]
        /\ UNCHANGED c
  /\ UNCHANGED d

CaseStep == \/ AwaitArmed \/ SenderReturns \/ StopCapture \/ AwaitCapture
            \/ Judge \/ Analyse \/ AbandonStop \/ Reap

-----------------------------------------------------------------------------
(* A chunk of a soak: any interval of the stream. *)

StreamStarts ==
  /\ m.work = "chunk" /\ d.run = "off" /\ ~Over
  /\ d' = [d EXCEPT !.run = "on"]
  /\ UNCHANGED <<c, m>>

ChunkArgs ==
  [colors |-> IF d.rule = "fixed" THEN {"red"} ELSE Color,
   sequence |-> IF d.rule = "cycle" THEN Cycle ELSE << >>, expected |-> -1]

\* --allow-any-color takes any colour; the other modes those of their argument.
AnalyseChunk ==
  /\ m.work = "chunk" /\ m.pc = "arm" /\ Over
  /\ \E begin \in 0 .. d.t : \E end \in begin + 1 .. d.t :
       m' = [m EXCEPT !.pc = "done", !.begin = begin, !.end = end,
                      !.verdict = Violations([p \in Pin |-> Wire(p)], begin, end, d.len, ChunkArgs)]
  /\ UNCHANGED <<d, c>>

Next == SendBank \/ SendNothing \/ Stray \/ CaptureStep \/ CaseStep \/ StreamStarts \/ AnalyseChunk

Spec == Init /\ [][Next]_vars

-----------------------------------------------------------------------------

Analysed == m.work = "chunk" /\ m.pc = "done"

\* A capture is left behind only where the handler failed, and never by a pass, which saw
\* all of what a sender sent that sent everything.
CaseIsCovered ==
  m.work = "case" /\ m.pc = "done" =>
    /\ c.pc = "gone" \/ m.raised
    /\ m.result = "pass" =>
         /\ c.pc = "gone" /\ Over /\ m.end = d.t
         /\ \A p \in Pin : \A s \in DOMAIN Wire(p) : m.begin < Wire(p)[s].at /\ Wire(p)[s].to < m.end

(***************************************************************************)
(* A case passes only if the driver sent exactly its commands, without     *)
(* anything going wrong on a wire, and the capture holds all of it and has *)
(* ended.  A case that fails leaves its capture running only if the        *)
(* handler that stops it failed too: the stop file could not be written,   *)
(* or its waits were cut short (run_case, analyze).                        *)
(***************************************************************************)
CaseIsExact ==
  CaseIsCovered /\ (m.work = "case" /\ m.pc = "done" /\ m.result = "pass" => d.fault = "none")

(***************************************************************************)
(* A chunk cut anywhere out of a correct stream has no violation: strings  *)
(* of one bank that end at different times, and commands and banks that    *)
(* are cut in two, are no false alarms, so long as one frame of each       *)
(* enabled string is complete (analyze_channel, check_banks).              *)
(***************************************************************************)
NoFalseAlarm ==
  Analysed /\ d.fault = "none" => m.verdict \subseteq {"no_complete_frames"}

(***************************************************************************)
(* Whatever goes wrong in one command is reported when the capture holds   *)
(* the commands before and after it, but for a command that is lost, or    *)
(* repeated by the only bank, where no sequence of colours shows it        *)
(* (analyze_channel, check_banks).                                         *)
(***************************************************************************)
FaultsAreReported ==
  LET Held == /\ 1 < d.at /\ d.at < Stream
              /\ \A s \in DOMAIN d.sent : d.sent[s].k \in d.at - 1 .. d.at + 1 =>
                   \A p \in Pin : LET burst == d.sent[s].burst[p] IN
                     IsHigh(burst) => /\ m.begin + MinReset <= burst.at
                                      /\ burst.to + MinReset <= m.end IN
  Analysed /\ d.fault # "none" /\ Held =>
    m.verdict # {} \/ (d.fault = "command" /\ d.rule # "cycle")
=============================================================================
