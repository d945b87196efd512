------------------------------- MODULE DldUdp -------------------------------
(***************************************************************************)
(* dld-udp (src/dld_udp.c, src/dld_flash.c): a resident receiver that      *)
(* shows the latest OPC colour of each batch of datagrams, and a green     *)
(* flash at start-up and red ones after a long silence.                    *)
(*                                                                         *)
(* dld_sender_send is one step that succeeds or fails (DldSession models   *)
(* it).  Clocks are ages: how long ago a timestamp was taken, in ticks,    *)
(* counted no further than the code can tell apart.  A tick is what the    *)
(* monotonic clock tells apart, and finer than poll's millisecond.  A      *)
(* datagram is the colour it carries, or Junk when the OPC decoder or      *)
(* MSG_TRUNC rejects it.                                                   *)
(***************************************************************************)
EXTENDS Integers, Sequences

CONSTANTS Colors,   \* client colours
          Half,     \* DLD_FLASH_HALF_NS
          Idle,     \* DLD_FLASH_IDLE_NS
          Milli,    \* ticks in a millisecond (1000000 in the code)
          Cap,      \* DLD_UDP_IDLE_MS, in milliseconds
          Batch,    \* DLD_UDP_BATCH
          Room      \* bound: datagrams the socket buffer holds

ASSUME TimesAssumption ==
  {Half, Idle, Milli, Cap} \subseteq Nat \ {0} /\ Cap * Milli <= Half /\ 2 * Half < Idle
ASSUME SizesAssumption == {Batch, Room} \subseteq Nat \ {0}
ASSUME HuesAssumption == Colors \cap {"green", "red", "dark"} = {}

VARIABLES u,          \* the receiver
          clock,      \* ages of activity and flash.started_ns; what is left of the poll
          queue,      \* datagrams in the socket
          cancelled,  \* dld_cancelled
          shown,      \* the frame on the LEDs
          past        \* what happened, for the properties; no code reads it

vars == <<u, clock, queue, cancelled, shown, past>>

Junk == "junk"
Nothing == "nothing"
Full(hue) == [hue |-> hue, level |-> Half]
Black == [hue |-> "dark", level |-> 0]
Frames == [hue : Colors \cup {"green", "red"}, level : 1 .. Half] \cup {Black}

\* scale_color: a share of the flash colour, black when the share is nothing.
scale_color(hue, weight) == IF weight = 0 THEN Black ELSE [hue |-> hue, level |-> weight]

Duration == 2 * Half
Forever == Cap + 1             \* a poll without a timeout; no code asks for one
Longest == Cap * Milli         \* the longest timeout, in ticks
AtMost(x, most) == IF x < most THEN x ELSE most
Label == {"bind", "attach", "receive", "send", "topoll", "poll", "stopped"}

Receiver == [pc : Label, n : 0 .. Batch, have : BOOLEAN, rgb : Frames,
             flashing : {"none", "green", "red"}, initial : BOOLEAN, peak : BOOLEAN,
             final : BOOLEAN, announced : BOOLEAN, startup : BOOLEAN, idle : BOOLEAN,
             code : {"OK", "PREREQUISITE", "FAILED"}]

Clocks == [activity : 0 .. Idle + 1, started : 0 .. Duration, wait : 0 .. Forever * Milli]

\* black and peak are the endpoints shown of the running flash and span its
\* age; newest is the last colour read, until a red flash replaces it; quiet
\* is how long it is that anything was read or a red flash ended.
Past == [black : BOOLEAN, peak : BOOLEAN, span : 0 .. Duration,
         newest : Colors \cup {Nothing}, quiet : 0 .. Idle + 1]

Init ==
  /\ \E startup, idle \in BOOLEAN :
       u = [pc |-> "bind", n |-> 0, have |-> FALSE, rgb |-> Black, flashing |-> "none",
            initial |-> FALSE, peak |-> FALSE, final |-> FALSE, announced |-> FALSE,
            startup |-> startup, idle |-> idle, code |-> "OK"]
  /\ clock = [activity |-> 0, started |-> 0, wait |-> 0]
  /\ queue = <<>>
  /\ cancelled = FALSE
  /\ shown = Black
  /\ past = [black |-> FALSE, peak |-> FALSE, span |-> 0, newest |-> Nothing,
             quiet |-> 0]

At(label) == u.pc = label
Stopped(r, code) == [r EXCEPT !.pc = "stopped", !.code = code]
Break(code) == u' = Stopped(u, code)

-----------------------------------------------------------------------------
(* Starting: the socket takes datagrams before the sender is attached.     *)

Bind ==
  /\ At("bind")
  /\ \/ u' = [u EXCEPT !.pc = "attach"]
     \/ Break("PREREQUISITE")
  /\ UNCHANGED <<clock, queue, cancelled, shown, past>>

Attach ==
  /\ At("attach")
  /\ \/ /\ u' = [u EXCEPT !.pc = "receive", !.announced = ~u.startup,
                          !.flashing = IF u.startup THEN "green" ELSE "none"]
        /\ clock' = [clock EXCEPT !.activity = 0, !.started = 0]
        /\ past' = [past EXCEPT !.quiet = 0]
     \/ Break("FAILED") /\ UNCHANGED <<clock, past>>         \* dld_sender_open
     \/ Break("PREREQUISITE") /\ UNCHANGED <<clock, past>>   \* no clock
  /\ UNCHANGED <<queue, cancelled, shown>>

-----------------------------------------------------------------------------
(* receive_batch, one recvmsg at a time.                                   *)

\* A mutant: the first colour of a batch is the one kept.
ConsumedFirst(d) ==
  /\ queue' = Tail(queue)
  /\ clock' = [clock EXCEPT !.activity = 0]
  /\ u' = IF d = Junk \/ u.have THEN [u EXCEPT !.n = @ + 1]
          ELSE [u EXCEPT !.n = @ + 1, !.have = TRUE, !.rgb = Full(d)]
  /\ past' = [past EXCEPT !.quiet = 0, !.newest = IF d = Junk THEN @ ELSE d]

\* Any datagram is activity; a colour replaces the one read before it.
Consumed(d) ==
  /\ queue' = Tail(queue)
  /\ clock' = [clock EXCEPT !.activity = 0]
  /\ u' = IF d = Junk THEN [u EXCEPT !.n = @ + 1]
          ELSE [u EXCEPT !.n = @ + 1, !.have = TRUE, !.rgb = Full(d)]
  /\ past' = [past EXCEPT !.quiet = 0, !.newest = IF d = Junk THEN @ ELSE d]

\* A mutant: the batch has no end while datagrams come.
ReceiveUnbounded ==
  /\ At("receive") /\ ~cancelled /\ queue # <<>>
  /\ \/ u.n < Batch /\ Consumed(Head(queue))
     \/ /\ u.n = Batch
        /\ queue' = Tail(queue) /\ clock' = [clock EXCEPT !.activity = 0]
        /\ UNCHANGED <<u, past>>
  /\ UNCHANGED <<cancelled, shown>>

Receive ==
  /\ At("receive") /\ ~cancelled /\ u.n < Batch /\ queue # <<>>
  /\ \/ Consumed(Head(queue))
     \/ /\ Break("PREREQUISITE")                   \* recvmsg or the clock failed
        /\ queue' \in {queue, Tail(queue)}
        /\ UNCHANGED <<clock, past>>
  /\ UNCHANGED <<cancelled, shown>>

BatchEnded == At("receive") /\ ~cancelled /\ (u.n = Batch \/ queue = <<>>)

\* A signal seen by the loop or after the batch; a colour read is dropped.
StopForSignal ==
  /\ At("receive") /\ cancelled
  /\ Break("OK")
  /\ UNCHANGED <<clock, queue, cancelled, shown, past>>

-----------------------------------------------------------------------------
(* dld_flash.c.  r is a receiver whose flash runs, age the age of its      *)
(* started_ns; each gives the receiver with its next frame chosen.         *)

dld_flash_start(r, hue) == [r EXCEPT !.flashing = hue, !.initial = FALSE, !.peak = FALSE]

\* A mutant: the peak is sent only when its half second is not over.
dld_flash_next_by_time(r, age) ==
  CASE ~r.initial -> [r EXCEPT !.initial = TRUE, !.rgb = Black, !.final = FALSE]
    [] r.initial /\ ~r.peak /\ age >= Half /\ age < Duration ->
         [r EXCEPT !.peak = TRUE, !.rgb = Full(r.flashing), !.final = FALSE]
    [] r.initial /\ age >= Duration -> [r EXCEPT !.rgb = Black, !.final = TRUE]
    [] OTHER -> [r EXCEPT !.rgb = scale_color(r.flashing, IF age <= Half THEN age ELSE Duration - age),
                          !.final = FALSE]

dld_flash_next(r, age) ==
  CASE ~r.initial -> [r EXCEPT !.initial = TRUE, !.rgb = Black, !.final = FALSE]
    [] r.initial /\ ~r.peak /\ age >= Half ->
         [r EXCEPT !.peak = TRUE, !.rgb = Full(r.flashing), !.final = FALSE]
    [] r.initial /\ r.peak /\ age >= Duration -> [r EXCEPT !.rgb = Black, !.final = TRUE]
    [] OTHER -> [r EXCEPT !.rgb = scale_color(r.flashing, IF age <= Half THEN age ELSE Duration - age),
                          !.final = FALSE]

dld_flash_idle_due(age) == age > Idle

\* A mutant: the wait is rounded down to milliseconds.
idle_wait_floor(age, enabled) ==
  LET remaining == Idle - age + 1
  IN IF ~enabled THEN Cap
     ELSE IF age > Idle THEN 0
     ELSE IF remaining >= Longest THEN Cap ELSE remaining \div Milli

\* A mutant: poll waits without a timeout.
idle_wait_forever(age, enabled) == Forever

\* In milliseconds, rounded up; the tick makes the deadline strictly later than Idle.
idle_wait_ms(age, enabled) ==
  LET remaining == Idle - age + 1
  IN IF ~enabled THEN Cap
     ELSE IF age > Idle THEN 0
     ELSE IF remaining >= Longest THEN Cap ELSE (remaining + Milli - 1) \div Milli

-----------------------------------------------------------------------------
(* The rest of the loop: choose a frame and send it, or poll.              *)

\* A client's colour ends the flash and is sent.
ColorTaken ==
  /\ BatchEnded /\ u.have
  /\ u' = [u EXCEPT !.pc = "send", !.flashing = "none", !.final = FALSE]
  /\ UNCHANGED <<clock, queue, cancelled, shown, past>>

\* The receiver with an inactivity flash begun if one is due.
Roused == IF u.flashing = "none" /\ u.idle /\ dld_flash_idle_due(clock.activity)
          THEN dld_flash_start(u, "red") ELSE u

NewFlash == [past EXCEPT !.black = FALSE, !.peak = FALSE, !.span = 0]

FlashFrame ==
  /\ BatchEnded /\ ~u.have /\ Roused.flashing # "none"
  /\ LET age == IF Roused.initial THEN clock.started ELSE 0
     IN /\ u' = [dld_flash_next(Roused, age) EXCEPT !.pc = "send"]
        /\ clock' = [clock EXCEPT !.started = age]
  /\ past' = IF Roused.initial THEN past ELSE NewFlash
  /\ UNCHANGED <<queue, cancelled, shown>>

\* Nothing to show; the timeout is computed now and used when poll begins.
NothingToShow ==
  /\ BatchEnded /\ ~u.have /\ Roused.flashing = "none"
  /\ u' = [u EXCEPT !.pc = "topoll"]
  /\ clock' = [clock EXCEPT !.wait = idle_wait_ms(clock.activity, u.idle) * Milli]
  /\ UNCHANGED <<queue, cancelled, shown, past>>

ClockLost ==
  /\ BatchEnded
  /\ Break("PREREQUISITE")
  /\ UNCHANGED <<clock, queue, cancelled, shown, past>>

\* The receiver at the top of its loop again.
Again(r) == [r EXCEPT !.pc = "receive", !.n = 0, !.have = FALSE, !.rgb = Black, !.final = FALSE]

SendFails ==
  /\ At("send")
  /\ Break("FAILED")
  /\ UNCHANGED <<clock, queue, cancelled, shown, past>>

\* The frame is on the LEDs.
Lit ==
  /\ At("send")
  /\ shown' = u.rgb

ColorSent ==
  /\ Lit /\ u.have
  /\ u' = Again([u EXCEPT !.announced = TRUE])
  /\ UNCHANGED <<clock, queue, cancelled, past>>

FlashSeen == [past EXCEPT !.black = @ \/ u.rgb = Black,
                          !.peak = @ \/ u.rgb = Full(u.flashing),
                          !.newest = IF u.flashing = "red" THEN Nothing ELSE @]

FlashFrameSent ==
  /\ Lit /\ ~u.have /\ ~u.final
  /\ u' = Again(u)
  /\ past' = FlashSeen
  /\ UNCHANGED <<clock, queue, cancelled>>

\* A mutant: only a client's colour makes the receiver ready.
FlashSentUnready ==
  /\ Lit /\ ~u.have /\ u.final
  /\ u' = Again([u EXCEPT !.flashing = "none"])
  /\ clock' = [clock EXCEPT !.activity = IF u.flashing = "red" THEN 0 ELSE @]
  /\ past' = [FlashSeen EXCEPT !.quiet = IF u.flashing = "red" THEN 0 ELSE @]
  /\ UNCHANGED <<queue, cancelled>>

\* The final black: a red flash begins the next interval, a green one does not.
FlashSent ==
  /\ Lit /\ ~u.have /\ u.final
  /\ \/ /\ u' = Again([u EXCEPT !.announced = TRUE, !.flashing = "none"])
        /\ clock' = [clock EXCEPT !.activity = IF u.flashing = "red" THEN 0 ELSE @]
        /\ past' = [FlashSeen EXCEPT !.quiet = IF u.flashing = "red" THEN 0 ELSE @]
     \/ /\ u.flashing = "red"                              \* no clock
        /\ u' = Stopped([u EXCEPT !.announced = TRUE], "PREREQUISITE")
        /\ past' = FlashSeen
        /\ UNCHANGED clock
  /\ UNCHANGED <<queue, cancelled>>

PollBegins ==
  /\ At("topoll")
  /\ u' = [u EXCEPT !.pc = "poll"]
  /\ UNCHANGED <<clock, queue, cancelled, shown, past>>

PollReturns ==
  /\ At("poll")
  /\ queue # <<>> \/ clock.wait = 0
  /\ u' = Again(u)
  /\ clock' = [clock EXCEPT !.wait = 0]
  /\ UNCHANGED <<queue, cancelled, shown, past>>

PollFails ==
  /\ At("poll")
  /\ Break("PREREQUISITE")
  /\ UNCHANGED <<clock, queue, cancelled, shown, past>>

-----------------------------------------------------------------------------
(* Around the receiver.                                                    *)

\* A signal ends a poll that has begun (EINTR); otherwise it only sets the flag.
Signal ==
  /\ ~cancelled /\ ~At("stopped")
  /\ cancelled' = TRUE
  /\ IF At("poll") THEN u' = Again(u) /\ clock' = [clock EXCEPT !.wait = 0]
     ELSE UNCHANGED <<u, clock>>
  /\ UNCHANGED <<queue, shown, past>>

Arrive ==
  /\ Len(queue) < Room /\ ~(u.pc \in {"bind", "stopped"})
  /\ \E d \in Colors \cup {Junk} : queue' = Append(queue, d)
  /\ UNCHANGED <<u, clock, cancelled, shown, past>>

Waited == IF At("poll") /\ clock.wait \in 1 .. Longest THEN clock.wait - 1 ELSE clock.wait

Tick ==
  /\ clock' = [activity |-> AtMost(clock.activity + 1, Idle + 1),
               started |-> AtMost(clock.started + 1, Duration), wait |-> Waited]
  /\ past' = [past EXCEPT !.span = AtMost(@ + 1, Duration), !.quiet = AtMost(@ + 1, Idle + 1)]
  /\ UNCHANGED <<u, queue, cancelled, shown>>

\* What the receiver does of itself.
Step ==
  \/ Bind \/ Attach \/ Receive \/ StopForSignal \/ ColorTaken \/ FlashFrame \/ NothingToShow
  \/ ColorSent \/ FlashFrameSent \/ FlashSent \/ PollBegins \/ PollReturns

Next == Step \/ ClockLost \/ SendFails \/ PollFails \/ Signal \/ Arrive \/ Tick

Spec == Init /\ [][Next]_vars

\* The receiver is scheduled, every send returns and time passes.  Datagrams
\* and signals may never come, or come for ever.
FairSpec == Spec /\ WF_vars(Step) /\ WF_vars(Tick)

-----------------------------------------------------------------------------

TypeOK ==
  /\ u \in Receiver /\ clock \in Clocks /\ past \in Past
  /\ queue \in Seq(Colors \cup {Junk}) /\ Len(queue) <= Room
  /\ cancelled \in BOOLEAN
  /\ shown \in Frames

(***************************************************************************)
(* A flash that no colour ends shows black, then the full colour, then     *)
(* black, and takes its whole second, however slow the sends are; a red    *)
(* one begins only when more than Idle has passed since the last datagram  *)
(* of any kind and since the last red flash (dld_flash.h, docs/udp.md).    *)
(***************************************************************************)
FlashIsWhole ==
  [][/\ u.flashing # "none" /\ u'.flashing = "none" /\ ~u.have =>
          past.black /\ past.peak /\ past.span = Duration /\ shown' = Black
     /\ u.flashing = "none" /\ u'.flashing = "red" => past.quiet > Idle]_vars

(***************************************************************************)
(* Unless a red flash has begun since, the LEDs show the last colour read  *)
(* as soon as no colour is left to send: none is lost, none is shown late, *)
(* and the start-up flash never covers one (receive_batch, main).          *)
(***************************************************************************)
NewestIsShown ==
  past.newest # Nothing =>
    IF u.have THEN u.rgb = Full(past.newest) ELSE shown = Full(past.newest)

(***************************************************************************)
(* The receiver never polls without waiting: with less than a millisecond  *)
(* left it waits a whole one, and when nothing is left a flash is due and  *)
(* begins instead (idle_wait_ms, dld_flash_idle_due).                      *)
(***************************************************************************)
PollSleeps == At("topoll") => clock.wait > 0

(***************************************************************************)
(* A signal stops the receiver, also one that comes between the test of    *)
(* dld_cancelled and the poll, with no datagram to wake it.                *)
(***************************************************************************)
SignalStops == cancelled ~> At("stopped")

(***************************************************************************)
(* A colour that was read is sent or the receiver stops, also while        *)
(* datagrams never cease to come (DLD_UDP_BATCH).                          *)
(***************************************************************************)
ColorsAreSent == u.have ~> ~u.have \/ At("stopped")

\* Ready is announced only for what has been shown.
ReadyIsEarned ==
  [][~u.announced /\ u'.announced /\ u.startup =>
        \/ shown' = Full(past.newest)
        \/ past.black /\ past.peak /\ shown' = Black]_vars

(***************************************************************************)
(* An attached receiver announces itself ready, whatever comes in, and     *)
(* with a start-up flash only once a client's colour or the whole flash    *)
(* has been shown (main, announced_ready).                                 *)
(***************************************************************************)
ReadyIsAnnounced == ReadyIsEarned /\ (At("receive") ~> u.announced \/ At("stopped"))

(***************************************************************************)
(* Silence is noticed: once more than Idle has passed a red flash begins,  *)
(* unless a datagram comes or the receiver stops.                          *)
(***************************************************************************)
SilenceIsShown ==
  u.idle /\ past.quiet > Idle ~>
    u.flashing = "red" \/ past.quiet <= Idle \/ At("stopped")
=============================================================================
