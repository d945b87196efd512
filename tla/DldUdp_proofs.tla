---------------------------- MODULE DldUdp_proofs ----------------------------
(***************************************************************************)
(* Theorems about dld-udp, for every colour, length of a flash, batch and  *)
(* socket buffer: the newest colour is the one shown, a flash is whole,    *)
(* and the receiver never polls without waiting.                           *)
(***************************************************************************)
EXTENDS DldUdp, TLAPS

-----------------------------------------------------------------------------
(* The inductive invariant.                                                *)

\* The colour in hand is the last one read, and without one the LEDs show it.
Newest ==
  /\ NewestIsShown
  /\ u.have => u.rgb = Full(past.newest)
  /\ u.flashing = "green" /\ ~u.have => past.newest = Nothing
  /\ u.pc \in {"bind", "attach"} =>
       past.newest = Nothing /\ u.flashing = "none" /\ ~u.initial /\ ~u.peak

\* What each label of the loop has in hand.
InHand ==
  /\ u.pc \in {"bind", "attach", "topoll", "poll"} => ~u.have
  /\ u.pc \in {"topoll", "poll"} => u.flashing = "none"
  /\ At("send") => (u.have <=> u.flashing = "none")
  /\ PollSleeps

\* A running flash has shown the endpoints it counts as shown, or is about to.
FlashSoFar ==
  /\ At("receive") /\ u.flashing # "none" =>
       (u.initial => past.black) /\ (u.peak => u.initial /\ past.peak)
  /\ At("send") /\ ~u.have =>
       /\ u.initial
       /\ past.black \/ u.rgb = Black
       /\ u.peak => past.peak \/ u.rgb = Full(u.flashing)
       /\ u.final => u.rgb = Black /\ past.black /\ past.peak /\ past.span = Duration

\* The history and the receiver measure the same times.
SameTimes ==
  /\ past.quiet = clock.activity
  /\ u.pc \in {"receive", "send"} /\ u.flashing # "none" /\ u.initial =>
       past.span = clock.started

UdpInv == TypeOK /\ Newest /\ InHand /\ FlashSoFar /\ SameTimes

USE TimesAssumption, SizesAssumption

LEMMA Numbers ==
  /\ Half \in Nat /\ Half > 0 /\ Idle \in Nat /\ Cap \in Nat /\ Cap > 0 /\ Batch \in Nat
  /\ Room \in Nat /\ Duration \in Nat /\ Duration = 2 * Half /\ Milli \in Nat /\ Milli > 0
  BY DEF Duration

\* Timeouts in ticks: at least one millisecond, and the bound above the longest.
LEMMA Timeouts ==
  /\ Longest \in Nat /\ Longest >= Milli
  /\ Forever \in Nat /\ Forever * Milli \in Nat /\ Forever * Milli = Longest + Milli
  /\ \A ms \in 0 .. Forever : ms * Milli \in 0 .. Forever * Milli /\ (ms > 0 => ms * Milli > 0)
<1>1. Cap >= 1 /\ Milli >= 1 /\ Cap \in Nat /\ Milli \in Nat BY Numbers
<1>2. ASSUME NEW a \in Nat, NEW b \in Nat, a <= b PROVE a * Milli \in Nat /\ a * Milli <= b * Milli
  BY <1>1, <1>2
<1>3. 1 * Milli = Milli /\ 0 * Milli = 0 /\ (Cap + 1) * Milli = Cap * Milli + Milli BY <1>1
<1>4. Cap * Milli \in Nat /\ Cap * Milli >= Milli BY <1>1, <1>2, <1>3
<1>5. ASSUME NEW ms \in 0 .. Forever
      PROVE  ms * Milli \in 0 .. Forever * Milli /\ (ms > 0 => ms * Milli > 0)
  <2>1. ms \in Nat /\ Forever \in Nat /\ ms <= Forever BY <1>1 DEF Forever
  <2>2. ms * Milli \in Nat /\ Forever * Milli \in Nat /\ ms * Milli <= Forever * Milli
    BY <1>2, <2>1
  <2>3. ms > 0 => ms * Milli >= Milli BY <1>1, <1>2, <1>3, <2>1
  <2> QED BY <1>1, <2>2, <2>3
<1> QED BY <1>1, <1>3, <1>4, <1>5 DEF Forever, Longest

\* Rounding up to milliseconds: something left stays something, and no more
\* than the longest timeout.
LEMMA RoundedUp ==
  ASSUME NEW remaining \in Nat, remaining > 0, remaining < Longest
  PROVE  (remaining + Milli - 1) \div Milli \in 1 .. Cap
<1> DEFINE a == remaining + Milli - 1
           q == a \div Milli
<1>1. Milli \in Nat /\ Milli > 0 /\ Cap \in Nat /\ Longest \in Nat BY Numbers, Timeouts
<1>2. a \in Nat /\ a >= Milli /\ a < Longest + Milli - 1 BY <1>1
<1> HIDE DEF a
<1>3. q \in Int /\ q * Milli <= a /\ a < q * Milli + Milli BY <1>1, <1>2
<1> HIDE DEF q
<1>4. q >= 1
  <2>1. q <= 0 => q * Milli <= 0 BY <1>1, <1>3
  <2> QED BY <1>1, <1>2, <1>3, <2>1
<1>5. q <= Cap
  <2>1. q >= Cap + 1 => q * Milli >= (Cap + 1) * Milli BY <1>1, <1>3
  <2>2. (Cap + 1) * Milli = Longest + Milli BY Timeouts DEF Forever
  <2> QED BY <1>1, <1>2, <1>3, <2>1, <2>2
<1> QED BY <1>1, <1>3, <1>4, <1>5 DEF a, q

LEMMA Typed ==
  ASSUME UdpInv
  PROVE  /\ u \in Receiver /\ clock \in Clocks /\ past \in Past /\ cancelled \in BOOLEAN
         /\ queue \in Seq(Colors \cup {Junk}) /\ Len(queue) <= Room /\ shown \in Frames
  BY DEF UdpInv, TypeOK

LEMMA Ages ==
  ASSUME UdpInv
  PROVE  /\ clock.activity \in Nat /\ clock.activity <= Idle + 1
         /\ clock.started \in Nat /\ clock.started <= Duration
         /\ clock.wait \in Nat /\ clock.wait <= Forever * Milli
         /\ past.span \in Nat /\ past.quiet \in Nat
  BY Typed, Numbers, Timeouts DEF Clocks, Past

LEMMA BlackIsFrame == Black \in Frames
  BY DEF Frames

LEMMA FullIsFrame ==
  ASSUME NEW hue \in Colors \cup {"green", "red"}
  PROVE  Full(hue) \in Frames
<1>1. Half \in 1 .. Half BY Numbers
<1> QED BY <1>1 DEF Full, Frames

\* Black is no full colour: it has no light.
LEMMA FullIsLit ==
  ASSUME NEW hue
  PROVE  Full(hue) # Black
<1>1. Full(hue).level > 0 BY Numbers DEF Full
<1>2. Black.level = 0 BY DEF Black
<1> QED BY <1>1, <1>2

-----------------------------------------------------------------------------
(* Steps that stop the receiver, and steps back to the top of its loop.    *)

LEMMA StopKeeps ==
  ASSUME UdpInv, UNCHANGED <<clock, cancelled, past>>,
         NEW announced \in BOOLEAN, NEW code \in {"OK", "PREREQUISITE", "FAILED"},
         u' = Stopped([u EXCEPT !.announced = announced], code),
         queue' \in Seq(Colors \cup {Junk}), Len(queue') <= Room, shown' = shown
  PROVE  UdpInv'
<1>1. /\ u' \in Receiver /\ u'.pc = "stopped" /\ u'.have = u.have /\ u'.rgb = u.rgb
      /\ u'.flashing = u.flashing
  BY Typed DEF Stopped, Receiver, Label
<1>2. TypeOK' BY <1>1, Typed DEF TypeOK
<1>3. Newest' BY <1>1 DEF UdpInv, Newest, NewestIsShown
<1>4. InHand' /\ FlashSoFar' /\ SameTimes'
  BY <1>1 DEF UdpInv, InHand, FlashSoFar, SameTimes, PollSleeps, At
<1> QED BY <1>2, <1>3, <1>4 DEF UdpInv

LEMMA BreakKeeps ==
  ASSUME UdpInv, UNCHANGED <<clock, cancelled, past, shown>>,
         NEW code \in {"OK", "PREREQUISITE", "FAILED"}, Break(code),
         queue' \in Seq(Colors \cup {Junk}), Len(queue') <= Room
  PROVE  UdpInv'
<1>1. u = [u EXCEPT !.announced = u.announced] /\ u.announced \in BOOLEAN
  BY Typed DEF Receiver
<1> QED BY <1>1, StopKeeps DEF Break

LEMMA AgainMoves ==
  ASSUME NEW r \in Receiver, u' = Again(r)
  PROVE  /\ u' \in Receiver /\ u'.pc = "receive" /\ u'.have = FALSE /\ u'.final = FALSE
         /\ u'.flashing = r.flashing /\ u'.initial = r.initial /\ u'.peak = r.peak
         /\ u'.announced = r.announced /\ u'.startup = r.startup
<1>1. 0 \in 0 .. Batch BY Numbers
<1> QED BY <1>1, BlackIsFrame DEF Again, Receiver, Label

-----------------------------------------------------------------------------
(* Starting and receiving.                                                 *)

LEMMA BindKeeps ==
  ASSUME UdpInv, Bind
  PROVE  UdpInv'
<1>1. u.pc = "bind" /\ UNCHANGED <<clock, queue, cancelled, shown, past>> BY DEF Bind, At
<1>2. CASE Break("PREREQUISITE") BY <1>1, <1>2, Typed, BreakKeeps
<1>3. CASE u' = [u EXCEPT !.pc = "attach"]
  <2>1. /\ u' \in Receiver /\ u'.pc = "attach" /\ u'.have = u.have /\ u'.rgb = u.rgb
        /\ u'.flashing = u.flashing /\ u'.initial = u.initial /\ u'.peak = u.peak
    BY <1>3, Typed DEF Receiver, Label
  <2>2. TypeOK' BY <1>1, <2>1, Typed DEF TypeOK
  <2>3. Newest' BY <1>1, <2>1 DEF UdpInv, Newest, NewestIsShown
  <2>4. InHand' /\ FlashSoFar' /\ SameTimes'
    BY <1>1, <2>1 DEF UdpInv, InHand, FlashSoFar, SameTimes, PollSleeps, At
  <2> QED BY <2>2, <2>3, <2>4 DEF UdpInv
<1> QED BY <1>1, <1>2, <1>3 DEF Bind

LEMMA AttachKeeps ==
  ASSUME UdpInv, Attach
  PROVE  UdpInv'
<1>1. u.pc = "attach" /\ UNCHANGED <<queue, cancelled, shown>> BY DEF Attach, At
<1>2. CASE (Break("FAILED") \/ Break("PREREQUISITE")) /\ UNCHANGED <<clock, past>>
  BY <1>1, <1>2, Typed, BreakKeeps
<1>3. CASE /\ u' = [u EXCEPT !.pc = "receive", !.announced = ~u.startup,
                             !.flashing = IF u.startup THEN "green" ELSE "none"]
           /\ clock' = [clock EXCEPT !.activity = 0, !.started = 0]
           /\ past' = [past EXCEPT !.quiet = 0]
  <2> DEFINE flashing == IF u.startup THEN "green" ELSE "none"
             announced == ~u.startup
  <2>1. flashing \in {"none", "green"} /\ announced \in BOOLEAN OBVIOUS
  <2>2. u' = [u EXCEPT !.pc = "receive", !.announced = announced, !.flashing = flashing] BY <1>3
  <2> HIDE DEF flashing, announced
  <2>3. /\ u' \in Receiver /\ u'.pc = "receive" /\ u'.have = u.have
        /\ u'.flashing = flashing /\ u'.initial = u.initial /\ u'.peak = u.peak
    BY <2>1, <2>2, Typed DEF Receiver, Label
  <2>4. clock' \in Clocks /\ clock'.activity = 0
    <3>1. 0 \in 0 .. Idle + 1 /\ 0 \in 0 .. Duration BY Numbers
    <3> QED BY <1>3, <3>1, Typed DEF Clocks
  <2>5. past' \in Past /\ past'.quiet = 0 /\ past'.newest = past.newest
    <3>1. 0 \in 0 .. Idle + 1 BY Numbers
    <3> QED BY <1>3, <3>1, Typed DEF Past
  <2>6. ~u.have /\ ~u.initial /\ ~u.peak /\ past.newest = Nothing
    BY <1>1 DEF UdpInv, Newest, InHand
  <2>7. TypeOK' BY <1>1, <2>3, <2>4, <2>5, Typed DEF TypeOK
  <2>8. Newest' /\ InHand' /\ FlashSoFar' /\ SameTimes'
    BY <2>3, <2>4, <2>5, <2>6
    DEF Newest, NewestIsShown, InHand, FlashSoFar, SameTimes, PollSleeps, At
  <2> QED BY <2>7, <2>8 DEF UdpInv
<1> QED BY <1>2, <1>3 DEF Attach

LEMMA QueueShrinks ==
  ASSUME UdpInv, queue # <<>>
  PROVE  /\ Tail(queue) \in Seq(Colors \cup {Junk}) /\ Len(Tail(queue)) <= Room
         /\ Head(queue) \in Colors \cup {Junk}
<1>1. queue \in Seq(Colors \cup {Junk}) /\ Len(queue) <= Room BY Typed
<1>2. Len(queue) \in Nat /\ Len(queue) > 0 /\ Len(Tail(queue)) = Len(queue) - 1 BY <1>1
<1> QED BY <1>1, <1>2, Numbers

LEMMA ReceiveKeeps ==
  ASSUME UdpInv, Receive
  PROVE  UdpInv'
<1>1. /\ u.pc = "receive" /\ u.n < Batch /\ queue # <<>> /\ UNCHANGED <<cancelled, shown>>
  BY DEF Receive, At
<1>2. CASE Break("PREREQUISITE") /\ queue' \in {queue, Tail(queue)} /\ UNCHANGED <<clock, past>>
  BY <1>1, <1>2, Typed, QueueShrinks, BreakKeeps
<1>3. CASE Consumed(Head(queue))
  <2> DEFINE d == Head(queue)
  <2>1. d \in Colors \cup {Junk} /\ queue' = Tail(queue)
        /\ queue' \in Seq(Colors \cup {Junk}) /\ Len(queue') <= Room
    BY <1>1, <1>3, QueueShrinks DEF Consumed
  <2>2. clock' \in Clocks /\ clock'.activity = 0 /\ clock'.started = clock.started
        /\ clock'.wait = clock.wait
    <3>1. clock' = [clock EXCEPT !.activity = 0] BY <1>3 DEF Consumed
    <3>2. 0 \in 0 .. Idle + 1 BY Numbers
    <3> QED BY <3>1, <3>2, Typed DEF Clocks
  <2>3. u.n + 1 \in 0 .. Batch
    <3>1. u.n \in Nat BY Typed, Numbers DEF Receiver
    <3> QED BY <1>1, <3>1, Numbers
  <2>4. 0 \in 0 .. Idle + 1 BY Numbers
  <2>5. CASE d = Junk
    <3>1. u' = [u EXCEPT !.n = @ + 1] BY <1>3, <2>5 DEF Consumed
    <3>2. past' = [past EXCEPT !.quiet = 0, !.newest = past.newest]
      BY <1>3, <2>5, Typed DEF Consumed, Past
    <3>3. /\ u' \in Receiver /\ u'.pc = u.pc /\ u'.have = u.have /\ u'.rgb = u.rgb
          /\ u'.flashing = u.flashing /\ u'.initial = u.initial /\ u'.peak = u.peak
      BY <2>3, <3>1, Typed DEF Receiver
    <3>4. /\ past' \in Past /\ past'.quiet = 0 /\ past'.newest = past.newest
          /\ past'.black = past.black /\ past'.peak = past.peak /\ past'.span = past.span
      BY <2>4, <3>2, Typed DEF Past
    <3>5. TypeOK' BY <1>1, <2>1, <2>2, <3>3, <3>4, Typed DEF TypeOK
    <3>6. Newest' /\ InHand' /\ FlashSoFar' /\ SameTimes'
      BY <1>1, <2>2, <3>3, <3>4
      DEF UdpInv, Newest, NewestIsShown, InHand, FlashSoFar, SameTimes, PollSleeps, At
    <3> QED BY <3>5, <3>6 DEF UdpInv
  <2>6. CASE d # Junk
    <3>1. u' = [u EXCEPT !.n = @ + 1, !.have = TRUE, !.rgb = Full(d)] BY <1>3, <2>6 DEF Consumed
    <3>2. past' = [past EXCEPT !.quiet = 0, !.newest = d]
      BY <1>3, <2>6, Typed DEF Consumed, Past
    <3>3. d \in Colors /\ Full(d) \in Frames BY <2>1, <2>6, FullIsFrame
    <3> HIDE DEF d
    <3>4. /\ u' \in Receiver /\ u'.pc = u.pc /\ u'.have = TRUE /\ u'.rgb = Full(d)
          /\ u'.flashing = u.flashing /\ u'.initial = u.initial /\ u'.peak = u.peak
      BY <2>3, <3>1, <3>3, Typed DEF Receiver
    <3>5. /\ past' \in Past /\ past'.quiet = 0 /\ past'.newest = d
          /\ past'.black = past.black /\ past'.peak = past.peak /\ past'.span = past.span
      BY <2>4, <3>2, <3>3, Typed DEF Past
    <3>6. TypeOK' BY <1>1, <2>1, <2>2, <3>4, <3>5, Typed DEF TypeOK
    <3>7. Newest' /\ InHand' /\ FlashSoFar' /\ SameTimes'
      BY <1>1, <2>2, <3>4, <3>5
      DEF UdpInv, Newest, NewestIsShown, InHand, FlashSoFar, SameTimes, PollSleeps, At
    <3> QED BY <3>6, <3>7 DEF UdpInv
  <2> QED BY <2>5, <2>6
<1> QED BY <1>2, <1>3 DEF Receive

LEMMA StopForSignalKeeps ==
  ASSUME UdpInv, StopForSignal \/ ClockLost \/ SendFails \/ PollFails
  PROVE  UdpInv'
  BY Typed, BreakKeeps DEF StopForSignal, ClockLost, SendFails, PollFails

-----------------------------------------------------------------------------
(* Choosing a frame.                                                       *)

LEMMA ColorTakenKeeps ==
  ASSUME UdpInv, ColorTaken
  PROVE  UdpInv'
<1>1. /\ u.pc = "receive" /\ u.have /\ UNCHANGED <<clock, queue, cancelled, shown, past>>
      /\ u' = [u EXCEPT !.pc = "send", !.flashing = "none", !.final = FALSE]
  BY DEF ColorTaken, BatchEnded, At
<1>2. /\ u' \in Receiver /\ u'.pc = "send" /\ u'.have = u.have /\ u'.rgb = u.rgb
      /\ u'.flashing = "none"
  BY <1>1, Typed DEF Receiver, Label
<1>3. TypeOK' BY <1>1, <1>2, Typed DEF TypeOK
<1>4. Newest' /\ InHand' /\ FlashSoFar' /\ SameTimes'
  BY <1>1, <1>2 DEF UdpInv, Newest, NewestIsShown, InHand, FlashSoFar, SameTimes, PollSleeps, At
<1> QED BY <1>3, <1>4 DEF UdpInv

\* A red flash begins only when neither a datagram nor a red flash was there for Idle.
LEMMA RousedKnown ==
  ASSUME UdpInv
  PROVE  /\ Roused \in Receiver /\ Roused.pc = u.pc /\ Roused.have = u.have
         /\ \/ Roused = u
            \/ /\ u.flashing = "none" /\ Roused.flashing = "red" /\ ~Roused.initial
               /\ ~Roused.peak /\ clock.activity > Idle
         /\ Roused.flashing = "none" => u.flashing = "none" /\ (u.idle => clock.activity <= Idle)
<1>1. CASE u.flashing = "none" /\ u.idle /\ dld_flash_idle_due(clock.activity)
  <2>1. Roused = [u EXCEPT !.flashing = "red", !.initial = FALSE, !.peak = FALSE]
    BY <1>1 DEF Roused, dld_flash_start
  <2>2. clock.activity > Idle BY <1>1 DEF dld_flash_idle_due
  <2>3. /\ Roused \in Receiver /\ Roused.pc = u.pc /\ Roused.have = u.have
        /\ Roused.flashing = "red" /\ ~Roused.initial /\ ~Roused.peak
    BY <2>1, Typed DEF Receiver
  <2> QED BY <1>1, <2>2, <2>3
<1>2. CASE ~(u.flashing = "none" /\ u.idle /\ dld_flash_idle_due(clock.activity))
  <2>1. Roused = u BY <1>2 DEF Roused
  <2>2. u.flashing = "none" /\ u.idle => clock.activity <= Idle
    BY <1>2, Ages, Numbers, SMTT(20) DEF dld_flash_idle_due
  <2> QED BY <2>1, <2>2, Typed
<1> QED BY <1>1, <1>2

\* What dld_flash_next chooses: the start, the peak, the end or a share of the colour.
LEMMA NextFrame ==
  ASSUME NEW r \in Receiver, r.flashing # "none", NEW age \in Nat, age <= Duration
  PROVE  \E initial, peak, final \in BOOLEAN, rgb \in Frames :
           /\ dld_flash_next(r, age) =
                [r EXCEPT !.initial = initial, !.peak = peak, !.rgb = rgb, !.final = final]
           /\ initial
           /\ ~r.initial => rgb = Black
           /\ r.peak => peak
           /\ peak /\ ~r.peak => rgb = Full(r.flashing)
           /\ final => rgb = Black /\ r.initial /\ r.peak /\ age = Duration
<1>1. r = [r EXCEPT !.initial = r.initial] /\ r.initial \in BOOLEAN /\ r.peak \in BOOLEAN
      /\ r.flashing \in {"green", "red"}
  BY DEF Receiver
<1>2. CASE ~r.initial
  <2>1. dld_flash_next(r, age) = [r EXCEPT !.initial = TRUE, !.rgb = Black, !.final = FALSE]
    BY <1>2 DEF dld_flash_next
  <2>2. dld_flash_next(r, age) =
          [r EXCEPT !.initial = TRUE, !.peak = r.peak, !.rgb = Black, !.final = FALSE]
    BY <2>1 DEF Receiver
  <2> QED BY <1>1, <1>2, <2>2, BlackIsFrame, Zenon
<1>3. CASE r.initial /\ ~r.peak /\ age >= Half
  <2>1. dld_flash_next(r, age) = [r EXCEPT !.peak = TRUE, !.rgb = Full(r.flashing), !.final = FALSE]
    BY <1>3 DEF dld_flash_next
  <2>2. dld_flash_next(r, age) =
          [r EXCEPT !.initial = TRUE, !.peak = TRUE, !.rgb = Full(r.flashing), !.final = FALSE]
    BY <1>1, <1>3, <2>1 DEF Receiver
  <2>3. Full(r.flashing) \in Frames BY <1>1, FullIsFrame
  <2> QED BY <1>1, <1>3, <2>2, <2>3, Zenon
<1>4. CASE r.initial /\ r.peak /\ age >= Duration
  <2>1. dld_flash_next(r, age) = [r EXCEPT !.rgb = Black, !.final = TRUE]
    BY <1>4 DEF dld_flash_next
  <2>2. dld_flash_next(r, age) =
          [r EXCEPT !.initial = TRUE, !.peak = TRUE, !.rgb = Black, !.final = TRUE]
    BY <1>1, <1>4, <2>1 DEF Receiver
  <2>3. age = Duration BY <1>4, Numbers
  <2> QED BY <1>1, <1>4, <2>2, <2>3, BlackIsFrame, Zenon
<1>5. CASE r.initial /\ (r.peak \/ age < Half) /\ ~(r.peak /\ age >= Duration)
  <2> DEFINE weight == IF age <= Half THEN age ELSE Duration - age
             rgb == scale_color(r.flashing, weight)
  <2>1. weight \in 0 .. Half BY Numbers
  <2>2. rgb \in Frames
    <3> HIDE DEF weight
    <3>1. CASE weight = 0 BY <3>1, BlackIsFrame DEF scale_color
    <3>2. CASE weight # 0
      <4>1. weight \in 1 .. Half BY <2>1, <3>2, Numbers
      <4> QED BY <1>1, <3>2, <4>1 DEF scale_color, Frames
    <3> QED BY <3>1, <3>2
  <2>3. dld_flash_next(r, age) = [r EXCEPT !.rgb = rgb, !.final = FALSE]
    <3>1. ~(age >= Half) \/ r.peak BY <1>5, Numbers
    <3> QED BY <1>5, <3>1 DEF dld_flash_next
  <2> HIDE DEF rgb
  <2>4. dld_flash_next(r, age) =
          [r EXCEPT !.initial = TRUE, !.peak = r.peak, !.rgb = rgb, !.final = FALSE]
    BY <1>1, <1>5, <2>3 DEF Receiver
  <2> QED BY <1>1, <1>5, <2>2, <2>4, Zenon
<1>6. age >= Half \/ age < Half BY Numbers
<1> QED BY <1>1, <1>2, <1>3, <1>4, <1>5, <1>6, Zenon

LEMMA FlashFrameKeeps ==
  ASSUME UdpInv, FlashFrame
  PROVE  UdpInv'
<1> DEFINE r == Roused
           age == IF r.initial THEN clock.started ELSE 0
<1>1. /\ u.pc = "receive" /\ ~u.have /\ r.flashing # "none"
      /\ u' = [dld_flash_next(r, age) EXCEPT !.pc = "send"]
      /\ clock' = [clock EXCEPT !.started = age]
      /\ past' = IF r.initial THEN past ELSE NewFlash
      /\ UNCHANGED <<queue, cancelled, shown>>
  BY DEF FlashFrame, BatchEnded, At
<1>2. /\ r \in Receiver /\ r.have = u.have
      /\ \/ r = u
         \/ /\ u.flashing = "none" /\ r.flashing = "red" /\ ~r.initial /\ ~r.peak
  BY RousedKnown
<1>3. age \in Nat /\ age <= Duration BY Ages, Numbers
<1>4. r.initial => r = u /\ age = clock.started BY <1>2
<1>5. ~r.initial => age = 0 OBVIOUS
<1> HIDE DEF r, age
<1>6. PICK initial, peak, final \in BOOLEAN, rgb \in Frames :
        /\ dld_flash_next(r, age) =
             [r EXCEPT !.initial = initial, !.peak = peak, !.rgb = rgb, !.final = final]
        /\ initial
        /\ ~r.initial => rgb = Black
        /\ r.peak => peak
        /\ peak /\ ~r.peak => rgb = Full(r.flashing)
        /\ final => rgb = Black /\ r.initial /\ r.peak /\ age = Duration
  BY <1>1, <1>2, <1>3, NextFrame, Zenon
<1>7. /\ u' \in Receiver /\ u'.pc = "send" /\ ~u'.have /\ u'.rgb = rgb
      /\ u'.flashing = r.flashing /\ u'.initial = initial /\ u'.peak = peak /\ u'.final = final
  BY <1>1, <1>2, <1>6, ZenonT(30) DEF Receiver, Label
<1>8. /\ clock' \in Clocks /\ clock'.started = age /\ clock'.activity = clock.activity
  <2>1. age \in 0 .. Duration BY <1>3, Numbers
  <2> QED BY <1>1, <2>1, Typed DEF Clocks
<1>9. /\ past' \in Past /\ past'.newest = past.newest /\ past'.quiet = past.quiet
      /\ r.initial => past' = past
      /\ ~r.initial => past'.span = 0
  <2>1. 0 \in 0 .. Duration BY Numbers
  <2>2. CASE r.initial BY <1>1, <2>2, Typed
  <2>3. CASE ~r.initial
    <3>1. past' = [past EXCEPT !.black = FALSE, !.peak = FALSE, !.span = 0]
      BY <1>1, <2>3 DEF NewFlash
    <3> QED BY <2>1, <2>3, <3>1, Typed DEF Past
  <2> QED BY <2>2, <2>3
<1>10. r.initial => (past.black /\ (r.peak => past.peak) /\ past.span = clock.started)
  BY <1>1, <1>4 DEF UdpInv, FlashSoFar, SameTimes, At
<1>11. ~r.initial => ~r.peak BY <1>1, <1>2 DEF UdpInv, FlashSoFar, At
<1>13. TypeOK' BY <1>1, <1>7, <1>8, <1>9, Typed DEF TypeOK
<1>14. Newest'
  <2>1. past.newest # Nothing => shown = Full(past.newest)
    BY <1>1 DEF UdpInv, Newest, NewestIsShown
  <2>2. r.flashing = "green" => past.newest = Nothing
    BY <1>1, <1>2 DEF UdpInv, Newest
  <2> QED BY <1>1, <1>7, <1>9, <2>1, <2>2 DEF Newest, NewestIsShown
<1>15. InHand' BY <1>1, <1>7 DEF InHand, PollSleeps, At
<1>16. SameTimes'
  BY <1>5, <1>4, <1>7, <1>8, <1>9, <1>10 DEF UdpInv, SameTimes
<1>17. FlashSoFar'
  <2>1. CASE r.initial BY <1>4, <1>6, <1>7, <1>9, <1>10, <2>1 DEF FlashSoFar, At
  <2>2. CASE ~r.initial BY <1>6, <1>7, <1>11, <2>2 DEF FlashSoFar, At
  <2> QED BY <2>1, <2>2
<1> QED BY <1>13, <1>14, <1>15, <1>16, <1>17 DEF UdpInv

\* The deadline is beyond Idle and no flash is due, so there is something to wait for.
LEMMA NothingToShowKeeps ==
  ASSUME UdpInv, NothingToShow
  PROVE  UdpInv'
<1> DEFINE ms == idle_wait_ms(clock.activity, u.idle)
           wait == ms * Milli
<1>1. /\ u.pc = "receive" /\ ~u.have /\ Roused.flashing = "none"
      /\ u' = [u EXCEPT !.pc = "topoll"] /\ clock' = [clock EXCEPT !.wait = wait]
      /\ UNCHANGED <<queue, cancelled, shown, past>>
  BY DEF NothingToShow, BatchEnded, At
<1>2. u.flashing = "none" /\ (u.idle => clock.activity <= Idle) BY <1>1, RousedKnown
<1>3. wait \in 0 .. Forever * Milli /\ wait > 0
  <2>1. ms \in 1 .. Cap
    <3>1. CASE ~u.idle BY <3>1, Numbers DEF idle_wait_ms
    <3>2. CASE u.idle
      <4> DEFINE remaining == Idle - clock.activity + 1
      <4>1. clock.activity \in Nat /\ clock.activity <= Idle BY <1>2, <3>2, Ages
      <4>2. remaining \in Nat /\ remaining > 0 BY <4>1, Numbers
      <4>3. ms = IF remaining >= Longest THEN Cap ELSE (remaining + Milli - 1) \div Milli
        BY <3>2, <4>1, Numbers DEF idle_wait_ms
      <4> HIDE DEF remaining, ms
      <4>4. CASE remaining >= Longest BY <4>3, <4>4, Numbers
      <4>5. CASE remaining < Longest BY <4>2, <4>3, <4>5, RoundedUp, Timeouts
      <4> QED BY <4>2, <4>4, <4>5, Timeouts
    <3> QED BY <3>1, <3>2
  <2> HIDE DEF ms
  <2>2. ms \in 0 .. Forever /\ ms > 0 BY <2>1, Numbers DEF Forever
  <2> QED BY <2>2, Timeouts
<1> HIDE DEF ms
<1> HIDE DEF wait
<1>4. /\ u' \in Receiver /\ u'.pc = "topoll" /\ u'.have = u.have /\ u'.rgb = u.rgb
      /\ u'.flashing = u.flashing
  BY <1>1, Typed DEF Receiver, Label
<1>5. clock' \in Clocks /\ clock'.activity = clock.activity /\ clock'.wait = wait
  BY <1>1, <1>3, Typed DEF Clocks
<1>6. TypeOK' BY <1>1, <1>4, <1>5, Typed DEF TypeOK
<1>7. Newest' /\ InHand' /\ FlashSoFar' /\ SameTimes'
  BY <1>1, <1>2, <1>3, <1>4, <1>5
  DEF UdpInv, Newest, NewestIsShown, InHand, FlashSoFar, SameTimes, PollSleeps, At
<1> QED BY <1>6, <1>7 DEF UdpInv

-----------------------------------------------------------------------------
(* Sending it.                                                             *)

LEMMA ColorSentKeeps ==
  ASSUME UdpInv, ColorSent
  PROVE  UdpInv'
<1> DEFINE r == [u EXCEPT !.announced = TRUE]
<1>1. /\ u.pc = "send" /\ shown' = u.rgb /\ u.have /\ u' = Again(r)
      /\ UNCHANGED <<clock, queue, cancelled, past>>
  BY DEF ColorSent, Lit, At
<1>2. r \in Receiver /\ r.flashing = u.flashing BY Typed DEF Receiver
<1> HIDE DEF r
<1>3. /\ u' \in Receiver /\ u'.pc = "receive" /\ u'.have = FALSE /\ u'.flashing = u.flashing
  BY <1>1, <1>2, AgainMoves
<1>4. u.flashing = "none" /\ u.rgb = Full(past.newest) BY <1>1 DEF UdpInv, Newest, InHand, At
<1>5. u.rgb \in Frames BY Typed DEF Receiver
<1>6. TypeOK' BY <1>1, <1>3, <1>5, Typed DEF TypeOK
<1>7. Newest' /\ InHand' /\ FlashSoFar' /\ SameTimes'
  BY <1>1, <1>3, <1>4
  DEF UdpInv, Newest, NewestIsShown, InHand, FlashSoFar, SameTimes, PollSleeps, At
<1> QED BY <1>6, <1>7 DEF UdpInv

\* What a sent flash frame adds to the history.
LEMMA SeenKnown ==
  ASSUME UdpInv
  PROVE  /\ FlashSeen \in Past
         /\ FlashSeen.black = (past.black \/ u.rgb = Black)
         /\ FlashSeen.peak = (past.peak \/ u.rgb = Full(u.flashing))
         /\ FlashSeen.newest = IF u.flashing = "red" THEN Nothing ELSE past.newest
         /\ FlashSeen.span = past.span /\ FlashSeen.quiet = past.quiet
<1> DEFINE black == past.black \/ u.rgb = Black
           peak == past.peak \/ u.rgb = Full(u.flashing)
           newest == IF u.flashing = "red" THEN Nothing ELSE past.newest
<1>1. FlashSeen = [past EXCEPT !.black = black, !.peak = peak, !.newest = newest]
  BY Typed DEF FlashSeen, Past
<1>2. black \in BOOLEAN /\ peak \in BOOLEAN /\ newest \in Colors \cup {Nothing}
  BY Typed DEF Past
<1>3. /\ FlashSeen.newest = newest
      /\ FlashSeen \in Past /\ FlashSeen.black = black /\ FlashSeen.peak = peak
      /\ FlashSeen.span = past.span /\ FlashSeen.quiet = past.quiet
  <2> HIDE DEF black, peak, newest
  <2> QED BY <1>1, <1>2, Typed DEF Past
<1> QED BY <1>3

\* While a flash is sent, the last colour read has gone or is not shown.
LEMMA NoColorUnderFlash ==
  ASSUME UdpInv, Lit, ~u.have
  PROVE  /\ u.pc = "send" /\ shown' = u.rgb /\ u.rgb \in Frames /\ u.initial
         /\ u.flashing \in {"green", "red"} /\ FlashSeen.newest = Nothing
         /\ FlashSeen.black /\ (u.peak => FlashSeen.peak)
<1>1. u.pc = "send" /\ shown' = u.rgb BY DEF Lit, At
<1>2. u.rgb \in Frames /\ u.flashing \in {"none", "green", "red"} BY Typed DEF Receiver
<1>3. /\ u.flashing # "none" /\ (u.flashing = "green" => past.newest = Nothing) /\ u.initial
      /\ past.black \/ u.rgb = Black
      /\ u.peak => past.peak \/ u.rgb = Full(u.flashing)
  BY <1>1 DEF UdpInv, Newest, InHand, FlashSoFar, At
<1> QED BY <1>1, <1>2, <1>3, SeenKnown

LEMMA FlashFrameSentKeeps ==
  ASSUME UdpInv, FlashFrameSent
  PROVE  UdpInv'
<1>1. /\ Lit /\ ~u.have /\ u' = Again(u) /\ past' = FlashSeen
      /\ UNCHANGED <<clock, queue, cancelled>>
  BY DEF FlashFrameSent
<1>2. /\ u' \in Receiver /\ u'.pc = "receive" /\ u'.have = FALSE /\ u'.flashing = u.flashing
      /\ u'.initial = u.initial /\ u'.peak = u.peak
  BY <1>1, Typed, AgainMoves
<1>3. TypeOK' BY <1>1, <1>2, Typed, SeenKnown, NoColorUnderFlash DEF TypeOK
<1>4. Newest' BY <1>1, <1>2, NoColorUnderFlash DEF Newest, NewestIsShown
<1>5. InHand' /\ FlashSoFar'
  BY <1>1, <1>2, NoColorUnderFlash DEF InHand, FlashSoFar, PollSleeps, At
<1>6. SameTimes' BY <1>1, <1>2, SeenKnown, NoColorUnderFlash DEF UdpInv, SameTimes
<1> QED BY <1>3, <1>4, <1>5, <1>6 DEF UdpInv

LEMMA FlashSentKeeps ==
  ASSUME UdpInv, FlashSent
  PROVE  UdpInv'
<1>1. /\ Lit /\ ~u.have /\ UNCHANGED <<queue, cancelled>> BY DEF FlashSent
<1>2. CASE /\ u' = Again([u EXCEPT !.announced = TRUE, !.flashing = "none"])
           /\ clock' = [clock EXCEPT !.activity = IF u.flashing = "red" THEN 0 ELSE @]
           /\ past' = [FlashSeen EXCEPT !.quiet = IF u.flashing = "red" THEN 0 ELSE @]
  <2> DEFINE activity == IF u.flashing = "red" THEN 0 ELSE clock.activity
             r == [u EXCEPT !.announced = TRUE, !.flashing = "none"]
  <2>1. activity \in 0 .. Idle + 1 BY Ages, Numbers
  <2>2. clock' = [clock EXCEPT !.activity = activity] BY <1>2, Typed DEF Clocks
  <2>3. past' = [FlashSeen EXCEPT !.quiet = activity]
    <3>1. past.quiet = clock.activity BY DEF UdpInv, SameTimes
    <3> QED BY <1>2, <3>1, SeenKnown
  <2>4. r \in Receiver /\ r.flashing = "none" BY Typed DEF Receiver
  <2>5. u' = Again(r) BY <1>2
  <2> HIDE DEF activity, r
  <2>6. clock' \in Clocks /\ clock'.activity = activity BY <2>1, <2>2, Typed DEF Clocks
  <2>7. past' \in Past /\ past'.quiet = activity /\ past'.newest = FlashSeen.newest
    <3>1. FlashSeen \in Past BY SeenKnown
    <3> QED BY <2>1, <2>3, <3>1 DEF Past
  <2>8. u' \in Receiver /\ u'.pc = "receive" /\ u'.have = FALSE /\ u'.flashing = "none"
    BY <2>4, <2>5, AgainMoves
  <2>9. TypeOK' BY <1>1, <2>6, <2>7, <2>8, Typed, NoColorUnderFlash DEF TypeOK
  <2>10. Newest' /\ InHand' /\ FlashSoFar' /\ SameTimes'
    BY <1>1, <2>6, <2>7, <2>8, NoColorUnderFlash
    DEF Newest, NewestIsShown, InHand, FlashSoFar, SameTimes, PollSleeps, At
  <2> QED BY <2>9, <2>10 DEF UdpInv
<1>3. CASE /\ u' = Stopped([u EXCEPT !.announced = TRUE], "PREREQUISITE")
           /\ past' = FlashSeen /\ UNCHANGED clock
  <2>1. /\ u' \in Receiver /\ u'.pc = "stopped" /\ u'.have = u.have
        /\ u'.flashing = u.flashing
    BY <1>3, Typed DEF Stopped, Receiver, Label
  <2>2. TypeOK' BY <1>1, <1>3, <2>1, Typed, SeenKnown, NoColorUnderFlash DEF TypeOK
  <2>3. Newest' BY <1>1, <1>3, <2>1, NoColorUnderFlash DEF Newest, NewestIsShown
  <2>4. InHand' /\ FlashSoFar' /\ SameTimes'
    BY <1>3, <2>1, SeenKnown DEF UdpInv, InHand, FlashSoFar, SameTimes, PollSleeps, At
  <2> QED BY <2>2, <2>3, <2>4 DEF UdpInv
<1> QED BY <1>2, <1>3 DEF FlashSent

-----------------------------------------------------------------------------
(* Polling, and what happens around the receiver.                          *)

LEMMA PollBeginsKeeps ==
  ASSUME UdpInv, PollBegins
  PROVE  UdpInv'
<1>1. /\ u.pc = "topoll" /\ u' = [u EXCEPT !.pc = "poll"]
      /\ UNCHANGED <<clock, queue, cancelled, shown, past>>
  BY DEF PollBegins, At
<1>2. /\ u' \in Receiver /\ u'.pc = "poll" /\ u'.have = u.have /\ u'.rgb = u.rgb
      /\ u'.flashing = u.flashing
  BY <1>1, Typed DEF Receiver, Label
<1>3. TypeOK' BY <1>1, <1>2, Typed DEF TypeOK
<1>4. Newest' BY <1>1, <1>2 DEF UdpInv, Newest, NewestIsShown
<1>5. InHand' /\ FlashSoFar' /\ SameTimes'
  BY <1>1, <1>2 DEF UdpInv, InHand, FlashSoFar, SameTimes, PollSleeps, At
<1> QED BY <1>3, <1>4, <1>5 DEF UdpInv

\* A poll ends, by a datagram, in time or by a signal.
LEMMA PollEnds ==
  ASSUME UdpInv, At("poll"), u' = Again(u), clock' = [clock EXCEPT !.wait = 0],
         UNCHANGED <<queue, shown, past>>, cancelled' \in BOOLEAN
  PROVE  UdpInv'
<1>1. u.pc = "poll" /\ ~u.have /\ u.flashing = "none" BY DEF UdpInv, InHand, At
<1>2. /\ u' \in Receiver /\ u'.pc = "receive" /\ u'.have = FALSE /\ u'.flashing = "none"
  BY <1>1, Typed, AgainMoves
<1>3. clock' \in Clocks /\ clock'.activity = clock.activity
  <2>1. 0 \in 0 .. Forever * Milli BY Timeouts
  <2> QED BY <2>1, Typed DEF Clocks
<1>4. TypeOK' BY <1>2, <1>3, Typed DEF TypeOK
<1>5. Newest' /\ InHand' /\ FlashSoFar' /\ SameTimes'
  BY <1>1, <1>2, <1>3
  DEF UdpInv, Newest, NewestIsShown, InHand, FlashSoFar, SameTimes, PollSleeps, At
<1> QED BY <1>4, <1>5 DEF UdpInv

LEMMA PollReturnsKeeps ==
  ASSUME UdpInv, PollReturns
  PROVE  UdpInv'
  BY Typed, PollEnds DEF PollReturns

LEMMA UnmovedKeeps ==
  ASSUME UdpInv, UNCHANGED <<u, clock, shown, past>>,
         cancelled' \in BOOLEAN, queue' \in Seq(Colors \cup {Junk}), Len(queue') <= Room
  PROVE  UdpInv'
<1>1. TypeOK' BY Typed DEF TypeOK
<1>2. Newest' /\ InHand' /\ FlashSoFar' /\ SameTimes'
  BY DEF UdpInv, Newest, NewestIsShown, InHand, FlashSoFar, SameTimes, PollSleeps, At
<1> QED BY <1>1, <1>2 DEF UdpInv

LEMMA SignalKeeps ==
  ASSUME UdpInv, Signal
  PROVE  UdpInv'
<1>1. cancelled' = TRUE /\ UNCHANGED <<queue, shown, past>> BY DEF Signal
<1>2. CASE At("poll")
  <2>1. u' = Again(u) /\ clock' = [clock EXCEPT !.wait = 0] BY <1>2 DEF Signal
  <2> QED BY <1>1, <1>2, <2>1, PollEnds
<1>3. CASE ~At("poll")
  <2>1. UNCHANGED <<u, clock>> BY <1>3 DEF Signal
  <2> QED BY <1>1, <2>1, Typed, UnmovedKeeps
<1> QED BY <1>2, <1>3

LEMMA ArriveKeeps ==
  ASSUME UdpInv, Arrive
  PROVE  UdpInv'
<1>1. PICK d \in Colors \cup {Junk} : queue' = Append(queue, d) BY DEF Arrive
<1>2. Len(queue) < Room /\ UNCHANGED <<u, clock, cancelled, shown, past>> BY DEF Arrive
<1>3. queue \in Seq(Colors \cup {Junk}) BY Typed
<1>4. queue' \in Seq(Colors \cup {Junk}) /\ Len(queue') = Len(queue) + 1 BY <1>1, <1>3
<1>5. Len(queue') <= Room
  <2>1. Len(queue) \in Nat BY <1>3
  <2> QED BY <1>2, <1>4, <2>1, Numbers
<1> QED BY <1>2, <1>4, <1>5, Typed, UnmovedKeeps

LEMMA AtMostBounds ==
  ASSUME NEW x \in Nat, NEW most \in Nat
  PROVE  /\ AtMost(x, most) \in 0 .. most
         /\ x >= most => AtMost(x, most) = most
  BY DEF AtMost

\* A poll that has not begun does not use up its time.
LEMMA TickKeeps ==
  ASSUME UdpInv, Tick
  PROVE  UdpInv'
<1> DEFINE activity == AtMost(clock.activity + 1, Idle + 1)
           started == AtMost(clock.started + 1, Duration)
           span == AtMost(past.span + 1, Duration)
           quiet == AtMost(past.quiet + 1, Idle + 1)
<1>1. /\ UNCHANGED <<u, queue, cancelled, shown>>
      /\ clock' = [activity |-> activity, started |-> started, wait |-> Waited]
      /\ past' = [past EXCEPT !.span = span, !.quiet = quiet]
  BY DEF Tick
<1>2. activity \in 0 .. Idle + 1 /\ started \in 0 .. Duration
      /\ span \in 0 .. Duration /\ quiet \in 0 .. Idle + 1
  <2>1. /\ clock.activity + 1 \in Nat /\ clock.started + 1 \in Nat
        /\ past.span + 1 \in Nat /\ past.quiet + 1 \in Nat /\ Idle + 1 \in Nat
        /\ Duration \in Nat
    BY Ages, Numbers
  <2> QED BY <2>1 DEF AtMost
<1>4. quiet = activity BY DEF UdpInv, SameTimes
<1>5. past.span = clock.started => span = started OBVIOUS
<1>6. past.span = Duration => span = Duration
  <2>1. past.span \in Nat /\ Duration \in Nat BY Ages, Numbers
  <2> QED BY <2>1 DEF AtMost
<1>7. Waited \in 0 .. Forever * Milli /\ (At("topoll") => Waited = clock.wait)
  <2>1. clock.wait \in Nat /\ clock.wait <= Forever * Milli BY Ages
  <2>2. CASE At("poll") /\ clock.wait \in 1 .. Longest
    <3>1. Waited = clock.wait - 1 BY <2>2 DEF Waited
    <3> QED BY <2>1, <2>2, <3>1, Timeouts DEF At
  <2>3. CASE ~(At("poll") /\ clock.wait \in 1 .. Longest)
    <3>1. Waited = clock.wait BY <2>3 DEF Waited
    <3> QED BY <2>1, <3>1, Timeouts
  <2> QED BY <2>2, <2>3
<1> HIDE DEF activity, started, span, quiet
<1>8. /\ clock' \in Clocks /\ clock'.activity = activity /\ clock'.started = started
      /\ clock'.wait = Waited
  BY <1>1, <1>2, <1>7 DEF Clocks
<1>9. /\ past' \in Past /\ past'.span = span /\ past'.quiet = quiet
      /\ past'.newest = past.newest /\ past'.black = past.black /\ past'.peak = past.peak
  BY <1>1, <1>2, Typed DEF Past
<1>10. TypeOK' BY <1>1, <1>8, <1>9, Typed DEF TypeOK
<1>11. Newest' BY <1>1, <1>9 DEF UdpInv, Newest, NewestIsShown
<1>12. InHand' BY <1>1, <1>7, <1>8 DEF UdpInv, InHand, PollSleeps, At
<1>13. FlashSoFar' BY <1>1, <1>6, <1>9 DEF UdpInv, FlashSoFar, At
<1>14. SameTimes' BY <1>1, <1>4, <1>5, <1>8, <1>9 DEF UdpInv, SameTimes
<1> QED BY <1>10, <1>11, <1>12, <1>13, <1>14 DEF UdpInv

-----------------------------------------------------------------------------

LEMMA InitHolds == Init => UdpInv
<1> SUFFICES ASSUME Init PROVE UdpInv OBVIOUS
<1>1. PICK startup \in BOOLEAN, idle \in BOOLEAN :
        u = [pc |-> "bind", n |-> 0, have |-> FALSE, rgb |-> Black, flashing |-> "none",
             initial |-> FALSE, peak |-> FALSE, final |-> FALSE, announced |-> FALSE,
             startup |-> startup, idle |-> idle, code |-> "OK"]
  BY DEF Init
<1>2. u \in Receiver
  <2>1. 0 \in 0 .. Batch BY Numbers
  <2> QED BY <1>1, <2>1, BlackIsFrame DEF Receiver, Label
<1>3. clock \in Clocks /\ past \in Past
  <2>1. 0 \in 0 .. Idle + 1 /\ 0 \in 0 .. Duration /\ 0 \in 0 .. Forever * Milli
    BY Numbers, Timeouts
  <2> QED BY <2>1 DEF Init, Clocks, Past
<1>4. queue \in Seq(Colors \cup {Junk}) /\ Len(queue) <= Room BY Numbers DEF Init
<1>5. TypeOK BY <1>2, <1>3, <1>4, BlackIsFrame DEF Init, TypeOK
<1>6. Newest /\ InHand /\ FlashSoFar /\ SameTimes
  BY <1>1 DEF Init, Newest, NewestIsShown, InHand, FlashSoFar, SameTimes, PollSleeps, At
<1> QED BY <1>5, <1>6 DEF UdpInv

LEMMA NextKeeps == UdpInv /\ [Next]_vars => UdpInv'
<1> SUFFICES ASSUME UdpInv, [Next]_vars PROVE UdpInv' OBVIOUS
<1>1. CASE UNCHANGED vars BY <1>1, Typed, UnmovedKeeps DEF vars
<1>2. CASE Step
  BY <1>2, BindKeeps, AttachKeeps, ReceiveKeeps, StopForSignalKeeps, ColorTakenKeeps,
     FlashFrameKeeps, NothingToShowKeeps, ColorSentKeeps, FlashFrameSentKeeps,
     FlashSentKeeps, PollBeginsKeeps, PollReturnsKeeps
  DEF Step
<1>3. CASE ClockLost \/ SendFails \/ PollFails BY <1>3, StopForSignalKeeps
<1>4. CASE Signal BY <1>4, SignalKeeps
<1>5. CASE Arrive BY <1>5, ArriveKeeps
<1>6. CASE Tick BY <1>6, TickKeeps
<1> QED BY <1>1, <1>2, <1>3, <1>4, <1>5, <1>6 DEF Next

(***************************************************************************)
(* The inductive invariant of the receiver: whatever datagrams, signals    *)
(* and failures come, in whatever order and after whatever time, each      *)
(* label of its loop knows what is in hand, what the flash has shown and   *)
(* for how long (src/dld_udp.c main, src/dld_flash.c).                     *)
(***************************************************************************)
THEOREM UdpHolds == Spec => []UdpInv
  BY InitHolds, NextKeeps, PTL DEF Spec

(***************************************************************************)
(* The newest colour read is in hand, to be sent next, or on the LEDs,     *)
(* unless a red flash has begun since: no batch loses one or leaves an     *)
(* older one on (receive_batch, main).                                     *)
(***************************************************************************)
THEOREM NewestAlwaysShown == Spec => []NewestIsShown
<1>1. UdpInv => NewestIsShown BY DEF UdpInv, Newest
<1> QED BY <1>1, UdpHolds, PTL

(***************************************************************************)
(* The loop never polls with a timeout of zero, for any lengths of the     *)
(* flash, the idle interval and the longest poll and any number of ticks   *)
(* in a millisecond: the rounding up keeps it from spinning while less     *)
(* than a millisecond is left (idle_wait_ms, dld_flash_idle_due).          *)
(***************************************************************************)
THEOREM PollAlwaysSleeps == Spec => []PollSleeps
<1>1. UdpInv => PollSleeps BY DEF UdpInv, InHand
<1> QED BY <1>1, UdpHolds, PTL

-----------------------------------------------------------------------------
(* What a step may do to a flash.                                          *)

\* Only Attach, a colour taken, a frame chosen and a final frame sent touch it;
\* only Attach and a frame sent announce.
LEMMA FlashTouched ==
  ASSUME UdpInv, [Next]_vars
  PROVE  /\ \/ u'.flashing = u.flashing
            \/ u.flashing = "none" /\ u'.flashing = "green"
            \/ u.have /\ u'.flashing = "none"
            \/ FlashFrame /\ u'.flashing = Roused.flashing
            \/ FlashSent
         /\ \/ u'.announced = u.announced
            \/ u'.announced = ~u.startup
            \/ ColorSent
            \/ FlashSent
<1> DEFINE Same == u'.flashing = u.flashing /\ u'.announced = u.announced
<1>1. u \in Receiver BY Typed
<1>2. ASSUME NEW code, Break(code) PROVE Same
  BY <1>1, <1>2 DEF Break, Stopped, Receiver
<1>3. CASE UNCHANGED vars BY <1>3 DEF vars
<1>4. CASE Bind
  <2>1. CASE u' = [u EXCEPT !.pc = "attach"] BY <1>1, <2>1 DEF Receiver
  <2> QED BY <1>2, <1>4, <2>1 DEF Bind
<1>5. CASE Attach
  <2>1. u.flashing = "none" BY <1>5 DEF Attach, At, UdpInv, Newest
  <2>2. CASE u' = [u EXCEPT !.pc = "receive", !.announced = ~u.startup,
                            !.flashing = IF u.startup THEN "green" ELSE "none"]
    <3>1. /\ u'.flashing = IF u.startup THEN "green" ELSE "none"
          /\ u'.announced = ~u.startup
      BY <1>1, <2>2 DEF Receiver
    <3> QED BY <2>1, <3>1
  <2> QED BY <1>2, <1>5, <2>2 DEF Attach
<1>6. CASE Receive
  <2> DEFINE d == Head(queue)
  <2>1. CASE Consumed(d)
    <3>1. CASE d = Junk
      <4>1. u' = [u EXCEPT !.n = @ + 1] BY <2>1, <3>1 DEF Consumed
      <4> QED BY <1>1, <4>1 DEF Receiver
    <3>2. CASE d # Junk
      <4>1. u' = [u EXCEPT !.n = @ + 1, !.have = TRUE, !.rgb = Full(d)]
        BY <2>1, <3>2 DEF Consumed
      <4> HIDE DEF d
      <4> QED BY <1>1, <4>1 DEF Receiver
    <3> QED BY <3>1, <3>2
  <2> QED BY <1>2, <1>6, <2>1 DEF Receive
<1>7. CASE StopForSignal \/ ClockLost \/ SendFails \/ PollFails
  BY <1>2, <1>7 DEF StopForSignal, ClockLost, SendFails, PollFails
<1>8. CASE ColorTaken
  <2>1. u.have /\ u' = [u EXCEPT !.pc = "send", !.flashing = "none", !.final = FALSE]
    BY <1>8 DEF ColorTaken
  <2> QED BY <1>1, <2>1 DEF Receiver
<1>9. CASE FlashFrame
  <2> DEFINE r == Roused
             age == IF r.initial THEN clock.started ELSE 0
  <2>1. r.flashing # "none" /\ u' = [dld_flash_next(r, age) EXCEPT !.pc = "send"]
    BY <1>9 DEF FlashFrame
  <2>2. r \in Receiver /\ r.announced = u.announced
    <3>1. r.announced = u.announced BY <1>1 DEF Roused, dld_flash_start, Receiver
    <3> QED BY <3>1, RousedKnown
  <2>3. age \in Nat /\ age <= Duration BY Ages, Numbers
  <2> HIDE DEF r, age
  <2>4. /\ dld_flash_next(r, age) \in Receiver
        /\ dld_flash_next(r, age).flashing = r.flashing
        /\ dld_flash_next(r, age).announced = r.announced
    <3>1. PICK initial, peak, final \in BOOLEAN, rgb \in Frames :
            /\ dld_flash_next(r, age) =
                 [r EXCEPT !.initial = initial, !.peak = peak, !.rgb = rgb, !.final = final]
            /\ initial
            /\ ~r.initial => rgb = Black
            /\ r.peak => peak
            /\ peak /\ ~r.peak => rgb = Full(r.flashing)
            /\ final => rgb = Black /\ r.initial /\ r.peak /\ age = Duration
      BY <2>1, <2>2, <2>3, NextFrame, Zenon
    <3> QED BY <2>2, <3>1, ZenonT(30) DEF Receiver
  <2>5. u'.flashing = r.flashing /\ u'.announced = r.announced BY <2>1, <2>4 DEF Receiver
  <2> QED BY <1>9, <2>2, <2>5 DEF r
<1>10. CASE NothingToShow
  <2>1. u' = [u EXCEPT !.pc = "topoll"] BY <1>10 DEF NothingToShow
  <2> QED BY <1>1, <2>1 DEF Receiver
<1>11. CASE ColorSent
  <2>1. u' = Again([u EXCEPT !.announced = TRUE]) BY <1>11 DEF ColorSent
  <2>2. u'.flashing = u.flashing BY <1>1, <2>1 DEF Again, Receiver
  <2> QED BY <1>11, <2>2
<1>12. ASSUME u' = Again(u) PROVE Same
  BY <1>1, <1>12 DEF Again, Receiver
<1>13. CASE FlashFrameSent \/ PollReturns BY <1>12, <1>13 DEF FlashFrameSent, PollReturns
<1>14. CASE FlashSent BY <1>14
<1>15. CASE PollBegins
  <2>1. u' = [u EXCEPT !.pc = "poll"] BY <1>15 DEF PollBegins
  <2> QED BY <1>1, <2>1 DEF Receiver
<1>16. CASE Signal BY <1>12, <1>16 DEF Signal
<1>17. CASE Arrive \/ Tick BY <1>17 DEF Arrive, Tick
<1> QED
  BY <1>3, <1>4, <1>5, <1>6, <1>7, <1>8, <1>9, <1>10, <1>11, <1>13, <1>14, <1>15, <1>16, <1>17
  DEF Next, Step

\* A flash ends of itself with its final frame.
LEMMA FinalFrame ==
  ASSUME UdpInv, FlashSent
  PROVE  past.black /\ past.peak /\ past.span = Duration /\ shown' = Black
<1>1. u.pc = "send" /\ ~u.have /\ u.final /\ shown' = u.rgb BY DEF FlashSent, Lit, At
<1> QED BY <1>1 DEF UdpInv, FlashSoFar, At

(***************************************************************************)
(* A flash that no colour ends has shown black, the full colour and black, *)
(* over its whole time, for every length of a flash; a red one begins only *)
(* after more than Idle without a datagram or a red flash (dld_flash_next, *)
(* dld_flash_idle_due, main).                                              *)
(***************************************************************************)
THEOREM FlashesAreWhole == Spec => FlashIsWhole
<1> DEFINE Whole ==
      /\ u.flashing # "none" /\ u'.flashing = "none" /\ ~u.have =>
           past.black /\ past.peak /\ past.span = Duration /\ shown' = Black
      /\ u.flashing = "none" /\ u'.flashing = "red" => past.quiet > Idle
<1>1. ASSUME UdpInv, [Next]_vars PROVE Whole
  <2>1. CASE u'.flashing = u.flashing BY <2>1
  <2>2. CASE u.flashing = "none" /\ u'.flashing = "green" BY <2>2
  <2>3. CASE u.have /\ u'.flashing = "none" BY <2>3
  <2>4. CASE FlashFrame /\ u'.flashing = Roused.flashing
    <3>1. Roused.flashing # "none" BY <2>4 DEF FlashFrame
    <3>2. past.quiet = clock.activity BY <1>1 DEF UdpInv, SameTimes
    <3>3. Roused.flashing = u.flashing \/ clock.activity > Idle BY <1>1, RousedKnown
    <3> QED BY <2>4, <3>1, <3>2, <3>3
  <2>5. CASE FlashSent
    <3>1. past.black /\ past.peak /\ past.span = Duration /\ shown' = Black
      BY <1>1, <2>5, FinalFrame
    <3>2. u.flashing # "none"
      BY <1>1, <2>5 DEF FlashSent, Lit, At, UdpInv, InHand
    <3> QED BY <3>1, <3>2
  <2> QED BY <1>1, <2>1, <2>2, <2>3, <2>4, <2>5, FlashTouched
<1>2. UdpInv /\ [Next]_vars => [Whole]_vars BY <1>1
<1> QED BY <1>2, UdpHolds, PTL DEF Spec, FlashIsWhole

(***************************************************************************)
(* A receiver that starts with a flash announces itself ready only in the  *)
(* step that shows the newest colour or ends the whole flash in black      *)
(* (main, announced_ready).                                                *)
(***************************************************************************)
THEOREM ReadyAlwaysEarned == Spec => ReadyIsEarned
<1> DEFINE Earned ==
      ~u.announced /\ u'.announced /\ u.startup =>
        \/ shown' = Full(past.newest)
        \/ past.black /\ past.peak /\ shown' = Black
<1>1. ASSUME UdpInv, [Next]_vars PROVE Earned
  <2>1. CASE u'.announced = u.announced \/ u'.announced = ~u.startup BY <2>1
  <2>2. CASE ColorSent
    BY <1>1, <2>2 DEF ColorSent, Lit, UdpInv, Newest
  <2>3. CASE FlashSent BY <1>1, <2>3, FinalFrame
  <2> QED BY <1>1, <2>1, <2>2, <2>3, FlashTouched
<1>2. UdpInv /\ [Next]_vars => [Earned]_vars BY <1>1
<1> QED BY <1>2, UdpHolds, PTL DEF Spec, ReadyIsEarned

=============================================================================
