-------------------------- MODULE BenchCapture_proofs --------------------------
(***************************************************************************)
(* What the capture checker can be relied on for: every layout of a panel, *)
(* every number of commands and every timing the checker is meant for.     *)
(***************************************************************************)
EXTENDS BenchCapture, FiniteSetTheorems, TLAPS

-----------------------------------------------------------------------------
(* Banks and strings.                                                      *)

LEMMA Numbers ==
  /\ MinReset \in Nat /\ Separator \in Nat /\ 1 <= Separator /\ Separator <= MinReset
  /\ Settle \in Nat /\ MinReset <= Settle /\ BankGap \in Nat
BY ResetAssumption, DriverAssumption

LEMMA PinBanks == \A p \in Pin : BANKS[p] \in 0 .. 2
BY DEF Pin, BANKS

LEMMA MaxBank ==
  ASSUME NEW S \in SUBSET (0 .. 2), S # {}
  PROVE  Max(S) \in S /\ \A b \in S : b <= Max(S)
<1>1. \E top \in S : \A b \in S : top >= b
  <2>1. CASE 2 \in S BY <2>1
  <2>2. CASE 2 \notin S /\ 1 \in S BY <2>2
  <2>3. CASE 2 \notin S /\ 1 \notin S
    <3>1. \A b \in S : b = 0 BY <2>3
    <3>2. PICK top \in S : TRUE OBVIOUS
    <3>3. \A b \in S : top >= b BY <3>1
    <3> QED BY <3>3
  <2> QED BY <2>1, <2>2, <2>3
<1> DEFINE top == CHOOSE x \in S : \A b \in S : x >= b
<1>2. top \in S /\ \A b \in S : top >= b BY <1>1
<1>3. Max(S) = top BY DEF Max
<1> QED BY <1>2, <1>3

LEMMA ActiveAreBanks == ASSUME NEW len PROVE ActiveBanks(len) \in SUBSET (0 .. 2)
BY PinBanks DEF ActiveBanks

LEMMA NextBankIs ==
  ASSUME NEW active \in SUBSET (0 .. 2), NEW b \in active
  PROVE  /\ NextBank(b, active) \in active
         /\ NextBank(b, active) < b => \A x \in active : x < b => x <= NextBank(b, active)
         /\ ~(NextBank(b, active) < b) =>
              /\ \A x \in active : b <= x
              /\ NextBank(b, active) = Max(active)
              /\ \A x \in active : x <= NextBank(b, active)
         /\ active # {b} => NextBank(b, active) # b
<1> DEFINE lower == {x \in active : x < b}
<1>1. NextBank(b, active) = Max(IF lower = {} THEN active ELSE lower) BY DEF NextBank
<1>2. CASE lower = {}
  <2>1. Max(active) \in active /\ \A x \in active : x <= Max(active) BY MaxBank
  <2>2. \A x \in active : b <= x BY <1>2
  <2>3. NextBank(b, active) = Max(active) BY <1>1, <1>2
  <2>4. b \in 0 .. 2 /\ Max(active) \in 0 .. 2 BY <2>1
  <2> HIDE DEF lower
  <2>5. Max(active) = b => active = {b}
    <3> SUFFICES ASSUME Max(active) = b PROVE \A x \in active : x = b OBVIOUS
    <3> QED BY <2>1, <2>2
  <2>6. ~(Max(active) < b) BY <2>1, <2>2, <2>4
  <2> QED BY <2>1, <2>2, <2>3, <2>5, <2>6
<1>3. CASE lower # {}
  <2>1. lower \in SUBSET (0 .. 2) OBVIOUS
  <2> HIDE DEF lower
  <2>2. Max(lower) \in lower /\ \A x \in lower : x <= Max(lower) BY <1>3, <2>1, MaxBank
  <2> QED BY <1>1, <1>3, <2>2 DEF lower
<1> QED BY <1>2, <1>3

LEMMA NextIs ==
  ASSUME NEW len, NEW b \in ActiveBanks(len), NEW next, next = NextBank(b, ActiveBanks(len))
  PROVE  /\ next \in ActiveBanks(len) /\ next \in 0 .. 2 /\ b \in 0 .. 2
         /\ next < b => \A x \in ActiveBanks(len) : x < b => x <= next
         /\ ~(next < b) => /\ \A x \in ActiveBanks(len) : b <= x /\ x <= next
                           /\ next = Max(ActiveBanks(len))
         /\ ActiveBanks(len) # {b} => next # b
<1>1. ActiveBanks(len) \in SUBSET (0 .. 2) BY ActiveAreBanks
<1> QED BY <1>1, NextBankIs

LEMMA MembersOfActive ==
  ASSUME NEW len, NEW bank
  PROVE  /\ Members(bank, len) \subseteq Pin
         /\ \A p \in Members(bank, len) : BANKS[p] = bank /\ len[p] > 0
         /\ bank \in ActiveBanks(len) <=> Members(bank, len) # {}
         /\ \A p \in Pin : len[p] > 0 => BANKS[p] \in ActiveBanks(len) /\ p \in Members(BANKS[p], len)
BY DEF Members, ActiveBanks

\* Longer, or as long and before.
Leads(p, q, len) == len[q] < len[p] \/ (len[q] = len[p] /\ p <= q)

LEMMA LongerOfOneMore ==
  ASSUME NEW len \in [Pin -> Nat], NEW M \in SUBSET Pin, NEW n \in 0 .. 5,
         \A q \in M : ~(q <= n) \/ \E p \in M : p <= n /\ \A x \in M : x <= n => Leads(p, x, len)
  PROVE  \A q \in M : ~(q <= n + 1) \/ \E p \in M : p <= n + 1 /\ \A x \in M : x <= n + 1 => Leads(p, x, len)
<1> SUFFICES ASSUME NEW q \in M, q <= n + 1
             PROVE  \E p \in M : p <= n + 1 /\ \A x \in M : x <= n + 1 => Leads(p, x, len)
  OBVIOUS
<1>1. M \subseteq Int /\ \A x \in M : len[x] \in Nat BY DEF Pin
<1>2. CASE n + 1 \notin M
  <2>1. \A x \in M : x <= n + 1 => x <= n BY <1>1, <1>2
  <2> QED BY <1>1, <2>1
<1>3. CASE n + 1 \in M /\ \A x \in M : ~(x <= n)
  <2>1. \A x \in M : x <= n + 1 => x = n + 1 BY <1>1, <1>3
  <2>2. \A x \in M : x <= n + 1 => Leads(n + 1, x, len) BY <1>1, <1>3, <2>1 DEF Leads
  <2> QED BY <1>3, <2>2
<1>4. CASE n + 1 \in M /\ \E x \in M : x <= n
  <2>1. PICK p \in M : p <= n /\ \A x \in M : x <= n => Leads(p, x, len) BY <1>4
  <2>2. \A x \in M : x <= n + 1 => x <= n \/ x = n + 1 BY <1>1
  <2>3. CASE len[p] < len[n + 1]
    <3>1. ASSUME NEW x \in M, x <= n + 1 PROVE Leads(n + 1, x, len)
      <4>1. len[x] \in Nat /\ len[p] \in Nat /\ len[n + 1] \in Nat BY <1>1, <1>4
      <4>2. CASE x <= n BY <2>1, <2>3, <4>1, <4>2 DEF Leads
      <4>3. CASE x = n + 1 BY <4>3 DEF Leads
      <4> QED BY <2>2, <3>1, <4>2, <4>3
    <3> QED BY <1>4, <3>1
  <2>4. CASE ~(len[p] < len[n + 1])
    <3>1. ASSUME NEW x \in M, x <= n + 1 PROVE Leads(p, x, len)
      <4>1. len[p] \in Nat /\ len[n + 1] \in Nat /\ p \in Int BY <1>1, <1>4
      <4>2. CASE x <= n BY <2>1, <4>2
      <4>3. CASE x = n + 1 BY <2>1, <2>4, <4>1, <4>3 DEF Leads
      <4> QED BY <2>2, <3>1, <4>2, <4>3
    <3> QED BY <1>1, <2>1, <3>1
  <2> QED BY <2>3, <2>4
<1> QED BY <1>2, <1>3, <1>4

\* The anchor of a bank is one of its strings, and none is longer.
LEMMA AnchorIs ==
  ASSUME NEW len \in [Pin -> Nat], NEW bank \in ActiveBanks(len)
  PROVE  /\ Anchor(bank, len) \in Members(bank, len) /\ Anchor(bank, len) \in Pin
         /\ \A q \in Members(bank, len) : len[q] \in Nat /\ 0 < len[q] /\ len[q] <= len[Anchor(bank, len)]
<1> DEFINE M == Members(bank, len)
           Best(n) == \A q \in M : ~(q <= n) \/ \E p \in M : p <= n /\ \A x \in M : x <= n => Leads(p, x, len)
<1>1. M \in SUBSET Pin /\ M # {} /\ \A q \in M : len[q] > 0 BY MembersOfActive
<1> HIDE DEF M
<1>2. Best(0) BY <1>1 DEF Pin
<1>3. \A n \in 0 .. 5 : Best(n) => Best(n + 1) BY <1>1, LongerOfOneMore
<1>4. Best(6) => \A q \in M : \E p \in M : \A x \in M : Leads(p, x, len)
  <2>1. \A x \in M : x <= 6 BY <1>1 DEF Pin
  <2> QED BY <2>1
<1> HIDE DEF Best
<1>5. Best(0 + 1) BY <1>2, <1>3
<1>6. Best(1 + 1) BY <1>3, <1>5
<1>7. Best(2 + 1) BY <1>3, <1>6
<1>8. Best(3 + 1) BY <1>3, <1>7
<1>9. Best(4 + 1) BY <1>3, <1>8
<1>10. Best(5 + 1) BY <1>3, <1>9
<1>11. PICK p \in M : \A x \in M : Leads(p, x, len) BY <1>1, <1>4, <1>10
<1> DEFINE best == CHOOSE y \in M : \A x \in M : Leads(y, x, len)
<1>12. best \in M /\ \A x \in M : Leads(best, x, len) BY <1>11
<1>13. Anchor(bank, len) = best BY DEF Anchor, Leads, M
<1> HIDE DEF best
<1> QED BY <1>1, <1>12, <1>13 DEF Leads, M

-----------------------------------------------------------------------------
(* The frames of one channel.                                              *)

\* Bursts in the order of time, at least gap between two.
Channel(w, gap) ==
  /\ \A i \in DOMAIN w : /\ i \in Nat /\ w[i].at \in Nat /\ w[i].to \in Nat
                         /\ w[i].at < w[i].to
  /\ \A i, j \in DOMAIN w : i < j => w[i].to + gap <= w[j].at

LEMMA FrameIs ==
  ASSUME NEW w, NEW begin \in Nat, NEW end \in Nat, NEW length, NEW args, NEW gap \in Nat,
         Channel(w, gap), NEW i \in Seen(w, begin, end)
  PROVE  LET frame == Frames(w, begin, end, length, args)[i] IN
         /\ i \in DOMAIN w /\ w[i].to > begin /\ w[i].at < end
         /\ frame.at = IF w[i].at < begin THEN begin ELSE w[i].at
         /\ frame.to = IF w[i].to > end THEN end ELSE w[i].to
         /\ frame.bits = frame.to - frame.at
         /\ frame.valid = (w[i].rgb \in args.colors)
         /\ frame.leading = (frame.at - begin >= MinReset \/ \E j \in Seen(w, begin, end) : j < i)
         /\ frame.trailing = (end - frame.to >= MinReset \/ \E j \in Seen(w, begin, end) : i < j)
         /\ frame.rgb = IF w[i].rgb \in args.colors /\ frame.bits <= length THEN w[i].rgb ELSE "none"
         /\ frame.at \in Nat /\ frame.to \in Nat
<1> DEFINE at == IF w[i].at < begin THEN begin ELSE w[i].at
           to == IF w[i].to > end THEN end ELSE w[i].to
           valid == w[i].rgb \in args.colors
           seen == Seen(w, begin, end)
<1>1. Frames(w, begin, end, length, args)[i] =
        [at |-> at, to |-> to, bits |-> to - at, valid |-> valid,
         leading |-> at - begin >= MinReset \/ \E j \in seen : j < i,
         trailing |-> end - to >= MinReset \/ \E j \in seen : i < j,
         rgb |-> IF valid /\ to - at <= length THEN w[i].rgb ELSE "none"]
  BY DEF Frames
<1>2. i \in DOMAIN w /\ w[i].to > begin /\ w[i].at < end /\ w[i].at \in Nat /\ w[i].to \in Nat
  BY DEF Seen, Channel
<1>3. at \in Nat /\ to \in Nat BY <1>2
<1> HIDE DEF at, to, valid, seen
<1> QED BY <1>1, <1>2, <1>3 DEF at, to, valid, seen

LEMMA FramesOfSeen ==
  ASSUME NEW w, NEW begin, NEW end, NEW length, NEW args
  PROVE  DOMAIN Frames(w, begin, end, length, args) = Seen(w, begin, end)
BY DEF Frames

\* A frame that is known to begin is not cut at its beginning.
LEMMA KnownBeginning ==
  ASSUME NEW w, NEW begin \in Nat, NEW end \in Nat, NEW length, NEW args, NEW gap \in Nat,
         Channel(w, gap), NEW i \in Seen(w, begin, end),
         NEW frame, frame = Frames(w, begin, end, length, args)[i]
  PROVE  frame.leading => begin <= w[i].at /\ frame.at = w[i].at
<1>5. i \in DOMAIN w BY DEF Seen
<1>1. /\ frame.at = IF w[i].at < begin THEN begin ELSE w[i].at
      /\ frame.leading = (frame.at - begin >= MinReset \/ \E j \in Seen(w, begin, end) : j < i)
  BY FrameIs
<1>2. w[i].at \in Nat BY <1>5 DEF Channel
<1>3. CASE frame.at - begin >= MinReset BY <1>1, <1>2, <1>3, Numbers
<1>4. CASE \E j \in Seen(w, begin, end) : j < i
  <2>1. PICK j \in Seen(w, begin, end) : j < i BY <1>4
  <2>2. j \in DOMAIN w /\ begin < w[j].to BY DEF Seen
  <2>3. w[j].to \in Nat /\ w[j].to + gap <= w[i].at BY <1>5, <2>1, <2>2 DEF Channel
  <2>4. begin <= w[i].at BY <1>2, <2>2, <2>3
  <2> QED BY <1>1, <1>2, <2>4
<1> QED BY <1>1, <1>3, <1>4, Zenon

LEMMA KnownEnd ==
  ASSUME NEW w, NEW begin \in Nat, NEW end \in Nat, NEW length, NEW args, NEW gap \in Nat,
         Channel(w, gap), NEW i \in Seen(w, begin, end),
         NEW frame, frame = Frames(w, begin, end, length, args)[i]
  PROVE  frame.trailing => w[i].to <= end /\ frame.to = w[i].to
<1>5. i \in DOMAIN w BY DEF Seen
<1>1. /\ frame.to = IF w[i].to > end THEN end ELSE w[i].to
      /\ frame.trailing = (end - frame.to >= MinReset \/ \E j \in Seen(w, begin, end) : i < j)
  BY FrameIs
<1>2. w[i].to \in Nat BY <1>5 DEF Channel
<1>3. CASE end - frame.to >= MinReset BY <1>1, <1>2, <1>3, Numbers
<1>4. CASE \E j \in Seen(w, begin, end) : i < j
  <2>1. PICK j \in Seen(w, begin, end) : i < j BY <1>4
  <2>2. j \in DOMAIN w /\ w[j].at < end BY DEF Seen
  <2>3. w[j].at \in Nat /\ w[i].to + gap <= w[j].at BY <1>5, <2>1, <2>2 DEF Channel
  <2>4. w[i].to <= end BY <1>2, <2>2, <2>3
  <2> QED BY <1>1, <1>2, <2>4
<1> QED BY <1>1, <1>3, <1>4, Zenon

\* A complete frame is a burst as it was sent.
LEMMA CompleteIs ==
  ASSUME NEW w, NEW begin \in Nat, NEW end \in Nat, NEW length, NEW args, NEW gap \in Nat,
         Channel(w, gap), NEW i \in Complete(Frames(w, begin, end, length, args))
  PROVE  LET frame == Frames(w, begin, end, length, args)[i] IN
         /\ i \in Seen(w, begin, end) /\ i \in DOMAIN w /\ frame.leading
         /\ begin <= w[i].at /\ w[i].to <= end
         /\ frame.at = w[i].at /\ frame.to = w[i].to /\ frame.bits = w[i].to - w[i].at
         /\ frame.rgb = IF w[i].rgb \in args.colors /\ frame.bits <= length THEN w[i].rgb ELSE "none"
<1>1. /\ i \in Seen(w, begin, end) /\ Frames(w, begin, end, length, args)[i].leading
      /\ Frames(w, begin, end, length, args)[i].trailing
  BY FramesOfSeen DEF Complete
<1>2. begin <= w[i].at /\ Frames(w, begin, end, length, args)[i].at = w[i].at BY <1>1, KnownBeginning
<1>3. w[i].to <= end /\ Frames(w, begin, end, length, args)[i].to = w[i].to BY <1>1, KnownEnd
<1> QED BY <1>1, <1>2, <1>3, FrameIs

\* A burst that is clear of both ends of the capture is a complete frame.
LEMMA ClearIsComplete ==
  ASSUME NEW w, NEW begin \in Nat, NEW end \in Nat, NEW length, NEW args, NEW gap \in Nat,
         Channel(w, gap), NEW i \in DOMAIN w,
         begin + MinReset <= w[i].at, w[i].to + MinReset <= end
  PROVE  /\ i \in Complete(Frames(w, begin, end, length, args)) /\ i \in Seen(w, begin, end)
         /\ Frames(w, begin, end, length, args)[i].valid = (w[i].rgb \in args.colors)
<1>1. w[i].at \in Nat /\ w[i].to \in Nat /\ w[i].at < w[i].to BY DEF Channel
<1>2. i \in Seen(w, begin, end) BY <1>1, Numbers DEF Seen
<1> DEFINE frame == Frames(w, begin, end, length, args)[i]
<1>3. /\ frame.at = IF w[i].at < begin THEN begin ELSE w[i].at
      /\ frame.to = IF w[i].to > end THEN end ELSE w[i].to
      /\ frame.leading = (frame.at - begin >= MinReset \/ \E j \in Seen(w, begin, end) : j < i)
      /\ frame.trailing = (end - frame.to >= MinReset \/ \E j \in Seen(w, begin, end) : i < j)
      /\ frame.valid = (w[i].rgb \in args.colors)
  BY <1>2, FrameIs
<1> HIDE DEF frame
<1>4. frame.at = w[i].at /\ frame.to = w[i].to BY <1>1, <1>3, Numbers
<1>5. frame.at - begin >= MinReset /\ end - frame.to >= MinReset BY <1>1, <1>4, Numbers
<1>6. frame.leading /\ frame.trailing BY <1>3, <1>5, Zenon
<1> QED BY <1>2, <1>3, <1>6, FramesOfSeen DEF frame, Complete

\* Where resets are long enough, only the ends of the capture make a frame incomplete.
LEMMA SettledFrames ==
  ASSUME NEW w, NEW begin \in Nat, NEW end \in Nat, NEW length, NEW args,
         Channel(w, MinReset), NEW i \in Seen(w, begin, end)
  PROVE  LET frame == Frames(w, begin, end, length, args)[i] IN
         /\ frame.leading <=> begin + MinReset <= w[i].at
         /\ frame.trailing <=> w[i].to + MinReset <= end
<1> DEFINE frame == Frames(w, begin, end, length, args)[i]
<1>0. i \in DOMAIN w /\ w[i].to > begin /\ w[i].at < end BY DEF Seen
<1>1. /\ frame.at = IF w[i].at < begin THEN begin ELSE w[i].at
      /\ frame.to = IF w[i].to > end THEN end ELSE w[i].to
      /\ frame.leading = (frame.at - begin >= MinReset \/ \E j \in Seen(w, begin, end) : j < i)
      /\ frame.trailing = (end - frame.to >= MinReset \/ \E j \in Seen(w, begin, end) : i < j)
  <2>1. MinReset \in Nat BY Numbers
  <2> QED BY <2>1, FrameIs
<1> HIDE DEF frame
<1>2. w[i].at \in Nat /\ w[i].to \in Nat BY <1>0 DEF Channel
<1>3. ASSUME NEW j \in Seen(w, begin, end), j < i PROVE begin + MinReset <= w[i].at
  <2>1. j \in DOMAIN w /\ begin < w[j].to BY DEF Seen
  <2>2. w[j].to \in Nat /\ w[j].to + MinReset <= w[i].at BY <1>0, <1>3, <2>1 DEF Channel
  <2> QED BY <1>2, <2>1, <2>2, Numbers
<1>4. ASSUME NEW j \in Seen(w, begin, end), i < j PROVE w[i].to + MinReset <= end
  <2>1. j \in DOMAIN w /\ w[j].at < end BY DEF Seen
  <2>2. w[j].at \in Nat /\ w[i].to + MinReset <= w[j].at BY <1>0, <1>4, <2>1 DEF Channel
  <2> QED BY <1>2, <2>1, <2>2, Numbers
<1>5. frame.at - begin >= MinReset <=> begin + MinReset <= w[i].at BY <1>0, <1>1, <1>2, Numbers
<1>6. end - frame.to >= MinReset <=> w[i].to + MinReset <= end BY <1>0, <1>1, <1>2, Numbers
<1>7. frame.leading <=> begin + MinReset <= w[i].at BY <1>1, <1>3, <1>5, Zenon
<1>8. frame.trailing <=> w[i].to + MinReset <= end BY <1>1, <1>4, <1>6, Zenon
<1> QED BY <1>7, <1>8 DEF frame

-----------------------------------------------------------------------------
(* The slots of the stream: what was sent and what comes next.             *)

Longest(bank, len) == len[Anchor(bank, len)]

\* A bank sent as it should be.
Even(k, bank, t, rgb, len) ==
  [k |-> k, bank |-> bank,
   burst |-> [p \in Pin |-> Burst(t, IF p \in Members(bank, len) THEN len[p] ELSE 0, rgb)]]

Pending == Even(d.k, d.bank, d.t, d.rgb, d.len)
Slots == Append(d.sent, Pending)

BurstSet == [at : Nat, to : Nat, rgb : Color \cup {"mixed"}]
SlotSet == [k : Nat \ {0}, bank : 0 .. 2, burst : [Pin -> BurstSet]]

DriverSet ==
  [len : Layouts, rule : {"fixed", "cycle", "random"}, t : Nat, k : Nat \ {0}, bank : 0 .. 2,
   rgb : Color, sent : Seq(SlotSet), run : {"off", "on"},
   fault : {"none", "pin", "bank", "command", "reset"}, at : Nat]

\* A slot has bursts on pins of its bank only, and after the driver has settled.
Own(x, len) ==
  /\ x.bank \in ActiveBanks(len)
  /\ \A p \in Pin : /\ Settle <= x.burst[p].at /\ x.burst[p].at <= x.burst[p].to
                    /\ IsHigh(x.burst[p]) => p \in Members(x.bank, len)

DriverTyped ==
  /\ d \in DriverSet
  /\ Settle <= d.t
  /\ d.rule = "fixed" => d.rgb = "red"
  /\ Active = {} => d.sent = << >> /\ d.fault = "none"
  /\ Active # {} => d.bank \in Active /\ \A s \in 1 .. Len(d.sent) : Own(d.sent[s], d.len)

\* Of two slots, the first begins first; they overlap by a pixel at most, and not on one pin.
Follows(x, y) ==
  \A p, q \in Pin : IsHigh(x.burst[p]) /\ IsHigh(y.burst[q]) =>
    /\ \/ x.burst[p].at < y.burst[q].at
       \/ x.burst[p].at = y.burst[q].at /\ x.bank > y.bank
    /\ x.burst[p].to <= y.burst[q].at + 1
    /\ x.bank <= y.bank => x.burst[p].to + Separator <= y.burst[q].at

InOrder(slots) == \A s, r \in 1 .. Len(slots) : s < r => Follows(slots[s], slots[r])

\* Pin 1 has the time and the colour of a bank sent as it should be, high or low.
Time(x) == x.burst[1].at
Rgb(x) == x.burst[1].rgb

LEMMA BurstIs ==
  ASSUME NEW at, NEW length, NEW rgb
  PROVE  /\ Burst(at, length, rgb).at = at /\ Burst(at, length, rgb).to = at + length
         /\ Burst(at, length, rgb).rgb = rgb
         /\ Burst(at, length, rgb) = [at |-> at, to |-> at + length, rgb |-> rgb]
BY DEF Burst

LEMMA Layout == DriverTyped => d.len \in [Pin -> Nat]
BY DriverAssumption DEF DriverTyped, DriverSet

LEMMA EvenIs ==
  ASSUME NEW len \in [Pin -> Nat], NEW k \in Nat \ {0}, NEW bank \in 0 .. 2, NEW t \in Nat,
         NEW rgb \in Color, NEW x, x = Even(k, bank, t, rgb, len)
  PROVE  x \in SlotSet /\ x.k = k /\ x.bank = bank /\ Time(x) = t /\ Rgb(x) = rgb
<1> DEFINE n(p) == IF p \in Members(bank, len) THEN len[p] ELSE 0
           f == [p \in Pin |-> Burst(t, n(p), rgb)]
<1>1. x = [k |-> k, bank |-> bank, burst |-> f] BY DEF Even
<1>2. \A p \in Pin : n(p) \in Nat OBVIOUS
<1> HIDE DEF n
<1>3. \A p \in Pin : f[p] \in BurstSet BY <1>2 DEF BurstSet, Burst
<1>4. 1 \in Pin BY DEF Pin
<1>5. f[1].at = t /\ f[1].rgb = rgb BY <1>4, BurstIs
<1>6. f \in [Pin -> BurstSet] BY <1>3
<1> HIDE DEF f
<1>7. x \in SlotSet /\ x.k = k /\ x.bank = bank /\ x.burst = f BY <1>1, <1>6 DEF SlotSet
<1> QED BY <1>5, <1>7 DEF Time, Rgb

LEMMA EvenFields ==
  ASSUME NEW k, NEW bank, NEW t, NEW rgb, NEW len, NEW p \in Pin
  PROVE  /\ Even(k, bank, t, rgb, len).burst[p].at = t
         /\ Even(k, bank, t, rgb, len).burst[p].rgb = rgb
         /\ Even(k, bank, t, rgb, len).burst[p].to = t + (IF p \in Members(bank, len) THEN len[p] ELSE 0)
BY DEF Even, Burst

LEMMA EvenHigh ==
  ASSUME NEW len \in [Pin -> Nat], NEW bank, NEW t \in Nat, NEW k, NEW rgb, NEW p \in Pin
  PROVE  /\ IsHigh(Even(k, bank, t, rgb, len).burst[p]) <=> p \in Members(bank, len)
         /\ p \in Members(bank, len) => Even(k, bank, t, rgb, len).burst[p].to = t + len[p]
         /\ p \notin Members(bank, len) => Even(k, bank, t, rgb, len).burst[p].to = t
         /\ t <= Even(k, bank, t, rgb, len).burst[p].to
<1> DEFINE n == IF p \in Members(bank, len) THEN len[p] ELSE 0
           b == Even(k, bank, t, rgb, len).burst[p]
<1>1. b.at = t /\ b.to = t + n BY EvenFields
<1>2. n \in Nat /\ (0 < n <=> p \in Members(bank, len))
  <2>1. len[p] \in Nat OBVIOUS
  <2>2. p \in Members(bank, len) => len[p] > 0 BY MembersOfActive
  <2> QED BY <2>1, <2>2
<1>3. p \in Members(bank, len) => n = len[p] OBVIOUS
<1>4. p \notin Members(bank, len) => n = 0 OBVIOUS
<1> HIDE DEF n, b
<1>5. IsHigh(b) <=> p \in Members(bank, len) BY <1>1, <1>2 DEF IsHigh
<1> QED BY <1>1, <1>2, <1>3, <1>4, <1>5 DEF b

LEMMA EvenEnd ==
  ASSUME NEW len \in [Pin -> Nat], NEW bank \in ActiveBanks(len), NEW t \in Nat, NEW k, NEW rgb, NEW p \in Pin
  PROVE  Even(k, bank, t, rgb, len).burst[p].to <= t + Longest(bank, len)
<1>1. Anchor(bank, len) \in Pin /\ \A q \in Members(bank, len) : len[q] <= len[Anchor(bank, len)]
  BY AnchorIs
<1>2. len[Anchor(bank, len)] \in Nat /\ len[p] \in Nat BY <1>1
<1>3. CASE p \in Members(bank, len)
  <2>1. Even(k, bank, t, rgb, len).burst[p].to = t + len[p] BY <1>3, EvenHigh
  <2> QED BY <1>1, <1>2, <1>3, <2>1 DEF Longest
<1>4. CASE p \notin Members(bank, len)
  <2>1. Even(k, bank, t, rgb, len).burst[p].to = t BY <1>4, EvenHigh
  <2> QED BY <1>2, <2>1 DEF Longest
<1> QED BY <1>3, <1>4

LEMMA Colours ==
  /\ Color = {"red", "green", "blue"}
  /\ Cycle \in Seq(Color) /\ Len(Cycle) = 3 /\ DOMAIN Cycle = 1 .. 3
  /\ Cycle[1] = "red" /\ Cycle[2] = "green" /\ Cycle[3] = "blue"
<1>1. Cycle[1] = "red" /\ Cycle[2] = "green" /\ Cycle[3] = "blue" BY DEF Cycle
<1>2. Color = {Cycle[1], Cycle[2], Cycle[3]}
  <2>1. 1 .. 3 = {1, 2, 3} OBVIOUS
  <2> QED BY <2>1 DEF Color
<1>3. Cycle \in Seq({"red", "green", "blue"}) /\ Len(Cycle) = 3 /\ DOMAIN Cycle = 1 .. 3 BY DEF Cycle
<1> QED BY <1>1, <1>2, <1>3

LEMMA SuccessorIs ==
  Successor("red") = "green" /\ Successor("green") = "blue" /\ Successor("blue") = "red"
<1> DEFINE Is(rgb, next) == \E i \in 1 .. 3 : Cycle[i] = rgb /\ Cycle[(i % 3) + 1] = next
<1>1. ASSUME NEW rgb, NEW next PROVE Is(rgb, next) <=> \/ Cycle[1] = rgb /\ Cycle[2] = next
                                                       \/ Cycle[2] = rgb /\ Cycle[3] = next
                                                       \/ Cycle[3] = rgb /\ Cycle[1] = next
  <2>1. 1 .. 3 = {1, 2, 3} OBVIOUS
  <2>2. (1 % 3) + 1 = 2 /\ (2 % 3) + 1 = 3 /\ (3 % 3) + 1 = 1 OBVIOUS
  <2> QED BY <2>1, <2>2
<1>2. \A rgb : Successor(rgb) = CHOOSE next \in Color : Is(rgb, next) BY DEF Successor
<1> HIDE DEF Is
<1>3. \A next \in Color : /\ Is("red", next) <=> next = "green"
                          /\ Is("green", next) <=> next = "blue"
                          /\ Is("blue", next) <=> next = "red"
  BY <1>1, Colours
<1> QED BY <1>2, <1>3, Colours

LEMMA SuccessorType == \A rgb \in Color : Successor(rgb) \in Color /\ Successor(rgb) # rgb
BY Colours, SuccessorIs

LEMMA SlotsAre ==
  ASSUME DriverTyped
  PROVE  /\ Pending \in SlotSet /\ Slots \in Seq(SlotSet) /\ Len(d.sent) \in Nat
         /\ Len(Slots) = Len(d.sent) + 1 /\ Slots[Len(d.sent) + 1] = Pending
         /\ \A s \in 1 .. Len(d.sent) : Slots[s] = d.sent[s] /\ d.sent[s] \in SlotSet
         /\ Active # {} => \A s \in 1 .. Len(Slots) : Own(Slots[s], d.len)
<1>1. d.sent \in Seq(SlotSet) /\ d.k \in Nat \ {0} /\ d.bank \in 0 .. 2 /\ d.t \in Nat /\ d.rgb \in Color
  BY DEF DriverTyped, DriverSet
<1>2. d.len \in [Pin -> Nat] BY Layout
<1>3. /\ Pending \in SlotSet /\ Pending.bank = d.bank
      /\ \A p \in Pin : /\ Pending.burst[p].at = d.t /\ Pending.burst[p].at <= Pending.burst[p].to
                        /\ IsHigh(Pending.burst[p]) => p \in Members(d.bank, d.len)
  <2>1. Pending = Even(d.k, d.bank, d.t, d.rgb, d.len) BY DEF Pending
  <2>2. Pending \in SlotSet /\ Pending.bank = d.bank BY <1>1, <1>2, <2>1, EvenIs
  <2>3. \A p \in Pin : Pending.burst[p].at = d.t BY <2>1, EvenFields
  <2>4. \A p \in Pin : /\ d.t <= Pending.burst[p].to
                       /\ IsHigh(Pending.burst[p]) => p \in Members(d.bank, d.len)
    BY <1>1, <1>2, <2>1, EvenHigh
  <2>5. \A p \in Pin : Pending.burst[p].at <= Pending.burst[p].to BY <2>3, <2>4
  <2>6. \A p \in Pin : IsHigh(Pending.burst[p]) => p \in Members(d.bank, d.len) BY <2>4
  <2> QED BY <2>2, <2>3, <2>5, <2>6
<1>4. /\ Slots \in Seq(SlotSet) /\ Len(d.sent) \in Nat
      /\ Len(Slots) = Len(d.sent) + 1 /\ Slots[Len(d.sent) + 1] = Pending
      /\ \A s \in 1 .. Len(d.sent) : Slots[s] = d.sent[s] /\ d.sent[s] \in SlotSet
  BY <1>1, <1>3 DEF Slots
<1>5. ASSUME Active # {} PROVE \A s \in 1 .. Len(Slots) : Own(Slots[s], d.len)
  <2>1. Own(Pending, d.len) BY <1>1, <1>3, <1>5 DEF Own, DriverTyped, Active
  <2>2. \A s \in 1 .. Len(d.sent) : Own(d.sent[s], d.len) BY <1>5 DEF DriverTyped
  <2>3. \A s \in 1 .. Len(Slots) : s \in 1 .. Len(d.sent) \/ s = Len(d.sent) + 1 BY <1>4
  <2> QED BY <1>4, <2>1, <2>2, <2>3
<1> QED BY <1>3, <1>4, <1>5

-----------------------------------------------------------------------------
(* What the steps of the driver do to it.                                  *)

\* The next bank follows at the time.
TurnedTo(e, time) ==
  /\ e \in DriverSet
  /\ e.len = d.len /\ e.rule = d.rule /\ e.run = d.run
  /\ e.bank = NextBank(d.bank, Active)
  /\ IF e.bank < d.bank THEN e.k = d.k /\ e.rgb = d.rgb /\ e.t = time + BankGap
                        ELSE e.k = d.k + 1 /\ e.t = time + Settle
  /\ d.rule = "fixed" => e.rgb = d.rgb
  /\ ~(e.bank < d.bank) /\ d.rule = "cycle" => e.rgb = Successor(d.rgb)

LEMMA ProceedsIs ==
  ASSUME DriverTyped, Active # {}, NEW time \in Int,
         IF NextBank(d.bank, Active) < d.bank THEN time + BankGap >= 0 ELSE time + Settle >= 0,
         NEW after \in Proceeds(time)
  PROVE  /\ TurnedTo(after, time)
         /\ after.sent = d.sent /\ after.fault = d.fault /\ after.at = d.at
<1>1. d \in DriverSet /\ d.bank \in Active BY DEF DriverTyped
<1>2. /\ NextBank(d.bank, Active) \in Active /\ NextBank(d.bank, Active) \in 0 .. 2
  <2>1. Active \in SUBSET (0 .. 2) BY ActiveAreBanks DEF Active
  <2> QED BY <1>1, <2>1, NextBankIs
<1> DEFINE bank == NextBank(d.bank, Active)
<1>3. CASE bank < d.bank
  <2>1. after = [d EXCEPT !.bank = bank, !.t = time + BankGap] BY <1>3 DEF Proceeds
  <2> HIDE DEF bank
  <2>2. time + BankGap \in Nat BY <1>3, Numbers DEF bank
  <2>3. /\ after.fault = d.fault /\ after.at = d.at /\ after.sent = d.sent
        /\ after.len = d.len /\ after.rule = d.rule /\ after.run = d.run /\ after.bank = bank
        /\ after.k = d.k /\ after.rgb = d.rgb /\ after.t = time + BankGap
        /\ after \in DriverSet
    BY <1>1, <1>2, <2>1, <2>2 DEF DriverSet, bank
  <2> QED BY <1>3, <2>3 DEF TurnedTo, bank
<1>4. CASE ~(bank < d.bank)
  <2>1. PICK rgb \in CASE d.rule = "fixed" -> {d.rgb}
                       [] d.rule = "cycle" -> {Successor(d.rgb)}
                       [] d.rule = "random" -> {d.rgb, Successor(d.rgb)} :
          after = [d EXCEPT !.bank = bank, !.k = @ + 1, !.t = time + Settle, !.rgb = rgb]
    BY <1>4, Zenon DEF Proceeds
  <2>2. d.rule \in {"fixed", "cycle", "random"} /\ d.rgb \in Color BY <1>1 DEF DriverSet
  <2>3. /\ rgb \in Color
        /\ d.rule = "fixed" => rgb = d.rgb
        /\ d.rule = "cycle" => rgb = Successor(d.rgb)
    BY <2>1, <2>2, SuccessorType
  <2> HIDE DEF bank
  <2>4. time + Settle \in Nat BY <1>4, Numbers DEF bank
  <2>5. /\ after.fault = d.fault /\ after.at = d.at /\ after.sent = d.sent
        /\ after.len = d.len /\ after.rule = d.rule /\ after.run = d.run /\ after.bank = bank
        /\ after.k = d.k + 1 /\ after.rgb = rgb /\ after.t = time + Settle
    BY <1>1, <2>1 DEF DriverSet
  <2>6. d.k + 1 \in Nat \ {0} BY <1>1 DEF DriverSet
  <2>7. after \in DriverSet BY <1>1, <1>2, <2>1, <2>3, <2>4, <2>6 DEF DriverSet, bank
  <2> QED BY <1>4, <2>3, <2>5, <2>7 DEF TurnedTo, bank
<1> QED BY <1>3, <1>4

\* Sending and going wrong change nothing else.
Like(e, after) ==
  /\ e \in DriverSet
  /\ e.len = after.len /\ e.rule = after.rule /\ e.run = after.run /\ e.bank = after.bank
  /\ e.k = after.k /\ e.rgb = after.rgb /\ e.t = after.t

LEMMA TurnedLike ==
  ASSUME NEW time, NEW after, TurnedTo(after, time), NEW e, Like(e, after)
  PROVE  TurnedTo(e, time)
BY DEF TurnedTo, Like

LEMMA SendsPending ==
  ASSUME DriverTyped
  PROVE  Sends(d.bank, Uniform(d.bank)) = Slots
BY DEF Sends, Slots, Pending, Even, Uniform

\* The longest string of an active bank is at least a pixel long.
LEMMA LongestIs ==
  ASSUME DriverTyped, NEW bank \in Active
  PROVE  /\ LongestOf(bank) = Longest(bank, d.len) /\ LongestOf(bank) \in Nat /\ 1 <= LongestOf(bank)
         /\ Anchor(bank, d.len) \in Members(bank, d.len) /\ Anchor(bank, d.len) \in Pin
         /\ \A p \in Members(bank, d.len) : d.len[p] \in Nat /\ 1 <= d.len[p] /\ d.len[p] <= LongestOf(bank)
BY Layout, AnchorIs DEF LongestOf, Longest, Active

LEMMA SendBankDoes ==
  ASSUME DriverTyped, SendBank
  PROVE  /\ ~Over /\ d.run = "on" /\ Active # {} /\ UNCHANGED <<c, m>>
         /\ TurnedTo(d', d.t + LongestOf(d.bank))
         /\ d'.sent = Slots /\ d'.fault = d.fault /\ d'.at = d.at
<1>1. ~Over /\ d.run = "on" /\ Active # {} /\ UNCHANGED <<c, m>> BY Zenon DEF SendBank
<1>2. d.bank \in Active /\ d \in DriverSet BY <1>1 DEF DriverTyped
<1> DEFINE time == d.t + LongestOf(d.bank)
<1>3. time \in Nat BY <1>2, LongestIs DEF DriverSet
<1>4. PICK after \in Proceeds(time) : d' = [after EXCEPT !.sent = Sends(d.bank, Uniform(d.bank))]
  BY Zenon DEF SendBank
<1> HIDE DEF time
<1>5. d' = [after EXCEPT !.sent = Slots] BY <1>4, SendsPending
<1>6. time \in Int /\ time + BankGap >= 0 /\ time + Settle >= 0 BY <1>3, Numbers
<1>7. TurnedTo(after, time) /\ after.fault = d.fault /\ after.at = d.at
  BY <1>1, <1>4, <1>6, ProceedsIs
<1>8. Slots \in Seq(SlotSet) BY SlotsAre
<1>9. after \in DriverSet BY <1>7 DEF TurnedTo
<1>10. /\ d'.len = after.len /\ d'.rule = after.rule /\ d'.run = after.run /\ d'.bank = after.bank
       /\ d'.k = after.k /\ d'.rgb = after.rgb /\ d'.t = after.t
       /\ d'.sent = Slots /\ d'.fault = after.fault /\ d'.at = after.at /\ d' \in DriverSet
  BY <1>5, <1>8, <1>9 DEF DriverSet
<1>11. TurnedTo(d', time) BY <1>7, <1>10 DEF TurnedTo
<1> QED BY <1>1, <1>7, <1>10, <1>11 DEF time

-----------------------------------------------------------------------------
(* Slots that follow one another.                                          *)

LEMMA HighTimes ==
  ASSUME NEW x \in SlotSet, NEW p \in Pin
  PROVE  /\ x.burst[p].at \in Nat /\ x.burst[p].to \in Nat /\ x.bank \in 0 .. 2
         /\ IsHigh(x.burst[p]) <=> x.burst[p].at < x.burst[p].to
<1>1. x.burst[p] \in BurstSet /\ x.bank \in 0 .. 2 BY DEF SlotSet
<1> QED BY <1>1 DEF BurstSet, IsHigh

\* What follows a bank sent as it should be also follows later, and in place of it.
LEMMA FollowsLater ==
  ASSUME NEW len \in [Pin -> Nat], NEW k \in Nat \ {0}, NEW bank \in ActiveBanks(len), NEW t \in Nat,
         NEW rgb \in Color, NEW e \in SlotSet, Follows(e, Even(k, bank, t, rgb, len)),
         NEW y \in SlotSet, NEW time \in Nat,
         \A q \in Pin : IsHigh(y.burst[q]) => time <= y.burst[q].at,
         (y.bank <= bank /\ t <= time) \/ t + 1 + Separator <= time
  PROVE  Follows(e, y)
<1> SUFFICES ASSUME NEW p \in Pin, NEW q \in Pin, IsHigh(e.burst[p]), IsHigh(y.burst[q])
             PROVE  /\ \/ e.burst[p].at < y.burst[q].at
                       \/ e.burst[p].at = y.burst[q].at /\ e.bank > y.bank
                    /\ e.burst[p].to <= y.burst[q].at + 1
                    /\ e.bank <= y.bank => e.burst[p].to + Separator <= y.burst[q].at
  BY DEF Follows
<1> DEFINE x == Even(k, bank, t, rgb, len)
           a == Anchor(bank, len)
<1>1. bank \in 0 .. 2 BY ActiveAreBanks
<1>2. a \in Pin /\ a \in Members(bank, len) BY AnchorIs
<1>3. x = Even(k, bank, t, rgb, len) OBVIOUS
<1> HIDE DEF x, a
<1>4. x.bank = bank /\ IsHigh(x.burst[a]) /\ x.burst[a].at = t
  <2>1. x.bank = bank BY <1>1, <1>3, EvenIs
  <2>2. x.burst[a].at = t BY <1>2, <1>3, EvenFields
  <2>3. IsHigh(x.burst[a]) BY <1>2, <1>3, EvenHigh
  <2> QED BY <2>1, <2>2, <2>3
<1>5. Follows(e, x) BY <1>3
<1>6. /\ e.burst[p].at < t \/ (e.burst[p].at = t /\ e.bank > bank)
      /\ e.burst[p].to <= t + 1
      /\ e.bank <= bank => e.burst[p].to + Separator <= t
  BY <1>2, <1>4, <1>5 DEF Follows
<1>7. /\ e.burst[p].at \in Nat /\ e.burst[p].to \in Nat /\ e.bank \in 0 .. 2
      /\ e.burst[p].at < e.burst[p].to
      /\ y.burst[q].at \in Nat /\ y.bank \in 0 .. 2 /\ time <= y.burst[q].at
  BY HighTimes
<1>8. CASE y.bank <= bank /\ t <= time BY <1>1, <1>6, <1>7, <1>8, Numbers
<1>9. CASE t + 1 + Separator <= time BY <1>1, <1>6, <1>7, <1>9, Numbers
<1> QED BY <1>8, <1>9

\* A slot is followed by what begins after it has ended.
LEMMA FollowsEnd ==
  ASSUME NEW x \in SlotSet, NEW y \in SlotSet, NEW u \in Nat, NEW v \in Nat, NEW time \in Nat,
         \A p \in Pin : IsHigh(x.burst[p]) => x.burst[p].at <= u /\ x.burst[p].to <= v,
         \A q \in Pin : IsHigh(y.burst[q]) => time <= y.burst[q].at,
         u < time \/ (u <= time /\ x.bank > y.bank),
         v <= time + 1, x.bank <= y.bank => v + Separator <= time
  PROVE  Follows(x, y)
<1> SUFFICES ASSUME NEW p \in Pin, NEW q \in Pin, IsHigh(x.burst[p]), IsHigh(y.burst[q])
             PROVE  /\ \/ x.burst[p].at < y.burst[q].at
                       \/ x.burst[p].at = y.burst[q].at /\ x.bank > y.bank
                    /\ x.burst[p].to <= y.burst[q].at + 1
                    /\ x.bank <= y.bank => x.burst[p].to + Separator <= y.burst[q].at
  BY DEF Follows
<1>1. /\ x.burst[p].at \in Nat /\ x.burst[p].to \in Nat /\ x.bank \in 0 .. 2
      /\ y.burst[q].at \in Nat /\ y.bank \in 0 .. 2
      /\ x.burst[p].at <= u /\ x.burst[p].to <= v /\ time <= y.burst[q].at
  BY HighTimes
<1> QED BY <1>1, Numbers

LEMMA AppendIs ==
  ASSUME NEW S, NEW q \in Seq(S), NEW x \in S
  PROVE  /\ Append(q, x) \in Seq(S) /\ Len(q) \in Nat /\ Len(Append(q, x)) = Len(q) + 1
         /\ Append(q, x)[Len(q) + 1] = x
         /\ \A s \in 1 .. Len(q) : Append(q, x)[s] = q[s] /\ q[s] \in S
         /\ \A s \in 1 .. Len(Append(q, x)) : s \in 1 .. Len(q) \/ s = Len(q) + 1
OBVIOUS

LEMMA InOrderOn ==
  ASSUME NEW q \in Seq(SlotSet), NEW x \in SlotSet, InOrder(q),
         \A s \in 1 .. Len(q) : Follows(q[s], x)
  PROVE  InOrder(Append(q, x))
<1> DEFINE a == Append(q, x)
<1>1. /\ Len(q) \in Nat /\ Len(a) = Len(q) + 1 /\ a[Len(q) + 1] = x
      /\ \A s \in 1 .. Len(q) : a[s] = q[s]
      /\ \A s \in 1 .. Len(a) : s \in 1 .. Len(q) \/ s = Len(q) + 1
  BY AppendIs
<1> HIDE DEF a
<1> SUFFICES ASSUME NEW s \in 1 .. Len(a), NEW r \in 1 .. Len(a), s < r
             PROVE  Follows(a[s], a[r])
  BY DEF InOrder, a
<1>2. CASE r = Len(q) + 1 BY <1>1, <1>2
<1>3. CASE r \in 1 .. Len(q) BY <1>1, <1>3 DEF InOrder
<1> QED BY <1>1, <1>2, <1>3

-----------------------------------------------------------------------------
(* A stream in which nothing went wrong.                                   *)

Plain(x, len, rule) ==
  /\ x = Even(x.k, x.bank, Time(x), Rgb(x), len)
  /\ x.bank \in ActiveBanks(len) /\ Rgb(x) \in Color /\ (rule = "fixed" => Rgb(x) = "red")

\* The next bank, or the next command and its colour.
Turns(x, y, len, rule) ==
  /\ y.bank = NextBank(x.bank, ActiveBanks(len))
  /\ IF y.bank < x.bank
     THEN y.k = x.k /\ Rgb(y) = Rgb(x) /\ Time(y) = Time(x) + Longest(x.bank, len) + BankGap
     ELSE /\ y.k = x.k + 1 /\ Time(y) = Time(x) + Longest(x.bank, len) + Settle
          /\ rule = "cycle" => Rgb(y) = Successor(Rgb(x))

Spaced(x, y, len) ==
  Time(x) + Longest(x.bank, len) + (IF x.bank <= y.bank THEN Settle ELSE BankGap) <= Time(y)

\* No slot between two is of the first one's bank.
LastOfBank(slots, s, r) == \A i \in s + 1 .. r - 1 : slots[i].bank # slots[s].bank

AllPlain(slots, len, rule) == \A s \in 1 .. Len(slots) : Plain(slots[s], len, rule)
AllTurn(slots, len, rule) == \A s, r \in 1 .. Len(slots) : r = s + 1 => Turns(slots[s], slots[r], len, rule)
AllSpaced(slots, len) == \A s, r \in 1 .. Len(slots) : s < r => Spaced(slots[s], slots[r], len)

\* The colours of each bank follow the cycle.
CycleKept(slots, rule) ==
  rule = "cycle" => \A s, r \in 1 .. Len(slots) : s < r /\ LastOfBank(slots, s, r) =>
    Rgb(slots[r]) = IF slots[s].bank > slots[r].bank THEN Rgb(slots[s]) ELSE Successor(Rgb(slots[s]))

\* The top bank has been sent in the command, or in the one before.
TopBefore(slots, len) ==
  \A r \in 1 .. Len(slots) : slots[r].bank # TopBank(len) \/ slots[r].k > 1 =>
    \E s \in 1 .. Len(slots) :
      /\ s < r /\ slots[s].bank = TopBank(len) /\ LastOfBank(slots, s, r)
      /\ slots[s].k = slots[r].k - IF slots[r].bank = TopBank(len) THEN 1 ELSE 0

RegularStream(slots, len, rule) ==
  /\ AllPlain(slots, len, rule) /\ AllTurn(slots, len, rule) /\ AllSpaced(slots, len)
  /\ CycleKept(slots, rule) /\ TopBefore(slots, len)

LEMMA PlainTimes ==
  ASSUME NEW len \in [Pin -> Nat], NEW rule, NEW x \in SlotSet, Plain(x, len, rule)
  PROVE  /\ Time(x) \in Nat /\ x.k \in Nat \ {0} /\ x.bank \in 0 .. 2 /\ x.bank \in ActiveBanks(len)
         /\ Rgb(x) \in Color /\ Longest(x.bank, len) \in Nat /\ 1 <= Longest(x.bank, len)
<1>1. 1 \in Pin BY DEF Pin
<1>2. Time(x) \in Nat BY <1>1, HighTimes DEF Time
<1>3. x.bank \in ActiveBanks(len) /\ Rgb(x) \in Color BY DEF Plain
<1>4. Longest(x.bank, len) \in Nat /\ 1 <= Longest(x.bank, len) BY <1>3, AnchorIs DEF Longest
<1> QED BY <1>2, <1>3, <1>4 DEF SlotSet

LEMMA SpacedOn ==
  ASSUME NEW len \in [Pin -> Nat], NEW rule, NEW x \in SlotSet, NEW y \in SlotSet, NEW e \in SlotSet,
         Plain(x, len, rule), Plain(y, len, rule), Plain(e, len, rule), Turns(x, y, len, rule),
         e = x \/ Spaced(e, x, len)
  PROVE  Spaced(e, y, len)
<1>1. /\ Time(x) \in Nat /\ x.bank \in ActiveBanks(len) /\ x.bank \in 0 .. 2
      /\ Longest(x.bank, len) \in Nat /\ 1 <= Longest(x.bank, len)
      /\ Time(y) \in Nat /\ y.bank \in 0 .. 2
      /\ Time(e) \in Nat /\ e.bank \in ActiveBanks(len) /\ e.bank \in 0 .. 2 /\ Longest(e.bank, len) \in Nat
  BY PlainTimes
<1>2. y.bank = NextBank(x.bank, ActiveBanks(len)) BY DEF Turns
<1>3. ActiveBanks(len) \in SUBSET (0 .. 2) BY ActiveAreBanks
<1>4. Time(e) + Longest(e.bank, len) + (IF e.bank <= x.bank THEN Settle ELSE BankGap) <= Time(x) \/ e = x
  BY DEF Spaced
<1>5. CASE y.bank < x.bank
  <2>1. Time(y) = Time(x) + Longest(x.bank, len) + BankGap BY <1>5 DEF Turns
  <2> QED BY <1>1, <1>4, <1>5, <2>1, Numbers DEF Spaced
<1>6. CASE ~(y.bank < x.bank)
  <2>1. Time(y) = Time(x) + Longest(x.bank, len) + Settle BY <1>6 DEF Turns
  <2>2. e.bank <= y.bank BY <1>1, <1>2, <1>3, <1>6, NextBankIs
  <2> QED BY <1>1, <1>4, <2>1, <2>2, Numbers DEF Spaced
<1> QED BY <1>5, <1>6

LEMMA CycleOn ==
  ASSUME NEW len \in [Pin -> Nat], NEW rule, NEW q \in Seq(SlotSet), Len(q) >= 1, NEW y \in SlotSet,
         AllPlain(q, len, rule), Plain(y, len, rule), Turns(q[Len(q)], y, len, rule), CycleKept(q, rule)
  PROVE  CycleKept(Append(q, y), rule)
<1> DEFINE a == Append(q, y)
           n == Len(q)
           x == q[n]
           A == ActiveBanks(len)
<1>1. /\ n \in Nat /\ n >= 1 /\ Len(a) = n + 1 /\ a[n + 1] = y
      /\ \A s \in 1 .. n : a[s] = q[s] /\ q[s] \in SlotSet
      /\ \A s \in 1 .. Len(a) : s \in 1 .. n \/ s = n + 1
  BY AppendIs
<1>2. x = q[n] /\ A = ActiveBanks(len) OBVIOUS
<1> HIDE DEF a, n, x, A
<1>3. A \in SUBSET (0 .. 2) BY <1>2, ActiveAreBanks
<1>4. \A s \in 1 .. n : q[s].bank \in A BY <1>2 DEF AllPlain, Plain, n
<1>5. x \in SlotSet /\ x.bank \in A BY <1>1, <1>2, <1>4
<1>6. /\ y.bank = NextBank(x.bank, A)
      /\ rule = "cycle" => Rgb(y) = IF y.bank < x.bank THEN Rgb(x) ELSE Successor(Rgb(x))
  BY <1>2 DEF Turns, n, x
<1>9. /\ y.bank \in 0 .. 2 /\ x.bank \in 0 .. 2
      /\ y.bank < x.bank => \A b \in A : b < x.bank => b <= y.bank
      /\ ~(y.bank < x.bank) => \A b \in A : x.bank <= b /\ b <= y.bank
  BY <1>2, <1>5, <1>6, NextIs
<1> SUFFICES ASSUME rule = "cycle", NEW s \in 1 .. Len(a), NEW r \in 1 .. Len(a), s < r, LastOfBank(a, s, r)
             PROVE  Rgb(a[r]) = IF a[s].bank > a[r].bank THEN Rgb(a[s]) ELSE Successor(Rgb(a[s]))
  BY DEF CycleKept, a
<1>7. CASE r \in 1 .. n
  <2>1. s \in 1 .. n /\ LastOfBank(q, s, r) BY <1>1, <1>7 DEF LastOfBank
  <2> QED BY <1>1, <1>7, <2>1 DEF CycleKept, n
<1>8. CASE r = n + 1
  <2>1. s \in 1 .. n /\ a[s] = q[s] /\ a[r] = y BY <1>1, <1>8
  <2>2. CASE s = n
    <3>1. a[s] = x BY <1>2, <2>1, <2>2
    <3> QED BY <1>6, <1>9, <2>1, <3>1
  <2>3. CASE s < n
    <3>1. LastOfBank(q, s, n) /\ x.bank # q[s].bank
      <4>1. \A i \in s + 1 .. n : a[i] = q[i] /\ a[i].bank # a[s].bank
        BY <1>1, <1>8, <2>1, <2>3 DEF LastOfBank
      <4>2. n \in s + 1 .. n /\ \A i \in s + 1 .. n - 1 : i \in s + 1 .. n BY <1>1, <2>1, <2>3
      <4>3. \A i \in s + 1 .. n : q[i].bank # q[s].bank BY <2>1, <4>1, Zenon
      <4> QED BY <1>2, <4>2, <4>3, Zenon DEF LastOfBank
    <3>2. Rgb(x) = IF q[s].bank > x.bank THEN Rgb(q[s]) ELSE Successor(Rgb(q[s]))
      <4>1. n \in 1 .. n BY <1>1
      <4> QED BY <1>2, <2>1, <2>3, <3>1, <4>1 DEF CycleKept, n
    <3>3. q[s].bank \in A /\ q[s].bank \in 0 .. 2 BY <1>3, <1>4, <2>1
    <3>4. CASE y.bank < x.bank
      <4>1. q[s].bank < x.bank => q[s].bank <= y.bank BY <1>9, <3>3, <3>4
      <4>2. q[s].bank > x.bank <=> q[s].bank > y.bank BY <1>9, <3>1, <3>3, <3>4, <4>1
      <4> QED BY <1>6, <2>1, <3>2, <3>4, <4>2
    <3>5. CASE ~(y.bank < x.bank)
      <4>1. x.bank <= q[s].bank /\ q[s].bank <= y.bank BY <1>9, <3>3, <3>5
      <4>2. q[s].bank > x.bank BY <1>9, <3>1, <3>3, <4>1
      <4>3. y.bank \in 0 .. 2 BY DEF SlotSet
      <4>4. ~(q[s].bank > y.bank) BY <3>3, <4>1, <4>3
      <4> QED BY <1>6, <2>1, <3>2, <3>5, <4>2, <4>4
    <3> QED BY <3>4, <3>5
  <2> QED BY <1>1, <2>1, <2>2, <2>3
<1> QED BY <1>1, <1>7, <1>8

LEMMA TopBankIs ==
  ASSUME NEW len, ActiveBanks(len) # {}
  PROVE  /\ TopBank(len) \in ActiveBanks(len) /\ TopBank(len) \in 0 .. 2
         /\ \A b \in ActiveBanks(len) : b <= TopBank(len)
         /\ TopBank(len) = Max(ActiveBanks(len))
<1>1. ActiveBanks(len) \in SUBSET (0 .. 2) BY ActiveAreBanks
<1> QED BY <1>1, MaxBank DEF TopBank

LEMMA TopOn ==
  ASSUME NEW len \in [Pin -> Nat], NEW rule, NEW q \in Seq(SlotSet), Len(q) >= 1, NEW y \in SlotSet,
         AllPlain(q, len, rule), Turns(q[Len(q)], y, len, rule), TopBefore(q, len)
  PROVE  TopBefore(Append(q, y), len)
<1> DEFINE a == Append(q, y)
           n == Len(q)
           x == q[n]
           A == ActiveBanks(len)
           top == TopBank(len)
<1>1. /\ n \in Nat /\ n >= 1 /\ Len(a) = n + 1 /\ a[n + 1] = y
      /\ \A s \in 1 .. n : a[s] = q[s] /\ q[s] \in SlotSet
      /\ \A s \in 1 .. Len(a) : s \in 1 .. n \/ s = n + 1
  BY AppendIs
<1>2. x = q[n] /\ A = ActiveBanks(len) /\ top = TopBank(len) OBVIOUS
<1> HIDE DEF a, n, x, A, top
<1>3. A \in SUBSET (0 .. 2) BY <1>2, ActiveAreBanks
<1>4. \A s \in 1 .. n : q[s].bank \in A BY <1>2 DEF AllPlain, Plain, n
<1>5. x \in SlotSet /\ x.bank \in A BY <1>1, <1>2, <1>4
<1>6. top \in A /\ top \in 0 .. 2 /\ \A b \in A : b <= top BY <1>2, <1>5, TopBankIs
<1>7. /\ y.bank = NextBank(x.bank, A)
      /\ IF y.bank < x.bank THEN y.k = x.k ELSE y.k = x.k + 1
  BY <1>2 DEF Turns, n, x
<1>8. x.bank \in 0 .. 2 /\ y.bank \in 0 .. 2 /\ x.k \in Nat /\ y.k \in Nat BY <1>5 DEF SlotSet
<1>9. y.bank < x.bank \/ y.bank = top
  <2>1. CASE ~(y.bank < x.bank)
    <3>1. y.bank \in A /\ \A b \in A : b <= y.bank BY <1>2, <1>5, <1>7, <2>1, NextIs
    <3> QED BY <1>6, <1>8, <3>1
  <2> QED BY <2>1
<1> SUFFICES ASSUME NEW r \in 1 .. Len(a), a[r].bank # top \/ a[r].k > 1
             PROVE  \E s \in 1 .. Len(a) :
                      /\ s < r /\ a[s].bank = top /\ LastOfBank(a, s, r)
                      /\ a[s].k = a[r].k - IF a[r].bank = top THEN 1 ELSE 0
  BY <1>2 DEF TopBefore, a
<1>10. CASE r \in 1 .. n
  <2>1. PICK s \in 1 .. n : /\ s < r /\ q[s].bank = top /\ LastOfBank(q, s, r)
                            /\ q[s].k = q[r].k - IF q[r].bank = top THEN 1 ELSE 0
    BY <1>1, <1>2, <1>10 DEF TopBefore, n
  <2>2. LastOfBank(a, s, r) BY <1>1, <1>10, <2>1 DEF LastOfBank
  <2>3. s \in 1 .. Len(a) BY <1>1
  <2> QED BY <1>1, <1>10, <2>1, <2>2, <2>3
<1>11. CASE r = n + 1
  <2>1. CASE x.bank = top
    <3>1. a[n] = x /\ n \in 1 .. Len(a) /\ n < r BY <1>1, <1>2, <1>11
    <3>2. LastOfBank(a, n, r) BY <1>1, <1>11 DEF LastOfBank
    <3>3. x.k = y.k - IF y.bank = top THEN 1 ELSE 0 BY <1>6, <1>7, <1>8, <1>9, <2>1
    <3> QED BY <1>1, <1>11, <2>1, <3>1, <3>2, <3>3
  <2>2. CASE x.bank # top
    <3>1. PICK s \in 1 .. n : /\ s < n /\ q[s].bank = top /\ LastOfBank(q, s, n)
                              /\ q[s].k = q[n].k - IF q[n].bank = top THEN 1 ELSE 0
      <4>1. n \in 1 .. n BY <1>1
      <4> QED BY <1>2, <2>2, <4>1 DEF TopBefore, n
    <3>2. q[s].k = x.k BY <1>2, <1>8, <2>2, <3>1
    <3>3. LastOfBank(a, s, r)
      <4> SUFFICES ASSUME NEW i \in s + 1 .. n PROVE a[i].bank # a[s].bank
        BY <1>1, <1>11 DEF LastOfBank
      <4>1. a[i] = q[i] /\ a[s] = q[s] BY <1>1, <3>1
      <4>2. CASE i = n BY <1>2, <2>2, <3>1, <4>1, <4>2
      <4>3. CASE i # n BY <1>1, <3>1, <4>1, <4>3 DEF LastOfBank
      <4> QED BY <4>2, <4>3
    <3>4. x.k = y.k - IF y.bank = top THEN 1 ELSE 0
      <4>1. x.bank < top BY <1>5, <1>6, <1>8, <2>2
      <4> QED BY <1>6, <1>7, <1>8, <1>9, <4>1
    <3>5. s \in 1 .. Len(a) /\ s < r /\ a[s] = q[s] /\ a[r] = y BY <1>1, <1>11, <3>1
    <3> QED BY <3>1, <3>2, <3>3, <3>4, <3>5
  <2> QED BY <2>1, <2>2
<1> QED BY <1>1, <1>10, <1>11

LEMMA RegularOn ==
  ASSUME NEW len \in [Pin -> Nat], NEW rule, NEW q \in Seq(SlotSet), Len(q) >= 1, NEW y \in SlotSet,
         RegularStream(q, len, rule), Plain(y, len, rule), Turns(q[Len(q)], y, len, rule)
  PROVE  RegularStream(Append(q, y), len, rule)
<1> DEFINE a == Append(q, y)
           n == Len(q)
<1>1. /\ n \in Nat /\ n >= 1 /\ Len(a) = n + 1 /\ a[n + 1] = y
      /\ \A s \in 1 .. n : a[s] = q[s] /\ q[s] \in SlotSet
      /\ \A s \in 1 .. Len(a) : s \in 1 .. n \/ s = n + 1
  BY AppendIs
<1>2. CycleKept(a, rule) BY CycleOn DEF RegularStream
<1>3. TopBefore(a, len) BY TopOn DEF RegularStream
<1>4. \A s \in 1 .. n : Plain(q[s], len, rule) BY DEF RegularStream, AllPlain
<1>5. Turns(q[n], y, len, rule) OBVIOUS
<1>6. AllTurn(q, len, rule) /\ AllSpaced(q, len) BY DEF RegularStream
<1>7. \A s, r \in 1 .. n : r = s + 1 => Turns(q[s], q[r], len, rule) BY <1>6 DEF AllTurn
<1>8. \A s, r \in 1 .. n : s < r => Spaced(q[s], q[r], len) BY <1>6 DEF AllSpaced
<1> HIDE DEF a, n
<1>9. AllPlain(a, len, rule) BY <1>1, <1>4 DEF AllPlain
<1>10. AllTurn(a, len, rule)
  <2> SUFFICES ASSUME NEW s \in 1 .. Len(a), NEW r \in 1 .. Len(a), r = s + 1
               PROVE  Turns(a[s], a[r], len, rule)
    BY DEF AllTurn
  <2>1. CASE r = n + 1 BY <1>1, <1>5, <2>1
  <2>2. CASE r \in 1 .. n BY <1>1, <1>7, <2>2
  <2> QED BY <1>1, <2>1, <2>2
<1>11. AllSpaced(a, len)
  <2> SUFFICES ASSUME NEW s \in 1 .. Len(a), NEW r \in 1 .. Len(a), s < r
               PROVE  Spaced(a[s], a[r], len)
    BY DEF AllSpaced
  <2>1. CASE r = n + 1
    <3>1. s \in 1 .. n /\ n \in 1 .. n BY <1>1, <2>1
    <3>2. q[s] = q[n] \/ Spaced(q[s], q[n], len) BY <1>1, <1>8, <3>1
    <3>3. Spaced(q[s], y, len) BY <1>1, <1>4, <1>5, <3>1, <3>2, SpacedOn
    <3> QED BY <1>1, <2>1, <3>1, <3>3
  <2>2. CASE r \in 1 .. n BY <1>1, <1>8, <2>2
  <2> QED BY <1>1, <2>1, <2>2
<1> QED BY <1>2, <1>3, <1>9, <1>10, <1>11 DEF RegularStream, a

-----------------------------------------------------------------------------
(* The stream goes on.                                                     *)

StreamOrdered == Active # {} => InOrder(Slots)
StreamRegular == d.fault = "none" /\ Active # {} => RegularStream(Slots, d.len, d.rule)

LEMMA PendingIs ==
  ASSUME DriverTyped
  PROVE  /\ Pending \in SlotSet /\ Pending.k = d.k /\ Pending.bank = d.bank
         /\ Time(Pending) = d.t /\ Rgb(Pending) = d.rgb
         /\ \A p \in Pin : /\ Pending.burst[p].at = d.t /\ Pending.burst[p].rgb = d.rgb
                           /\ p \in Members(d.bank, d.len) => Pending.burst[p].to = d.t + d.len[p]
                           /\ p \notin Members(d.bank, d.len) => Pending.burst[p].to = d.t
                           /\ IsHigh(Pending.burst[p]) <=> p \in Members(d.bank, d.len)
         /\ Active # {} => \A p \in Pin : Pending.burst[p].to <= d.t + LongestOf(d.bank)
         /\ Active # {} => Plain(Pending, d.len, d.rule)
<1>1. /\ d.k \in Nat \ {0} /\ d.bank \in 0 .. 2 /\ d.t \in Nat /\ d.rgb \in Color
      /\ d.len \in [Pin -> Nat] /\ Pending = Even(d.k, d.bank, d.t, d.rgb, d.len)
  BY Layout DEF DriverTyped, DriverSet, Pending
<1>2. /\ Pending \in SlotSet /\ Pending.k = d.k /\ Pending.bank = d.bank
      /\ Time(Pending) = d.t /\ Rgb(Pending) = d.rgb
  BY <1>1, EvenIs
<1>3. ASSUME NEW p \in Pin
      PROVE  /\ Pending.burst[p].at = d.t /\ Pending.burst[p].rgb = d.rgb
             /\ p \in Members(d.bank, d.len) => Pending.burst[p].to = d.t + d.len[p]
             /\ p \notin Members(d.bank, d.len) => Pending.burst[p].to = d.t
             /\ IsHigh(Pending.burst[p]) <=> p \in Members(d.bank, d.len)
             /\ d.bank \in ActiveBanks(d.len) => Pending.burst[p].to <= d.t + Longest(d.bank, d.len)
  <2>1. Pending.burst[p].at = d.t /\ Pending.burst[p].rgb = d.rgb BY <1>1, EvenFields
  <2>2. /\ IsHigh(Pending.burst[p]) <=> p \in Members(d.bank, d.len)
        /\ p \in Members(d.bank, d.len) => Pending.burst[p].to = d.t + d.len[p]
        /\ p \notin Members(d.bank, d.len) => Pending.burst[p].to = d.t
    BY <1>1, EvenHigh
  <2>3. d.bank \in ActiveBanks(d.len) => Pending.burst[p].to <= d.t + Longest(d.bank, d.len)
    BY <1>1, EvenEnd
  <2> QED BY <2>1, <2>2, <2>3
<1>4. Active # {} => d.bank \in ActiveBanks(d.len) /\ LongestOf(d.bank) = Longest(d.bank, d.len)
  BY DEF DriverTyped, Active, LongestOf, Longest
<1>5. Active # {} => Plain(Pending, d.len, d.rule) BY <1>1, <1>2, <1>4 DEF Plain, DriverTyped
<1>6. Active # {} => \A p \in Pin : Pending.burst[p].to <= d.t + LongestOf(d.bank) BY <1>3, <1>4
<1> QED BY <1>2, <1>3, <1>5, <1>6

\* A step that sends a well-formed slot, or none, and turns to the next bank, is well-formed.
LEMMA TypedOn ==
  ASSUME DriverTyped, Active # {}, NEW time \in Nat, TurnedTo(d', time), Settle <= d'.t,
         d'.sent = d.sent \/ \E x \in SlotSet : Own(x, d.len) /\ d'.sent = Append(d.sent, x)
  PROVE  DriverTyped' /\ Active' = Active /\ Active' # {}
<1>1. d' \in DriverSet /\ d'.len = d.len /\ d'.rule = d.rule /\ d'.bank = NextBank(d.bank, Active)
  BY DEF TurnedTo
<1>2. Active' = Active BY <1>1 DEF Active
<1>3. d.bank \in Active BY DEF DriverTyped
<1>4. d'.bank \in Active BY <1>1, <1>3, NextIs DEF Active
<1>5. d'.rule = "fixed" => d'.rgb = "red" BY <1>1 DEF TurnedTo, DriverTyped
<1>6. \A s \in 1 .. Len(d'.sent) : Own(d'.sent[s], d.len)
  <2>1. d.sent \in Seq(SlotSet) /\ \A s \in 1 .. Len(d.sent) : Own(d.sent[s], d.len)
    BY DEF DriverTyped, DriverSet
  <2>2. CASE d'.sent = d.sent BY <2>1, <2>2
  <2>3. ASSUME NEW x \in SlotSet, Own(x, d.len), d'.sent = Append(d.sent, x)
        PROVE  \A s \in 1 .. Len(d'.sent) : Own(d'.sent[s], d.len)
    BY <2>1, <2>3, AppendIs
  <2> QED BY <2>2, <2>3
<1> QED BY <1>1, <1>2, <1>4, <1>5, <1>6 DEF DriverTyped

\* The slots after a step that sends one slot.
LEMMA SlotsOn ==
  ASSUME DriverTyped, DriverTyped', NEW x \in SlotSet, d'.sent = Append(d.sent, x)
  PROVE  /\ Slots' = Append(Append(d.sent, x), Pending') /\ Pending' \in SlotSet
         /\ Append(d.sent, x) \in Seq(SlotSet)
         /\ Len(Append(d.sent, x)) = Len(d.sent) + 1 /\ Append(d.sent, x)[Len(d.sent) + 1] = x
         /\ \A s \in 1 .. Len(d.sent) : Append(d.sent, x)[s] = d.sent[s]
<1>1. Pending' \in SlotSet
  <2>1. /\ d'.k \in Nat \ {0} /\ d'.bank \in 0 .. 2 /\ d'.t \in Nat /\ d'.rgb \in Color
        /\ d'.len \in [Pin -> Nat]
    BY DriverAssumption DEF DriverTyped, DriverSet
  <2>2. Pending' = Even(d'.k, d'.bank, d'.t, d'.rgb, d'.len) BY DEF Pending
  <2> QED BY <2>1, <2>2, EvenIs
<1>2. d.sent \in Seq(SlotSet) BY DEF DriverTyped, DriverSet
<1>3. Slots' = Append(d'.sent, Pending') BY DEF Slots
<1> QED BY <1>1, <1>2, <1>3, AppendIs

\* The new pending bank.
LEMMA PendingOn ==
  ASSUME DriverTyped', Active' # {}
  PROVE  /\ Pending' \in SlotSet /\ Pending'.k = d'.k /\ Pending'.bank = d'.bank
         /\ Time(Pending') = d'.t /\ Rgb(Pending') = d'.rgb /\ d'.t \in Nat
         /\ \A p \in Pin : Pending'.burst[p].at = d'.t
         /\ \A p \in Pin : IsHigh(Pending'.burst[p]) <=> p \in Members(d'.bank, d'.len)
         /\ Plain(Pending', d'.len, d'.rule)
         /\ d'.len \in [Pin -> Nat] /\ d'.bank \in ActiveBanks(d'.len)
<1>1. /\ d'.k \in Nat \ {0} /\ d'.bank \in 0 .. 2 /\ d'.t \in Nat /\ d'.rgb \in Color
      /\ d'.len \in [Pin -> Nat] /\ d'.bank \in ActiveBanks(d'.len)
      /\ d'.rule = "fixed" => d'.rgb = "red"
  BY DriverAssumption DEF DriverTyped, DriverSet, Active
<1>2. Pending' = Even(d'.k, d'.bank, d'.t, d'.rgb, d'.len) BY DEF Pending
<1>3. /\ Pending' \in SlotSet /\ Pending'.k = d'.k /\ Pending'.bank = d'.bank
      /\ Time(Pending') = d'.t /\ Rgb(Pending') = d'.rgb
  BY <1>1, <1>2, EvenIs
<1>4. \A p \in Pin : Pending'.burst[p].at = d'.t BY <1>2, EvenFields
<1>5. \A p \in Pin : IsHigh(Pending'.burst[p]) <=> p \in Members(d'.bank, d'.len)
  BY <1>1, <1>2, EvenHigh
<1> QED BY <1>1, <1>2, <1>3, <1>4, <1>5 DEF Plain

LEMMA SendKeepsStream ==
  ASSUME DriverTyped, StreamOrdered, StreamRegular, SendBank
  PROVE  DriverTyped' /\ StreamOrdered' /\ StreamRegular'
<1>1. /\ Active # {} /\ TurnedTo(d', d.t + LongestOf(d.bank))
      /\ d'.sent = Slots /\ d'.fault = d.fault
  BY SendBankDoes
<1>2. d.bank \in Active /\ d.t \in Nat /\ d.bank \in 0 .. 2 BY <1>1 DEF DriverTyped, DriverSet
<1>3. LongestOf(d.bank) \in Nat /\ 1 <= LongestOf(d.bank) /\ LongestOf(d.bank) = Longest(d.bank, d.len)
  BY <1>2, LongestIs
<1>4. /\ d'.len = d.len /\ d'.rule = d.rule /\ d'.bank = NextBank(d.bank, Active)
      /\ IF d'.bank < d.bank THEN d'.k = d.k /\ d'.rgb = d.rgb /\ d'.t = d.t + LongestOf(d.bank) + BankGap
                             ELSE d'.k = d.k + 1 /\ d'.t = d.t + LongestOf(d.bank) + Settle
      /\ ~(d'.bank < d.bank) /\ d.rule = "cycle" => d'.rgb = Successor(d.rgb)
  BY <1>1 DEF TurnedTo
<1>5. Settle <= d'.t BY <1>2, <1>3, <1>4, Numbers DEF DriverTyped
<1>6. /\ Pending \in SlotSet /\ Pending.k = d.k /\ Pending.bank = d.bank
      /\ Time(Pending) = d.t /\ Rgb(Pending) = d.rgb
      /\ \A p \in Pin : Pending.burst[p].at = d.t /\ Pending.burst[p].to <= d.t + LongestOf(d.bank)
  BY <1>1, PendingIs
<1>7. Own(Pending, d.len) BY <1>1, SlotsAre
<1>8. DriverTyped' /\ Active' = Active /\ Active' # {}
  <2>1. d'.sent = Append(d.sent, Pending) BY <1>1 DEF Slots
  <2>2. d.t + LongestOf(d.bank) \in Nat BY <1>2, <1>3
  <2> QED BY <1>1, <1>5, <1>6, <1>7, <2>1, <2>2, TypedOn
<1>9. Slots' = Append(Slots, Pending') BY <1>1 DEF Slots
<1>10. /\ Pending' \in SlotSet /\ Pending'.k = d'.k /\ Pending'.bank = d'.bank
       /\ Time(Pending') = d'.t /\ Rgb(Pending') = d'.rgb /\ d'.t \in Nat
       /\ \A p \in Pin : Pending'.burst[p].at = d'.t
       /\ Plain(Pending', d.len, d.rule) /\ d.len \in [Pin -> Nat]
  BY <1>4, <1>8, PendingOn
<1>11. Slots \in Seq(SlotSet) /\ Len(Slots) >= 1 /\ Slots[Len(Slots)] = Pending /\ Len(Slots) = Len(d.sent) + 1
       /\ Len(d.sent) \in Nat
  BY SlotsAre
<1>12. StreamRegular'
  <2> SUFFICES ASSUME d.fault = "none" PROVE RegularStream(Append(Slots, Pending'), d.len, d.rule)
    BY <1>1, <1>4, <1>9 DEF StreamRegular
  <2>1. RegularStream(Slots, d.len, d.rule) BY <1>1 DEF StreamRegular
  <2>2. Turns(Pending, Pending', d.len, d.rule)
    BY <1>3, <1>4, <1>6, <1>10 DEF Turns, Active
  <2> QED BY <1>10, <1>11, <2>1, <2>2, RegularOn
<1>13. StreamOrdered'
  <2>1. InOrder(Slots) BY <1>1 DEF StreamOrdered
  <2>2. ASSUME NEW s \in 1 .. Len(Slots) PROVE Follows(Slots[s], Pending')
    <3>1. CASE s = Len(d.sent) + 1
      <4>1. Slots[s] = Pending BY <1>11, <3>1
      <4>2. d.t < d'.t /\ d.t + LongestOf(d.bank) <= d'.t
            /\ (d.bank <= d'.bank => d.t + LongestOf(d.bank) + Separator <= d'.t)
        <5>1. d'.bank \in 0 .. 2 BY <1>10 DEF SlotSet
        <5>2. CASE d'.bank < d.bank
          <6>1. d'.t = d.t + LongestOf(d.bank) + BankGap BY <1>4, <5>2
          <6> QED BY <1>2, <1>3, <5>1, <5>2, <6>1, Numbers
        <5>3. CASE ~(d'.bank < d.bank)
          <6>1. d'.t = d.t + LongestOf(d.bank) + Settle BY <1>4, <5>3
          <6> QED BY <1>2, <1>3, <6>1, Numbers
        <5> QED BY <5>2, <5>3
      <4> DEFINE v == d.t + LongestOf(d.bank)
      <4>3. /\ v \in Nat /\ v <= d'.t + 1 /\ (d.bank <= d'.bank => v + Separator <= d'.t)
            /\ \A p \in Pin : Pending.burst[p].to <= v
        BY <1>2, <1>3, <1>6, <1>10, <4>2
      <4> HIDE DEF v
      <4>4. \A p \in Pin : IsHigh(Pending.burst[p]) => Pending.burst[p].at <= d.t /\ Pending.burst[p].to <= v
        BY <1>2, <1>6, <4>3
      <4>5. \A q \in Pin : IsHigh(Pending'.burst[q]) => d'.t <= Pending'.burst[q].at BY <1>10
      <4>6. Pending.bank <= Pending'.bank => v + Separator <= d'.t BY <1>6, <1>10, <4>3
      <4>7. Follows(Pending, Pending') BY <1>2, <1>6, <1>10, <4>2, <4>3, <4>4, <4>5, <4>6, FollowsEnd
      <4> QED BY <4>1, <4>7
    <3>2. CASE s \in 1 .. Len(d.sent)
      <4>1. Len(d.sent) + 1 \in 1 .. Len(Slots) /\ s < Len(d.sent) + 1 BY <1>11, <3>2
      <4>2. Follows(Slots[s], Pending) BY <1>11, <2>1, <4>1 DEF InOrder
      <4>3. (d'.bank <= d.bank /\ d.t <= d'.t) \/ d.t + 1 + Separator <= d'.t
        <5>1. d'.bank \in 0 .. 2 BY <1>10 DEF SlotSet
        <5>2. CASE d'.bank < d.bank
          <6>1. d'.t = d.t + LongestOf(d.bank) + BankGap BY <1>4, <5>2
          <6> QED BY <1>2, <1>3, <5>1, <5>2, <6>1, Numbers
        <5>3. CASE ~(d'.bank < d.bank)
          <6>1. d'.t = d.t + LongestOf(d.bank) + Settle BY <1>4, <5>3
          <6> QED BY <1>2, <1>3, <6>1, Numbers
        <5> QED BY <5>2, <5>3
      <4>4. Slots[s] \in SlotSet BY <3>2, SlotsAre
      <4>5. d.k \in Nat \ {0} /\ d.rgb \in Color /\ d.bank \in ActiveBanks(d.len)
        BY <1>2 DEF DriverTyped, DriverSet, Active
      <4>6. \A q \in Pin : IsHigh(Pending'.burst[q]) => d'.t <= Pending'.burst[q].at BY <1>10
      <4>7. Follows(Slots[s], Even(d.k, d.bank, d.t, d.rgb, d.len)) BY <4>2 DEF Pending
      <4> QED BY <1>2, <1>10, <4>3, <4>4, <4>5, <4>6, <4>7, FollowsLater, SMTT(30)
    <3> QED BY <1>11, <3>1, <3>2
  <2>3. InOrder(Append(Slots, Pending')) BY <1>10, <1>11, <2>1, <2>2, InOrderOn
  <2> QED BY <1>9, <2>3 DEF StreamOrdered
<1> QED BY <1>8, <1>12, <1>13

-----------------------------------------------------------------------------
(* The channels of a stream in which nothing went wrong.                   *)

WireOf(q, p) == [s \in {x \in 1 .. Len(q) : IsHigh(q[x].burst[p])} |-> q[s].burst[p]]

Run(q, len, rule) ==
  /\ len \in [Pin -> Nat] /\ q \in Seq(SlotSet)
  /\ AllPlain(q, len, rule) /\ AllTurn(q, len, rule) /\ AllSpaced(q, len) /\ CycleKept(q, rule)

\* When a slot begins, and when the last of its strings ends.
LEMMA RunSlot ==
  ASSUME NEW q, NEW len, NEW rule, Run(q, len, rule), NEW s \in 1 .. Len(q)
  PROVE  /\ q[s] \in SlotSet /\ Plain(q[s], len, rule)
         /\ Time(q[s]) \in Nat /\ q[s].bank \in ActiveBanks(len) /\ q[s].bank \in 0 .. 2
         /\ Rgb(q[s]) \in Color /\ (rule = "fixed" => Rgb(q[s]) = "red")
         /\ Longest(q[s].bank, len) \in Nat /\ 1 <= Longest(q[s].bank, len)
<1>1. q[s] \in SlotSet /\ Plain(q[s], len, rule) /\ len \in [Pin -> Nat] BY DEF Run, AllPlain
<1> QED BY <1>1, PlainTimes DEF Plain

LEMMA RunSpaced ==
  ASSUME NEW q, NEW len, NEW rule, Run(q, len, rule), NEW s \in 1 .. Len(q), NEW r \in 1 .. Len(q), s < r
  PROVE  /\ Time(q[s]) < Time(q[r]) /\ Time(q[s]) + Longest(q[s].bank, len) <= Time(q[r])
         /\ q[s].bank = q[r].bank => Time(q[s]) + Longest(q[s].bank, len) + MinReset <= Time(q[r])
<1>1. Spaced(q[s], q[r], len) BY DEF Run, AllSpaced
<1>2. /\ Time(q[s]) \in Nat /\ Time(q[r]) \in Nat /\ q[s].bank \in 0 .. 2 /\ q[r].bank \in 0 .. 2
      /\ Longest(q[s].bank, len) \in Nat /\ 1 <= Longest(q[s].bank, len)
  BY RunSlot
<1> QED BY <1>1, <1>2, Numbers, SMTT(30) DEF Spaced

LEMMA RunWire ==
  ASSUME NEW q, NEW len, NEW rule, Run(q, len, rule), NEW p \in Pin
  PROVE  /\ \A s : s \in DOMAIN WireOf(q, p) <=> s \in 1 .. Len(q) /\ q[s].bank = BANKS[p] /\ len[p] > 0
         /\ \A s \in DOMAIN WireOf(q, p) :
              /\ WireOf(q, p)[s].at = Time(q[s]) /\ WireOf(q, p)[s].to = Time(q[s]) + len[p]
              /\ WireOf(q, p)[s].rgb = Rgb(q[s])
              /\ len[p] \in Nat /\ 1 <= len[p] /\ len[p] <= Longest(q[s].bank, len)
              /\ BANKS[p] = q[s].bank /\ s \in 1 .. Len(q)
<1>1. \A s : s \in DOMAIN WireOf(q, p) <=> s \in 1 .. Len(q) /\ IsHigh(q[s].burst[p]) BY DEF WireOf
<1>2. \A s \in DOMAIN WireOf(q, p) : WireOf(q, p)[s] = q[s].burst[p] BY DEF WireOf
<1>3. len \in [Pin -> Nat] /\ len[p] \in Nat BY DEF Run
<1>4. ASSUME NEW s \in 1 .. Len(q)
      PROVE  /\ IsHigh(q[s].burst[p]) <=> q[s].bank = BANKS[p] /\ len[p] > 0
             /\ q[s].burst[p].at = Time(q[s]) /\ q[s].burst[p].rgb = Rgb(q[s])
             /\ IsHigh(q[s].burst[p]) => /\ q[s].burst[p].to = Time(q[s]) + len[p]
                                         /\ len[p] <= Longest(q[s].bank, len)
  <2> DEFINE k == q[s].k
             b == q[s].bank
             t == Time(q[s])
             rgb == Rgb(q[s])
  <2>1. q[s] = Even(k, b, t, rgb, len) BY RunSlot DEF Plain
  <2>2. t \in Nat /\ b \in ActiveBanks(len) BY RunSlot
  <2> HIDE DEF k, t, rgb, b
  <2>3. q[s].burst[p].at = t /\ q[s].burst[p].rgb = rgb BY <2>1, EvenFields
  <2>4. /\ IsHigh(q[s].burst[p]) <=> p \in Members(b, len)
        /\ p \in Members(b, len) => q[s].burst[p].to = t + len[p]
    <3>1. /\ IsHigh(Even(k, b, t, rgb, len).burst[p]) <=> p \in Members(b, len)
          /\ p \in Members(b, len) => Even(k, b, t, rgb, len).burst[p].to = t + len[p]
      BY <1>3, <2>2, EvenHigh
    <3> QED BY <2>1, <3>1, Zenon
  <2>5. p \in Members(b, len) <=> BANKS[p] = b /\ len[p] > 0 BY DEF Members
  <2>6. p \in Members(b, len) => len[p] <= Longest(b, len) BY <1>3, <2>2, AnchorIs DEF Longest
  <2> QED BY <2>3, <2>4, <2>5, <2>6 DEF t, rgb, b
<1> QED BY <1>1, <1>2, <1>3, <1>4

LEMMA RunChannel ==
  ASSUME NEW q, NEW len, NEW rule, Run(q, len, rule), NEW p \in Pin
  PROVE  Channel(WireOf(q, p), MinReset)
<1> DEFINE w == WireOf(q, p)
<1>1. \A s \in DOMAIN w :
        /\ w[s].at = Time(q[s]) /\ w[s].to = Time(q[s]) + len[p]
        /\ len[p] \in Nat /\ 1 <= len[p] /\ len[p] <= Longest(q[s].bank, len)
        /\ BANKS[p] = q[s].bank /\ s \in 1 .. Len(q)
  BY RunWire
<1> HIDE DEF w
<1>2. ASSUME NEW s \in DOMAIN w
      PROVE  s \in Nat /\ w[s].at \in Nat /\ w[s].to \in Nat /\ w[s].at < w[s].to
  <2>1. Time(q[s]) \in Nat BY <1>1, RunSlot
  <2> QED BY <1>1, <2>1
<1>3. ASSUME NEW s \in DOMAIN w, NEW r \in DOMAIN w, s < r
      PROVE  w[s].to + MinReset <= w[r].at
  <2>1. s \in 1 .. Len(q) /\ r \in 1 .. Len(q) /\ q[s].bank = q[r].bank BY <1>1
  <2>2. Time(q[s]) + Longest(q[s].bank, len) + MinReset <= Time(q[r]) BY <1>3, <2>1, RunSpaced
  <2>3. /\ Time(q[s]) \in Nat /\ Time(q[r]) \in Nat /\ Longest(q[s].bank, len) \in Nat
        /\ len[p] \in Nat /\ len[p] <= Longest(q[s].bank, len)
    BY <1>1, <2>1, RunSlot
  <2> QED BY <1>1, <2>2, <2>3, Numbers, SMTT(30)
<1> QED BY <1>2, <1>3 DEF Channel, w

-----------------------------------------------------------------------------
(* The frames of a capture of it.                                          *)

Pinned(q, s, p, len) == s \in 1 .. Len(q) /\ q[s].bank = BANKS[p] /\ len[p] > 0

FramesOfRun(frames, q, p, len, begin, end) ==
  /\ DOMAIN frames = Seen(WireOf(q, p), begin, end)
  /\ \A s : s \in DOMAIN frames <=>
              Pinned(q, s, p, len) /\ begin < Time(q[s]) + len[p] /\ Time(q[s]) < end
  /\ \A s \in DOMAIN frames :
       /\ frames[s].at = IF Time(q[s]) < begin THEN begin ELSE Time(q[s])
       /\ frames[s].to = IF Time(q[s]) + len[p] > end THEN end ELSE Time(q[s]) + len[p]
       /\ frames[s].bits = frames[s].to - frames[s].at /\ frames[s].valid
       /\ frames[s].leading <=> begin + MinReset <= Time(q[s])
       /\ frames[s].trailing <=> Time(q[s]) + len[p] + MinReset <= end
       /\ frames[s].rgb \in {Rgb(q[s]), "none"}
       /\ frames[s].bits <= len[p] => frames[s].rgb = Rgb(q[s])

LEMMA RunFrame ==
  ASSUME NEW q, NEW len, NEW rule, Run(q, len, rule), NEW p \in Pin,
         NEW begin \in Nat, NEW end \in Nat, NEW args,
         NEW frames, frames = Frames(WireOf(q, p), begin, end, len[p], args),
         \A s \in 1 .. Len(q) : Rgb(q[s]) \in args.colors
  PROVE  FramesOfRun(frames, q, p, len, begin, end)
<1> DEFINE w == WireOf(q, p)
<1>1. /\ \A s : s \in DOMAIN w <=> Pinned(q, s, p, len)
      /\ \A s \in DOMAIN w : w[s].at = Time(q[s]) /\ w[s].to = Time(q[s]) + len[p] /\ w[s].rgb = Rgb(q[s])
  BY RunWire DEF Pinned
<1>2. Channel(w, MinReset) /\ MinReset \in Nat BY RunChannel, Numbers
<1>3. frames = Frames(w, begin, end, len[p], args) OBVIOUS
<1> HIDE DEF w
<1>4. DOMAIN frames = Seen(w, begin, end) BY <1>3, FramesOfSeen
<1>5. \A s : s \in DOMAIN frames <=> Pinned(q, s, p, len) /\ begin < Time(q[s]) + len[p] /\ Time(q[s]) < end
  <2>1. \A s : s \in DOMAIN frames <=> s \in DOMAIN w /\ w[s].to > begin /\ w[s].at < end BY <1>4 DEF Seen
  <2>2. \A s \in DOMAIN w : (w[s].to > begin <=> begin < Time(q[s]) + len[p]) /\ w[s].at = Time(q[s])
    BY <1>1, <1>2 DEF Channel
  <2> QED BY <1>1, <2>1, <2>2
<1>6. ASSUME NEW s \in DOMAIN frames
      PROVE  /\ frames[s].at = IF Time(q[s]) < begin THEN begin ELSE Time(q[s])
             /\ frames[s].to = IF Time(q[s]) + len[p] > end THEN end ELSE Time(q[s]) + len[p]
             /\ frames[s].bits = frames[s].to - frames[s].at /\ frames[s].valid
             /\ frames[s].leading <=> begin + MinReset <= Time(q[s])
             /\ frames[s].trailing <=> Time(q[s]) + len[p] + MinReset <= end
             /\ frames[s].rgb \in {Rgb(q[s]), "none"}
             /\ frames[s].bits <= len[p] => frames[s].rgb = Rgb(q[s])
  <2>1. s \in Seen(w, begin, end) /\ s \in DOMAIN w BY <1>4 DEF Seen
  <2>2. w[s].at = Time(q[s]) /\ w[s].to = Time(q[s]) + len[p] /\ w[s].rgb = Rgb(q[s]) BY <1>1, <2>1
  <2>3. s \in 1 .. Len(q) BY <1>1, <2>1 DEF Pinned
  <2>4. Rgb(q[s]) \in args.colors BY <2>3
  <2>5. /\ frames[s].at = IF w[s].at < begin THEN begin ELSE w[s].at
        /\ frames[s].to = IF w[s].to > end THEN end ELSE w[s].to
        /\ frames[s].bits = frames[s].to - frames[s].at
        /\ frames[s].valid = (w[s].rgb \in args.colors)
        /\ frames[s].rgb = IF w[s].rgb \in args.colors /\ frames[s].bits <= len[p] THEN w[s].rgb ELSE "none"
    BY <1>2, <1>3, <2>1, FrameIs
  <2>6. /\ frames[s].leading <=> begin + MinReset <= w[s].at
        /\ frames[s].trailing <=> w[s].to + MinReset <= end
    BY <1>2, <1>3, <2>1, SettledFrames
  <2> QED BY <2>2, <2>4, <2>5, <2>6
<1> QED BY <1>4, <1>5, <1>6 DEF w, FramesOfRun

\* The complete frames of a channel are those clear of both ends.
CompleteOfRun(frames, q, p, len, begin, end) ==
  /\ \A s : s \in Complete(frames) <=>
              /\ Pinned(q, s, p, len)
              /\ begin + MinReset <= Time(q[s]) /\ Time(q[s]) + len[p] + MinReset <= end
  /\ \A s \in Complete(frames) :
       /\ s \in DOMAIN frames
       /\ frames[s].at = Time(q[s]) /\ frames[s].to = Time(q[s]) + len[p]
       /\ frames[s].bits = len[p] /\ frames[s].rgb = Rgb(q[s])

LEMMA RunComplete ==
  ASSUME NEW q, NEW len, NEW rule, Run(q, len, rule), NEW p \in Pin,
         NEW begin \in Nat, NEW end \in Nat, NEW args,
         NEW frames, frames = Frames(WireOf(q, p), begin, end, len[p], args),
         \A s \in 1 .. Len(q) : Rgb(q[s]) \in args.colors
  PROVE  CompleteOfRun(frames, q, p, len, begin, end)
<1>1. /\ \A s : s \in DOMAIN frames <=>
                  Pinned(q, s, p, len) /\ begin < Time(q[s]) + len[p] /\ Time(q[s]) < end
      /\ \A s \in DOMAIN frames :
           /\ frames[s].at = IF Time(q[s]) < begin THEN begin ELSE Time(q[s])
           /\ frames[s].to = IF Time(q[s]) + len[p] > end THEN end ELSE Time(q[s]) + len[p]
           /\ frames[s].bits = frames[s].to - frames[s].at
           /\ frames[s].leading <=> begin + MinReset <= Time(q[s])
           /\ frames[s].trailing <=> Time(q[s]) + len[p] + MinReset <= end
           /\ frames[s].bits <= len[p] => frames[s].rgb = Rgb(q[s])
  <2>1. FramesOfRun(frames, q, p, len, begin, end) BY RunFrame
  <2> QED BY <2>1 DEF FramesOfRun
<1>2. \A s : Pinned(q, s, p, len) => Time(q[s]) \in Nat /\ len[p] \in Nat /\ 1 <= len[p]
  BY RunSlot DEF Pinned, Run
<1>3. ASSUME NEW s
      PROVE  s \in Complete(frames) <=>
               /\ Pinned(q, s, p, len)
               /\ begin + MinReset <= Time(q[s]) /\ Time(q[s]) + len[p] + MinReset <= end
  <2>1. CASE s \in DOMAIN frames BY <1>1, <2>1 DEF Complete
  <2>2. CASE s \notin DOMAIN frames
    <3>1. s \notin Complete(frames) BY <2>2 DEF Complete
    <3>2. ASSUME Pinned(q, s, p, len), begin + MinReset <= Time(q[s]), Time(q[s]) + len[p] + MinReset <= end
          PROVE  FALSE
      <4>1. begin < Time(q[s]) + len[p] /\ Time(q[s]) < end BY <1>2, <3>2, Numbers
      <4> QED BY <1>1, <2>2, <3>2, <4>1
    <3> QED BY <3>1, <3>2
  <2> QED BY <2>1, <2>2
<1>4. ASSUME NEW s \in Complete(frames)
      PROVE  /\ s \in DOMAIN frames
             /\ frames[s].at = Time(q[s]) /\ frames[s].to = Time(q[s]) + len[p]
             /\ frames[s].bits = len[p] /\ frames[s].rgb = Rgb(q[s])
  <2>1. s \in DOMAIN frames BY DEF Complete
  <2>2. Pinned(q, s, p, len) /\ begin + MinReset <= Time(q[s]) /\ Time(q[s]) + len[p] + MinReset <= end
    BY <1>3
  <2>3. Time(q[s]) \in Nat /\ len[p] \in Nat BY <1>2, <2>2
  <2>4. frames[s].at = Time(q[s]) /\ frames[s].to = Time(q[s]) + len[p]
    BY <1>1, <2>1, <2>2, <2>3, Numbers
  <2>5. frames[s].bits = len[p] BY <1>1, <2>1, <2>3, <2>4
  <2> QED BY <1>1, <2>1, <2>3, <2>4, <2>5
<1> QED BY <1>3, <1>4 DEF CompleteOfRun

Asks(args, rule) ==
  /\ args.colors = IF rule = "fixed" THEN {"red"} ELSE Color
  /\ args.sequence = IF rule = "cycle" THEN Cycle ELSE << >>
  /\ args.expected = -1

LEMMA AllowedColours ==
  ASSUME NEW q, NEW len, NEW rule, Run(q, len, rule), NEW args, Asks(args, rule)
  PROVE  \A s \in 1 .. Len(q) : Rgb(q[s]) \in args.colors
BY RunSlot DEF Asks

Place(rgb) == IF rgb = "red" THEN 1 ELSE IF rgb = "green" THEN 2 ELSE 3

LEMMA PlaceIs ==
  \A rgb \in Color : /\ Place(rgb) \in 1 .. 3 /\ Cycle[Place(rgb)] = rgb
                     /\ Place(Successor(rgb)) = (Place(rgb) % 3) + 1
<1>1. (1 % 3) + 1 = 2 /\ (2 % 3) + 1 = 3 /\ (3 % 3) + 1 = 1 OBVIOUS
<1>2. Place("red") = 1 /\ Place("green") = 2 /\ Place("blue") = 3 BY DEF Place
<1> QED BY <1>1, <1>2, Colours, SuccessorIs

LEMMA NoShortReset ==
  ASSUME NEW q, NEW len, NEW rule, Run(q, len, rule), NEW p \in Pin,
         NEW begin \in Nat, NEW end \in Nat, NEW frames, FramesOfRun(frames, q, p, len, begin, end)
  PROVE  ~ShortReset(frames)
<1> SUFFICES ASSUME NEW i \in DOMAIN frames, NEW j \in DOMAIN frames, i < j
             PROVE  frames[j].at - frames[i].to \notin Separator .. MinReset - 1
  BY DEF ShortReset, Adjacent
<1>1. /\ Pinned(q, i, p, len) /\ Pinned(q, j, p, len)
      /\ frames[i].to = IF Time(q[i]) + len[p] > end THEN end ELSE Time(q[i]) + len[p]
      /\ frames[j].at = IF Time(q[j]) < begin THEN begin ELSE Time(q[j])
  BY DEF FramesOfRun
<1>2. i \in 1 .. Len(q) /\ j \in 1 .. Len(q) /\ q[i].bank = q[j].bank BY <1>1 DEF Pinned
<1>3. Time(q[i]) + Longest(q[i].bank, len) + MinReset <= Time(q[j]) BY <1>2, RunSpaced
<1>4. /\ Time(q[i]) \in Nat /\ Time(q[j]) \in Nat /\ Longest(q[i].bank, len) \in Nat
      /\ len[p] \in Nat /\ len[p] <= Longest(q[i].bank, len)
  <2>1. Time(q[i]) \in Nat /\ Time(q[j]) \in Nat /\ Longest(q[i].bank, len) \in Nat
    BY <1>2, RunSlot
  <2>2. i \in DOMAIN WireOf(q, p) BY <1>1, RunWire DEF Pinned
  <2>3. len[p] \in Nat /\ len[p] <= Longest(q[i].bank, len) BY <2>2, RunWire
  <2> QED BY <2>1, <2>3
<1>5. frames[i].to \in Nat /\ frames[j].at \in Nat /\ frames[i].to + MinReset <= frames[j].at
  BY <1>1, <1>3, <1>4, Numbers
<1> QED BY <1>5, Numbers

LEMMA NoWrongCount ==
  ASSUME NEW q, NEW len, NEW rule, Run(q, len, rule), NEW p \in Pin,
         NEW begin \in Nat, NEW end \in Nat, NEW frames, FramesOfRun(frames, q, p, len, begin, end),
         CompleteOfRun(frames, q, p, len, begin, end)
  PROVE  ~WrongCount(frames, len[p]) /\ ~WrongContent(frames, len[p])
<1>1. ASSUME NEW i \in DOMAIN frames
      PROVE  ~(frames[i].bits > len[p])
  <2>1. /\ Pinned(q, i, p, len) /\ frames[i].bits = frames[i].to - frames[i].at
        /\ frames[i].to = IF Time(q[i]) + len[p] > end THEN end ELSE Time(q[i]) + len[p]
        /\ frames[i].at = IF Time(q[i]) < begin THEN begin ELSE Time(q[i])
    BY DEF FramesOfRun
  <2>2. Time(q[i]) \in Nat /\ len[p] \in Nat BY <2>1, RunSlot DEF Pinned, Run
  <2> QED BY <2>1, <2>2
<1>2. \A i \in Complete(frames) : frames[i].bits = len[p] BY DEF CompleteOfRun
<1>3. \A i \in DOMAIN frames : frames[i].valid BY DEF FramesOfRun
<1> QED BY <1>1, <1>2, <1>3 DEF WrongCount, WrongContent

LEMMA NoWrongSequence ==
  ASSUME NEW q, NEW len, Run(q, len, "cycle"), NEW p \in Pin,
         NEW begin \in Nat, NEW end \in Nat, NEW frames, CompleteOfRun(frames, q, p, len, begin, end)
  PROVE  FollowsSequence({i \in Complete(frames) : frames[i].rgb # "none"}, frames, Cycle)
<1> DEFINE D == {i \in Complete(frames) : frames[i].rgb # "none"}
           place == [i \in D |-> Place(frames[i].rgb)]
<1>1. \A s : s \in Complete(frames) <=>
               /\ Pinned(q, s, p, len)
               /\ begin + MinReset <= Time(q[s]) /\ Time(q[s]) + len[p] + MinReset <= end
  BY DEF CompleteOfRun
<1>2. ASSUME NEW i \in Complete(frames)
      PROVE  i \in 1 .. Len(q) /\ q[i].bank = BANKS[p] /\ frames[i].rgb = Rgb(q[i]) /\ Rgb(q[i]) \in Color
  <2>1. i \in 1 .. Len(q) /\ q[i].bank = BANKS[p] /\ frames[i].rgb = Rgb(q[i])
    BY <1>1 DEF Pinned, CompleteOfRun
  <2> QED BY <2>1, RunSlot
<1>3. \A i : i \in D <=> i \in Complete(frames) BY <1>2, Colours
<1> HIDE DEF D
<1>4. \A i \in D : place[i] = Place(Rgb(q[i])) /\ frames[i].rgb = Rgb(q[i]) /\ Rgb(q[i]) \in Color
  BY <1>2, <1>3
<1>5. place \in [D -> DOMAIN Cycle] /\ \A i \in D : Cycle[place[i]] = frames[i].rgb
  BY <1>4, PlaceIs, Colours
<1>6. ASSUME NEW i \in D, NEW j \in D, Adjacent(i, j, D)
      PROVE  place[j] = (place[i] % Len(Cycle)) + 1
  <2>1. i \in 1 .. Len(q) /\ j \in 1 .. Len(q) /\ q[i].bank = BANKS[p] /\ q[j].bank = BANKS[p] /\ i < j
    BY <1>2, <1>3, <1>6 DEF Adjacent
  <2>2. LastOfBank(q, i, j)
    <3> SUFFICES ASSUME NEW x \in i + 1 .. j - 1, q[x].bank = q[i].bank PROVE FALSE BY DEF LastOfBank
    <3>1. x \in 1 .. Len(q) /\ i < x /\ x < j BY <2>1
    <3>2. Pinned(q, x, p, len) /\ Pinned(q, i, p, len) BY <1>1, <1>3, <2>1, <3>1 DEF Pinned
    <3>3. Time(q[i]) < Time(q[x]) /\ Time(q[x]) < Time(q[j]) BY <2>1, <3>1, RunSpaced
    <3>4. Time(q[i]) \in Nat /\ Time(q[x]) \in Nat /\ Time(q[j]) \in Nat /\ len[p] \in Nat
      BY <2>1, <3>1, RunSlot DEF Run
    <3>5. begin + MinReset <= Time(q[i]) /\ Time(q[j]) + len[p] + MinReset <= end BY <1>1, <1>3
    <3>6. begin + MinReset <= Time(q[x]) /\ Time(q[x]) + len[p] + MinReset <= end
      BY <3>3, <3>4, <3>5, Numbers
    <3>7. x \in D BY <1>1, <1>3, <3>2, <3>6
    <3> QED BY <1>6, <3>1, <3>7 DEF Adjacent
  <2>3. Rgb(q[j]) = Successor(Rgb(q[i]))
    <3>1. BANKS[p] \in 0 .. 2 BY PinBanks
    <3> QED BY <2>1, <2>2, <3>1 DEF Run, CycleKept
  <2> QED BY <1>4, <2>3, PlaceIs, Colours
<1> HIDE DEF place
<1> QED BY <1>5, <1>6 DEF FollowsSequence, D

LEMMA QuietChannel ==
  ASSUME NEW q, NEW len, NEW rule, Run(q, len, rule), NEW p \in Pin,
         NEW begin \in Nat, NEW end \in Nat, NEW args, Asks(args, rule),
         NEW frames, frames = Frames(WireOf(q, p), begin, end, len[p], args)
  PROVE  ChannelViolations(frames, len[p], args) \subseteq {"no_complete_frames"}
<1>1. \A s \in 1 .. Len(q) : Rgb(q[s]) \in args.colors BY AllowedColours
<1>2. FramesOfRun(frames, q, p, len, begin, end) BY <1>1, RunFrame
<1>3. CompleteOfRun(frames, q, p, len, begin, end) BY <1>1, RunComplete
<1>4. Found("reset_too_short", ShortReset(frames)) = {} BY <1>2, NoShortReset DEF Found
<1>5. CASE len[p] = 0
  <2>1. DOMAIN frames = {} BY <1>2, <1>5 DEF FramesOfRun, Pinned
  <2>2. Found("disabled_channel_not_low", DOMAIN frames # {}) = {} BY <2>1 DEF Found
  <2> QED BY <1>4, <1>5, <2>2 DEF ChannelViolations
<1>6. CASE len[p] # 0
  <2>1. ~WrongCount(frames, len[p]) /\ ~WrongContent(frames, len[p]) BY <1>2, <1>3, NoWrongCount
  <2>2. ~WrongSequence(frames, args.sequence)
    <3>1. CASE rule = "cycle"
      <4>1. args.sequence = Cycle BY <3>1 DEF Asks
      <4> QED BY <1>3, <3>1, <4>1, NoWrongSequence DEF WrongSequence
    <3>2. CASE rule # "cycle" BY <3>2 DEF WrongSequence, Asks
    <3> QED BY <3>1, <3>2
  <2>3. ~(args.expected # -1 /\ Cardinality(Complete(frames)) # args.expected) BY DEF Asks
  <2>4. /\ Found("frame_bit_count", WrongCount(frames, len[p])) = {}
        /\ Found("frame_content", WrongContent(frames, len[p])) = {}
        /\ Found("color_sequence", WrongSequence(frames, args.sequence)) = {}
        /\ Found("expected_frame_count",
                 args.expected # -1 /\ Cardinality(Complete(frames)) # args.expected) = {}
    BY <2>1, <2>2, <2>3 DEF Found
  <2>5. Found("no_complete_frames", Complete(frames) = {}) \subseteq {"no_complete_frames"} BY DEF Found
  <2> QED BY <1>4, <1>6, <2>4, <2>5 DEF ChannelViolations
<1> QED BY <1>5, <1>6

-----------------------------------------------------------------------------
(* Its banks.                                                              *)

AllFramesOfRun(all, q, len, begin, end) ==
  \A p \in Pin : FramesOfRun(all[p], q, p, len, begin, end) /\ CompleteOfRun(all[p], q, p, len, begin, end)

\* The frames of a string that are known to begin.
LEMMA RunKnown ==
  ASSUME NEW q, NEW len, NEW rule, Run(q, len, rule), NEW begin \in Nat, NEW end \in Nat,
         NEW all, AllFramesOfRun(all, q, len, begin, end),
         NEW bank \in ActiveBanks(len), NEW p \in Members(bank, len)
  PROVE  /\ \A f \in KnownStart(all[p]) :
              \E s \in 1 .. Len(q) :
                /\ q[s].bank = bank /\ begin + MinReset <= Time(q[s]) /\ Time(q[s]) < end
                /\ f.at = Time(q[s]) /\ f.to \in Nat /\ f.to <= Time(q[s]) + Longest(bank, len)
                /\ f.rgb \in {Rgb(q[s]), "none"}
         /\ \A s \in 1 .. Len(q) :
              q[s].bank = bank /\ begin + MinReset <= Time(q[s]) /\ Time(q[s]) < end =>
                \E f \in KnownStart(all[p]) : f.at = Time(q[s])
<1> DEFINE frames == all[p]
<1>1. p \in Pin /\ BANKS[p] = bank /\ len[p] > 0 BY DEF Members
<1>2. FramesOfRun(frames, q, p, len, begin, end) BY <1>1 DEF AllFramesOfRun
<1>3. len[p] \in Nat /\ len[p] <= Longest(bank, len) /\ Longest(bank, len) \in Nat
  <2>1. len \in [Pin -> Nat] BY DEF Run
  <2>2. Anchor(bank, len) \in Pin /\ len[p] <= Longest(bank, len) BY <2>1, AnchorIs DEF Longest
  <2> QED BY <1>1, <2>1, <2>2 DEF Longest
<1> HIDE DEF frames
<1>4. KnownStart(frames) = {frames[i] : i \in {j \in DOMAIN frames : frames[j].leading}} BY DEF KnownStart
<1>5. ASSUME NEW s \in DOMAIN frames
      PROVE  /\ s \in 1 .. Len(q) /\ q[s].bank = bank /\ Time(q[s]) \in Nat /\ Time(q[s]) < end
             /\ frames[s].leading <=> begin + MinReset <= Time(q[s])
             /\ frames[s].leading => frames[s].at = Time(q[s])
             /\ frames[s].to \in Nat /\ frames[s].to <= Time(q[s]) + Longest(bank, len)
             /\ frames[s].rgb \in {Rgb(q[s]), "none"}
  <2>1. /\ Pinned(q, s, p, len) /\ begin < Time(q[s]) + len[p] /\ Time(q[s]) < end
        /\ frames[s].at = IF Time(q[s]) < begin THEN begin ELSE Time(q[s])
        /\ frames[s].to = IF Time(q[s]) + len[p] > end THEN end ELSE Time(q[s]) + len[p]
        /\ frames[s].leading <=> begin + MinReset <= Time(q[s])
        /\ frames[s].rgb \in {Rgb(q[s]), "none"}
    BY <1>2 DEF FramesOfRun
  <2>2. s \in 1 .. Len(q) /\ q[s].bank = bank BY <1>1, <2>1 DEF Pinned
  <2>3. Time(q[s]) \in Nat BY <2>2, RunSlot
  <2>4. begin + MinReset <= Time(q[s]) => frames[s].at = Time(q[s]) BY <2>1, <2>3, Numbers
  <2>5. frames[s].to \in Nat /\ frames[s].to <= Time(q[s]) + Longest(bank, len) BY <1>3, <2>1, <2>3
  <2> QED BY <2>1, <2>2, <2>3, <2>4, <2>5
<1>6. ASSUME NEW f \in KnownStart(frames)
      PROVE  \E s \in 1 .. Len(q) :
                /\ q[s].bank = bank /\ begin + MinReset <= Time(q[s]) /\ Time(q[s]) < end
                /\ f.at = Time(q[s]) /\ f.to \in Nat /\ f.to <= Time(q[s]) + Longest(bank, len)
                /\ f.rgb \in {Rgb(q[s]), "none"}
  <2>1. PICK s \in DOMAIN frames : frames[s].leading /\ f = frames[s] BY <1>4
  <2> QED BY <1>5, <2>1
<1>7. ASSUME NEW s \in 1 .. Len(q), q[s].bank = bank, begin + MinReset <= Time(q[s]), Time(q[s]) < end
      PROVE  \E f \in KnownStart(frames) : f.at = Time(q[s])
  <2>1. Pinned(q, s, p, len) BY <1>1, <1>7 DEF Pinned
  <2>2. Time(q[s]) \in Nat BY RunSlot
  <2>3. begin < Time(q[s]) + len[p] BY <1>1, <1>3, <1>7, <2>2, Numbers
  <2>4. s \in DOMAIN frames BY <1>2, <1>7, <2>1, <2>3 DEF FramesOfRun
  <2>5. frames[s].leading /\ frames[s].at = Time(q[s]) BY <1>5, <1>7, <2>4
  <2>6. frames[s] \in KnownStart(frames) BY <1>4, <2>4, <2>5
  <2> QED BY <2>5, <2>6
<1> QED BY <1>6, <1>7 DEF frames

LEMMA PinsAgree ==
  ASSUME NEW q, NEW len, NEW rule, Run(q, len, rule), NEW begin \in Nat, NEW end \in Nat,
         NEW all, AllFramesOfRun(all, q, len, begin, end), NEW bank \in ActiveBanks(len)
  PROVE  ~PinsDiffer(bank, len, all)
<1> DEFINE a == Anchor(bank, len)
           Known(p) == KnownStart(all[p])
<1>1. a \in Members(bank, len)
  <2>1. len \in [Pin -> Nat] BY DEF Run
  <2> QED BY <2>1, AnchorIs
<1>2. ASSUME NEW p \in Members(bank, len), NEW f \in Known(p)
      PROVE  \E s \in 1 .. Len(q) :
                /\ q[s].bank = bank /\ begin + MinReset <= Time(q[s]) /\ Time(q[s]) < end
                /\ f.at = Time(q[s]) /\ f.rgb \in {Rgb(q[s]), "none"}
  BY RunKnown
<1>3. ASSUME NEW p \in Members(bank, len), NEW s \in 1 .. Len(q),
             q[s].bank = bank, begin + MinReset <= Time(q[s]), Time(q[s]) < end
      PROVE  \E f \in Known(p) : f.at = Time(q[s])
  BY <1>3, RunKnown
<1> HIDE DEF a, Known
<1>4. ASSUME NEW p \in Members(bank, len), NEW r \in Members(bank, len)
      PROVE  {f.at : f \in Known(p)} \subseteq {f.at : f \in Known(r)}
  <2> SUFFICES ASSUME NEW f \in Known(p) PROVE \E g \in Known(r) : g.at = f.at OBVIOUS
  <2>1. PICK s \in 1 .. Len(q) : /\ q[s].bank = bank /\ begin + MinReset <= Time(q[s]) /\ Time(q[s]) < end
                                 /\ f.at = Time(q[s])
    BY <1>2
  <2> QED BY <1>3, <2>1
<1>5. ASSUME NEW p \in Members(bank, len), NEW f \in Known(a), NEW g \in Known(p),
             f.at = g.at, "none" \notin {f.rgb, g.rgb}
      PROVE  f.rgb = g.rgb
  <2>1. PICK s \in 1 .. Len(q) : q[s].bank = bank /\ f.at = Time(q[s]) /\ f.rgb \in {Rgb(q[s]), "none"}
    BY <1>1, <1>2
  <2>2. PICK r \in 1 .. Len(q) : q[r].bank = bank /\ g.at = Time(q[r]) /\ g.rgb \in {Rgb(q[r]), "none"}
    BY <1>2
  <2>3. s = r
    <3>1. Time(q[s]) = Time(q[r]) /\ Time(q[s]) \in Nat BY <1>5, <2>1, <2>2, RunSlot
    <3>2. ~(s < r) BY <3>1, RunSpaced
    <3>3. ~(r < s) BY <3>1, RunSpaced
    <3> QED BY <3>2, <3>3
  <2> QED BY <1>5, <2>1, <2>2, <2>3
<1>6. ASSUME NEW p \in Members(bank, len)
      PROVE  /\ {f.at : f \in Known(a)} = {f.at : f \in Known(p)}
             /\ ~\E f \in Known(a), g \in Known(p) : f.at = g.at /\ "none" \notin {f.rgb, g.rgb} /\ f.rgb # g.rgb
  BY <1>1, <1>4, <1>5
<1>7. PinsDiffer(bank, len, all) =
        \E p \in Members(bank, len) \ {a} :
          \/ {f.at : f \in Known(a)} # {f.at : f \in Known(p)}
          \/ \E f \in Known(a), g \in Known(p) : f.at = g.at /\ "none" \notin {f.rgb, g.rgb} /\ f.rgb # g.rgb
  BY DEF PinsDiffer, Known, a
<1> QED BY <1>6, <1>7

\* The event of a slot, and that every slot clear of both ends has one.
EventOf(e, q, s, len, begin, end) ==
  /\ e.bank = q[s].bank /\ e.at = Time(q[s]) /\ e.rgb = Rgb(q[s])
  /\ begin + MinReset <= Time(q[s]) /\ Time(q[s]) + Longest(q[s].bank, len) + MinReset <= end
  /\ \A to \in e.ends : to \in Nat /\ to <= Time(q[s]) + Longest(q[s].bank, len)

EventsOfRun(events, q, bank, len, begin, end) ==
  /\ \A e \in events : \E s \in 1 .. Len(q) : EventOf(e, q, s, len, begin, end)
  /\ \A s \in 1 .. Len(q) :
       q[s].bank = bank /\ begin + MinReset <= Time(q[s]) /\ Time(q[s]) + Longest(bank, len) + MinReset <= end
       => \E e \in events : e.bank = bank /\ e.at = Time(q[s])

LEMMA RunEvents ==
  ASSUME NEW q, NEW len, NEW rule, Run(q, len, rule), NEW begin \in Nat, NEW end \in Nat,
         NEW all, AllFramesOfRun(all, q, len, begin, end), NEW bank \in ActiveBanks(len)
  PROVE  EventsOfRun(Events(bank, len, all), q, bank, len, begin, end)
<1> DEFINE a == Anchor(bank, len)
           anchor == all[a]
           known == UNION {KnownStart(all[p]) : p \in Members(bank, len)}
           ends(i) == {anchor[i].to} \cup {f.to : f \in {g \in known : g.at = anchor[i].at}}
           event(i) == [bank |-> bank, at |-> anchor[i].at, rgb |-> anchor[i].rgb, ends |-> ends(i)]
<1>1. Events(bank, len, all) = {event(i) : i \in Complete(anchor)} BY DEF Events
<1>2. /\ a \in Pin /\ BANKS[a] = bank /\ len[a] > 0 /\ Longest(bank, len) = len[a] /\ len[a] \in Nat
  <2>1. len \in [Pin -> Nat] BY DEF Run
  <2>2. a \in Members(bank, len) /\ a \in Pin BY <2>1, AnchorIs
  <2> QED BY <2>1, <2>2 DEF Longest, Members
<1>3. CompleteOfRun(anchor, q, a, len, begin, end) BY <1>2 DEF AllFramesOfRun
<1> HIDE DEF a, anchor
<1>4. ASSUME NEW f \in known
      PROVE  \E s \in 1 .. Len(q) : /\ q[s].bank = bank /\ f.at = Time(q[s]) /\ f.to \in Nat
                                   /\ f.to <= Time(q[s]) + Longest(bank, len)
  <2>1. PICK p \in Members(bank, len) : f \in KnownStart(all[p]) OBVIOUS
  <2> QED BY <2>1, RunKnown
<1> HIDE DEF known
<1>5. ASSUME NEW i \in Complete(anchor)
      PROVE  i \in 1 .. Len(q) /\ EventOf(event(i), q, i, len, begin, end)
  <2>1. /\ Pinned(q, i, a, len)
        /\ begin + MinReset <= Time(q[i]) /\ Time(q[i]) + len[a] + MinReset <= end
        /\ anchor[i].at = Time(q[i]) /\ anchor[i].to = Time(q[i]) + len[a] /\ anchor[i].rgb = Rgb(q[i])
    BY <1>3 DEF CompleteOfRun
  <2>2. i \in 1 .. Len(q) /\ q[i].bank = bank BY <1>2, <2>1 DEF Pinned
  <2>3. Time(q[i]) \in Nat BY <2>2, RunSlot
  <2>4. ASSUME NEW to \in ends(i) PROVE to \in Nat /\ to <= Time(q[i]) + Longest(bank, len)
    <3>1. CASE to = anchor[i].to BY <1>2, <2>1, <2>3, <3>1
    <3>2. CASE \E f \in known : f.at = anchor[i].at /\ to = f.to
      <4>1. PICK f \in known : f.at = Time(q[i]) /\ to = f.to BY <2>1, <3>2
      <4>2. PICK s \in 1 .. Len(q) : /\ q[s].bank = bank /\ f.at = Time(q[s]) /\ f.to \in Nat
                                     /\ f.to <= Time(q[s]) + Longest(bank, len)
        BY <1>4
      <4> QED BY <4>1, <4>2
    <3> QED BY <3>1, <3>2
  <2>5. event(i).bank = bank /\ event(i).at = Time(q[i]) /\ event(i).rgb = Rgb(q[i]) /\ event(i).ends = ends(i)
    BY <2>1
  <2> HIDE DEF event, ends
  <2> QED BY <1>2, <2>1, <2>2, <2>4, <2>5 DEF EventOf
<1>6. ASSUME NEW s \in 1 .. Len(q), q[s].bank = bank, begin + MinReset <= Time(q[s]),
             Time(q[s]) + Longest(bank, len) + MinReset <= end
      PROVE  \E e \in Events(bank, len, all) : e.bank = bank /\ e.at = Time(q[s])
  <2>1. s \in Complete(anchor) BY <1>2, <1>3, <1>6 DEF CompleteOfRun, Pinned
  <2>2. event(s).bank = bank /\ event(s).at = Time(q[s]) BY <1>3, <2>1 DEF CompleteOfRun
  <2>3. event(s) \in Events(bank, len, all) BY <1>1, <2>1
  <2> HIDE DEF event
  <2> QED BY <2>2, <2>3
<1> HIDE DEF event
<1> QED BY <1>1, <1>5, <1>6 DEF EventsOfRun

AllEvents(len, all) == UNION {Events(bank, len, all) : bank \in ActiveBanks(len)}

\* Two events with none between are of slots with none between.
LEMMA NextEvent ==
  ASSUME NEW q, NEW len, NEW rule, Run(q, len, rule), NEW begin \in Nat, NEW end \in Nat,
         NEW all, AllFramesOfRun(all, q, len, begin, end),
         NEW events, events = AllEvents(len, all),
         NEW x \in events, NEW y \in events, Before(x, y), ~\E z \in events : Before(x, z) /\ Before(z, y)
  PROVE  \E s, r \in 1 .. Len(q) :
           r = s + 1 /\ EventOf(x, q, s, len, begin, end) /\ EventOf(y, q, r, len, begin, end)
<1>1. \A e : e \in events <=> \E bank \in ActiveBanks(len) : e \in Events(bank, len, all) BY DEF AllEvents
<1>2. \A bank \in ActiveBanks(len) : EventsOfRun(Events(bank, len, all), q, bank, len, begin, end) BY RunEvents
<1>3. PICK s \in 1 .. Len(q) : EventOf(x, q, s, len, begin, end) BY <1>1, <1>2 DEF EventsOfRun
<1>4. PICK r \in 1 .. Len(q) : EventOf(y, q, r, len, begin, end) BY <1>1, <1>2 DEF EventsOfRun
<1>5. /\ Time(q[s]) \in Nat /\ Time(q[r]) \in Nat /\ s \in Nat /\ r \in Nat
      /\ x.at = Time(q[s]) /\ y.at = Time(q[r])
  BY <1>3, <1>4, RunSlot DEF EventOf
<1>6. s < r
  <2>1. ~(r < s)
    <3> SUFFICES ASSUME r < s PROVE FALSE OBVIOUS
    <3>1. Time(q[r]) < Time(q[s]) BY RunSpaced
    <3> QED BY <1>5, <3>1 DEF Before
  <2>2. s # r
    <3> SUFFICES ASSUME s = r PROVE FALSE OBVIOUS
    <3>1. x.at = y.at /\ x.bank = y.bank /\ x.bank \in 0 .. 2 BY <1>3, <1>4, RunSlot DEF EventOf
    <3> QED BY <1>5, <3>1 DEF Before
  <2> QED BY <1>5, <2>1, <2>2
<1>7. r = s + 1
  <2> SUFFICES ASSUME r # s + 1 PROVE FALSE OBVIOUS
  <2>1. PICK i \in 1 .. Len(q) : i = s + 1 /\ s < i /\ i < r BY <1>5, <1>6
  <2>2. PICK b : b = q[i].bank OBVIOUS
  <2>3. Time(q[i]) \in Nat /\ b \in ActiveBanks(len) /\ Longest(b, len) \in Nat BY <2>2, RunSlot
  <2>4. Time(q[s]) < Time(q[i]) /\ Time(q[i]) + Longest(b, len) <= Time(q[r]) /\ Time(q[i]) < Time(q[r])
    BY <2>1, <2>2, RunSpaced
  <2>5. Longest(q[r].bank, len) \in Nat BY RunSlot
  <2>6. begin + MinReset <= Time(q[s]) /\ Time(q[r]) + Longest(q[r].bank, len) + MinReset <= end
    BY <1>3, <1>4 DEF EventOf
  <2>7. begin + MinReset <= Time(q[i]) /\ Time(q[i]) + Longest(b, len) + MinReset <= end
    <3>1. begin + MinReset <= Time(q[i]) BY <1>5, <2>3, <2>4, <2>6, Numbers
    <3>2. Time(q[r]) + MinReset <= end BY <1>5, <2>5, <2>6, Numbers
    <3>3. Time(q[i]) + Longest(b, len) + MinReset <= end BY <1>5, <2>3, <2>4, <3>2, Numbers
    <3> QED BY <3>1, <3>3
  <2>8. PICK z \in Events(b, len, all) : z.at = Time(q[i])
    <3>1. EventsOfRun(Events(b, len, all), q, b, len, begin, end) BY <2>3, <1>2
    <3> QED BY <2>2, <2>7, <3>1 DEF EventsOfRun
  <2>9. z \in events BY <1>1, <2>3, <2>8
  <2>10. Before(x, z) /\ Before(z, y) BY <1>5, <2>3, <2>4, <2>8 DEF Before
  <2> QED BY <2>9, <2>10
<1> QED BY <1>3, <1>4, <1>7

LEMMA QuietBanks ==
  ASSUME NEW q, NEW len, NEW rule, Run(q, len, rule), NEW begin \in Nat, NEW end \in Nat,
         NEW all, AllFramesOfRun(all, q, len, begin, end)
  PROVE  BankViolations(len, all) = {}
<1> DEFINE active == ActiveBanks(len)
           events == AllEvents(len, all)
           Follow(Bad(_, _)) ==
             \E x, y \in events : /\ Before(x, y) /\ Bad(x, y)
                                  /\ ~\E z \in events : Before(x, z) /\ Before(z, y)
<1>1. ASSUME NEW x \in events, NEW y \in events, Before(x, y),
             ~\E z \in events : Before(x, z) /\ Before(z, y)
      PROVE  /\ InCyclicOrder(x.bank, y.bank, active)
             /\ ~\E to \in x.ends : y.at < to
             /\ ~(y.bank < x.bank /\ x.rgb # y.rgb)
  <2>1. PICK s, r \in 1 .. Len(q) :
           r = s + 1 /\ EventOf(x, q, s, len, begin, end) /\ EventOf(y, q, r, len, begin, end)
    <3>1. events = AllEvents(len, all) OBVIOUS
    <3> HIDE DEF events
    <3> QED BY <1>1, <3>1, NextEvent
  <2> HIDE DEF events
  <2>2. Turns(q[s], q[r], len, rule) BY <2>1 DEF Run, AllTurn
  <2>3. Time(q[s]) + Longest(q[s].bank, len) <= Time(q[r])
    <3>1. s < r BY <2>1
    <3> QED BY <3>1, RunSpaced
  <2>4. Time(q[s]) \in Nat /\ Time(q[r]) \in Nat /\ Longest(q[s].bank, len) \in Nat BY RunSlot
  <2>5. InCyclicOrder(x.bank, y.bank, active) BY <2>1, <2>2 DEF EventOf, Turns, InCyclicOrder
  <2>6. ~(y.bank < x.bank /\ x.rgb # y.rgb) BY <2>1, <2>2 DEF EventOf, Turns
  <2>7. ASSUME NEW to \in x.ends, y.at < to PROVE FALSE
    <3>1. /\ to \in Nat /\ to <= Time(q[s]) + Longest(q[s].bank, len) /\ y.at = Time(q[r])
      BY <2>1 DEF EventOf
    <3> QED BY <2>3, <2>4, <2>7, <3>1
  <2> QED BY <2>5, <2>6, <2>7
<1>2. \A bank \in active : ~PinsDiffer(bank, len, all) BY PinsAgree
<1>3. ~Follow(LAMBDA x, y : ~InCyclicOrder(x.bank, y.bank, active)) BY <1>1
<1>4. ~Follow(LAMBDA x, y : \E to \in x.ends : y.at < to) BY <1>1
<1>5. ~Follow(LAMBDA x, y : y.bank < x.bank /\ x.rgb # y.rgb) BY <1>1
<1> QED BY <1>2, <1>3, <1>4, <1>5, Zenon DEF BankViolations, Found, AllEvents

-----------------------------------------------------------------------------
(* The stream when something goes wrong.                                   *)

\* What has been sent is followed by what begins no sooner than the next bank was to.
LEMMA StillFollows ==
  ASSUME DriverTyped, Active # {}, InOrder(Slots), NEW s \in 1 .. Len(d.sent),
         NEW y \in SlotSet, NEW time \in Nat,
         \A p \in Pin : IsHigh(y.burst[p]) => time <= y.burst[p].at,
         (y.bank <= d.bank /\ d.t <= time) \/ d.t + 1 + Separator <= time
  PROVE  Follows(d.sent[s], y)
<1>1. /\ Slots[s] = d.sent[s] /\ d.sent[s] \in SlotSet
      /\ Len(Slots) = Len(d.sent) + 1 /\ Slots[Len(d.sent) + 1] = Pending /\ Len(d.sent) \in Nat
  BY SlotsAre
<1>2. s \in 1 .. Len(Slots) /\ Len(d.sent) + 1 \in 1 .. Len(Slots) /\ s < Len(d.sent) + 1 BY <1>1
<1>3. Follows(d.sent[s], Pending) BY <1>1, <1>2 DEF InOrder
<1>4. d.k \in Nat \ {0} /\ d.rgb \in Color /\ d.bank \in ActiveBanks(d.len) /\ d.t \in Nat /\ d.len \in [Pin -> Nat]
  BY Layout DEF DriverTyped, DriverSet, Active
<1>5. Follows(d.sent[s], Even(d.k, d.bank, d.t, d.rgb, d.len)) BY <1>3 DEF Pending
<1> QED BY <1>1, <1>4, <1>5, FollowsLater, SMTT(30)

\* A slot is sent, and then the next one is due.
LEMMA OrderedOn ==
  ASSUME DriverTyped, Active # {}, InOrder(Slots), DriverTyped', Active' # {},
         NEW x \in SlotSet, d'.sent = Append(d.sent, x),
         \A s \in 1 .. Len(d.sent) : Follows(d.sent[s], x),
         (d'.bank <= d.bank /\ d.t <= d'.t) \/ d.t + 1 + Separator <= d'.t,
         NEW u \in Nat, NEW v \in Nat,
         \A p \in Pin : IsHigh(x.burst[p]) => x.burst[p].at <= u /\ x.burst[p].to <= v,
         u < d'.t \/ (u <= d'.t /\ x.bank > d'.bank),
         v <= d'.t + 1, x.bank <= d'.bank => v + Separator <= d'.t
  PROVE  InOrder(Slots')
<1> DEFINE q == Append(d.sent, x)
<1>1. /\ Slots' = Append(q, Pending') /\ Pending' \in SlotSet /\ q \in Seq(SlotSet)
      /\ Len(q) = Len(d.sent) + 1 /\ q[Len(d.sent) + 1] = x
      /\ \A s \in 1 .. Len(d.sent) : q[s] = d.sent[s]
  BY SlotsOn
<1>2. /\ Pending'.bank = d'.bank /\ d'.t \in Nat
      /\ \A p \in Pin : IsHigh(Pending'.burst[p]) => d'.t <= Pending'.burst[p].at
  BY PendingOn
<1>3. d.sent \in Seq(SlotSet) /\ Len(d.sent) \in Nat BY DEF DriverTyped, DriverSet
<1>4. InOrder(d.sent)
  <2>1. \A s \in 1 .. Len(d.sent) : Slots[s] = d.sent[s] /\ s \in 1 .. Len(Slots) BY SlotsAre
  <2> QED BY <2>1 DEF InOrder
<1>5. InOrder(q) BY <1>3, <1>4, InOrderOn
<1>6. Follows(x, Pending') BY <1>1, <1>2, FollowsEnd
<1>7. \A s \in 1 .. Len(d.sent) : Follows(d.sent[s], Pending') BY <1>1, <1>2, StillFollows
<1> HIDE DEF q
<1>8. \A s \in 1 .. Len(q) : Follows(q[s], Pending')
  <2>1. \A s \in 1 .. Len(q) : s \in 1 .. Len(d.sent) \/ s = Len(d.sent) + 1 BY <1>1, <1>3
  <2> QED BY <1>1, <1>6, <1>7, <2>1
<1> QED BY <1>1, <1>5, <1>8, InOrderOn

\* Nothing is sent, and another slot is due.
LEMMA OrderedWithout ==
  ASSUME DriverTyped, Active # {}, InOrder(Slots), DriverTyped', Active' # {}, d'.sent = d.sent,
         \A s \in 1 .. Len(d.sent) : Follows(d.sent[s], Pending')
  PROVE  InOrder(Slots')
<1>1. Slots' = Append(d.sent, Pending') BY DEF Slots
<1>2. Pending' \in SlotSet BY PendingOn
<1>3. d.sent \in Seq(SlotSet) BY DEF DriverTyped, DriverSet
<1>4. InOrder(d.sent)
  <2>1. \A s \in 1 .. Len(d.sent) : Slots[s] = d.sent[s] /\ s \in 1 .. Len(Slots) BY SlotsAre
  <2> QED BY <2>1 DEF InOrder
<1> QED BY <1>1, <1>2, <1>3, <1>4, InOrderOn

\* The slot before the next one.
LEMMA LastSent ==
  ASSUME DriverTyped, Active # {}, RegularStream(Slots, d.len, d.rule),
         d.bank # TopBank(d.len) \/ d.k > 1
  PROVE  \E n \in 1 .. Len(d.sent) :
           /\ n = Len(d.sent) /\ d.sent[n] \in SlotSet
           /\ Plain(d.sent[n], d.len, d.rule) /\ Turns(d.sent[n], Pending, d.len, d.rule)
           /\ d.bank # TopBank(d.len) => d.bank < d.sent[n].bank
<1>1. /\ Pending \in SlotSet /\ Slots \in Seq(SlotSet) /\ Len(d.sent) \in Nat
      /\ Len(Slots) = Len(d.sent) + 1 /\ Slots[Len(d.sent) + 1] = Pending
      /\ \A s \in 1 .. Len(d.sent) : Slots[s] = d.sent[s] /\ d.sent[s] \in SlotSet
  BY SlotsAre
<1>2. Pending.bank = d.bank /\ Pending.k = d.k BY PendingIs
<1>3. Len(d.sent) >= 1
  <2>1. Len(d.sent) + 1 \in 1 .. Len(Slots) BY <1>1
  <2>2. PICK s \in 1 .. Len(Slots) : s < Len(d.sent) + 1
    BY <1>1, <1>2, <2>1 DEF RegularStream, TopBefore
  <2> QED BY <1>1, <2>2
<1> DEFINE n == Len(d.sent)
<1>4. n \in 1 .. n /\ n \in 1 .. Len(Slots) /\ n + 1 \in 1 .. Len(Slots) BY <1>1, <1>3
<1>5. Plain(d.sent[n], d.len, d.rule) BY <1>1, <1>4 DEF RegularStream, AllPlain
<1>6. Turns(d.sent[n], Pending, d.len, d.rule) BY <1>1, <1>4 DEF RegularStream, AllTurn
<1>7. ASSUME ~(d.bank < d.sent[n].bank) PROVE d.bank = TopBank(d.len)
  <2>1. d.bank = NextBank(d.sent[n].bank, ActiveBanks(d.len)) BY <1>2, <1>6 DEF Turns
  <2>2. d.sent[n].bank \in ActiveBanks(d.len) BY <1>5 DEF Plain
  <2>3. d.bank = Max(ActiveBanks(d.len)) BY <1>7, <2>1, <2>2, NextIs
  <2> QED BY <2>2, <2>3 DEF TopBank
<1> QED BY <1>1, <1>4, <1>5, <1>6, <1>7

\* Within a command, everything before has ended by the gap between banks.
LEMMA EndedBefore ==
  ASSUME DriverTyped, Active # {}, RegularStream(Slots, d.len, d.rule), d.bank # TopBank(d.len)
  PROVE  /\ Settle + BankGap < d.t
         /\ \A s \in 1 .. Len(d.sent) :
              /\ d.sent[s] \in SlotSet
              /\ \A p \in Pin : /\ d.sent[s].burst[p].at < d.t - BankGap
                                /\ d.sent[s].burst[p].to <= d.t - BankGap
<1>1. PICK n \in 1 .. Len(d.sent) :
        /\ n = Len(d.sent) /\ d.sent[n] \in SlotSet
        /\ Plain(d.sent[n], d.len, d.rule) /\ Turns(d.sent[n], Pending, d.len, d.rule)
        /\ d.bank < d.sent[n].bank
  BY LastSent
<1> DEFINE x == d.sent[n]
<1>2. Time(Pending) = d.t /\ Pending.bank = d.bank BY PendingIs
<1>3. d.len \in [Pin -> Nat] BY Layout
<1>4. Time(x) \in Nat /\ Longest(x.bank, d.len) \in Nat /\ 1 <= Longest(x.bank, d.len) BY <1>1, <1>3, PlainTimes
<1>5. d.t = Time(x) + Longest(x.bank, d.len) + BankGap BY <1>1, <1>2 DEF Turns
<1>6. /\ \A s \in 1 .. Len(d.sent) : Slots[s] = d.sent[s] /\ d.sent[s] \in SlotSet /\ s \in 1 .. Len(Slots)
  BY SlotsAre
<1>7. Settle <= Time(x)
  <2>1. Own(x, d.len) BY <1>1 DEF DriverTyped
  <2>2. 1 \in Pin BY DEF Pin
  <2> QED BY <2>1, <2>2 DEF Own, Time
<1>8. ASSUME NEW s \in 1 .. Len(d.sent)
      PROVE  \A p \in Pin : /\ d.sent[s].burst[p].at < d.t - BankGap
                            /\ d.sent[s].burst[p].to <= d.t - BankGap
  <2> SUFFICES ASSUME NEW p \in Pin
               PROVE  d.sent[s].burst[p].at < d.t - BankGap /\ d.sent[s].burst[p].to <= d.t - BankGap
    OBVIOUS
  <2> DEFINE y == d.sent[s]
             t == Time(y)
             b == y.bank
  <2>1. Plain(y, d.len, d.rule) /\ y \in SlotSet BY <1>6 DEF RegularStream, AllPlain
  <2>2. t \in Nat /\ b \in ActiveBanks(d.len) /\ Longest(b, d.len) \in Nat /\ 1 <= Longest(b, d.len)
    BY <1>3, <2>1, PlainTimes
  <2>3. y = Even(y.k, b, t, Rgb(y), d.len) BY <2>1 DEF Plain
  <2>4. y.burst[p].at = t BY <2>3, EvenFields
  <2>5. y.burst[p].to <= t + Longest(b, d.len)
    <3>1. Even(y.k, b, t, Rgb(y), d.len).burst[p].to <= t + Longest(b, d.len) BY <1>3, <2>2, EvenEnd
    <3> QED BY <2>3, <3>1, Zenon
  <2>6. y.burst[p].to \in Nat BY <2>1, HighTimes
  <2>7. t + Longest(b, d.len) <= Time(x) + Longest(x.bank, d.len)
    <3>1. CASE s = n BY <2>2, <3>1
    <3>2. CASE s < n
      <4>1. Spaced(y, x, d.len) BY <1>1, <1>6, <3>2 DEF RegularStream, AllSpaced
      <4>2. t + Longest(b, d.len) <= Time(x) BY <1>4, <2>2, <4>1, Numbers DEF Spaced
      <4> QED BY <1>4, <2>2, <4>2
    <3> QED BY <1>1, <3>1, <3>2
  <2> HIDE DEF x, y, t, b
  <2>8. d.t - BankGap = Time(x) + Longest(x.bank, d.len) BY <1>4, <1>5, Numbers
  <2>9. y.burst[p].at < d.t - BankGap /\ y.burst[p].to <= d.t - BankGap
    BY <1>4, <2>2, <2>4, <2>5, <2>6, <2>7, <2>8
  <2> QED BY <2>9 DEF y
<1>9. Settle + BankGap < d.t BY <1>4, <1>5, <1>7, Numbers
<1> QED BY <1>6, <1>8, <1>9

-----------------------------------------------------------------------------
(* What each way of going wrong does.                                      *)

LEMMA StrayBurstIs ==
  ASSUME DriverTyped, NEW bank \in Active, NEW p \in Members(bank, d.len), NEW b \in StrayBursts(bank, p)
  PROVE  /\ b \in BurstSet /\ d.t <= b.at /\ b.at <= d.t + 1 /\ b.at <= b.to /\ b.to <= d.t + d.len[p] + 1
         /\ \/ ~IsHigh(b) /\ Members(bank, d.len) # {p}
            \/ IsHigh(b) /\ b.to # b.at + d.len[p]
            \/ /\ IsHigh(b) /\ b.at = d.t /\ b.to = d.t + d.len[p] /\ b.rgb # d.rgb
               /\ Members(bank, d.len) = {p} /\ Active = {bank} /\ d.rule = "random" => b.rgb = "mixed"
            \/ IsHigh(b) /\ b.at = d.t + 1 /\ Members(bank, d.len) # {p}
<1> DEFINE alone == Members(bank, d.len) = {p}
           lengths == {0, d.len[p] - 1, d.len[p] + 1} \ (IF alone THEN {0} ELSE {})
           colors == {"mixed"} \cup (IF alone /\ Active = {bank} /\ d.rule = "random" THEN {} ELSE Color)
<1>1. StrayBursts(bank, p) =
        {Burst(d.t, length, d.rgb) : length \in lengths}
        \cup {Burst(d.t, d.len[p], rgb) : rgb \in colors \ {d.rgb}}
        \cup (IF alone THEN {} ELSE {Burst(d.t + 1, d.len[p], d.rgb)})
  BY DEF StrayBursts
<1>2. d.t \in Nat /\ d.rgb \in Color /\ d.len[p] \in Nat /\ 1 <= d.len[p]
  <2>1. d.t \in Nat /\ d.rgb \in Color BY DEF DriverTyped, DriverSet
  <2>2. d.len[p] \in Nat /\ 1 <= d.len[p] BY LongestIs
  <2> QED BY <2>1, <2>2
<1>3. colors \subseteq Color \cup {"mixed"} OBVIOUS
<1>4. \A rgb \in colors \ {d.rgb} : /\ rgb # d.rgb /\ rgb \in Color \cup {"mixed"}
                                    /\ alone /\ Active = {bank} /\ d.rule = "random" => rgb = "mixed"
  OBVIOUS
<1>5. \A length \in lengths : /\ length \in Nat /\ length <= d.len[p] + 1 /\ length # d.len[p]
                              /\ alone => length # 0
  BY <1>2
<1> HIDE DEF alone, lengths, colors
<1>6. CASE \E length \in lengths : b = Burst(d.t, length, d.rgb)
  <2>1. PICK length \in lengths : b = Burst(d.t, length, d.rgb) BY <1>6
  <2>2. b = [at |-> d.t, to |-> d.t + length, rgb |-> d.rgb] BY <2>1 DEF Burst
  <2>3. length \in Nat /\ length <= d.len[p] + 1 /\ length # d.len[p] /\ (alone => length # 0) BY <1>5
  <2>4. b \in BurstSet BY <1>2, <2>2, <2>3 DEF BurstSet
  <2>5. b.at = d.t /\ b.to = d.t + length BY <2>2
  <2>6. IsHigh(b) <=> 0 < length BY <1>2, <2>3, <2>5 DEF IsHigh
  <2>7. IsHigh(b) => b.to # b.at + d.len[p] BY <1>2, <2>3, <2>5
  <2>8. ~IsHigh(b) => ~alone BY <2>3, <2>6
  <2>9. d.t <= b.at /\ b.at <= d.t + 1 /\ b.at <= b.to /\ b.to <= d.t + d.len[p] + 1 BY <1>2, <2>3, <2>5
  <2> QED BY <2>4, <2>7, <2>8, <2>9 DEF alone
<1>7. CASE \E rgb \in colors \ {d.rgb} : b = Burst(d.t, d.len[p], rgb)
  <2>1. PICK rgb \in colors \ {d.rgb} : b = Burst(d.t, d.len[p], rgb) BY <1>7
  <2>2. b = [at |-> d.t, to |-> d.t + d.len[p], rgb |-> rgb] BY <2>1 DEF Burst
  <2>3. /\ rgb # d.rgb /\ rgb \in Color \cup {"mixed"}
        /\ alone /\ Active = {bank} /\ d.rule = "random" => rgb = "mixed"
    BY <1>4
  <2>4. b \in BurstSet BY <1>2, <2>2, <2>3 DEF BurstSet
  <2>5. b.at = d.t /\ b.to = d.t + d.len[p] /\ b.rgb = rgb BY <2>2
  <2>6. IsHigh(b) BY <1>2, <2>5 DEF IsHigh
  <2>7. d.t <= b.at /\ b.at <= d.t + 1 /\ b.at <= b.to /\ b.to <= d.t + d.len[p] + 1 BY <1>2, <2>5
  <2> QED BY <2>3, <2>4, <2>5, <2>6, <2>7 DEF alone
<1>8. CASE ~alone /\ b = Burst(d.t + 1, d.len[p], d.rgb)
  <2>1. b = [at |-> d.t + 1, to |-> d.t + 1 + d.len[p], rgb |-> d.rgb] BY <1>8 DEF Burst
  <2>2. b \in BurstSet BY <1>2, <2>1 DEF BurstSet
  <2>3. b.at = d.t + 1 /\ b.to = d.t + 1 + d.len[p] BY <2>1
  <2>4. IsHigh(b) BY <1>2, <2>3 DEF IsHigh
  <2>5. d.t <= b.at /\ b.at <= d.t + 1 /\ b.at <= b.to /\ b.to <= d.t + d.len[p] + 1 BY <1>2, <2>3
  <2> QED BY <1>8, <2>2, <2>3, <2>4, <2>5 DEF alone
<1> QED BY <1>1, <1>6, <1>7, <1>8

LEMMA StrayPinDoes ==
  ASSUME DriverTyped, Active # {}, StrayPin
  PROVE  \E p \in Members(d.bank, d.len), x \in SlotSet :
           /\ x.k = d.k /\ x.bank = d.bank /\ d'.sent = Append(d.sent, x)
           /\ x.burst[p] \in StrayBursts(d.bank, p)
           /\ \A r \in Pin : r # p => x.burst[r] = Pending.burst[r]
           /\ TurnedTo(d', d.t + LongestOf(d.bank) + 1) /\ d'.fault = "pin" /\ d'.at = d.k
<1>1. d \in DriverSet /\ d.bank \in Active /\ d.len \in [Pin -> Nat] BY Layout DEF DriverTyped
<1>2. PICK p \in Members(d.bank, d.len) :
        \E burst \in StrayBursts(d.bank, p) : \E after \in Proceeds(d.t + LongestOf(d.bank) + 1) :
          d' = [after EXCEPT !.sent = Sends(d.bank, [Uniform(d.bank) EXCEPT ![p] = burst]),
                             !.fault = "pin", !.at = d.k]
  BY Zenon DEF StrayPin
<1>3. PICK burst \in StrayBursts(d.bank, p) : \E after \in Proceeds(d.t + LongestOf(d.bank) + 1) :
        d' = [after EXCEPT !.sent = Sends(d.bank, [Uniform(d.bank) EXCEPT ![p] = burst]),
                           !.fault = "pin", !.at = d.k]
  BY <1>2, Zenon
<1>4. PICK after \in Proceeds(d.t + LongestOf(d.bank) + 1) :
        d' = [after EXCEPT !.sent = Sends(d.bank, [Uniform(d.bank) EXCEPT ![p] = burst]),
                           !.fault = "pin", !.at = d.k]
  BY <1>3, Zenon
<1> DEFINE f == Pending.burst
           g == [f EXCEPT ![p] = burst]
           x == [k |-> d.k, bank |-> d.bank, burst |-> g]
<1>5. Pending \in SlotSet /\ f = Uniform(d.bank) BY SlotsAre DEF Pending, Even, Uniform
<1>6. f \in [Pin -> BurstSet] /\ p \in Pin /\ burst \in BurstSet
  <2>1. burst \in BurstSet BY <1>1, StrayBurstIs
  <2>2. f \in [Pin -> BurstSet] BY <1>5 DEF SlotSet
  <2> QED BY <2>1, <2>2 DEF Members
<1>7. Sends(d.bank, [Uniform(d.bank) EXCEPT ![p] = burst]) = Append(d.sent, x) BY <1>5 DEF Sends
<1> HIDE DEF f
<1>8. g \in [Pin -> BurstSet] /\ g[p] = burst /\ \A r \in Pin : r # p => g[r] = f[r] BY <1>6
<1> HIDE DEF g
<1>9. x \in SlotSet /\ x.k = d.k /\ x.bank = d.bank /\ x.burst = g BY <1>1, <1>8 DEF SlotSet, DriverSet
<1> HIDE DEF x
<1> DEFINE time == d.t + LongestOf(d.bank) + 1
<1>10. time \in Nat BY <1>1, LongestIs DEF DriverSet
<1>11. after \in Proceeds(time) BY <1>4
<1> HIDE DEF time
<1>12. TurnedTo(after, time) BY <1>10, <1>11, Numbers, ProceedsIs
<1>13. Append(d.sent, x) \in Seq(SlotSet) /\ d.k \in Nat BY <1>1, <1>9 DEF DriverSet
<1>14. d' = [after EXCEPT !.sent = Append(d.sent, x), !.fault = "pin", !.at = d.k] BY <1>4, <1>7
<1>15. TurnedTo(d', time) /\ d'.sent = Append(d.sent, x) /\ d'.fault = "pin" /\ d'.at = d.k
  <2>1. after \in DriverSet BY <1>12 DEF TurnedTo
  <2>2. d'.sent = Append(d.sent, x) /\ d'.fault = "pin" /\ d'.at = d.k /\ Like(d', after)
    BY <1>13, <1>14, <2>1 DEF DriverSet, Like
  <2> QED BY <1>12, <2>2, TurnedLike
<1> QED BY <1>2, <1>8, <1>9, <1>15 DEF time, f

Same(e) == e \in DriverSet /\ e.len = d.len /\ e.rule = d.rule /\ e.run = d.run

LeavesOut(e) == e.sent = d.sent /\ TurnedTo(e, d.t - BankGap)

Replaces(e, other) ==
  /\ other \in Active /\ other # d.bank /\ BankGap >= Separator
  /\ e.sent = Append(d.sent, Even(d.k, other, d.t, d.rgb, d.len))
  /\ TurnedTo(e, d.t + LongestOf(other))

Repeats(e) ==
  /\ Same(e) /\ e.sent = Slots /\ e.bank = d.bank /\ e.k = d.k /\ e.rgb = d.rgb
  /\ e.t = d.t + LongestOf(d.bank) + Settle

Hurries(e) ==
  /\ Same(e) /\ e.sent = Slots /\ e.k = d.k /\ e.rgb = d.rgb
  /\ e.bank = NextBank(d.bank, Active) /\ e.bank < d.bank /\ e.t = d.t + LongestOf(d.bank) - 1

Loses(e) ==
  /\ Same(e) /\ e.sent = d.sent /\ d.bank = TopBank(d.len) /\ e.bank = d.bank /\ e.k = d.k + 1
  /\ e.t = d.t + Settle /\ e.rgb = IF d.rule = "cycle" THEN Successor(d.rgb) ELSE d.rgb

Shortens(e) ==
  /\ Active = {d.bank} /\ e.sent = Slots
  /\ \E gap \in Separator .. MinReset - 1 : TurnedTo(e, d.t + LongestOf(d.bank) - Settle + gap)

LEMMA StrayBankDoes ==
  ASSUME DriverTyped, Active # {}, RegularStream(Slots, d.len, d.rule), StrayBank
  PROVE  /\ Active # {d.bank} /\ d'.fault = "bank" /\ d'.at = d.k
         /\ LeavesOut(d') \/ (\E other \in Active : Replaces(d', other)) \/ Repeats(d') \/ Hurries(d')
<1>1. d \in DriverSet /\ d.bank \in Active /\ d.t \in Nat /\ d.bank \in 0 .. 2 /\ d.rgb \in Color /\ d.k \in Nat \ {0}
  BY DEF DriverTyped, DriverSet
<1>2. /\ Slots \in Seq(SlotSet) /\ Sends(d.bank, Uniform(d.bank)) = Slots BY SlotsAre, SendsPending
<1>3. LongestOf(d.bank) \in Nat /\ 1 <= LongestOf(d.bank) BY <1>1, LongestIs
<1>4. Active # {d.bank} BY Zenon DEF StrayBank
<1> DEFINE next == NextBank(d.bank, Active)
<1>5. /\ next \in Active /\ next \in 0 .. 2 /\ (~(next < d.bank) => next = TopBank(d.len)) /\ next # d.bank
  BY <1>1, <1>4, NextIs DEF TopBank, Active
<1>6. CASE \E after \in Proceeds(d.t - BankGap) : d' = [after EXCEPT !.fault = "bank", !.at = d.k]
  <2> DEFINE time == d.t - BankGap
  <2>1. PICK after \in Proceeds(time) : d' = [after EXCEPT !.fault = "bank", !.at = d.k] BY <1>6
  <2>2. time \in Int /\ time + BankGap >= 0 BY <1>1, Numbers
  <2>3. ~(next < d.bank) => time + Settle >= 0
    <3> SUFFICES ASSUME ~(next < d.bank) PROVE time + Settle >= 0 OBVIOUS
    <3>1. d.bank # TopBank(d.len) BY <1>5
    <3>2. Settle + BankGap < d.t BY <3>1, EndedBefore
    <3> QED BY <1>1, <3>2, Numbers
  <2> HIDE DEF time
  <2>4. TurnedTo(after, time) /\ after.sent = d.sent BY <2>2, <2>3, ProceedsIs
  <2>5. after \in DriverSet BY <2>4 DEF TurnedTo
  <2>6. Like(d', after) /\ d'.sent = after.sent /\ d'.fault = "bank" /\ d'.at = d.k
    BY <1>1, <2>1, <2>5 DEF DriverSet, Like
  <2>7. TurnedTo(d', time) BY <2>4, <2>6, TurnedLike
  <2>8. LeavesOut(d') BY <2>4, <2>6, <2>7 DEF LeavesOut, time
  <2> QED BY <1>4, <2>6, <2>8
<1>7. CASE \E other \in Active \ {d.bank} :
             /\ BankGap >= Separator
             /\ \E after \in Proceeds(d.t + LongestOf(other)) :
                  d' = [after EXCEPT !.sent = Sends(other, Uniform(other)), !.fault = "bank", !.at = d.k]
  <2>1. PICK other \in Active \ {d.bank} :
             /\ BankGap >= Separator
             /\ \E after \in Proceeds(d.t + LongestOf(other)) :
                  d' = [after EXCEPT !.sent = Sends(other, Uniform(other)), !.fault = "bank", !.at = d.k]
    BY <1>7
  <2> DEFINE time == d.t + LongestOf(other)
             x == Even(d.k, other, d.t, d.rgb, d.len)
  <2>2. PICK after \in Proceeds(time) :
          d' = [after EXCEPT !.sent = Sends(other, Uniform(other)), !.fault = "bank", !.at = d.k]
    BY <2>1
  <2>3. Sends(other, Uniform(other)) = Append(d.sent, x) BY DEF Sends, Uniform, Even
  <2>4. x \in SlotSet
    <3>1. d.len \in [Pin -> Nat] BY Layout
    <3>2. other \in 0 .. 2 BY ActiveAreBanks DEF Active
    <3>3. x = Even(d.k, other, d.t, d.rgb, d.len) OBVIOUS
    <3> HIDE DEF x
    <3> QED BY <1>1, <3>1, <3>2, <3>3, EvenIs
  <2>5. LongestOf(other) \in Nat BY LongestIs
  <2>6. time \in Int /\ time + BankGap >= 0 /\ time + Settle >= 0 BY <1>1, <2>5, Numbers
  <2> HIDE DEF time, x
  <2>7. TurnedTo(after, time) BY <2>6, ProceedsIs
  <2>8. after \in DriverSet BY <2>7 DEF TurnedTo
  <2>9. Append(d.sent, x) \in Seq(SlotSet) BY <1>1, <2>4 DEF DriverSet
  <2>10. Like(d', after) /\ d'.sent = Append(d.sent, x) /\ d'.fault = "bank" /\ d'.at = d.k
    BY <1>1, <2>2, <2>3, <2>8, <2>9 DEF DriverSet, Like
  <2>11. TurnedTo(d', time) BY <2>7, <2>10, TurnedLike
  <2>12. Replaces(d', other) BY <2>1, <2>10, <2>11 DEF Replaces, time, x
  <2> QED BY <1>4, <2>10, <2>12
<1>8. CASE d' = [d EXCEPT !.sent = Sends(d.bank, Uniform(d.bank)), !.t = @ + LongestOf(d.bank) + Settle,
                          !.fault = "bank", !.at = d.k]
  <2>1. d.t + LongestOf(d.bank) + Settle \in Nat BY <1>1, <1>3, Numbers
  <2>2. Repeats(d') /\ d'.fault = "bank" /\ d'.at = d.k BY <1>1, <1>2, <1>8, <2>1 DEF Repeats, Same, DriverSet
  <2> QED BY <1>4, <2>2
<1>9. CASE /\ next < d.bank
           /\ d' = [d EXCEPT !.sent = Sends(d.bank, Uniform(d.bank)), !.bank = NextBank(@, Active),
                             !.t = @ + LongestOf(d.bank) - 1, !.fault = "bank", !.at = d.k]
  <2>1. d.t + LongestOf(d.bank) - 1 \in Nat BY <1>1, <1>3
  <2>2. Hurries(d') /\ d'.fault = "bank" /\ d'.at = d.k
    BY <1>1, <1>2, <1>5, <1>9, <2>1 DEF Hurries, Same, DriverSet
  <2> QED BY <1>4, <2>2
<1>10. \/ \E after \in Proceeds(d.t - BankGap) : d' = [after EXCEPT !.fault = "bank", !.at = d.k]
       \/ \E other \in Active \ {d.bank} :
             /\ BankGap >= Separator
             /\ \E after \in Proceeds(d.t + LongestOf(other)) :
                  d' = [after EXCEPT !.sent = Sends(other, Uniform(other)), !.fault = "bank", !.at = d.k]
       \/ d' = [d EXCEPT !.sent = Sends(d.bank, Uniform(d.bank)), !.t = @ + LongestOf(d.bank) + Settle,
                          !.fault = "bank", !.at = d.k]
       \/ /\ next < d.bank
          /\ d' = [d EXCEPT !.sent = Sends(d.bank, Uniform(d.bank)), !.bank = NextBank(@, Active),
                            !.t = @ + LongestOf(d.bank) - 1, !.fault = "bank", !.at = d.k]
  BY Zenon DEF StrayBank
<1> QED BY <1>6, <1>7, <1>8, <1>9, <1>10

LEMMA StrayCommandDoes ==
  ASSUME DriverTyped, Active # {}, StrayCommand
  PROVE  /\ d'.at = d.k
         /\ \/ Loses(d') /\ d'.fault = "command"
            \/ Active = {d.bank} /\ Repeats(d') /\ d'.fault = "command"
            \/ Shortens(d') /\ d'.fault = "reset"
<1>1. d \in DriverSet /\ d.bank \in Active /\ d.t \in Nat /\ d.rgb \in Color /\ d.k \in Nat \ {0}
  BY DEF DriverTyped, DriverSet
<1>2. Slots \in Seq(SlotSet) /\ Sends(d.bank, Uniform(d.bank)) = Slots BY SlotsAre, SendsPending
<1>3. LongestOf(d.bank) \in Nat /\ 1 <= LongestOf(d.bank) BY <1>1, LongestIs
<1>4. CASE /\ d.bank = Max(Active)
           /\ \E rgb \in (IF d.rule = "cycle" THEN {Successor(d.rgb)} ELSE {d.rgb}) :
                d' = [d EXCEPT !.k = @ + 1, !.rgb = rgb, !.t = @ + Settle, !.fault = "command", !.at = d.k]
  <2> DEFINE rgb == IF d.rule = "cycle" THEN Successor(d.rgb) ELSE d.rgb
  <2>1. d' = [d EXCEPT !.k = @ + 1, !.rgb = rgb, !.t = @ + Settle, !.fault = "command", !.at = d.k]
    BY <1>4
  <2>2. rgb \in Color BY <1>1, SuccessorType
  <2>3. d.t + Settle \in Nat /\ d.k + 1 \in Nat \ {0} BY <1>1, Numbers
  <2>4. d.bank = TopBank(d.len) BY <1>4 DEF TopBank, Active
  <2> HIDE DEF rgb
  <2>5. Same(d') /\ d'.sent = d.sent /\ d'.bank = d.bank /\ d'.k = d.k + 1 /\ d'.t = d.t + Settle /\ d'.rgb = rgb
        /\ d'.fault = "command" /\ d'.at = d.k
    BY <1>1, <2>1, <2>2, <2>3 DEF Same, DriverSet
  <2>6. Loses(d') BY <2>4, <2>5 DEF Loses, rgb
  <2> QED BY <2>5, <2>6
<1>5. CASE /\ Active = {d.bank}
           /\ d' = [d EXCEPT !.sent = Sends(d.bank, Uniform(d.bank)), !.t = @ + LongestOf(d.bank) + Settle,
                             !.fault = "command", !.at = d.k]
  <2>1. d.t + LongestOf(d.bank) + Settle \in Nat BY <1>1, <1>3, Numbers
  <2>2. Repeats(d') /\ d'.fault = "command" /\ d'.at = d.k
    BY <1>1, <1>2, <1>5, <2>1 DEF Repeats, Same, DriverSet
  <2> QED BY <1>5, <2>2
<1>6. CASE /\ Active = {d.bank}
           /\ \E gap \in Separator .. MinReset - 1 :
              \E after \in Proceeds(d.t + LongestOf(d.bank) - Settle + gap) :
                d' = [after EXCEPT !.sent = Sends(d.bank, Uniform(d.bank)), !.fault = "reset", !.at = d.k]
  <2>1. PICK gap \in Separator .. MinReset - 1 :
          \E after \in Proceeds(d.t + LongestOf(d.bank) - Settle + gap) :
            d' = [after EXCEPT !.sent = Sends(d.bank, Uniform(d.bank)), !.fault = "reset", !.at = d.k]
    BY <1>6
  <2> DEFINE time == d.t + LongestOf(d.bank) - Settle + gap
  <2>2. PICK after \in Proceeds(time) :
          d' = [after EXCEPT !.sent = Sends(d.bank, Uniform(d.bank)), !.fault = "reset", !.at = d.k]
    BY <2>1
  <2>3. time \in Int /\ time + Settle >= 0 BY <1>1, <1>3, Numbers
  <2>4. ~(NextBank(d.bank, Active) < d.bank)
    <3>1. NextBank(d.bank, Active) = d.bank /\ d.bank \in 0 .. 2 BY <1>1, <1>6, NextIs DEF Active
    <3> QED BY <3>1
  <2> HIDE DEF time
  <2>5. TurnedTo(after, time) BY <2>3, <2>4, ProceedsIs
  <2>6. after \in DriverSet BY <2>5 DEF TurnedTo
  <2>7. Like(d', after) /\ d'.sent = Slots /\ d'.fault = "reset" /\ d'.at = d.k
    BY <1>1, <1>2, <2>2, <2>6 DEF DriverSet, Like
  <2>8. TurnedTo(d', time) BY <2>5, <2>7, TurnedLike
  <2>9. Shortens(d') BY <1>6, <2>7, <2>8 DEF Shortens, time
  <2> QED BY <2>7, <2>9
<1> QED BY <1>4, <1>5, <1>6, Zenon DEF StrayCommand

-----------------------------------------------------------------------------
(* The stream stays in order then, too.                                    *)

LEMMA TypedSame ==
  ASSUME DriverTyped, Active # {}, Same(d'), d'.bank \in Active, Settle <= d'.t,
         d.rule = "fixed" => d'.rgb = d.rgb,
         d'.sent = d.sent \/ \E x \in SlotSet : Own(x, d.len) /\ d'.sent = Append(d.sent, x)
  PROVE  DriverTyped' /\ Active' = Active /\ Active' # {}
<1>1. d' \in DriverSet /\ d'.len = d.len /\ d'.rule = d.rule BY DEF Same
<1>2. Active' = Active BY <1>1 DEF Active
<1>3. d'.rule = "fixed" => d'.rgb = "red" BY <1>1 DEF DriverTyped
<1>4. \A s \in 1 .. Len(d'.sent) : Own(d'.sent[s], d.len)
  <2>1. d.sent \in Seq(SlotSet) /\ \A s \in 1 .. Len(d.sent) : Own(d.sent[s], d.len)
    BY DEF DriverTyped, DriverSet
  <2>2. CASE d'.sent = d.sent BY <2>1, <2>2
  <2>3. ASSUME NEW x \in SlotSet, Own(x, d.len), d'.sent = Append(d.sent, x)
        PROVE  \A s \in 1 .. Len(d'.sent) : Own(d'.sent[s], d.len)
    BY <2>1, <2>3, AppendIs
  <2> QED BY <2>2, <2>3
<1> QED BY <1>1, <1>2, <1>3, <1>4 DEF DriverTyped

LEMMA TurnedIsSame ==
  ASSUME DriverTyped, Active # {}, NEW time, TurnedTo(d', time)
  PROVE  /\ Same(d') /\ d'.bank \in Active /\ d'.bank \in 0 .. 2 /\ d'.t \in Nat
         /\ d.rule = "fixed" => d'.rgb = d.rgb
<1>1. d.bank \in Active BY DEF DriverTyped
<1>2. NextBank(d.bank, Active) \in Active /\ NextBank(d.bank, Active) \in 0 .. 2 BY <1>1, NextIs DEF Active
<1> QED BY <1>2 DEF TurnedTo, Same, DriverSet

\* The bank that is due, and that it may be sent.
LEMMA PendingEnds ==
  ASSUME DriverTyped, Active # {}
  PROVE  /\ Pending \in SlotSet /\ Own(Pending, d.len) /\ Slots = Append(d.sent, Pending)
         /\ Pending.bank = d.bank /\ Pending.k = d.k /\ d.bank \in Active /\ d.bank \in 0 .. 2
         /\ d.t \in Nat /\ Settle <= d.t /\ LongestOf(d.bank) \in Nat /\ 1 <= LongestOf(d.bank)
         /\ \A p \in Pin : Pending.burst[p].at <= d.t /\ Pending.burst[p].to <= d.t + LongestOf(d.bank)
         /\ InOrder(Slots) => \A s \in 1 .. Len(d.sent) : Follows(d.sent[s], Pending)
<1>1. d.bank \in Active /\ d.t \in Nat /\ Settle <= d.t /\ d.bank \in 0 .. 2 BY DEF DriverTyped, DriverSet
<1>2. LongestOf(d.bank) \in Nat /\ 1 <= LongestOf(d.bank) BY <1>1, LongestIs
<1>3. /\ Pending \in SlotSet /\ Pending.bank = d.bank /\ Pending.k = d.k
      /\ \A p \in Pin : Pending.burst[p].at = d.t
      /\ \A p \in Pin : Pending.burst[p].to <= d.t + LongestOf(d.bank)
  BY PendingIs
<1>4. /\ Len(d.sent) \in Nat /\ Len(Slots) = Len(d.sent) + 1 /\ Slots[Len(d.sent) + 1] = Pending
      /\ \A s \in 1 .. Len(d.sent) : Slots[s] = d.sent[s]
      /\ \A s \in 1 .. Len(Slots) : Own(Slots[s], d.len)
  BY SlotsAre
<1>5. Own(Pending, d.len)
  <2>1. Len(d.sent) + 1 \in 1 .. Len(Slots) BY <1>4
  <2> QED BY <1>4, <2>1
<1>6. InOrder(Slots) => \A s \in 1 .. Len(d.sent) : Follows(d.sent[s], Pending)
  <2> SUFFICES ASSUME InOrder(Slots), NEW s \in 1 .. Len(d.sent) PROVE Follows(d.sent[s], Pending) OBVIOUS
  <2>1. s \in 1 .. Len(Slots) /\ Len(d.sent) + 1 \in 1 .. Len(Slots) /\ s < Len(d.sent) + 1 BY <1>4
  <2> QED BY <1>4, <2>1 DEF InOrder
<1>7. \A p \in Pin : Pending.burst[p].at <= d.t BY <1>1, <1>3
<1> QED BY <1>1, <1>2, <1>3, <1>5, <1>6, <1>7 DEF Slots

\* The bank that is due is sent, and another is due after its end.
LEMMA OrderedAfterPending ==
  ASSUME DriverTyped, Active # {}, InOrder(Slots), DriverTyped', Active' # {}, d'.sent = Slots,
         (d'.bank <= d.bank /\ d.t <= d'.t) \/ d.t + 1 + Separator <= d'.t,
         d.t < d'.t \/ (d.t <= d'.t /\ d.bank > d'.bank),
         d.t + LongestOf(d.bank) <= d'.t + 1,
         d.bank <= d'.bank => d.t + LongestOf(d.bank) + Separator <= d'.t
  PROVE  InOrder(Slots')
<1> DEFINE v == d.t + LongestOf(d.bank)
<1>1. /\ Pending \in SlotSet /\ Slots = Append(d.sent, Pending) /\ Pending.bank = d.bank
      /\ d.t \in Nat /\ LongestOf(d.bank) \in Nat
      /\ \A p \in Pin : Pending.burst[p].at <= d.t /\ Pending.burst[p].to <= v
      /\ \A s \in 1 .. Len(d.sent) : Follows(d.sent[s], Pending)
  BY PendingEnds
<1>2. v \in Nat /\ v <= d'.t + 1 /\ (d.bank <= d'.bank => v + Separator <= d'.t) BY <1>1
<1> HIDE DEF v
<1>3. d'.sent = Append(d.sent, Pending) BY <1>1
<1>4. \A p \in Pin : IsHigh(Pending.burst[p]) => Pending.burst[p].at <= d.t /\ Pending.burst[p].to <= v BY <1>1
<1>5. d.t < d'.t \/ (d.t <= d'.t /\ Pending.bank > d'.bank) BY <1>1
<1>6. Pending.bank <= d'.bank => v + Separator <= d'.t BY <1>1, <1>2
<1> QED BY <1>1, <1>2, <1>3, <1>4, <1>5, <1>6, OrderedOn

StreamKeeps == DriverTyped' /\ Active' = Active /\ Active' # {} /\ InOrder(Slots')

LEMMA RepeatsKeeps ==
  ASSUME DriverTyped, Active # {}, InOrder(Slots), Repeats(d')
  PROVE  StreamKeeps
<1>1. /\ Pending \in SlotSet /\ Own(Pending, d.len) /\ Slots = Append(d.sent, Pending)
      /\ d.bank \in Active /\ d.bank \in 0 .. 2
      /\ d.t \in Nat /\ Settle <= d.t /\ LongestOf(d.bank) \in Nat /\ 1 <= LongestOf(d.bank)
  BY PendingEnds
<1>2. Same(d') /\ d'.bank = d.bank /\ d'.rgb = d.rgb /\ d'.sent = Slots /\ d'.t = d.t + LongestOf(d.bank) + Settle
  BY DEF Repeats
<1>3. DriverTyped' /\ Active' = Active /\ Active' # {} BY <1>1, <1>2, TypedSame, Numbers
<1>4. /\ d'.bank <= d.bank /\ d.t <= d'.t /\ d.t < d'.t /\ d.t + LongestOf(d.bank) <= d'.t + 1
      /\ d.t + LongestOf(d.bank) + Separator <= d'.t
  BY <1>1, <1>2, Numbers
<1> QED BY <1>2, <1>3, <1>4, OrderedAfterPending DEF StreamKeeps

LEMMA HurriesKeeps ==
  ASSUME DriverTyped, Active # {}, InOrder(Slots), Hurries(d')
  PROVE  StreamKeeps
<1>1. /\ Pending \in SlotSet /\ Own(Pending, d.len) /\ Slots = Append(d.sent, Pending)
      /\ d.bank \in Active /\ d.bank \in 0 .. 2
      /\ d.t \in Nat /\ Settle <= d.t /\ LongestOf(d.bank) \in Nat /\ 1 <= LongestOf(d.bank)
  BY PendingEnds
<1>2. /\ Same(d') /\ d'.bank = NextBank(d.bank, Active) /\ d'.bank < d.bank /\ d'.rgb = d.rgb /\ d'.sent = Slots
      /\ d'.t = d.t + LongestOf(d.bank) - 1
  BY DEF Hurries
<1>3. d'.bank \in Active /\ d'.bank \in 0 .. 2 BY <1>1, <1>2, NextIs DEF Active
<1>4. DriverTyped' /\ Active' = Active /\ Active' # {} BY <1>1, <1>2, <1>3, TypedSame, Numbers
<1>5. /\ d'.bank <= d.bank /\ d.t <= d'.t /\ d.bank > d'.bank /\ d.t + LongestOf(d.bank) <= d'.t + 1
      /\ ~(d.bank <= d'.bank)
  BY <1>1, <1>2, <1>3, Numbers
<1> QED BY <1>2, <1>4, <1>5, OrderedAfterPending DEF StreamKeeps

LEMMA ShortensKeeps ==
  ASSUME DriverTyped, Active # {}, InOrder(Slots), Shortens(d')
  PROVE  /\ StreamKeeps /\ d'.bank = d.bank /\ d'.k = d.k + 1
         /\ \E gap \in Separator .. MinReset - 1 : d'.t = d.t + LongestOf(d.bank) + gap
<1>1. /\ Pending \in SlotSet /\ Own(Pending, d.len) /\ Slots = Append(d.sent, Pending)
      /\ d.bank \in Active /\ d.bank \in 0 .. 2
      /\ d.t \in Nat /\ Settle <= d.t /\ LongestOf(d.bank) \in Nat /\ 1 <= LongestOf(d.bank)
  BY PendingEnds
<1>2. PICK gap \in Separator .. MinReset - 1 : TurnedTo(d', d.t + LongestOf(d.bank) - Settle + gap)
  BY DEF Shortens
<1>3. Active = {d.bank} /\ d'.sent = Slots BY DEF Shortens
<1>4. /\ Same(d') /\ d'.bank \in Active /\ d'.bank \in 0 .. 2 /\ d'.t \in Nat
      /\ d.rule = "fixed" => d'.rgb = d.rgb
  BY <1>2, TurnedIsSame
<1>5. d'.bank = d.bank BY <1>3, <1>4
<1>6. d'.k = d.k + 1 /\ d'.t = d.t + LongestOf(d.bank) + gap
  <2>1. ~(d'.bank < d.bank) BY <1>4, <1>5
  <2>2. d'.k = d.k + 1 /\ d'.t = d.t + LongestOf(d.bank) - Settle + gap + Settle BY <1>2, <2>1 DEF TurnedTo
  <2> QED BY <1>1, <2>2, Numbers
<1>7. Settle <= d'.t BY <1>1, <1>6, Numbers
<1>8. DriverTyped' /\ Active' = Active /\ Active' # {} BY <1>1, <1>3, <1>4, <1>7, TypedSame
<1>9. /\ d'.bank <= d.bank /\ d.t <= d'.t /\ d.t < d'.t /\ d.t + LongestOf(d.bank) <= d'.t + 1
      /\ d.t + LongestOf(d.bank) + Separator <= d'.t
  BY <1>1, <1>4, <1>5, <1>6, Numbers
<1> QED BY <1>3, <1>5, <1>6, <1>8, <1>9, OrderedAfterPending DEF StreamKeeps

LEMMA LosesKeeps ==
  ASSUME DriverTyped, Active # {}, InOrder(Slots), Loses(d')
  PROVE  StreamKeeps
<1>1. d.bank \in Active /\ d.bank \in 0 .. 2 /\ d.t \in Nat /\ Settle <= d.t BY PendingEnds
<1>2. Same(d') /\ d'.sent = d.sent /\ d'.bank = d.bank /\ d'.t = d.t + Settle BY DEF Loses
<1>3. d.rule = "fixed" => d'.rgb = d.rgb BY DEF Loses
<1>4. DriverTyped' /\ Active' = Active /\ Active' # {} BY <1>1, <1>2, <1>3, TypedSame, Numbers
<1>5. /\ Pending' \in SlotSet /\ Pending'.bank = d'.bank /\ d'.t \in Nat
      /\ \A p \in Pin : IsHigh(Pending'.burst[p]) => d'.t <= Pending'.burst[p].at
  BY <1>4, PendingOn
<1>6. Pending'.bank <= d.bank /\ d.t <= d'.t BY <1>1, <1>2, <1>5, Numbers
<1>7. \A s \in 1 .. Len(d.sent) : Follows(d.sent[s], Pending') BY <1>5, <1>6, StillFollows
<1> QED BY <1>2, <1>4, <1>7, OrderedWithout DEF StreamKeeps

LEMMA LeavesOutKeeps ==
  ASSUME DriverTyped, Active # {}, Active # {d.bank}, InOrder(Slots), RegularStream(Slots, d.len, d.rule),
         LeavesOut(d')
  PROVE  StreamKeeps
<1>1. d.bank \in Active /\ d.bank \in 0 .. 2 /\ d.t \in Nat /\ Settle <= d.t BY PendingEnds
<1>2. TurnedTo(d', d.t - BankGap) /\ d'.sent = d.sent BY DEF LeavesOut
<1>3. /\ Same(d') /\ d'.bank \in Active /\ d'.bank \in 0 .. 2 /\ d'.t \in Nat
      /\ d.rule = "fixed" => d'.rgb = d.rgb
  BY <1>2, TurnedIsSame
<1>4. d'.bank = NextBank(d.bank, Active) /\ d'.bank # d.bank BY <1>1, <1>2, NextIs DEF TurnedTo, Active
<1>5. CASE d'.bank < d.bank
  <2>1. d'.t = d.t BY <1>1, <1>2, <1>5, Numbers DEF TurnedTo
  <2>2. DriverTyped' /\ Active' = Active /\ Active' # {} BY <1>1, <1>2, <1>3, <2>1, TypedSame
  <2>3. /\ Pending' \in SlotSet /\ Pending'.bank = d'.bank
        /\ \A p \in Pin : IsHigh(Pending'.burst[p]) => d'.t <= Pending'.burst[p].at
    BY <2>2, PendingOn
  <2>4. Pending'.bank <= d.bank /\ d.t <= d'.t BY <1>1, <1>3, <1>5, <2>1, <2>3
  <2>5. \A s \in 1 .. Len(d.sent) : Follows(d.sent[s], Pending') BY <1>3, <2>3, <2>4, StillFollows
  <2> QED BY <1>2, <2>2, <2>5, OrderedWithout DEF StreamKeeps
<1>6. CASE ~(d'.bank < d.bank)
  <2>1. d'.t = d.t - BankGap + Settle BY <1>2, <1>6 DEF TurnedTo
  <2>2. d.bank # TopBank(d.len)
    <3>1. d'.bank = TopBank(d.len) BY <1>1, <1>4, <1>6, NextIs DEF TopBank, Active
    <3> QED BY <1>4, <3>1
  <2>3. /\ Settle + BankGap < d.t
        /\ \A s \in 1 .. Len(d.sent) :
             /\ d.sent[s] \in SlotSet
             /\ \A p \in Pin : /\ d.sent[s].burst[p].at < d.t - BankGap
                               /\ d.sent[s].burst[p].to <= d.t - BankGap
    BY <2>2, EndedBefore
  <2>4. Settle <= d'.t BY <1>1, <2>1, <2>3, Numbers
  <2>5. DriverTyped' /\ Active' = Active /\ Active' # {} BY <1>2, <1>3, <2>4, TypedSame
  <2>6. /\ Pending' \in SlotSet /\ Pending'.bank = d'.bank
        /\ \A p \in Pin : IsHigh(Pending'.burst[p]) => d'.t <= Pending'.burst[p].at
    BY <2>5, PendingOn
  <2> DEFINE u == d.t - BankGap
  <2>7. u \in Nat /\ d'.t = u + Settle BY <1>1, <2>1, <2>3, Numbers
  <2>8. ASSUME NEW s \in 1 .. Len(d.sent) PROVE Follows(d.sent[s], Pending')
    <3>1. /\ d.sent[s] \in SlotSet
          /\ \A p \in Pin : d.sent[s].burst[p].at < u /\ d.sent[s].burst[p].to <= u
      BY <2>3
    <3>2. \A p \in Pin : d.sent[s].burst[p].at \in Nat BY <3>1, HighTimes
    <3> HIDE DEF u
    <3>3. \A p \in Pin : IsHigh(d.sent[s].burst[p]) => d.sent[s].burst[p].at <= u /\ d.sent[s].burst[p].to <= u
      BY <2>7, <3>1, <3>2
    <3>4. u < d'.t /\ u <= d'.t + 1 /\ u + Separator <= d'.t BY <2>7, Numbers
    <3> QED BY <1>3, <2>6, <2>7, <3>1, <3>3, <3>4, FollowsEnd
  <2> QED BY <1>2, <2>5, <2>8, OrderedWithout DEF StreamKeeps
<1> QED BY <1>5, <1>6

LEMMA ReplacesKeeps ==
  ASSUME DriverTyped, Active # {}, InOrder(Slots), RegularStream(Slots, d.len, d.rule),
         NEW other \in Active, Replaces(d', other),
         NEW x, x = Even(d.k, other, d.t, d.rgb, d.len)
  PROVE  StreamKeeps /\ x \in SlotSet /\ x.bank = other /\ x.k = d.k
<1>1. d.bank \in Active /\ d.bank \in 0 .. 2 /\ d.t \in Nat /\ Settle <= d.t BY PendingEnds
<1>2. /\ TurnedTo(d', d.t + LongestOf(other)) /\ d'.sent = Append(d.sent, x)
      /\ other # d.bank /\ BankGap >= Separator
  BY DEF Replaces
<1>3. /\ Same(d') /\ d'.bank \in Active /\ d'.bank \in 0 .. 2 /\ d'.t \in Nat
      /\ d.rule = "fixed" => d'.rgb = d.rgb
  BY <1>2, TurnedIsSame
<1>4. /\ d'.bank = NextBank(d.bank, Active)
      /\ d'.t = d.t + LongestOf(other) + (IF d'.bank < d.bank THEN BankGap ELSE Settle)
  BY <1>2 DEF TurnedTo
<1>5. LongestOf(other) \in Nat /\ 1 <= LongestOf(other) /\ LongestOf(other) = Longest(other, d.len)
  BY LongestIs
<1>6. other \in 0 .. 2 /\ other \in ActiveBanks(d.len) BY ActiveAreBanks DEF Active
<1>7. d.len \in [Pin -> Nat] /\ d.k \in Nat \ {0} /\ d.rgb \in Color BY Layout DEF DriverTyped, DriverSet
<1>8. x \in SlotSet /\ x.bank = other /\ x.k = d.k BY <1>1, <1>6, <1>7, EvenIs
<1> DEFINE v == d.t + LongestOf(other)
<1>9. ASSUME NEW p \in Pin
      PROVE  /\ x.burst[p].at = d.t /\ x.burst[p].to <= v /\ d.t <= x.burst[p].to
             /\ IsHigh(x.burst[p]) => p \in Members(other, d.len)
  <2>1. x.burst[p].at = d.t BY EvenFields
  <2>2. /\ IsHigh(Even(d.k, other, d.t, d.rgb, d.len).burst[p]) <=> p \in Members(other, d.len)
        /\ d.t <= Even(d.k, other, d.t, d.rgb, d.len).burst[p].to
    BY <1>1, <1>7, EvenHigh
  <2>3. Even(d.k, other, d.t, d.rgb, d.len).burst[p].to <= d.t + Longest(other, d.len)
    BY <1>1, <1>6, <1>7, EvenEnd
  <2> QED BY <1>5, <2>1, <2>2, <2>3
<1>10. Own(x, d.len) BY <1>1, <1>6, <1>8, <1>9 DEF Own
<1>11. Settle <= d'.t BY <1>1, <1>4, <1>5, Numbers
<1>12. DriverTyped' /\ Active' = Active /\ Active' # {} BY <1>2, <1>3, <1>8, <1>10, <1>11, TypedSame
<1>13. ASSUME NEW s \in 1 .. Len(d.sent) PROVE Follows(d.sent[s], x)
  <2>1. \A p \in Pin : IsHigh(x.burst[p]) => d.t <= x.burst[p].at BY <1>1, <1>9
  <2>2. CASE other < d.bank
    <3>1. x.bank <= d.bank /\ d.t <= d.t BY <1>1, <1>6, <1>8, <2>2
    <3> QED BY <1>1, <1>8, <2>1, <3>1, StillFollows
  <2>3. CASE ~(other < d.bank)
    <3>1. d.bank # TopBank(d.len)
      <4>1. other <= TopBank(d.len) /\ TopBank(d.len) \in 0 .. 2 BY <1>6, TopBankIs
      <4> QED BY <1>1, <1>2, <1>6, <2>3, <4>1
    <3>2. /\ Settle + BankGap < d.t /\ d.sent[s] \in SlotSet
          /\ \A p \in Pin : d.sent[s].burst[p].at < d.t - BankGap /\ d.sent[s].burst[p].to <= d.t - BankGap
      BY <3>1, EndedBefore
    <3>3. \A p \in Pin : d.sent[s].burst[p].at \in Nat BY <3>2, HighTimes
    <3> DEFINE u == d.t - BankGap
    <3>4. u \in Nat /\ u + Separator <= d.t /\ u < d.t /\ u <= d.t + 1
      BY <1>1, <1>2, <3>2, Numbers, SMTT(30)
    <3>5. \A p \in Pin : d.sent[s].burst[p].at < u /\ d.sent[s].burst[p].to <= u BY <3>2
    <3> HIDE DEF u
    <3>6. \A p \in Pin : IsHigh(d.sent[s].burst[p]) => d.sent[s].burst[p].at <= u /\ d.sent[s].burst[p].to <= u
      BY <3>3, <3>4, <3>5
    <3> QED BY <1>1, <1>8, <2>1, <3>2, <3>4, <3>6, FollowsEnd
  <2> QED BY <2>2, <2>3
<1>14. v \in Nat /\ d.t < d'.t /\ v <= d'.t + 1 BY <1>1, <1>4, <1>5, Numbers
<1>15. x.bank <= d'.bank => v + Separator <= d'.t BY <1>1, <1>2, <1>4, <1>5, Numbers
<1>16. (d'.bank <= d.bank /\ d.t <= d'.t) \/ d.t + 1 + Separator <= d'.t
  BY <1>1, <1>3, <1>4, <1>5, Numbers
<1>17. \A p \in Pin : IsHigh(x.burst[p]) => x.burst[p].at <= d.t /\ x.burst[p].to <= v BY <1>1, <1>9
<1> HIDE DEF v
<1>18. InOrder(Slots')
  BY <1>1, <1>2, <1>8, <1>12, <1>13, <1>14, <1>15, <1>16, <1>17, OrderedOn
<1> QED BY <1>8, <1>12, <1>18 DEF StreamKeeps

LEMMA StrayPinKeeps ==
  ASSUME DriverTyped, Active # {}, InOrder(Slots), NEW p \in Members(d.bank, d.len), NEW x \in SlotSet,
         x.k = d.k, x.bank = d.bank, d'.sent = Append(d.sent, x), x.burst[p] \in StrayBursts(d.bank, p),
         \A r \in Pin : r # p => x.burst[r] = Pending.burst[r],
         TurnedTo(d', d.t + LongestOf(d.bank) + 1)
  PROVE  StreamKeeps
<1>1. /\ Own(Pending, d.len) /\ d.bank \in Active /\ d.bank \in 0 .. 2 /\ d.t \in Nat /\ Settle <= d.t
      /\ LongestOf(d.bank) \in Nat /\ 1 <= LongestOf(d.bank)
  BY PendingEnds
<1>2. /\ Same(d') /\ d'.bank \in Active /\ d'.bank \in 0 .. 2 /\ d'.t \in Nat
      /\ d.rule = "fixed" => d'.rgb = d.rgb
  BY TurnedIsSame
<1>3. d'.t = d.t + LongestOf(d.bank) + 1 + (IF d'.bank < d.bank THEN BankGap ELSE Settle) BY DEF TurnedTo
<1>4. p \in Pin /\ d.len[p] \in Nat /\ d.len[p] <= LongestOf(d.bank)
  BY <1>1, LongestIs DEF Members
<1> DEFINE v == d.t + LongestOf(d.bank) + 1
<1>5. /\ d.t <= x.burst[p].at /\ x.burst[p].at <= d.t + 1 /\ x.burst[p].at <= x.burst[p].to
      /\ x.burst[p].to <= d.t + d.len[p] + 1
  BY <1>1, StrayBurstIs
<1>6. ASSUME NEW r \in Pin
      PROVE  /\ d.t <= x.burst[r].at /\ x.burst[r].at <= d.t + 1 /\ x.burst[r].at <= x.burst[r].to
             /\ x.burst[r].to <= v /\ (IsHigh(x.burst[r]) => r \in Members(d.bank, d.len))
  <2>1. CASE r = p
    <3>1. x.burst[p].at \in Nat /\ x.burst[p].to \in Nat BY <1>4, HighTimes
    <3> QED BY <1>1, <1>4, <1>5, <2>1, <3>1
  <2>2. CASE r # p
    <3>1. x.burst[r] = Pending.burst[r] BY <2>2
    <3>2. /\ Pending.bank = d.bank /\ Pending.burst[r].at = d.t
          /\ Pending.burst[r].to <= d.t + LongestOf(d.bank)
      BY PendingIs
    <3>3. /\ Pending.burst[r].at <= Pending.burst[r].to
          /\ IsHigh(Pending.burst[r]) => r \in Members(d.bank, d.len)
      BY <1>1, <3>2 DEF Own
    <3>4. x.burst[r].to \in Nat BY HighTimes
    <3> QED BY <1>1, <3>1, <3>2, <3>3, <3>4
  <2> QED BY <2>1, <2>2
<1>7. \A r \in Pin : x.burst[r].at \in Nat /\ x.burst[r].to \in Nat BY HighTimes
<1>8. Own(x, d.len)
  <2>1. \A r \in Pin : Settle <= x.burst[r].at BY <1>1, <1>6, <1>7, Numbers
  <2> QED BY <1>1, <1>6, <2>1 DEF Own, Active
<1>9. Settle <= d'.t BY <1>1, <1>3, Numbers
<1>10. DriverTyped' /\ Active' = Active /\ Active' # {} BY <1>2, <1>8, <1>9, TypedSame
<1>11. ASSUME NEW s \in 1 .. Len(d.sent) PROVE Follows(d.sent[s], x)
  <2>1. \A r \in Pin : IsHigh(x.burst[r]) => d.t <= x.burst[r].at BY <1>6
  <2>2. x.bank <= d.bank /\ d.t <= d.t BY <1>1
  <2> QED BY <1>1, <2>1, <2>2, StillFollows
<1>12. v \in Nat /\ d.t + 1 \in Nat /\ d.t + 1 < d'.t /\ v <= d'.t + 1 BY <1>1, <1>3, Numbers, SMTT(30)
<1>13. x.bank <= d'.bank => v + Separator <= d'.t BY <1>1, <1>2, <1>3, Numbers, SMTT(30)
<1>14. (d'.bank <= d.bank /\ d.t <= d'.t) \/ d.t + 1 + Separator <= d'.t
  BY <1>1, <1>2, <1>3, Numbers, SMTT(30)
<1>15. \A r \in Pin : IsHigh(x.burst[r]) => x.burst[r].at <= d.t + 1 /\ x.burst[r].to <= v BY <1>6
<1> HIDE DEF v
<1>16. InOrder(Slots') BY <1>10, <1>11, <1>12, <1>13, <1>14, <1>15, OrderedOn
<1> QED BY <1>10, <1>16 DEF StreamKeeps

-----------------------------------------------------------------------------
(* What is left of it on the wires.                                        *)

Allowed(rule) == IF rule = "fixed" THEN {"red"} ELSE Color

\* The burst of the bank's anchor.
First(x, len) == x.burst[Anchor(x.bank, len)]

Exact(b, length, rule) == IsHigh(b) /\ b.to = b.at + length /\ b.rgb \in Allowed(rule)

\* A burst of another length, or of a colour that is not allowed.
Odd(x, len, rule) ==
  \E p \in Pin : IsHigh(x.burst[p]) /\ (x.burst[p].to # x.burst[p].at + len[p] \/ x.burst[p].rgb \notin Allowed(rule))

Apart(b, e) == ~(IsHigh(b) <=> IsHigh(e)) \/ (IsHigh(b) /\ b.at # e.at)

\* A pin that does not start with its anchor, and one that starts with it in another colour.
Unaligned(x, len) == \E p \in Members(x.bank, len) : Apart(First(x, len), x.burst[p])

Discord(x, len, rule) ==
  \E p \in Members(x.bank, len) :
    /\ Exact(x.burst[p], len[p], rule) /\ Exact(First(x, len), len[Anchor(x.bank, len)], rule)
    /\ x.burst[p].at = First(x, len).at /\ x.burst[p].rgb # First(x, len).rgb

SlotMark(x, len, rule) == Odd(x, len, rule) \/ Unaligned(x, len) \/ (rule # "fixed" /\ Discord(x, len, rule))

PairHigh(x, y, len) == IsHigh(First(x, len)) /\ IsHigh(First(y, len))
Overlapping(x, y, len) == PairHigh(x, y, len) /\ y.bank < x.bank /\ First(y, len).at < First(x, len).to
Hasty(x, y, len) ==
  PairHigh(x, y, len) /\ y.bank = x.bank /\ First(y, len).at - First(x, len).to \in Separator .. MinReset - 1
Disorder(x, y, len) == PairHigh(x, y, len) /\ y.bank # NextBank(x.bank, ActiveBanks(len))
Clash(x, y, len, rule) ==
  /\ y.bank < x.bank /\ First(x, len).rgb # First(y, len).rgb
  /\ Exact(First(x, len), len[Anchor(x.bank, len)], rule)
  /\ Exact(First(y, len), len[Anchor(y.bank, len)], rule)

\* Two colours of a pin that are not neighbours in the cycle, with nothing between.
Unsequenced(q, s, r, len) ==
  \E p \in Pin :
    /\ Exact(q[s].burst[p], len[p], "cycle") /\ Exact(q[r].burst[p], len[p], "cycle")
    /\ q[r].burst[p].rgb # Successor(q[s].burst[p].rgb)
    /\ \A i \in s + 1 .. r - 1 : ~IsHigh(q[i].burst[p])

Near(x, at) == x.k \in at - 1 .. at + 1

\* What shows in every capture of it, and what shows next to the commands before and after.
Marks(q, at, len, rule) ==
  \/ \E s \in 1 .. Len(q) : q[s].k = at /\ SlotMark(q[s], len, rule)
  \/ \E s, r \in 1 .. Len(q) : r = s + 1 /\ q[s].k = at /\ q[r].k = at /\ Overlapping(q[s], q[r], len)
  \/ \E s, r \in 1 .. Len(q) : r = s + 1 /\ q[s].k = at /\ q[r].k = at + 1 /\ Hasty(q[s], q[r], len)

Traces(q, at, len, rule) ==
  \/ \E s, r \in 1 .. Len(q) : /\ r = s + 1 /\ Near(q[s], at) /\ Near(q[r], at)
                               /\ Disorder(q[s], q[r], len) \/ Clash(q[s], q[r], len, rule)
  \/ /\ rule = "cycle"
     /\ \E s, r \in 1 .. Len(q) : s < r /\ Near(q[s], at) /\ Near(q[r], at) /\ Unsequenced(q, s, r, len)

\* The bursts a pin has had, and those it should have had.
Bursts(q, p) == Cardinality(DOMAIN WireOf(q, p))
Due(k, bank, p) == k - 1 + (IF BANKS[p] > bank THEN 1 ELSE 0)

Counted == \A p \in Pin : d.len[p] > 0 => Bursts(d.sent, p) = Due(d.k, d.bank, p)
Miscounted == \E p \in Pin : d.len[p] > 0 /\ Bursts(d.sent, p) # Due(d.k, d.bank, p)

Excused == d.fault = "command" /\ d.rule # "cycle"

Marked ==
  d.fault # "none" =>
    \/ Marks(Slots, d.at, d.len, d.rule)
    \/ /\ 1 < d.at => Excused \/ Traces(Slots, d.at, d.len, d.rule)
       /\ d.rule = "fixed" => Miscounted

StreamCounted == d.fault = "none" /\ Active # {} => Counted

LEMMA MarksStay ==
  ASSUME NEW q \in Seq(SlotSet), NEW x \in SlotSet, NEW at, NEW len, NEW rule, Marks(q, at, len, rule)
  PROVE  Marks(Append(q, x), at, len, rule)
<1> DEFINE a == Append(q, x)
<1>1. \A s \in 1 .. Len(q) : a[s] = q[s] /\ s \in 1 .. Len(a) BY AppendIs
<1> HIDE DEF a
<1>2. CASE \E s \in 1 .. Len(q) : q[s].k = at /\ SlotMark(q[s], len, rule)
  BY <1>1, <1>2 DEF Marks, a
<1>3. CASE \E s, r \in 1 .. Len(q) : r = s + 1 /\ q[s].k = at /\ q[r].k = at /\ Overlapping(q[s], q[r], len)
  <2>1. PICK s, r \in 1 .. Len(q) : r = s + 1 /\ q[s].k = at /\ q[r].k = at /\ Overlapping(q[s], q[r], len)
    BY <1>3
  <2>2. /\ s \in 1 .. Len(a) /\ r \in 1 .. Len(a) /\ r = s + 1 /\ a[s].k = at /\ a[r].k = at
        /\ Overlapping(a[s], a[r], len)
    BY <1>1, <2>1
  <2> QED BY <2>2, Zenon DEF Marks, a
<1>4. CASE \E s, r \in 1 .. Len(q) : r = s + 1 /\ q[s].k = at /\ q[r].k = at + 1 /\ Hasty(q[s], q[r], len)
  <2>1. PICK s, r \in 1 .. Len(q) : r = s + 1 /\ q[s].k = at /\ q[r].k = at + 1 /\ Hasty(q[s], q[r], len)
    BY <1>4
  <2>2. /\ s \in 1 .. Len(a) /\ r \in 1 .. Len(a) /\ r = s + 1 /\ a[s].k = at /\ a[r].k = at + 1
        /\ Hasty(a[s], a[r], len)
    BY <1>1, <2>1
  <2> QED BY <2>2, Zenon DEF Marks, a
<1> QED BY <1>2, <1>3, <1>4 DEF Marks

LEMMA TracesStay ==
  ASSUME NEW q \in Seq(SlotSet), NEW x \in SlotSet, NEW at, NEW len, NEW rule, Traces(q, at, len, rule)
  PROVE  Traces(Append(q, x), at, len, rule)
<1> DEFINE a == Append(q, x)
<1>1. (\A s \in 1 .. Len(q) : a[s] = q[s] /\ s \in 1 .. Len(a)) /\ Len(q) \in Nat BY AppendIs
<1> HIDE DEF a
<1>2. CASE \E s, r \in 1 .. Len(q) : /\ r = s + 1 /\ Near(q[s], at) /\ Near(q[r], at)
                                     /\ Disorder(q[s], q[r], len) \/ Clash(q[s], q[r], len, rule)
  <2>1. PICK s, r \in 1 .. Len(q) : /\ r = s + 1 /\ Near(q[s], at) /\ Near(q[r], at)
                                    /\ Disorder(q[s], q[r], len) \/ Clash(q[s], q[r], len, rule)
    BY <1>2
  <2>2. /\ s \in 1 .. Len(a) /\ r \in 1 .. Len(a) /\ r = s + 1 /\ Near(a[s], at) /\ Near(a[r], at)
        /\ Disorder(a[s], a[r], len) \/ Clash(a[s], a[r], len, rule)
    BY <1>1, <2>1
  <2> QED BY <2>2, Zenon DEF Traces, a
<1>3. CASE /\ rule = "cycle"
           /\ \E s, r \in 1 .. Len(q) : s < r /\ Near(q[s], at) /\ Near(q[r], at) /\ Unsequenced(q, s, r, len)
  <2>1. PICK s, r \in 1 .. Len(q) : s < r /\ Near(q[s], at) /\ Near(q[r], at) /\ Unsequenced(q, s, r, len)
    BY <1>3
  <2>2. \A i \in s + 1 .. r - 1 : a[i] = q[i] BY <1>1
  <2>3. a[s] = q[s] /\ a[r] = q[r] BY <1>1
  <2>4. Unsequenced(a, s, r, len)
    <3>1. PICK p \in Pin :
            /\ Exact(q[s].burst[p], len[p], "cycle") /\ Exact(q[r].burst[p], len[p], "cycle")
            /\ q[r].burst[p].rgb # Successor(q[s].burst[p].rgb)
            /\ \A i \in s + 1 .. r - 1 : ~IsHigh(q[i].burst[p])
      BY <2>1 DEF Unsequenced
    <3>2. \A i \in s + 1 .. r - 1 : ~IsHigh(a[i].burst[p]) BY <2>2, <3>1
    <3> QED BY <2>3, <3>1, <3>2 DEF Unsequenced
  <2>5. s \in 1 .. Len(a) /\ r \in 1 .. Len(a) /\ s < r /\ Near(a[s], at) /\ Near(a[r], at) BY <1>1, <2>1
  <2> QED BY <1>3, <2>4, <2>5, Zenon DEF Traces, a
<1> QED BY <1>2, <1>3 DEF Traces

-----------------------------------------------------------------------------
(* What a bank shows when it is sent as it should be.                      *)

LEMMA PlainBursts ==
  ASSUME NEW len \in [Pin -> Nat], NEW rule, NEW x \in SlotSet, Plain(x, len, rule)
  PROVE  /\ \A p \in Members(x.bank, len) :
              /\ p \in Pin /\ len[p] \in Nat /\ 1 <= len[p]
              /\ IsHigh(x.burst[p]) /\ Exact(x.burst[p], len[p], rule)
              /\ x.burst[p].at = Time(x) /\ x.burst[p].to = Time(x) + len[p] /\ x.burst[p].rgb = Rgb(x)
         /\ \A p \in Pin : p \notin Members(x.bank, len) => ~IsHigh(x.burst[p])
<1>1. /\ Time(x) \in Nat /\ x.k \in Nat \ {0} /\ x.bank \in 0 .. 2 /\ Rgb(x) \in Color
      /\ x.bank \in ActiveBanks(len)
  BY PlainTimes
<1>2. x = Even(x.k, x.bank, Time(x), Rgb(x), len) BY DEF Plain
<1>3. ASSUME NEW p \in Pin
      PROVE  /\ x.burst[p].at = Time(x) /\ x.burst[p].rgb = Rgb(x)
             /\ IsHigh(x.burst[p]) <=> p \in Members(x.bank, len)
             /\ p \in Members(x.bank, len) => x.burst[p].to = Time(x) + len[p]
  <2>1. x.burst[p].at = Time(x) /\ x.burst[p].rgb = Rgb(x) BY <1>2, EvenFields
  <2>2. /\ IsHigh(x.burst[p]) <=> p \in Members(x.bank, len)
        /\ p \in Members(x.bank, len) => x.burst[p].to = Time(x) + len[p]
    BY <1>1, <1>2, EvenHigh
  <2> QED BY <2>1, <2>2
<1>4. Rgb(x) \in Allowed(rule) BY <1>1 DEF Allowed, Plain
<1>5. ASSUME NEW p \in Members(x.bank, len) PROVE p \in Pin /\ len[p] \in Nat /\ 1 <= len[p]
  BY DEF Members
<1> QED BY <1>3, <1>4, <1>5 DEF Exact

LEMMA PlainFirst ==
  ASSUME NEW len \in [Pin -> Nat], NEW rule, NEW x \in SlotSet, Plain(x, len, rule)
  PROVE  /\ Anchor(x.bank, len) \in Members(x.bank, len) /\ Anchor(x.bank, len) \in Pin
         /\ IsHigh(First(x, len)) /\ Exact(First(x, len), len[Anchor(x.bank, len)], rule)
         /\ First(x, len).at = Time(x) /\ First(x, len).to = Time(x) + Longest(x.bank, len)
         /\ First(x, len).rgb = Rgb(x) /\ Time(x) \in Nat /\ Longest(x.bank, len) \in Nat
<1>1. /\ Time(x) \in Nat /\ x.bank \in ActiveBanks(len) /\ Longest(x.bank, len) \in Nat BY PlainTimes
<1>2. Anchor(x.bank, len) \in Members(x.bank, len) /\ Anchor(x.bank, len) \in Pin BY <1>1, AnchorIs
<1> QED BY <1>1, <1>2, PlainBursts DEF First, Longest

-----------------------------------------------------------------------------
(* How many bursts a pin has had.                                          *)

\* A burst more, or none.
LEMMA BurstsOn ==
  ASSUME NEW q \in Seq(SlotSet), NEW x \in SlotSet, NEW p \in Pin
  PROVE  /\ Bursts(q, p) \in Nat
         /\ Bursts(Append(q, x), p) = Bursts(q, p) + (IF IsHigh(x.burst[p]) THEN 1 ELSE 0)
<1> DEFINE A == {s \in 1 .. Len(q) : IsHigh(q[s].burst[p])}
           B == {s \in 1 .. Len(Append(q, x)) : IsHigh(Append(q, x)[s].burst[p])}
<1>1. DOMAIN WireOf(q, p) = A /\ DOMAIN WireOf(Append(q, x), p) = B BY DEF WireOf
<1>2. /\ Len(q) \in Nat /\ Len(Append(q, x)) = Len(q) + 1 /\ Append(q, x)[Len(q) + 1] = x
      /\ \A s \in 1 .. Len(q) : Append(q, x)[s] = q[s]
  BY AppendIs
<1>3. IsFiniteSet(A)
  <2>1. IsFiniteSet(1 .. Len(q)) BY <1>2, FS_Interval
  <2> QED BY <2>1, FS_Subset
<1>4. Cardinality(A) \in Nat BY <1>3, FS_CardinalityType
<1>5. CASE IsHigh(x.burst[p])
  <2>1. B = A \cup {Len(q) + 1} BY <1>2, <1>5
  <2>2. Len(q) + 1 \notin A BY <1>2
  <2>3. Cardinality(B) = Cardinality(A) + 1 BY <1>3, <2>1, <2>2, FS_AddElement
  <2> QED BY <1>1, <1>4, <1>5, <2>3 DEF Bursts
<1>6. CASE ~IsHigh(x.burst[p])
  <2>1. B = A BY <1>2, <1>6
  <2>2. Bursts(q, p) = Cardinality(A) /\ Bursts(Append(q, x), p) = Cardinality(A) BY <1>1, <2>1 DEF Bursts
  <2> HIDE DEF A, B
  <2> QED BY <1>4, <1>6, <2>2
<1> QED BY <1>5, <1>6

\* Turning to the next bank, one burst more is due on the pins of the bank left behind.
LEMMA DueOn ==
  ASSUME NEW len, NEW bank \in ActiveBanks(len), NEW next, next = NextBank(bank, ActiveBanks(len)),
         NEW k \in Nat, NEW p \in Pin, len[p] > 0
  PROVE  Due(IF next < bank THEN k ELSE k + 1, next, p) = Due(k, bank, p) + (IF BANKS[p] = bank THEN 1 ELSE 0)
<1>1. BANKS[p] \in ActiveBanks(len) /\ BANKS[p] \in 0 .. 2 BY PinBanks, MembersOfActive
<1>2. /\ next \in 0 .. 2 /\ bank \in 0 .. 2
      /\ next < bank => (BANKS[p] < bank => BANKS[p] <= next)
      /\ ~(next < bank) => bank <= BANKS[p] /\ BANKS[p] <= next
  BY <1>1, NextIs
<1> HIDE DEF BANKS
<1> QED BY <1>1, <1>2 DEF Due

LEMMA TurnedDue ==
  ASSUME DriverTyped, Active # {}, NEW time, TurnedTo(d', time), NEW p \in Pin, d.len[p] > 0
  PROVE  /\ Due(d'.k, d'.bank, p) = Due(d.k, d.bank, p) + (IF BANKS[p] = d.bank THEN 1 ELSE 0)
         /\ Due(d.k, d.bank, p) \in Nat
<1>1. d.bank \in Active /\ d.k \in Nat \ {0} BY DEF DriverTyped, DriverSet
<1>2. d'.bank = NextBank(d.bank, Active) /\ d'.k = IF d'.bank < d.bank THEN d.k ELSE d.k + 1 BY DEF TurnedTo
<1>3. Due(d.k, d.bank, p) \in Nat BY <1>1 DEF Due
<1> QED BY <1>1, <1>2, <1>3, DueOn DEF Active

\* The pin that tells whether the bank has been sent.
LEMMA Teller ==
  ASSUME DriverTyped, Active # {}, StreamCounted, d.fault = "none"
  PROVE  \E p \in Pin : /\ p \in Members(d.bank, d.len) /\ d.len[p] > 0 /\ BANKS[p] = d.bank
                        /\ Bursts(d.sent, p) = Due(d.k, d.bank, p) /\ Due(d.k, d.bank, p) \in Nat
                        /\ IsHigh(Pending.burst[p]) /\ d.sent \in Seq(SlotSet) /\ Pending \in SlotSet
<1>1. d.bank \in Active /\ d.k \in Nat \ {0} /\ d.sent \in Seq(SlotSet) BY DEF DriverTyped, DriverSet
<1>2. PICK p : p \in Members(d.bank, d.len) BY <1>1, MembersOfActive DEF Active
<1>3. p \in Pin /\ d.len[p] > 0 /\ BANKS[p] = d.bank BY <1>2 DEF Members
<1>4. Bursts(d.sent, p) = Due(d.k, d.bank, p) BY <1>3 DEF StreamCounted, Counted
<1>5. Due(d.k, d.bank, p) \in Nat BY <1>1 DEF Due
<1>6. Pending \in SlotSet /\ IsHigh(Pending.burst[p]) BY <1>2, <1>3, PendingIs
<1> QED BY <1>1, <1>2, <1>3, <1>4, <1>5, <1>6

-----------------------------------------------------------------------------
(* A step of the driver that goes right keeps the counts and the evidence. *)

LEMMA SendKeepsEvidence ==
  ASSUME DriverTyped, SendBank, DriverTyped', StreamCounted, Marked
  PROVE  StreamCounted' /\ Marked'
<1>1. /\ Active # {} /\ TurnedTo(d', d.t + LongestOf(d.bank)) /\ d'.sent = Slots
      /\ d'.fault = d.fault /\ d'.at = d.at
  BY SendBankDoes
<1>2. /\ Pending \in SlotSet /\ Slots = Append(d.sent, Pending) /\ d.sent \in Seq(SlotSet) /\ Slots \in Seq(SlotSet)
  BY SlotsAre, PendingEnds, <1>1 DEF DriverTyped, DriverSet
<1>3. d'.len = d.len /\ d'.rule = d.rule /\ Active' = Active BY <1>1 DEF TurnedTo, Active
<1>4. ASSUME NEW p \in Pin, d.len[p] > 0
      PROVE  /\ Bursts(d'.sent, p) = Bursts(d.sent, p) + (IF BANKS[p] = d.bank THEN 1 ELSE 0)
             /\ Due(d'.k, d'.bank, p) = Due(d.k, d.bank, p) + (IF BANKS[p] = d.bank THEN 1 ELSE 0)
             /\ Bursts(d.sent, p) \in Nat /\ Due(d.k, d.bank, p) \in Nat
  <2>1. IsHigh(Pending.burst[p]) <=> BANKS[p] = d.bank BY <1>4, PendingIs DEF Members
  <2>2. /\ Bursts(d.sent, p) \in Nat
        /\ Bursts(d'.sent, p) = Bursts(d.sent, p) + (IF IsHigh(Pending.burst[p]) THEN 1 ELSE 0)
    BY <1>1, <1>2, BurstsOn
  <2>3. /\ Due(d'.k, d'.bank, p) = Due(d.k, d.bank, p) + (IF BANKS[p] = d.bank THEN 1 ELSE 0)
        /\ Due(d.k, d.bank, p) \in Nat
    BY <1>1, <1>4, TurnedDue
  <2> QED BY <2>1, <2>2, <2>3
<1>5. StreamCounted'
  <2>1. SUFFICES ASSUME d.fault = "none", NEW p \in Pin, d.len[p] > 0
                 PROVE  Bursts(d'.sent, p) = Due(d'.k, d'.bank, p)
    BY <1>1, <1>3 DEF StreamCounted, Counted
  <2>2. Bursts(d.sent, p) = Due(d.k, d.bank, p) BY <1>1, <2>1 DEF StreamCounted, Counted
  <2> QED BY <1>4, <2>1, <2>2
<1>6. Miscounted => Miscounted'
  <2>1. SUFFICES ASSUME NEW p \in Pin, d.len[p] > 0, Bursts(d.sent, p) # Due(d.k, d.bank, p)
                 PROVE  d'.len[p] > 0 /\ Bursts(d'.sent, p) # Due(d'.k, d'.bank, p)
    BY DEF Miscounted
  <2> QED BY <1>3, <1>4, <2>1
<1>7. Slots' = Append(Slots, Pending') /\ Pending' \in SlotSet BY <1>1, <1>2, SlotsOn
<1>8. Marks(Slots, d.at, d.len, d.rule) => Marks(Slots', d'.at, d'.len, d'.rule)
  BY <1>1, <1>2, <1>3, <1>7, MarksStay
<1>9. Traces(Slots, d.at, d.len, d.rule) => Traces(Slots', d'.at, d'.len, d'.rule)
  BY <1>1, <1>2, <1>3, <1>7, TracesStay
<1>10. Marked' BY <1>1, <1>3, <1>6, <1>8, <1>9 DEF Marked, Excused
<1> QED BY <1>5, <1>10

-----------------------------------------------------------------------------
(* What each way of going wrong shows.                                     *)

LEMMA AfterSlot ==
  ASSUME DriverTyped, DriverTyped', NEW x \in SlotSet, d'.sent = Append(d.sent, x), NEW n, n = Len(d.sent)
  PROVE  /\ n \in Nat /\ Len(Slots') = n + 2 /\ Slots'[n + 1] = x /\ Slots'[n + 2] = Pending'
         /\ \A s \in 1 .. n : Slots'[s] = d.sent[s] /\ Slots[s] = d.sent[s] /\ d.sent[s] \in SlotSet
         /\ Slots[n + 1] = Pending /\ Len(Slots) = n + 1
<1>1. /\ Slots' = Append(Append(d.sent, x), Pending') /\ Pending' \in SlotSet
      /\ Append(d.sent, x) \in Seq(SlotSet)
      /\ Len(Append(d.sent, x)) = n + 1 /\ Append(d.sent, x)[n + 1] = x
      /\ \A s \in 1 .. n : Append(d.sent, x)[s] = d.sent[s]
  BY SlotsOn
<1>2. /\ n \in Nat /\ Len(Slots) = n + 1 /\ Slots[n + 1] = Pending
      /\ \A s \in 1 .. n : Slots[s] = d.sent[s] /\ d.sent[s] \in SlotSet
  BY SlotsAre
<1>3. /\ Len(Slots') = n + 2 /\ Slots'[n + 2] = Pending'
      /\ \A s \in 1 .. n + 1 : Slots'[s] = Append(d.sent, x)[s]
  BY <1>1, <1>2, AppendIs
<1> QED BY <1>1, <1>2, <1>3

LEMMA AfterNone ==
  ASSUME DriverTyped, DriverTyped', d'.sent = d.sent, NEW n, n = Len(d.sent)
  PROVE  /\ n \in Nat /\ Len(Slots') = n + 1 /\ Slots'[n + 1] = Pending'
         /\ \A s \in 1 .. n : Slots'[s] = d.sent[s] /\ Slots[s] = d.sent[s] /\ d.sent[s] \in SlotSet
         /\ Slots[n + 1] = Pending /\ Len(Slots) = n + 1
<1>1. /\ n \in Nat /\ Len(Slots) = n + 1 /\ Slots[n + 1] = Pending
      /\ \A s \in 1 .. n : Slots[s] = d.sent[s] /\ d.sent[s] \in SlotSet
  BY SlotsAre
<1>2. Slots' = Append(d.sent, Pending') BY DEF Slots
<1>3. d.sent \in Seq(SlotSet) /\ Pending' \in SlotSet
  <2>1. /\ d'.k \in Nat \ {0} /\ d'.bank \in 0 .. 2 /\ d'.t \in Nat /\ d'.rgb \in Color
        /\ d'.len \in [Pin -> Nat] /\ d.sent \in Seq(SlotSet)
    BY DriverAssumption DEF DriverTyped, DriverSet
  <2>2. Pending' = Even(d'.k, d'.bank, d'.t, d'.rgb, d'.len) BY DEF Pending
  <2> QED BY <2>1, <2>2, EvenIs
<1>4. /\ Len(Slots') = n + 1 /\ Slots'[n + 1] = Pending' /\ \A s \in 1 .. n : Slots'[s] = d.sent[s]
  BY <1>2, <1>3, AppendIs
<1> QED BY <1>1, <1>4

LEMMA TraceOfTwo ==
  ASSUME NEW q, NEW at, NEW len, NEW rule, NEW s \in 1 .. Len(q), NEW r \in 1 .. Len(q), r = s + 1,
         Near(q[s], at), Near(q[r], at), Disorder(q[s], q[r], len) \/ Clash(q[s], q[r], len, rule)
  PROVE  Traces(q, at, len, rule)
BY Zenon DEF Traces

LEMMA TraceOfCycle ==
  ASSUME NEW q, NEW at, NEW len, NEW s \in 1 .. Len(q), NEW r \in 1 .. Len(q), s < r,
         Near(q[s], at), Near(q[r], at), Unsequenced(q, s, r, len)
  PROVE  Traces(q, at, len, "cycle")
BY Zenon DEF Traces

\* Two slots of one bank, the second of which is not of the next bank.
LEMMA DisorderOfPlain ==
  ASSUME NEW len \in [Pin -> Nat], NEW rule, NEW x \in SlotSet, NEW y \in SlotSet,
         Plain(x, len, rule), Plain(y, len, rule), y.bank # NextBank(x.bank, ActiveBanks(len))
  PROVE  Disorder(x, y, len)
BY PlainFirst DEF Disorder, PairHigh

\* A bank sent twice.
LEMMA RepeatsShows ==
  ASSUME DriverTyped, Active # {}, StreamKeeps, StreamCounted, d.fault = "none", Repeats(d')
  PROVE  /\ Miscounted'
         /\ Active # {d.bank} \/ d.rule = "cycle" => Traces(Slots', d.k, d.len, d.rule)
<1> DEFINE n == Len(d.sent)
<1>1. /\ Same(d') /\ d'.sent = Slots /\ d'.bank = d.bank /\ d'.k = d.k /\ d'.rgb = d.rgb
      /\ d'.len = d.len /\ d'.rule = d.rule
  BY DEF Repeats, Same
<1>2. DriverTyped' /\ Active' = Active /\ Active' # {} BY DEF StreamKeeps
<1>3. /\ Pending \in SlotSet /\ Pending.k = d.k /\ Pending.bank = d.bank /\ Rgb(Pending) = d.rgb
      /\ Plain(Pending, d.len, d.rule) /\ d.len \in [Pin -> Nat] /\ Slots = Append(d.sent, Pending)
      /\ d.k \in Nat /\ d.rgb \in Color /\ d.bank \in Active
  BY PendingIs, Layout, PendingEnds DEF DriverTyped, DriverSet
<1>4. /\ Pending' \in SlotSet /\ Pending'.k = d.k /\ Pending'.bank = d.bank /\ Rgb(Pending') = d.rgb
      /\ Plain(Pending', d.len, d.rule)
  BY <1>1, <1>2, PendingOn
<1>5. n \in Nat /\ Len(Slots') = n + 2 /\ Slots'[n + 1] = Pending /\ Slots'[n + 2] = Pending'
  BY <1>1, <1>2, <1>3, AfterSlot
<1>6. n + 1 \in 1 .. Len(Slots') /\ n + 2 \in 1 .. Len(Slots') BY <1>5
<1>7. Near(Slots'[n + 1], d.k) /\ Near(Slots'[n + 2], d.k) BY <1>3, <1>4, <1>5 DEF Near
<1> HIDE DEF n
<1>8. Miscounted'
  <2>1. PICK p \in Pin : /\ d.len[p] > 0 /\ Bursts(d.sent, p) = Due(d.k, d.bank, p)
                         /\ Due(d.k, d.bank, p) \in Nat /\ IsHigh(Pending.burst[p]) /\ d.sent \in Seq(SlotSet)
    BY Teller
  <2>2. Bursts(d'.sent, p) = Bursts(d.sent, p) + 1 BY <1>1, <1>3, <2>1, BurstsOn
  <2>3. Bursts(d'.sent, p) # Due(d'.k, d'.bank, p) BY <1>1, <2>1, <2>2
  <2> QED BY <1>1, <2>1, <2>3 DEF Miscounted
<1>9. CASE Active # {d.bank}
  <2>1. d.bank # NextBank(d.bank, ActiveBanks(d.len)) BY <1>3, <1>9, NextIs DEF Active
  <2>2. Disorder(Pending, Pending', d.len) BY <1>3, <1>4, <2>1, DisorderOfPlain
  <2>3. n + 2 = (n + 1) + 1 BY <1>5
  <2>4. Traces(Slots', d.k, d.len, d.rule) BY <1>5, <1>6, <1>7, <2>2, <2>3, TraceOfTwo
  <2> QED BY <1>8, <2>4
<1>10. CASE d.rule = "cycle"
  <2> DEFINE p == Anchor(d.bank, d.len)
  <2>1. /\ p \in Pin /\ Exact(Pending.burst[p], d.len[p], "cycle") /\ Exact(Pending'.burst[p], d.len[p], "cycle")
        /\ Pending.burst[p].rgb = d.rgb /\ Pending'.burst[p].rgb = d.rgb
    BY <1>3, <1>4, <1>10, PlainFirst DEF First
  <2>2. Pending'.burst[p].rgb # Successor(Pending.burst[p].rgb) BY <1>3, <2>1, SuccessorType
  <2>3. \A i \in (n + 1) + 1 .. (n + 2) - 1 : FALSE BY <1>5
  <2> HIDE DEF p
  <2>4. Unsequenced(Slots', n + 1, n + 2, d.len) BY <1>5, <2>1, <2>2, <2>3 DEF Unsequenced
  <2>5. n + 1 < n + 2 BY <1>5
  <2>6. Traces(Slots', d.k, d.len, "cycle") BY <1>6, <1>7, <2>4, <2>5, TraceOfCycle
  <2> QED BY <1>8, <1>10, <2>6
<1> QED BY <1>8, <1>9, <1>10

\* The next bank begins before the end of this one.
LEMMA HurriesShows ==
  ASSUME DriverTyped, Active # {}, StreamKeeps, Hurries(d')
  PROVE  Marks(Slots', d.k, d.len, d.rule)
<1> DEFINE n == Len(d.sent)
<1>1. /\ Same(d') /\ d'.sent = Slots /\ d'.k = d.k /\ d'.len = d.len /\ d'.rule = d.rule
      /\ d'.bank < d.bank /\ d'.t = d.t + LongestOf(d.bank) - 1
  BY DEF Hurries, Same
<1>2. DriverTyped' /\ Active' # {} BY DEF StreamKeeps
<1>3. /\ Pending \in SlotSet /\ Pending.k = d.k /\ Pending.bank = d.bank /\ Time(Pending) = d.t
      /\ Plain(Pending, d.len, d.rule) /\ d.len \in [Pin -> Nat] /\ Slots = Append(d.sent, Pending)
      /\ d.t \in Nat /\ LongestOf(d.bank) \in Nat /\ LongestOf(d.bank) = Longest(d.bank, d.len)
  BY PendingIs, Layout, PendingEnds, LongestIs
<1>4. /\ Pending' \in SlotSet /\ Pending'.k = d.k /\ Pending'.bank = d'.bank /\ Time(Pending') = d'.t
      /\ Plain(Pending', d.len, d.rule)
  BY <1>1, <1>2, PendingOn
<1>5. n \in Nat /\ Len(Slots') = n + 2 /\ Slots'[n + 1] = Pending /\ Slots'[n + 2] = Pending'
  BY <1>1, <1>2, <1>3, AfterSlot
<1>6. Overlapping(Pending, Pending', d.len)
  <2>1. /\ IsHigh(First(Pending, d.len)) /\ First(Pending, d.len).to = d.t + LongestOf(d.bank)
    BY <1>3, PlainFirst
  <2>2. IsHigh(First(Pending', d.len)) /\ First(Pending', d.len).at = d'.t BY <1>3, <1>4, PlainFirst
  <2>3. First(Pending', d.len).at < First(Pending, d.len).to BY <1>1, <1>3, <2>1, <2>2
  <2> QED BY <1>1, <1>3, <1>4, <2>1, <2>2, <2>3 DEF Overlapping, PairHigh
<1> HIDE DEF n
<1>7. n + 1 \in 1 .. Len(Slots') /\ n + 2 \in 1 .. Len(Slots') /\ n + 2 = (n + 1) + 1 BY <1>5
<1>8. Slots'[n + 1].k = d.k /\ Slots'[n + 2].k = d.k /\ Overlapping(Slots'[n + 1], Slots'[n + 2], d.len)
  BY <1>3, <1>4, <1>5, <1>6
<1> QED BY <1>7, <1>8, Zenon DEF Marks

\* The reset after the only bank is too short.
LEMMA ShortensShows ==
  ASSUME DriverTyped, Active # {}, StreamKeeps, Shortens(d'), d'.bank = d.bank, d'.k = d.k + 1,
         NEW gap \in Separator .. MinReset - 1, d'.t = d.t + LongestOf(d.bank) + gap
  PROVE  Marks(Slots', d.k, d.len, d.rule)
<1> DEFINE n == Len(d.sent)
<1>1. d'.sent = Slots /\ d'.len = d.len /\ d'.rule = d.rule BY DEF Shortens, TurnedTo
<1>2. DriverTyped' /\ Active' # {} BY DEF StreamKeeps
<1>3. /\ Pending \in SlotSet /\ Pending.k = d.k /\ Pending.bank = d.bank /\ Time(Pending) = d.t
      /\ Plain(Pending, d.len, d.rule) /\ d.len \in [Pin -> Nat] /\ Slots = Append(d.sent, Pending)
      /\ d.t \in Nat /\ LongestOf(d.bank) \in Nat /\ LongestOf(d.bank) = Longest(d.bank, d.len)
  BY PendingIs, Layout, PendingEnds, LongestIs
<1>4. /\ Pending' \in SlotSet /\ Pending'.k = d.k + 1 /\ Pending'.bank = d.bank /\ Time(Pending') = d'.t
      /\ Plain(Pending', d.len, d.rule)
  BY <1>1, <1>2, PendingOn
<1>5. n \in Nat /\ Len(Slots') = n + 2 /\ Slots'[n + 1] = Pending /\ Slots'[n + 2] = Pending'
  BY <1>1, <1>2, <1>3, AfterSlot
<1>6. Hasty(Pending, Pending', d.len)
  <2>1. /\ IsHigh(First(Pending, d.len)) /\ First(Pending, d.len).to = d.t + LongestOf(d.bank)
    BY <1>3, PlainFirst
  <2>2. IsHigh(First(Pending', d.len)) /\ First(Pending', d.len).at = d'.t BY <1>3, <1>4, PlainFirst
  <2>3. First(Pending', d.len).at - First(Pending, d.len).to = gap BY <1>3, <2>1, <2>2, Numbers
  <2> QED BY <1>3, <1>4, <2>1, <2>2, <2>3 DEF Hasty, PairHigh
<1> HIDE DEF n
<1>7. n + 1 \in 1 .. Len(Slots') /\ n + 2 \in 1 .. Len(Slots') /\ n + 2 = (n + 1) + 1 BY <1>5
<1>8. Slots'[n + 1].k = d.k /\ Slots'[n + 2].k = d.k + 1 /\ Hasty(Slots'[n + 1], Slots'[n + 2], d.len)
  BY <1>3, <1>4, <1>5, <1>6
<1> QED BY <1>7, <1>8, Zenon DEF Marks

\* The top bank of the command before is the last of its bank that was sent.
LEMMA TopOfBefore ==
  ASSUME DriverTyped, Active # {}, RegularStream(Slots, d.len, d.rule), d.bank = TopBank(d.len), d.k > 1,
         d.rule = "cycle"
  PROVE  \E s \in 1 .. Len(d.sent) :
           /\ d.sent[s] \in SlotSet /\ Plain(d.sent[s], d.len, "cycle")
           /\ d.sent[s].bank = d.bank /\ d.sent[s].k = d.k - 1 /\ d.rgb = Successor(Rgb(d.sent[s]))
           /\ \A i \in s + 1 .. Len(d.sent) : ~IsHigh(d.sent[i].burst[Anchor(d.bank, d.len)])
<1> DEFINE n == Len(d.sent)
           p == Anchor(d.bank, d.len)
<1>1. /\ n \in Nat /\ Len(Slots) = n + 1 /\ Slots[n + 1] = Pending
      /\ \A s \in 1 .. n : Slots[s] = d.sent[s] /\ d.sent[s] \in SlotSet
  BY SlotsAre
<1>2. Pending.k = d.k /\ Pending.bank = d.bank /\ Rgb(Pending) = d.rgb BY PendingIs
<1>3. d.len \in [Pin -> Nat] /\ d.bank \in Active /\ d.bank \in 0 .. 2 BY Layout, PendingEnds
<1>4. p \in Members(d.bank, d.len) /\ p \in Pin /\ BANKS[p] = d.bank
  BY <1>3, AnchorIs DEF Active, Members
<1> HIDE DEF n, p
<1>5. PICK s \in 1 .. n + 1 : /\ s < n + 1 /\ Slots[s].bank = d.bank /\ LastOfBank(Slots, s, n + 1)
                              /\ Slots[s].k = d.k - 1
  <2>1. n + 1 \in 1 .. Len(Slots) BY <1>1
  <2>2. TopBefore(Slots, d.len) BY DEF RegularStream
  <2> QED BY <1>1, <1>2, <2>1, <2>2 DEF TopBefore
<1>6. s \in 1 .. n /\ Slots[s] = d.sent[s] /\ d.sent[s] \in SlotSet BY <1>1, <1>5
<1>7. Plain(d.sent[s], d.len, "cycle")
  <2>1. s \in 1 .. Len(Slots) BY <1>1, <1>5
  <2> QED BY <1>6, <2>1 DEF RegularStream, AllPlain
<1>8. d.rgb = Successor(Rgb(d.sent[s]))
  <2>1. s \in 1 .. Len(Slots) /\ n + 1 \in 1 .. Len(Slots) /\ s < n + 1 BY <1>1, <1>5
  <2>2. Rgb(Slots[n + 1]) = IF Slots[s].bank > Slots[n + 1].bank THEN Rgb(Slots[s]) ELSE Successor(Rgb(Slots[s]))
    BY <1>5, <2>1 DEF RegularStream, CycleKept
  <2>3. ~(Slots[s].bank > Slots[n + 1].bank) BY <1>1, <1>2, <1>3, <1>5
  <2> QED BY <1>1, <1>2, <1>6, <2>2, <2>3
<1>9. ASSUME NEW i \in s + 1 .. n PROVE ~IsHigh(d.sent[i].burst[p])
  <2>1. i \in 1 .. n /\ i \in 1 .. Len(Slots) /\ i \in s + 1 .. (n + 1) - 1 BY <1>1, <1>6
  <2>2. Slots[i] = d.sent[i] /\ d.sent[i] \in SlotSet BY <1>1, <2>1
  <2>3. d.sent[i].bank # d.bank BY <1>5, <2>1, <2>2 DEF LastOfBank
  <2>4. Plain(d.sent[i], d.len, "cycle") BY <2>1, <2>2 DEF RegularStream, AllPlain
  <2>5. p \notin Members(d.sent[i].bank, d.len) BY <1>4, <2>3 DEF Members
  <2> QED BY <1>3, <1>4, <2>2, <2>4, <2>5, PlainBursts
<1> QED BY <1>5, <1>6, <1>7, <1>8, <1>9 DEF n, p

\* A command is lost.
LEMMA LosesShows ==
  ASSUME DriverTyped, Active # {}, RegularStream(Slots, d.len, d.rule), StreamKeeps, StreamCounted,
         d.fault = "none", Loses(d')
  PROVE  /\ Miscounted'
         /\ 1 < d.k /\ d.rule = "cycle" => Traces(Slots', d.k, d.len, d.rule)
<1> DEFINE n == Len(d.sent)
<1>1. /\ Same(d') /\ d'.sent = d.sent /\ d'.bank = d.bank /\ d'.k = d.k + 1 /\ d.bank = TopBank(d.len)
      /\ d'.len = d.len /\ d'.rule = d.rule
      /\ d.rule = "cycle" => d'.rgb = Successor(d.rgb)
  BY DEF Loses, Same
<1>2. DriverTyped' /\ Active' # {} BY DEF StreamKeeps
<1>3. d.len \in [Pin -> Nat] /\ d.k \in Nat /\ d.rgb \in Color BY Layout DEF DriverTyped, DriverSet
<1>4. Miscounted'
  <2>1. PICK p \in Pin : /\ d.len[p] > 0 /\ Bursts(d.sent, p) = Due(d.k, d.bank, p)
                         /\ Due(d.k, d.bank, p) \in Nat
    BY Teller
  <2>2. Due(d'.k, d'.bank, p) = Due(d.k, d.bank, p) + 1
    <3> HIDE DEF BANKS
    <3> QED BY <1>1, <1>3 DEF Due
  <2>3. Bursts(d'.sent, p) # Due(d'.k, d'.bank, p) BY <1>1, <2>1, <2>2
  <2> QED BY <1>1, <2>1, <2>3 DEF Miscounted
<1>5. ASSUME 1 < d.k, d.rule = "cycle" PROVE Traces(Slots', d.k, d.len, "cycle")
  <2> DEFINE p == Anchor(d.bank, d.len)
  <2>1. PICK s \in 1 .. n :
          /\ d.sent[s] \in SlotSet /\ Plain(d.sent[s], d.len, "cycle")
          /\ d.sent[s].bank = d.bank /\ d.sent[s].k = d.k - 1 /\ d.rgb = Successor(Rgb(d.sent[s]))
          /\ \A i \in s + 1 .. n : ~IsHigh(d.sent[i].burst[p])
    BY <1>1, <1>3, <1>5, TopOfBefore
  <2>2. /\ Pending' \in SlotSet /\ Pending'.k = d.k + 1 /\ Pending'.bank = d.bank
        /\ Rgb(Pending') = Successor(d.rgb) /\ Plain(Pending', d.len, "cycle")
    BY <1>1, <1>2, <1>5, PendingOn
  <2>3. /\ n \in Nat /\ Len(Slots') = n + 1 /\ Slots'[n + 1] = Pending'
        /\ \A i \in 1 .. n : Slots'[i] = d.sent[i]
    BY <1>1, <1>2, AfterNone
  <2>4. /\ p \in Pin /\ Exact(Pending'.burst[p], d.len[p], "cycle") /\ Pending'.burst[p].rgb = Successor(d.rgb)
    BY <1>3, <2>2, PlainFirst DEF First
  <2>5. Exact(d.sent[s].burst[p], d.len[p], "cycle") /\ d.sent[s].burst[p].rgb = Rgb(d.sent[s])
    BY <1>3, <2>1, PlainFirst DEF First
  <2>6. Successor(d.rgb) # d.rgb BY <1>3, SuccessorType
  <2> HIDE DEF n, p
  <2>7. \A i \in s + 1 .. (n + 1) - 1 : ~IsHigh(Slots'[i].burst[p]) BY <2>1, <2>3
  <2>8. Slots'[s] = d.sent[s] /\ s < n + 1 /\ s \in 1 .. Len(Slots') /\ n + 1 \in 1 .. Len(Slots') BY <2>1, <2>3
  <2>9. Pending'.burst[p].rgb # Successor(d.sent[s].burst[p].rgb) BY <2>1, <2>4, <2>5, <2>6
  <2>10. Unsequenced(Slots', s, n + 1, d.len)
    BY <2>3, <2>4, <2>5, <2>7, <2>8, <2>9 DEF Unsequenced
  <2>11. Near(Slots'[s], d.k) /\ Near(Slots'[n + 1], d.k)
    <3>1. Slots'[s].k = d.k - 1 /\ Slots'[n + 1].k = d.k + 1 BY <2>1, <2>2, <2>3, <2>8
    <3> QED BY <1>3, <3>1 DEF Near
  <2> QED BY <2>8, <2>10, <2>11, TraceOfCycle
<1> QED BY <1>4, <1>5

\* A bank is left out.
LEMMA LeavesOutShows ==
  ASSUME DriverTyped, Active # {}, Active # {d.bank}, RegularStream(Slots, d.len, d.rule), StreamKeeps,
         StreamCounted, d.fault = "none", LeavesOut(d')
  PROVE  /\ Miscounted'
         /\ 1 < d.k => Traces(Slots', d.k, d.len, d.rule)
<1> DEFINE n == Len(d.sent)
<1>1. /\ TurnedTo(d', d.t - BankGap) /\ d'.sent = d.sent /\ d'.len = d.len /\ d'.rule = d.rule
      /\ d'.bank = NextBank(d.bank, Active) /\ d'.k \in {d.k, d.k + 1}
  BY DEF LeavesOut, TurnedTo
<1>2. DriverTyped' /\ Active' # {} BY DEF StreamKeeps
<1>3. d.len \in [Pin -> Nat] /\ d.k \in Nat /\ d.bank \in Active BY Layout, PendingEnds DEF DriverTyped, DriverSet
<1>4. Miscounted'
  <2>1. PICK p \in Pin : /\ d.len[p] > 0 /\ BANKS[p] = d.bank /\ Bursts(d.sent, p) = Due(d.k, d.bank, p)
                         /\ Due(d.k, d.bank, p) \in Nat
    BY Teller
  <2>2. Due(d'.k, d'.bank, p) = Due(d.k, d.bank, p) + 1 BY <1>1, <2>1, TurnedDue
  <2>3. Bursts(d'.sent, p) # Due(d'.k, d'.bank, p) BY <1>1, <2>1, <2>2
  <2> QED BY <1>1, <2>1, <2>3 DEF Miscounted
<1>5. ASSUME 1 < d.k PROVE Traces(Slots', d.k, d.len, d.rule)
  <2>1. /\ n \in 1 .. Len(d.sent) /\ d.sent[n] \in SlotSet
        /\ Plain(d.sent[n], d.len, d.rule) /\ Turns(d.sent[n], Pending, d.len, d.rule)
    BY <1>5, LastSent
  <2>2. Pending.k = d.k /\ Pending.bank = d.bank BY PendingIs
  <2>3. /\ d.bank = NextBank(d.sent[n].bank, Active) /\ d.k \in {d.sent[n].k, d.sent[n].k + 1}
        /\ d.sent[n].k \in Nat
    BY <2>1, <2>2, PlainTimes DEF Turns, Active, SlotSet
  <2>4. Pending' \in SlotSet /\ Pending'.k = d'.k /\ Pending'.bank = d'.bank /\ Plain(Pending', d.len, d.rule)
    BY <1>1, <1>2, PendingOn
  <2>5. n \in Nat /\ Len(Slots') = n + 1 /\ Slots'[n + 1] = Pending' /\ Slots'[n] = d.sent[n]
    BY <1>1, <1>2, <2>1, AfterNone
  <2>6. d'.bank # d.bank BY <1>1, <1>3, NextIs DEF Active
  <2>7. Disorder(d.sent[n], Pending', d.len)
    BY <1>3, <2>1, <2>3, <2>4, <2>6, DisorderOfPlain DEF Active
  <2> HIDE DEF n
  <2>8. n \in 1 .. Len(Slots') /\ n + 1 \in 1 .. Len(Slots') BY <2>1, <2>5
  <2>9. Near(d.sent[n], d.k) BY <1>3, <2>3 DEF Near
  <2>10. Near(Pending', d.k) BY <1>1, <1>3, <2>4 DEF Near
  <2> QED BY <2>5, <2>7, <2>8, <2>9, <2>10, TraceOfTwo
<1> QED BY <1>4, <1>5

\* A bank is replaced by another.
LEMMA ReplacesShows ==
  ASSUME DriverTyped, Active # {}, RegularStream(Slots, d.len, d.rule), StreamKeeps, StreamCounted,
         d.fault = "none", NEW other \in Active, Replaces(d', other)
  PROVE  /\ Miscounted'
         /\ 1 < d.k => Traces(Slots', d.k, d.len, d.rule)
<1> DEFINE n == Len(d.sent)
           x == Even(d.k, other, d.t, d.rgb, d.len)
<1>1. /\ TurnedTo(d', d.t + LongestOf(other)) /\ d'.sent = Append(d.sent, x) /\ d'.len = d.len /\ d'.rule = d.rule
      /\ other # d.bank
  BY DEF Replaces, TurnedTo
<1>2. DriverTyped' /\ Active' # {} BY DEF StreamKeeps
<1>3. /\ d.len \in [Pin -> Nat] /\ d.k \in Nat \ {0} /\ d.bank \in Active /\ d.t \in Nat /\ d.rgb \in Color
      /\ d.sent \in Seq(SlotSet) /\ other \in ActiveBanks(d.len) /\ other \in 0 .. 2
      /\ d.rule = "fixed" => d.rgb = "red"
  BY Layout, PendingEnds, ActiveAreBanks DEF DriverTyped, DriverSet, Active
<1>4. x \in SlotSet /\ x.k = d.k /\ x.bank = other /\ Plain(x, d.len, d.rule)
  <2>1. x \in SlotSet /\ x.k = d.k /\ x.bank = other /\ Time(x) = d.t /\ Rgb(x) = d.rgb BY <1>3, EvenIs
  <2> QED BY <1>3, <2>1 DEF Plain
<1> HIDE DEF n, x
<1>5. Miscounted'
  <2>1. PICK p \in Pin : /\ p \in Members(d.bank, d.len) /\ d.len[p] > 0 /\ BANKS[p] = d.bank
                         /\ Bursts(d.sent, p) = Due(d.k, d.bank, p) /\ Due(d.k, d.bank, p) \in Nat
    BY Teller
  <2>2. Due(d'.k, d'.bank, p) = Due(d.k, d.bank, p) + 1 BY <1>1, <2>1, TurnedDue
  <2>3. p \notin Members(x.bank, d.len) BY <1>1, <1>4, <2>1 DEF Members
  <2>4. ~IsHigh(x.burst[p]) BY <1>3, <1>4, <2>3, PlainBursts
  <2>5. Bursts(d'.sent, p) = Bursts(d.sent, p) BY <1>1, <1>3, <1>4, <2>1, <2>4, BurstsOn
  <2>6. Bursts(d'.sent, p) # Due(d'.k, d'.bank, p) BY <2>1, <2>2, <2>5
  <2> QED BY <1>1, <2>1, <2>6 DEF Miscounted
<1>6. ASSUME 1 < d.k PROVE Traces(Slots', d.k, d.len, d.rule)
  <2>1. /\ n \in 1 .. Len(d.sent) /\ d.sent[n] \in SlotSet
        /\ Plain(d.sent[n], d.len, d.rule) /\ Turns(d.sent[n], Pending, d.len, d.rule)
    BY <1>6, LastSent DEF n
  <2>2. Pending.k = d.k /\ Pending.bank = d.bank BY PendingIs
  <2>3. /\ d.bank = NextBank(d.sent[n].bank, Active) /\ d.k \in {d.sent[n].k, d.sent[n].k + 1}
        /\ d.sent[n].k \in Nat
    BY <2>1, <2>2, PlainTimes DEF Turns, Active, SlotSet
  <2>4. n \in Nat /\ Len(Slots') = n + 2 /\ Slots'[n + 1] = x /\ Slots'[n] = d.sent[n]
    BY <1>1, <1>2, <1>4, <2>1, AfterSlot DEF n
  <2>5. Disorder(d.sent[n], x, d.len)
    BY <1>1, <1>3, <1>4, <2>1, <2>3, DisorderOfPlain DEF Active
  <2>6. n \in 1 .. Len(Slots') /\ n + 1 \in 1 .. Len(Slots') BY <2>1, <2>4
  <2>7. Near(d.sent[n], d.k) BY <1>3, <2>3, SMTT(30) DEF Near
  <2>8. Near(x, d.k) BY <1>3, <1>4 DEF Near
  <2> QED BY <2>4, <2>5, <2>6, <2>7, <2>8, TraceOfTwo
<1> QED BY <1>5, <1>6

\* The first burst of two, one of which is that of the bank's anchor.
LEMMA DiscordOf ==
  ASSUME NEW len, NEW rule, NEW x, NEW p \in Members(x.bank, len), NEW r \in Members(x.bank, len),
         Anchor(x.bank, len) \in {p, r}, Exact(x.burst[p], len[p], rule), Exact(x.burst[r], len[r], rule),
         x.burst[p].at = x.burst[r].at, x.burst[p].rgb # x.burst[r].rgb
  PROVE  Discord(x, len, rule)
<1>1. CASE Anchor(x.bank, len) = r BY <1>1, Zenon DEF Discord, First
<1>2. CASE Anchor(x.bank, len) = p
  <2>1. x.burst[r].at = x.burst[p].at /\ x.burst[r].rgb # x.burst[p].rgb OBVIOUS
  <2> QED BY <1>2, <2>1, Zenon DEF Discord, First
<1> QED BY <1>1, <1>2

LEMMA UnalignedOf ==
  ASSUME NEW len, NEW x, NEW p \in Members(x.bank, len), NEW r \in Members(x.bank, len),
         Anchor(x.bank, len) = p \/ ~Apart(First(x, len), x.burst[r]), Apart(x.burst[p], x.burst[r])
  PROVE  Unaligned(x, len)
<1>1. CASE Anchor(x.bank, len) = p BY <1>1, Zenon DEF Unaligned, First
<1>2. CASE ~Apart(First(x, len), x.burst[r])
  <2>1. Apart(First(x, len), x.burst[p]) BY <1>2 DEF Apart
  <2> QED BY <2>1, Zenon DEF Unaligned
<1> QED BY <1>1, <1>2

\* A pin alone in its bank has another colour.
LEMMA AloneShows ==
  ASSUME DriverTyped, Active # {}, RegularStream(Slots, d.len, d.rule), StreamKeeps,
         NEW p \in Members(d.bank, d.len), NEW x \in SlotSet, x.k = d.k, x.bank = d.bank,
         d'.sent = Append(d.sent, x), NEW time, TurnedTo(d', time), Members(d.bank, d.len) = {p}, d.rule # "fixed",
         Exact(x.burst[p], d.len[p], d.rule), x.burst[p].rgb # d.rgb, ~(Active = {d.bank} /\ d.rule = "random")
  PROVE  1 < d.k => Traces(Slots', d.k, d.len, d.rule)
<1> DEFINE n == Len(d.sent)
           y == Pending'
<1>1. d'.len = d.len /\ d'.rule = d.rule /\ d.rule \in {"cycle", "random"}
  BY DEF TurnedTo, DriverTyped, DriverSet
<1>2. DriverTyped' /\ Active' # {} BY DEF StreamKeeps
<1>3. /\ d.len \in [Pin -> Nat] /\ d.k \in Nat \ {0} /\ d.bank \in Active /\ d.bank \in 0 .. 2 /\ d.rgb \in Color
  BY Layout, PendingEnds DEF DriverTyped, DriverSet
<1>4. Anchor(d.bank, d.len) = p BY <1>3, AnchorIs DEF Active
<1>5. p \in Pin /\ First(x, d.len) = x.burst[p] BY <1>4 DEF First, Members
<1>6. /\ n \in Nat /\ Len(Slots') = n + 2 /\ Slots'[n + 1] = x /\ Slots'[n + 2] = y
      /\ \A i \in 1 .. n : Slots'[i] = d.sent[i]
  BY <1>1, <1>2, AfterSlot
<1>7. Near(x, d.k) BY <1>3 DEF Near
<1>8. n + 1 \in 1 .. Len(Slots') /\ n + 2 \in 1 .. Len(Slots') /\ n + 2 = (n + 1) + 1 BY <1>6
<1>9. SUFFICES ASSUME 1 < d.k PROVE Traces(Slots', d.k, d.len, d.rule) OBVIOUS
<1>10. CASE d.bank # TopBank(d.len)
  <2>1. /\ n \in 1 .. Len(d.sent) /\ d.sent[n] \in SlotSet /\ Plain(d.sent[n], d.len, d.rule)
        /\ Turns(d.sent[n], Pending, d.len, d.rule) /\ d.bank < d.sent[n].bank
    BY <1>10, LastSent
  <2>2. Pending.k = d.k /\ Pending.bank = d.bank /\ Rgb(Pending) = d.rgb BY PendingIs
  <2>3. d.sent[n].k = d.k /\ Rgb(d.sent[n]) = d.rgb BY <2>1, <2>2 DEF Turns
  <2>4. Clash(d.sent[n], x, d.len, d.rule)
    <3>1. /\ Exact(First(d.sent[n], d.len), d.len[Anchor(d.sent[n].bank, d.len)], d.rule)
          /\ First(d.sent[n], d.len).rgb = d.rgb
      BY <1>3, <2>1, <2>3, PlainFirst
    <3> QED BY <1>4, <1>5, <2>1, <3>1 DEF Clash
  <2>5. Near(d.sent[n], d.k) BY <1>3, <2>3 DEF Near
  <2> HIDE DEF n
  <2>6. n \in 1 .. Len(Slots') /\ Slots'[n] = d.sent[n] BY <1>6, <2>1
  <2> QED BY <1>6, <1>7, <1>8, <2>4, <2>5, <2>6, TraceOfTwo
<1>11. CASE d.bank = TopBank(d.len) /\ d.rule = "cycle"
  <2>1. PICK s \in 1 .. n :
          /\ d.sent[s] \in SlotSet /\ Plain(d.sent[s], d.len, "cycle")
          /\ d.sent[s].bank = d.bank /\ d.sent[s].k = d.k - 1 /\ d.rgb = Successor(Rgb(d.sent[s]))
          /\ \A i \in s + 1 .. n : ~IsHigh(d.sent[i].burst[p])
    BY <1>4, <1>9, <1>11, TopOfBefore
  <2>2. Exact(d.sent[s].burst[p], d.len[p], "cycle") /\ d.sent[s].burst[p].rgb = Rgb(d.sent[s])
    BY <1>3, <1>4, <2>1, PlainFirst DEF First
  <2> HIDE DEF n, y
  <2>3. \A i \in s + 1 .. (n + 1) - 1 : ~IsHigh(Slots'[i].burst[p])
    <3>1. \A i \in s + 1 .. (n + 1) - 1 : i \in 1 .. n /\ i \in s + 1 .. n BY <1>6
    <3> QED BY <1>6, <2>1, <3>1
  <2>4. Slots'[s] = d.sent[s] /\ s < n + 1 /\ s \in 1 .. Len(Slots') BY <1>6, <2>1
  <2>5. x.burst[p].rgb # Successor(d.sent[s].burst[p].rgb) BY <2>1, <2>2
  <2>6. Unsequenced(Slots', s, n + 1, d.len)
    BY <1>5, <1>6, <1>11, <2>2, <2>3, <2>4, <2>5 DEF Unsequenced
  <2>7. Near(d.sent[s], d.k) BY <1>3, <2>1 DEF Near
  <2> QED BY <1>6, <1>7, <1>8, <1>11, <2>4, <2>6, <2>7, TraceOfCycle
<1>12. CASE d.bank = TopBank(d.len) /\ d.rule = "random"
  <2>1. d'.bank = NextBank(d.bank, Active) BY DEF TurnedTo
  <2>2. d'.bank < d.bank
    <3>1. Active # {d.bank} BY <1>12
    <3>2. /\ d'.bank \in Active /\ d'.bank \in 0 .. 2 /\ d'.bank # d.bank
      BY <1>3, <2>1, <3>1, NextIs DEF Active
    <3>3. d'.bank <= TopBank(d.len) BY <1>3, <3>2, TopBankIs DEF Active
    <3> QED BY <1>3, <1>12, <3>2, <3>3
  <2>3. d'.k = d.k /\ d'.rgb = d.rgb BY <2>2 DEF TurnedTo
  <2>4. y \in SlotSet /\ y.k = d.k /\ y.bank = d'.bank /\ Rgb(y) = d.rgb /\ Plain(y, d.len, d.rule)
    BY <1>1, <1>2, <2>3, PendingOn
  <2>5. Clash(x, y, d.len, d.rule)
    <3>1. Exact(First(y, d.len), d.len[Anchor(y.bank, d.len)], d.rule) /\ First(y, d.len).rgb = d.rgb
      BY <1>3, <2>4, PlainFirst
    <3> QED BY <1>4, <1>5, <2>2, <2>4, <3>1 DEF Clash
  <2>6. Near(y, d.k) BY <1>3, <2>4 DEF Near
  <2> HIDE DEF n, y
  <2> QED BY <1>6, <1>7, <1>8, <2>5, <2>6, TraceOfTwo
<1> QED BY <1>1, <1>10, <1>11, <1>12

\* One pin is sent something else.
LEMMA StrayPinShows ==
  ASSUME DriverTyped, Active # {}, RegularStream(Slots, d.len, d.rule), StreamKeeps,
         NEW p \in Members(d.bank, d.len), NEW x \in SlotSet, x.k = d.k, x.bank = d.bank,
         d'.sent = Append(d.sent, x), x.burst[p] \in StrayBursts(d.bank, p),
         \A r \in Pin : r # p => x.burst[r] = Pending.burst[r], NEW time, TurnedTo(d', time)
  PROVE  \/ Marks(Slots', d.k, d.len, d.rule)
         \/ d.rule # "fixed" /\ (1 < d.k => Traces(Slots', d.k, d.len, d.rule))
<1> DEFINE n == Len(d.sent)
           a == Anchor(d.bank, d.len)
           b == x.burst[p]
<1>1. DriverTyped' /\ Active' # {} BY DEF StreamKeeps
<1>2. /\ d.len \in [Pin -> Nat] /\ d.k \in Nat \ {0} /\ d.bank \in Active /\ d.rgb \in Color /\ d.t \in Nat
      /\ d.rule = "fixed" => d.rgb = "red"
  BY Layout, PendingEnds DEF DriverTyped, DriverSet
<1>3. a \in Members(d.bank, d.len) /\ p \in Pin /\ d.len[p] \in Nat BY <1>2, AnchorIs DEF Active, Members
<1>4. n \in Nat /\ Len(Slots') = n + 2 /\ Slots'[n + 1] = x BY <1>1, AfterSlot
<1>5. ASSUME NEW r \in Members(d.bank, d.len), r # p
      PROVE  /\ IsHigh(x.burst[r]) /\ Exact(x.burst[r], d.len[r], d.rule)
             /\ x.burst[r].at = d.t /\ x.burst[r].rgb = d.rgb
  <2>1. /\ Pending \in SlotSet /\ Pending.bank = d.bank /\ Time(Pending) = d.t /\ Rgb(Pending) = d.rgb
        /\ Plain(Pending, d.len, d.rule)
    BY PendingIs
  <2>2. x.burst[r] = Pending.burst[r] BY <1>5 DEF Members
  <2> QED BY <1>2, <2>1, <2>2, PlainBursts
<1>6. SlotMark(x, d.len, d.rule) => Marks(Slots', d.k, d.len, d.rule)
  <2>1. n + 1 \in 1 .. Len(Slots') BY <1>4
  <2> QED BY <1>4, <2>1, Zenon DEF Marks
<1>7. \/ ~IsHigh(b) /\ Members(d.bank, d.len) # {p}
      \/ IsHigh(b) /\ b.to # b.at + d.len[p]
      \/ /\ IsHigh(b) /\ b.at = d.t /\ b.to = d.t + d.len[p] /\ b.rgb # d.rgb
         /\ Members(d.bank, d.len) = {p} /\ Active = {d.bank} /\ d.rule = "random" => b.rgb = "mixed"
      \/ IsHigh(b) /\ b.at = d.t + 1 /\ Members(d.bank, d.len) # {p}
  BY <1>2, StrayBurstIs
<1> HIDE DEF n, a, b
<1>8. CASE IsHigh(b) /\ b.to # b.at + d.len[p]
  <2>1. Odd(x, d.len, d.rule) BY <1>3, <1>8, Zenon DEF Odd, b
  <2> QED BY <1>6, <2>1 DEF SlotMark
<1>9. CASE Members(d.bank, d.len) # {p} /\ (~IsHigh(b) \/ b.at = d.t + 1)
  <2>1. PICK r \in Members(d.bank, d.len) : r # p /\ (a # p => r = a)
    <3>1. \E r \in Members(d.bank, d.len) : r # p BY <1>9
    <3> QED BY <1>3, <3>1
  <2>2. Apart(b, x.burst[r]) BY <1>2, <1>5, <1>9, <2>1 DEF Apart
  <2>3. a = p \/ ~Apart(First(x, d.len), x.burst[r])
    <3>1. CASE a # p BY <2>1, <3>1 DEF Apart, First, a
    <3> QED BY <3>1
  <2>4. Unaligned(x, d.len)
    BY <1>3, <2>1, <2>2, <2>3, UnalignedOf DEF a, b
  <2> QED BY <1>6, <2>4 DEF SlotMark
<1>10. CASE /\ IsHigh(b) /\ b.at = d.t /\ b.to = d.t + d.len[p] /\ b.rgb # d.rgb
            /\ Members(d.bank, d.len) = {p} /\ Active = {d.bank} /\ d.rule = "random" => b.rgb = "mixed"
  <2>1. CASE b.rgb \notin Allowed(d.rule)
    <3>1. Odd(x, d.len, d.rule) BY <1>3, <1>10, <2>1, Zenon DEF Odd, b
    <3> QED BY <1>6, <3>1 DEF SlotMark
  <2>2. CASE b.rgb \in Allowed(d.rule)
    <3>1. d.rule # "fixed" BY <1>2, <1>10, <2>2 DEF Allowed
    <3>2. Exact(b, d.len[p], d.rule) BY <1>10, <2>2 DEF Exact
    <3>3. CASE Members(d.bank, d.len) # {p}
      <4>1. PICK r \in Members(d.bank, d.len) : r # p /\ (a # p => r = a)
        <5>1. \E r \in Members(d.bank, d.len) : r # p BY <3>3
        <5> QED BY <1>3, <5>1
      <4>2. /\ Exact(x.burst[r], d.len[r], d.rule) /\ x.burst[r].at = d.t /\ x.burst[r].rgb = d.rgb
        BY <1>5, <4>1
      <4>3. Discord(x, d.len, d.rule)
        BY <1>10, <3>2, <4>1, <4>2, DiscordOf DEF a, b
      <4> QED BY <1>6, <3>1, <4>3 DEF SlotMark
    <3>4. CASE Members(d.bank, d.len) = {p}
      <4>1. ~(Active = {d.bank} /\ d.rule = "random")
        <5>1. "mixed" \notin Allowed(d.rule) BY Colours DEF Allowed
        <5> QED BY <1>10, <2>2, <3>4, <5>1
      <4>2. b.rgb # d.rgb BY <1>10
      <4>3. 1 < d.k => Traces(Slots', d.k, d.len, d.rule)
        BY <3>1, <3>2, <3>4, <4>1, <4>2, AloneShows DEF b
      <4> QED BY <3>1, <4>3
    <3> QED BY <3>3, <3>4
  <2> QED BY <2>1, <2>2
<1> QED BY <1>7, <1>8, <1>9, <1>10

-----------------------------------------------------------------------------
(* The driver's invariant.                                                 *)

\* The commands end with the last, and the top bank begins the one that would follow.
Bounded ==
  /\ d.k <= Commands + 1
  /\ Over /\ Active # {} => d.bank = TopBank(d.len)
  /\ d.fault # "none" => 1 <= d.at /\ d.at <= Commands

DriverInv == DriverTyped /\ StreamOrdered /\ StreamRegular /\ StreamCounted /\ Marked /\ Bounded

LEMMA CommandsIs == Commands \in Nat \ {0} BY DriverAssumption DEF Commands

LEMMA BoundedTurn ==
  ASSUME DriverTyped, Active # {}, ~Over, Bounded, m' = m, NEW time, TurnedTo(d', time),
         (d'.fault = d.fault /\ d'.at = d.at) \/ d'.at = d.k
  PROVE  Bounded'
<1>1. Commands \in Nat /\ Commands' = Commands BY CommandsIs DEF Commands
<1>2. d.k \in Nat \ {0} /\ d.k <= Commands BY <1>1 DEF Over, DriverTyped, DriverSet
<1>3. /\ d'.len = d.len /\ d'.bank = NextBank(d.bank, Active) /\ d.bank \in Active
      /\ d'.k = IF d'.bank < d.bank THEN d.k ELSE d.k + 1
  BY DEF TurnedTo, DriverTyped
<1>4. ASSUME Over' PROVE d'.bank = TopBank(d'.len)
  <2>1. ~(d'.bank < d.bank) BY <1>1, <1>2, <1>3, <1>4 DEF Over
  <2>2. d'.bank = Max(Active) BY <1>3, <2>1, NextIs DEF Active
  <2> QED BY <1>3, <2>2 DEF TopBank, Active
<1>5. d'.k <= Commands' + 1 BY <1>1, <1>2, <1>3
<1>6. ASSUME d'.fault # "none" PROVE 1 <= d'.at /\ d'.at <= Commands'
  <2>1. CASE d'.fault = d.fault /\ d'.at = d.at BY <1>1, <1>6, <2>1 DEF Bounded
  <2>2. CASE d'.at = d.k BY <1>1, <1>2, <2>2
  <2> QED BY <2>1, <2>2
<1> QED BY <1>4, <1>5, <1>6 DEF Bounded

LEMMA BoundedSame ==
  ASSUME DriverTyped, ~Over, m' = m, d'.len = d.len, d'.at = d.k,
         d'.k = d.k \/ (d'.k = d.k + 1 /\ d'.bank = TopBank(d.len))
  PROVE  Bounded'
<1>1. Commands \in Nat /\ Commands' = Commands BY CommandsIs DEF Commands
<1>2. d.k \in Nat \ {0} /\ d.k <= Commands BY <1>1 DEF Over, DriverTyped, DriverSet
<1>3. d'.k <= Commands' + 1 /\ 1 <= d'.at /\ d'.at <= Commands' BY <1>1, <1>2
<1>4. Over' => d'.bank = TopBank(d'.len) BY <1>1, <1>2 DEF Over
<1> QED BY <1>3, <1>4 DEF Bounded

LEMMA SendKeepsDriver == DriverInv /\ SendBank => DriverInv'
<1> SUFFICES ASSUME DriverInv, SendBank PROVE DriverInv' OBVIOUS
<1>1. DriverTyped' /\ StreamOrdered' /\ StreamRegular' BY SendKeepsStream DEF DriverInv
<1>2. StreamCounted' /\ Marked' BY <1>1, SendKeepsEvidence DEF DriverInv
<1>3. /\ ~Over /\ Active # {} /\ m' = m /\ TurnedTo(d', d.t + LongestOf(d.bank))
      /\ d'.fault = d.fault /\ d'.at = d.at
  BY SendBankDoes DEF DriverInv
<1>4. Bounded' BY <1>3, BoundedTurn DEF DriverInv
<1> QED BY <1>1, <1>2, <1>4 DEF DriverInv

LEMMA NothingKeepsDriver == DriverInv /\ SendNothing => DriverInv'
<1> SUFFICES ASSUME DriverInv, SendNothing PROVE DriverInv' OBVIOUS
<1>1. Active = {} /\ ~Over /\ m' = m /\ d' = [d EXCEPT !.k = @ + 1, !.t = @ + Settle] BY DEF SendNothing
<1>2. DriverTyped BY DEF DriverInv
<1>3. /\ d \in DriverSet /\ d.k \in Nat \ {0} /\ d.t \in Nat /\ Settle <= d.t /\ d.sent = << >> /\ d.fault = "none"
      /\ d.rule = "fixed" => d.rgb = "red"
  BY <1>1, <1>2 DEF DriverTyped, DriverSet
<1>4. /\ d' \in DriverSet /\ d'.k = d.k + 1 /\ d'.t = d.t + Settle /\ d'.len = d.len /\ d'.rule = d.rule
      /\ d'.rgb = d.rgb /\ d'.sent = << >> /\ d'.fault = "none"
  <2>1. d.k + 1 \in Nat \ {0} /\ d.t + Settle \in Nat BY <1>3, Numbers
  <2>2. PICK k \in Nat \ {0}, t \in Nat : k = d.k + 1 /\ t = d.t + Settle BY <2>1
  <2>3. d' = [d EXCEPT !.k = k, !.t = t] BY <1>1, <2>2
  <2>4. d' \in DriverSet /\ d'.k = k /\ d'.t = t BY <1>3, <2>3 DEF DriverSet
  <2>5. /\ d'.len = d.len /\ d'.rule = d.rule /\ d'.rgb = d.rgb /\ d'.sent = d.sent
        /\ d'.fault = d.fault
    BY <1>3, <2>3 DEF DriverSet
  <2> QED BY <1>3, <2>2, <2>4, <2>5
<1>5. Active' = {} BY <1>1, <1>4 DEF Active
<1>6. Settle <= d'.t BY <1>3, <1>4, Numbers
<1>7. DriverTyped' BY <1>3, <1>4, <1>5, <1>6 DEF DriverTyped
<1>8. StreamOrdered' /\ StreamRegular' /\ StreamCounted' BY <1>5 DEF StreamOrdered, StreamRegular, StreamCounted
<1>9. Marked' BY <1>4 DEF Marked
<1>10. Bounded'
  <2>1. Commands \in Nat /\ Commands' = Commands BY <1>1, CommandsIs DEF Commands
  <2> QED BY <1>1, <1>3, <1>4, <1>5, <2>1 DEF Bounded, Over
<1> QED BY <1>7, <1>8, <1>9, <1>10 DEF DriverInv

\* What a step that goes wrong leaves.
LEMMA Wronged ==
  ASSUME StreamKeeps, d'.fault # "none", d'.at = d.k, d'.len = d.len, d'.rule = d.rule,
         \/ Marks(Slots', d.k, d.len, d.rule)
         \/ /\ 1 < d.k => Excused' \/ Traces(Slots', d.k, d.len, d.rule)
            /\ d.rule = "fixed" => Miscounted'
  PROVE  DriverTyped' /\ StreamOrdered' /\ StreamRegular' /\ StreamCounted' /\ Marked'
BY DEF StreamKeeps, StreamOrdered, StreamRegular, StreamCounted, Marked

LEMMA StrayKeepsDriver == DriverInv /\ Stray => DriverInv' /\ d'.rule = d.rule
<1> SUFFICES ASSUME DriverInv, Stray PROVE DriverInv' /\ d'.rule = d.rule OBVIOUS
<1>1. ~Over /\ Active # {} /\ d.fault = "none" /\ m' = m /\ (StrayPin \/ StrayBank \/ StrayCommand)
  BY DEF Stray
<1>2. DriverTyped /\ InOrder(Slots) /\ RegularStream(Slots, d.len, d.rule) /\ StreamCounted /\ Bounded
  BY <1>1 DEF DriverInv, StreamOrdered, StreamRegular
<1>3. ASSUME StreamKeeps, d'.fault # "none", d'.at = d.k, d'.len = d.len, d'.rule = d.rule,
             \/ Marks(Slots', d.k, d.len, d.rule)
             \/ /\ 1 < d.k => Excused' \/ Traces(Slots', d.k, d.len, d.rule)
                /\ d.rule = "fixed" => Miscounted',
             Bounded'
      PROVE  DriverInv' /\ d'.rule = d.rule
  BY <1>3, Wronged DEF DriverInv
<1>4. CASE StrayPin
  <2>1. PICK p \in Members(d.bank, d.len), x \in SlotSet :
          /\ x.k = d.k /\ x.bank = d.bank /\ d'.sent = Append(d.sent, x)
          /\ x.burst[p] \in StrayBursts(d.bank, p)
          /\ \A r \in Pin : r # p => x.burst[r] = Pending.burst[r]
          /\ TurnedTo(d', d.t + LongestOf(d.bank) + 1) /\ d'.fault = "pin" /\ d'.at = d.k
    BY <1>1, <1>2, <1>4, StrayPinDoes
  <2>2. StreamKeeps BY <1>1, <1>2, <2>1, StrayPinKeeps
  <2>3. \/ Marks(Slots', d.k, d.len, d.rule)
        \/ d.rule # "fixed" /\ (1 < d.k => Traces(Slots', d.k, d.len, d.rule))
    BY <1>1, <1>2, <2>1, <2>2, StrayPinShows
  <2>4. Bounded' BY <1>1, <1>2, <2>1, BoundedTurn
  <2>5. d'.len = d.len /\ d'.rule = d.rule BY <2>1 DEF TurnedTo
  <2> QED BY <1>3, <2>1, <2>2, <2>3, <2>4, <2>5
<1>5. CASE StrayBank
  <2>1. /\ Active # {d.bank} /\ d'.fault = "bank" /\ d'.at = d.k
        /\ LeavesOut(d') \/ (\E other \in Active : Replaces(d', other)) \/ Repeats(d') \/ Hurries(d')
    BY <1>1, <1>2, <1>5, StrayBankDoes
  <2>2. CASE LeavesOut(d')
    <3>1. StreamKeeps BY <1>1, <1>2, <2>1, <2>2, LeavesOutKeeps
    <3>2. Miscounted' /\ (1 < d.k => Traces(Slots', d.k, d.len, d.rule))
      BY <1>1, <1>2, <2>1, <2>2, <3>1, LeavesOutShows
    <3>3. TurnedTo(d', d.t - BankGap) BY <2>2 DEF LeavesOut
    <3>4. Bounded' BY <1>1, <1>2, <2>1, <3>3, BoundedTurn
    <3>5. d'.len = d.len /\ d'.rule = d.rule BY <3>3 DEF TurnedTo
    <3> QED BY <1>3, <2>1, <3>1, <3>2, <3>4, <3>5
  <2>3. ASSUME NEW other \in Active, Replaces(d', other) PROVE DriverInv' /\ d'.rule = d.rule
    <3>1. StreamKeeps BY <1>1, <1>2, <2>3, ReplacesKeeps
    <3>2. Miscounted' /\ (1 < d.k => Traces(Slots', d.k, d.len, d.rule))
      BY <1>1, <1>2, <2>3, <3>1, ReplacesShows
    <3>3. TurnedTo(d', d.t + LongestOf(other)) BY <2>3 DEF Replaces
    <3>4. Bounded' BY <1>1, <1>2, <2>1, <3>3, BoundedTurn
    <3>5. d'.len = d.len /\ d'.rule = d.rule BY <3>3 DEF TurnedTo
    <3> QED BY <1>3, <2>1, <3>1, <3>2, <3>4, <3>5
  <2>4. CASE Repeats(d')
    <3>1. StreamKeeps BY <1>1, <1>2, <2>4, RepeatsKeeps
    <3>2. Miscounted' /\ Traces(Slots', d.k, d.len, d.rule)
      BY <1>1, <1>2, <2>1, <2>4, <3>1, RepeatsShows
    <3>3. d'.len = d.len /\ d'.rule = d.rule /\ d'.k = d.k BY <2>4 DEF Repeats, Same
    <3>4. Bounded' BY <1>1, <1>2, <2>1, <3>3, BoundedSame
    <3> QED BY <1>3, <2>1, <3>1, <3>2, <3>3, <3>4
  <2>5. CASE Hurries(d')
    <3>1. StreamKeeps BY <1>1, <1>2, <2>5, HurriesKeeps
    <3>2. Marks(Slots', d.k, d.len, d.rule) BY <1>1, <1>2, <2>5, <3>1, HurriesShows
    <3>3. d'.len = d.len /\ d'.rule = d.rule /\ d'.k = d.k BY <2>5 DEF Hurries, Same
    <3>4. Bounded' BY <1>1, <1>2, <2>1, <3>3, BoundedSame
    <3> QED BY <1>3, <2>1, <3>1, <3>2, <3>3, <3>4
  <2> QED BY <2>1, <2>2, <2>3, <2>4, <2>5
<1>6. CASE StrayCommand
  <2>1. /\ d'.at = d.k
        /\ \/ Loses(d') /\ d'.fault = "command"
           \/ Active = {d.bank} /\ Repeats(d') /\ d'.fault = "command"
           \/ Shortens(d') /\ d'.fault = "reset"
    BY <1>1, <1>2, <1>6, StrayCommandDoes
  <2>2. CASE Loses(d') /\ d'.fault = "command"
    <3>1. StreamKeeps BY <1>1, <1>2, <2>2, LosesKeeps
    <3>2. Miscounted' /\ (1 < d.k /\ d.rule = "cycle" => Traces(Slots', d.k, d.len, d.rule))
      BY <1>1, <1>2, <2>2, <3>1, LosesShows
    <3>3. /\ d'.len = d.len /\ d'.rule = d.rule /\ d'.k = d.k + 1 /\ d'.bank = TopBank(d.len)
      BY <2>2 DEF Loses, Same
    <3>4. Bounded' BY <1>1, <1>2, <2>1, <3>3, BoundedSame
    <3>5. d.rule # "cycle" => Excused' BY <2>2, <3>3 DEF Excused
    <3> QED BY <1>3, <2>1, <2>2, <3>1, <3>2, <3>3, <3>4, <3>5
  <2>3. CASE Active = {d.bank} /\ Repeats(d') /\ d'.fault = "command"
    <3>1. StreamKeeps BY <1>1, <1>2, <2>3, RepeatsKeeps
    <3>2. Miscounted' /\ (d.rule = "cycle" => Traces(Slots', d.k, d.len, d.rule))
      BY <1>1, <1>2, <2>3, <3>1, RepeatsShows
    <3>3. d'.len = d.len /\ d'.rule = d.rule /\ d'.k = d.k BY <2>3 DEF Repeats, Same
    <3>4. Bounded' BY <1>1, <1>2, <2>1, <3>3, BoundedSame
    <3>5. d.rule # "cycle" => Excused' BY <2>3, <3>3 DEF Excused
    <3> QED BY <1>3, <2>1, <2>3, <3>1, <3>2, <3>3, <3>4, <3>5
  <2>4. CASE Shortens(d') /\ d'.fault = "reset"
    <3>1. /\ StreamKeeps /\ d'.bank = d.bank /\ d'.k = d.k + 1
          /\ \E gap \in Separator .. MinReset - 1 : d'.t = d.t + LongestOf(d.bank) + gap
      BY <1>1, <1>2, <2>4, ShortensKeeps
    <3>2. Marks(Slots', d.k, d.len, d.rule) BY <1>1, <1>2, <2>4, <3>1, ShortensShows
    <3>3. PICK time : TurnedTo(d', time) BY <2>4 DEF Shortens
    <3>4. Bounded' BY <1>1, <1>2, <2>1, <3>3, BoundedTurn
    <3>5. d'.len = d.len /\ d'.rule = d.rule BY <3>3 DEF TurnedTo
    <3> QED BY <1>3, <2>1, <2>4, <3>1, <3>2, <3>4, <3>5
  <2> QED BY <2>1, <2>2, <2>3, <2>4
<1> QED BY <1>1, <1>4, <1>5, <1>6

-----------------------------------------------------------------------------
(* run_case, the capture and the chunks.                                   *)

\* A sender that has sent everything sends no more.
SenderRests ==
  /\ m.pc \in {"arm", "sender"} => m.sender = "none" /\ ~m.stop
  /\ m.sender = "exact" => d.run = "off" /\ Over

\* A capture that may count was stopped by its file, after the sender.
StopAwaited ==
  /\ (c.pc = "exporting" /\ ~c.late) \/ (c.pc = "gone" /\ c.code = 0) =>
       m.stop /\ (m.sender = "exact" => c.end = d.t)
  /\ m.pc \in {"judge", "analyse"} => c.pc = "gone"
  /\ m.pc = "done" => c.pc = "gone" \/ m.raised
  /\ m.pc = "analyse" \/ m.result = "pass" =>
       m.sender = "exact" /\ c.pc = "gone" /\ c.code = 0 /\ m.end = c.end

\* What a case passes on, and what the verdict on a chunk is of.
Clean ==
  /\ Violations([p \in Pin |-> Wire(p)], m.begin, m.end, d.len, CaseArgs) = {}
  /\ \A p \in Pin :
       LET frames == Frames(Wire(p), m.begin, m.end, d.len[p], CaseArgs) IN Complete(frames) = DOMAIN frames

Cut ==
  /\ Over /\ m.begin \in Nat /\ m.end \in Nat
  /\ m.verdict = Violations([p \in Pin |-> Wire(p)], m.begin, m.end, d.len, ChunkArgs)

CaseHolds ==
  /\ SenderRests /\ StopAwaited /\ m.begin = 0 /\ d.rule = "fixed"
  /\ m.result = "pass" => m.pc = "done" /\ Clean

ProcessInv ==
  /\ DOMAIN m = {"work", "pc", "stop", "sender", "verdict", "begin", "end", "result", "raised"}
  /\ DOMAIN c = {"pc", "armed", "end", "late", "code"}
  /\ m.work \in {"case", "chunk"}
  /\ m.work = "case" => CaseHolds
  /\ Analysed => Cut

\* The driver starts or ends, or does nothing.
Elsewhere ==
  /\ d' \in DriverSet /\ d'.len = d.len /\ d'.rule = d.rule /\ d'.t = d.t /\ d'.k = d.k /\ d'.bank = d.bank
  /\ d'.rgb = d.rgb /\ d'.sent = d.sent /\ d'.fault = d.fault /\ d'.at = d.at

LEMMA RunChanges ==
  ASSUME DriverTyped, NEW run \in {"off", "on"}, UNCHANGED d \/ d' = [d EXCEPT !.run = run]
  PROVE  Elsewhere
BY DEF DriverTyped, DriverSet, Elsewhere

LEMMA ElsewhereKeepsDriver ==
  ASSUME DriverInv, Elsewhere, m'.work = m.work
  PROVE  DriverInv'
<1>1. Active' = Active /\ Pending' = Pending /\ Slots' = Slots BY DEF Elsewhere, Active, Pending, Slots
<1>2. Commands' = Commands /\ Over' = Over BY DEF Elsewhere, Commands, Over
<1>3. DriverTyped' BY <1>1 DEF DriverInv, DriverTyped, Elsewhere
<1>4. StreamOrdered' /\ StreamRegular' BY <1>1 DEF DriverInv, StreamOrdered, StreamRegular, Elsewhere
<1>5. Counted' = Counted /\ Miscounted' = Miscounted /\ Excused' = Excused
  BY DEF Counted, Miscounted, Excused, Elsewhere
<1>6. StreamCounted' BY <1>1, <1>5 DEF DriverInv, StreamCounted, Elsewhere
<1>7. Marked' BY <1>1, <1>5 DEF DriverInv, Marked, Elsewhere
<1>8. Bounded' BY <1>1, <1>2 DEF DriverInv, Bounded, Elsewhere
<1> QED BY <1>3, <1>4, <1>6, <1>7, <1>8 DEF DriverInv

LEMMA DriverKeepsProcess ==
  ASSUME ProcessInv, SendBank \/ SendNothing \/ Stray, d'.rule = d.rule
  PROVE  ProcessInv'
<1>1. d.run = "on" /\ ~Over /\ UNCHANGED <<c, m>> BY Zenon DEF SendBank, SendNothing, Stray
<1>2. ~Analysed' BY <1>1 DEF ProcessInv, Cut, Analysed
<1>3. m.work = "case" => m.sender # "exact" /\ m.result # "pass" /\ m.pc # "analyse"
  BY <1>1 DEF ProcessInv, CaseHolds, SenderRests, StopAwaited
<1>4. m.work = "case" => CaseHolds'
  BY <1>1, <1>3 DEF ProcessInv, CaseHolds, SenderRests, StopAwaited
<1> QED BY <1>1, <1>2, <1>4 DEF ProcessInv

LEMMA CaptureKeepsProcess ==
  ASSUME ProcessInv, CaptureStep
  PROVE  ProcessInv'
<1>1. UNCHANGED <<d, m>> /\ c.pc # "gone"
  BY Zenon DEF CaptureStep, CaptureConnects, CaptureArms, CaptureStops, CaptureEnds
<1>2. /\ DOMAIN c = {"pc", "armed", "end", "late", "code"}
      /\ m.work = "case" => m.pc \notin {"judge", "analyse"} /\ m.result # "pass" /\ (m.pc = "done" => m.raised)
  BY <1>1 DEF ProcessInv, CaseHolds, StopAwaited
<1>3. /\ DOMAIN c' = DOMAIN c
      /\ m.work = "case" =>
           ((c'.pc = "exporting" /\ ~c'.late) \/ (c'.pc = "gone" /\ c'.code = 0) =>
              m.stop /\ (m.sender = "exact" => c'.end = d.t))
  <2>1. CASE CaptureConnects
    <3>1. c' \in {[c EXCEPT !.pc = "capturing"], [c EXCEPT !.pc = "gone", !.code = 1]}
      BY <2>1 DEF CaptureConnects
    <3>2. CASE c' = [c EXCEPT !.pc = "capturing"] BY <1>2, <3>2
    <3>3. CASE c' = [c EXCEPT !.pc = "gone", !.code = 1] BY <1>2, <3>3
    <3> QED BY <3>1, <3>2, <3>3
  <2>2. CASE CaptureArms
    <3>1. /\ c.pc = "capturing"
          /\ c' \in {[c EXCEPT !.armed = TRUE], [c EXCEPT !.pc = "gone", !.code = 1]}
      BY <2>2 DEF CaptureArms
    <3>2. CASE c' = [c EXCEPT !.armed = TRUE] BY <1>2, <3>1, <3>2
    <3>3. CASE c' = [c EXCEPT !.pc = "gone", !.code = 1] BY <1>2, <3>3
    <3> QED BY <3>1, <3>2, <3>3
  <2>3. CASE CaptureStops
    <3>1. c' = [c EXCEPT !.pc = "exporting", !.late = ~m.stop, !.end = d.t]
      BY <2>3 DEF CaptureStops
    <3> QED BY <1>2, <3>1
  <2>4. CASE CaptureEnds
    <3>1. PICK exported \in BOOLEAN :
            c' = [c EXCEPT !.pc = "gone", !.code = IF exported /\ ~c.late THEN 0 ELSE 1]
      BY <2>4, Zenon DEF CaptureEnds
    <3>2. c.pc = "exporting" BY <2>4 DEF CaptureEnds
    <3>3. /\ DOMAIN c' = DOMAIN c /\ c'.end = c.end /\ c'.pc = "gone"
          /\ c'.code = 0 => ~c.late
      BY <1>2, <3>1
    <3> QED BY <3>2, <3>3 DEF ProcessInv, CaseHolds, StopAwaited
  <2> QED BY <2>1, <2>2, <2>3, <2>4 DEF CaptureStep
<1>4. m.work = "case" => CaseHolds'
  <2>1. SUFFICES ASSUME m.work = "case" PROVE CaseHolds' OBVIOUS
  <2>2. SenderRests' BY <1>1, <2>1 DEF ProcessInv, CaseHolds, SenderRests, Over, Commands
  <2>3. StopAwaited' BY <1>1, <1>2, <1>3, <2>1 DEF StopAwaited
  <2> QED BY <1>1, <1>2, <2>1, <2>2, <2>3 DEF ProcessInv, CaseHolds
<1>5. Analysed' => Cut'
  <2>1. Analysed' = Analysed BY <1>1 DEF Analysed
  <2>2. Cut' = Cut BY <1>1 DEF Cut, Over, Commands, Wire, ChunkArgs
  <2> QED BY <2>1, <2>2 DEF ProcessInv
<1> QED BY <1>1, <1>3, <1>4, <1>5 DEF ProcessInv

\* A step of run_case that leaves the case undecided.
LEMMA Undecided ==
  ASSUME ProcessInv, m.work = "case", Elsewhere,
         DOMAIN m' = DOMAIN m, DOMAIN c' = DOMAIN c, m'.work = m.work, m'.begin = m.begin, m'.result # "pass",
         SenderRests', StopAwaited'
  PROVE  ProcessInv'
<1>1. CaseHolds' BY DEF ProcessInv, CaseHolds, Elsewhere
<1>2. ~Analysed' BY DEF Analysed
<1> QED BY <1>1, <1>2 DEF ProcessInv

LEMMA RunKeepsProcess ==
  ASSUME DriverTyped, ProcessInv, CaseStep
  PROVE  ProcessInv' /\ Elsewhere /\ m'.work = m.work
<1>1. m.work = "case" BY DEF CaseStep, At, AwaitArmed, SenderReturns, StopCapture, AwaitCapture,
                             Judge, Analyse, AbandonStop, Reap
<1>2. /\ DOMAIN m = {"work", "pc", "stop", "sender", "verdict", "begin", "end", "result", "raised"}
      /\ DOMAIN c = {"pc", "armed", "end", "late", "code"}
      /\ SenderRests /\ StopAwaited /\ m.begin = 0 /\ d.rule = "fixed" /\ (m.result = "pass" => m.pc = "done")
  BY <1>1 DEF ProcessInv, CaseHolds
<1>3. ASSUME NEW run \in {"off", "on"}, UNCHANGED d \/ d' = [d EXCEPT !.run = run]
      PROVE  Elsewhere
  BY <1>3, RunChanges
<1>4. Elsewhere => Over' = (d.k > Commands') /\ d'.t = d.t BY DEF Elsewhere, Over
<1>5. m'.work = m.work => Commands' = Commands BY DEF Commands
<1>6. UNCHANGED d => d'.run = d.run /\ Elsewhere BY <1>3
<1>15. ASSUME NEW made \in {m.stop, TRUE}, NEW label \in {"await", "abandon", "reap"},
              m' = [m EXCEPT !.pc = label, !.stop = made], UNCHANGED <<d, c>>, m.pc # "done"
       PROVE  ProcessInv' /\ Elsewhere /\ m'.work = m.work
  <2>1. /\ DOMAIN m' = DOMAIN m /\ m'.pc = label /\ m'.stop = made /\ m'.sender = m.sender
        /\ m'.work = m.work /\ m'.begin = m.begin /\ m'.end = m.end /\ m'.result = m.result
    BY <1>2, <1>15
  <2>2. SenderRests' BY <1>2, <1>4, <1>5, <1>6, <1>15, <2>1 DEF SenderRests, Over
  <2>3. StopAwaited' BY <1>2, <1>6, <1>15, <2>1 DEF StopAwaited
  <2> QED BY <1>1, <1>2, <1>6, <1>15, <2>1, <2>2, <2>3, Undecided
<1>7. ASSUME Abandons, UNCHANGED <<d, c>>, m.pc # "done"
      PROVE  ProcessInv' /\ Elsewhere /\ m'.work = m.work
  <2>1. m' = [m EXCEPT !.pc = "abandon", !.stop = m.stop] BY <1>2, <1>7 DEF Abandons, Go
  <2> QED BY <1>7, <1>15, <2>1
<1>8. CASE AwaitArmed
  <2>1. m.pc = "arm" /\ UNCHANGED c BY <1>8 DEF AwaitArmed, At
  <2>2. CASE m' = [m EXCEPT !.pc = "sender"] /\ d' = [d EXCEPT !.run = "on"]
    <3>1. /\ DOMAIN m' = DOMAIN m /\ m'.pc = "sender" /\ m'.stop = m.stop /\ m'.sender = m.sender
          /\ m'.work = m.work /\ m'.begin = m.begin /\ m'.end = m.end /\ m'.result = m.result
      BY <1>2, <2>2
    <3>2. m.sender = "none" /\ ~m.stop BY <1>2, <2>1 DEF SenderRests
    <3>3. Elsewhere BY <1>3, <2>2
    <3>4. SenderRests' BY <3>1, <3>2 DEF SenderRests
    <3>5. StopAwaited' BY <1>2, <2>1, <3>1, <3>2, <3>3 DEF StopAwaited, Elsewhere
    <3> QED BY <1>1, <1>2, <2>1, <3>1, <3>3, <3>4, <3>5, Undecided
  <2>3. CASE Abandons /\ UNCHANGED d BY <1>7, <2>1, <2>3
  <2> QED BY <1>8, <2>2, <2>3 DEF AwaitArmed
<1>9. CASE SenderReturns
  <2>1. m.pc = "sender" /\ UNCHANGED c BY <1>9 DEF SenderReturns, At
  <2>2. m.sender = "none" /\ ~m.stop BY <1>2, <2>1 DEF SenderRests
  <2>3. /\ ~((c.pc = "exporting" /\ ~c.late) \/ (c.pc = "gone" /\ c.code = 0))
        /\ m.result # "pass"
    BY <1>2, <2>1, <2>2 DEF StopAwaited
  <2>4. ASSUME NEW sender, m' = [m EXCEPT !.pc = "stop", !.sender = sender],
               UNCHANGED d \/ d' = [d EXCEPT !.run = "off"],
               sender = "exact" => d'.run = "off" /\ Over
        PROVE  ProcessInv' /\ Elsewhere /\ m'.work = m.work
    <3>1. /\ DOMAIN m' = DOMAIN m /\ m'.pc = "stop" /\ m'.stop = m.stop /\ m'.sender = sender
          /\ m'.work = m.work /\ m'.begin = m.begin /\ m'.end = m.end /\ m'.result = m.result
      BY <1>2, <2>4
    <3>2. Elsewhere BY <1>3, <2>4
    <3>3. SenderRests' BY <1>4, <1>5, <2>4, <3>1, <3>2 DEF SenderRests, Over
    <3>4. StopAwaited' BY <2>1, <2>3, <3>1 DEF StopAwaited
    <3> QED BY <1>1, <2>1, <2>3, <3>1, <3>2, <3>3, <3>4, Undecided
  <2>5. CASE Over /\ m' = [m EXCEPT !.pc = "stop", !.sender = "exact"] /\ d' = [d EXCEPT !.run = "off"]
    <3>1. d'.run = "off" BY <2>5 DEF DriverTyped, DriverSet
    <3> QED BY <2>4, <2>5, <3>1, Zenon
  <2>6. CASE m' = [m EXCEPT !.pc = "stop", !.sender = "failed"] /\ d' = [d EXCEPT !.run = "off"]
    BY <2>4, <2>6, Zenon
  <2>7. CASE m' = [m EXCEPT !.pc = "stop", !.sender = "failed"] /\ UNCHANGED d
    BY <2>4, <2>7, Zenon
  <2>8. CASE Abandons /\ UNCHANGED d BY <1>7, <2>1, <2>8
  <2> QED BY <1>9, <2>5, <2>6, <2>7, <2>8 DEF SenderReturns
<1>10. CASE StopCapture
  <2>1. m.pc = "stop" /\ UNCHANGED <<d, c>> BY <1>10 DEF StopCapture, At
  <2>2. \/ m' = [m EXCEPT !.pc = "await", !.stop = TRUE]
        \/ \E made \in {m.stop, TRUE} : m' = [m EXCEPT !.pc = "abandon", !.stop = made]
    BY <1>10 DEF StopCapture
  <2> QED BY <1>15, <2>1, <2>2
<1>11. CASE AwaitCapture
  <2>1. m.pc = "await" /\ UNCHANGED <<d, c>> BY <1>11 DEF AwaitCapture, At
  <2>2. CASE c.pc = "gone" /\ Go("judge")
    <3>1. m' = [m EXCEPT !.pc = "judge"] BY <2>2 DEF Go
    <3>2. /\ DOMAIN m' = DOMAIN m /\ m'.pc = "judge" /\ m'.stop = m.stop /\ m'.sender = m.sender
          /\ m'.work = m.work /\ m'.begin = m.begin /\ m'.end = m.end /\ m'.result = m.result
      BY <1>2, <3>1
    <3>3. SenderRests' BY <1>2, <1>4, <1>5, <1>6, <2>1, <3>2 DEF SenderRests, Over
    <3>4. StopAwaited' BY <1>2, <2>1, <2>2, <3>2 DEF StopAwaited
    <3> QED BY <1>1, <1>2, <1>6, <2>1, <3>2, <3>3, <3>4, Undecided
  <2>3. CASE Abandons BY <1>7, <2>1, <2>3
  <2> QED BY <1>11, <2>2, <2>3 DEF AwaitCapture
<1>12. CASE Judge
  <2>1. m.pc = "judge" /\ UNCHANGED <<d, c>> BY <1>12 DEF Judge, At
  <2>2. c.pc = "gone" BY <1>2, <2>1 DEF StopAwaited
  <2>3. CASE m' = [m EXCEPT !.pc = "done", !.result = "fail"]
    <3>1. /\ DOMAIN m' = DOMAIN m /\ m'.pc = "done" /\ m'.stop = m.stop /\ m'.sender = m.sender
          /\ m'.work = m.work /\ m'.begin = m.begin /\ m'.result = "fail"
      BY <1>2, <2>3
    <3>2. SenderRests' BY <1>2, <1>4, <1>5, <1>6, <2>1, <3>1 DEF SenderRests, Over
    <3>3. StopAwaited' BY <1>2, <2>1, <2>2, <3>1 DEF StopAwaited
    <3> QED BY <1>1, <1>2, <1>6, <2>1, <3>1, <3>2, <3>3, Undecided
  <2>4. CASE c.code = 0 /\ m.sender = "exact" /\ m' = [m EXCEPT !.pc = "analyse", !.end = c.end]
    <3>1. /\ DOMAIN m' = DOMAIN m /\ m'.pc = "analyse" /\ m'.stop = m.stop /\ m'.sender = m.sender
          /\ m'.work = m.work /\ m'.begin = m.begin /\ m'.end = c.end /\ m'.result = m.result
      BY <1>2, <2>4
    <3>2. SenderRests' BY <1>2, <1>4, <1>5, <1>6, <2>1, <3>1 DEF SenderRests, Over
    <3>3. StopAwaited' BY <1>2, <2>1, <2>2, <2>4, <3>1 DEF StopAwaited
    <3> QED BY <1>1, <1>2, <1>6, <2>1, <3>1, <3>2, <3>3, Undecided
  <2> QED BY <1>12, <2>3, <2>4 DEF Judge
<1>13. CASE Analyse
  <2> DEFINE wires == [p \in Pin |-> Wire(p)]
             fragments == \E p \in Pin :
               LET frames == Frames(wires[p], m.begin, m.end, d.len[p], CaseArgs) IN
               Complete(frames) # DOMAIN frames
             found == Violations(wires, m.begin, m.end, d.len, CaseArgs)
  <2>1. m.pc = "analyse" /\ UNCHANGED <<d, c>> BY <1>13, Zenon DEF Analyse, At
  <2>2. m' = [m EXCEPT !.pc = "done", !.verdict = found,
                       !.result = IF found = {} /\ ~fragments THEN "pass" ELSE "fail"]
    BY <1>13, Zenon DEF Analyse
  <2>3. found = {} /\ ~fragments => Clean
    <3>1. ASSUME NEW p \in Pin PROVE wires[p] = Wire(p) OBVIOUS
    <3> QED BY <3>1, Zenon DEF Clean
  <2> HIDE DEF found, fragments, wires
  <2>4. /\ DOMAIN m' = DOMAIN m /\ m'.pc = "done" /\ m'.stop = m.stop /\ m'.sender = m.sender
        /\ m'.work = m.work /\ m'.begin = m.begin /\ m'.end = m.end
        /\ m'.result = "pass" => found = {} /\ ~fragments
    BY <1>2, <2>2
  <2>5. m'.result = "pass" => Clean'
    <3>1. Clean' = Clean BY <2>1, <2>4 DEF Clean, Wire, CaseArgs
    <3> QED BY <2>3, <2>4, <3>1
  <2>6. SenderRests' BY <1>2, <1>4, <1>5, <1>6, <2>1, <2>4 DEF SenderRests, Over
  <2>7. StopAwaited' BY <1>2, <2>1, <2>4 DEF StopAwaited
  <2>8. CaseHolds' BY <1>2, <2>1, <2>4, <2>5, <2>6, <2>7 DEF CaseHolds
  <2>9. ~Analysed' BY <1>1, <2>4 DEF Analysed
  <2> QED BY <1>1, <1>2, <1>6, <2>1, <2>4, <2>8, <2>9 DEF ProcessInv
<1>14. CASE AbandonStop
  <2>1. m.pc = "abandon" /\ UNCHANGED <<d, c>> BY <1>14 DEF AbandonStop, At
  <2>2. CASE m' = [m EXCEPT !.pc = "reap", !.stop = TRUE] BY <1>15, <2>1, <2>2
  <2>3. ASSUME NEW made \in {m.stop, TRUE},
               m' = [m EXCEPT !.pc = "done", !.result = "fail", !.stop = made, !.raised = TRUE]
        PROVE  ProcessInv' /\ Elsewhere /\ m'.work = m.work
    <3>1. /\ DOMAIN m' = DOMAIN m /\ m'.pc = "done" /\ m'.stop = made /\ m'.sender = m.sender
          /\ m'.work = m.work /\ m'.begin = m.begin /\ m'.result = "fail" /\ m'.raised = TRUE
      BY <1>2, <2>3
    <3>2. SenderRests' BY <1>2, <1>4, <1>5, <1>6, <2>1, <3>1 DEF SenderRests, Over
    <3>3. StopAwaited' BY <1>2, <2>1, <2>3, <3>1 DEF StopAwaited
    <3> QED BY <1>1, <1>2, <1>6, <2>1, <3>1, <3>2, <3>3, Undecided
  <2> QED BY <1>14, <2>2, <2>3 DEF AbandonStop
<1>16. CASE Reap
  <2>1. m.pc = "reap" /\ UNCHANGED d BY <1>16 DEF Reap, At
  <2>2. CASE /\ m' = [m EXCEPT !.pc = "done", !.result = "fail"]
             /\ c' = IF c.pc = "gone" THEN c ELSE [c EXCEPT !.pc = "gone", !.code = 1]
    <3>1. /\ DOMAIN m' = DOMAIN m /\ m'.pc = "done" /\ m'.stop = m.stop /\ m'.sender = m.sender
          /\ m'.work = m.work /\ m'.begin = m.begin /\ m'.result = "fail"
      BY <1>2, <2>2
    <3>2. DOMAIN c' = DOMAIN c /\ c'.pc = "gone" /\ (c' = c \/ c'.code = 1) BY <1>2, <2>2
    <3>3. SenderRests' BY <1>2, <1>4, <1>5, <1>6, <2>1, <3>1 DEF SenderRests, Over
    <3>4. StopAwaited' BY <1>2, <2>1, <3>1, <3>2 DEF StopAwaited
    <3> QED BY <1>1, <1>2, <1>6, <2>1, <3>1, <3>2, <3>3, <3>4, Undecided
  <2>3. CASE m' = [m EXCEPT !.pc = "done", !.result = "fail", !.raised = TRUE] /\ UNCHANGED c
    <3>1. /\ DOMAIN m' = DOMAIN m /\ m'.pc = "done" /\ m'.stop = m.stop /\ m'.sender = m.sender
          /\ m'.work = m.work /\ m'.begin = m.begin /\ m'.result = "fail" /\ m'.raised = TRUE
      BY <1>2, <2>3
    <3>2. SenderRests' BY <1>2, <1>4, <1>5, <1>6, <2>1, <3>1 DEF SenderRests, Over
    <3>3. StopAwaited' BY <1>2, <2>1, <2>3, <3>1 DEF StopAwaited
    <3> QED BY <1>1, <1>2, <1>6, <2>1, <2>3, <3>1, <3>2, <3>3, Undecided
  <2> QED BY <1>16, <2>2, <2>3 DEF Reap
<1> QED BY <1>8, <1>9, <1>10, <1>11, <1>12, <1>13, <1>14, <1>16 DEF CaseStep

LEMMA ChunkKeepsProcess ==
  ASSUME DriverTyped, ProcessInv, StreamStarts \/ AnalyseChunk
  PROVE  ProcessInv' /\ Elsewhere /\ m'.work = m.work
<1>1. m.work = "chunk" /\ UNCHANGED c BY Zenon DEF StreamStarts, AnalyseChunk
<1>2. /\ DOMAIN m = {"work", "pc", "stop", "sender", "verdict", "begin", "end", "result", "raised"}
      /\ DOMAIN c = {"pc", "armed", "end", "late", "code"}
  BY DEF ProcessInv
<1>3. CASE StreamStarts
  <2>1. d' = [d EXCEPT !.run = "on"] /\ UNCHANGED m /\ ~Over BY <1>3 DEF StreamStarts
  <2>2. Elsewhere BY <2>1, RunChanges
  <2>3. ~Analysed' BY <2>1 DEF ProcessInv, Cut, Analysed
  <2> QED BY <1>1, <1>2, <2>1, <2>2, <2>3 DEF ProcessInv
<1>4. CASE AnalyseChunk
  <2>1. UNCHANGED d /\ Over BY <1>4, Zenon DEF AnalyseChunk
  <2>2. Elsewhere BY <2>1, RunChanges
  <2>3. PICK begin \in 0 .. d.t : \E end \in begin + 1 .. d.t :
          m' = [m EXCEPT !.pc = "done", !.begin = begin, !.end = end,
                         !.verdict = Violations([p \in Pin |-> Wire(p)], begin, end, d.len, ChunkArgs)]
    BY <1>4, Zenon DEF AnalyseChunk
  <2>4. PICK end \in begin + 1 .. d.t :
          m' = [m EXCEPT !.pc = "done", !.begin = begin, !.end = end,
                         !.verdict = Violations([p \in Pin |-> Wire(p)], begin, end, d.len, ChunkArgs)]
    BY <2>3
  <2>5. /\ DOMAIN m' = DOMAIN m /\ m'.work = m.work /\ m'.begin = begin /\ m'.end = end
        /\ m'.verdict = Violations([p \in Pin |-> Wire(p)], begin, end, d.len, ChunkArgs)
    BY <1>2, <2>4
  <2>6. begin \in Nat /\ end \in Nat
    <3>1. d.t \in Nat BY DEF DriverTyped, DriverSet
    <3> QED BY <3>1
  <2>7. Cut'
    <3>1. Over' BY <2>1, <2>5 DEF Over, Commands
    <3>2. m'.verdict = Violations([p \in Pin |-> Wire(p)'], m'.begin, m'.end, d'.len, ChunkArgs')
      BY <2>1, <2>5 DEF Wire, ChunkArgs
    <3> QED BY <2>5, <2>6, <3>1, <3>2 DEF Cut
  <2> QED BY <1>1, <1>2, <2>2, <2>5, <2>7 DEF ProcessInv
<1> QED BY <1>3, <1>4

-----------------------------------------------------------------------------
(* The invariant.                                                          *)

BenchInv == DriverInv /\ ProcessInv

LEMMA BenchInit == Init => BenchInv
<1> SUFFICES ASSUME Init PROVE BenchInv OBVIOUS
<1>1. PICK len \in Layouts, work \in {"case", "chunk"}, rule \in {"fixed", "cycle", "random"} :
        /\ work = "case" => rule = "fixed"
        /\ d = [len |-> len, rule |-> rule, t |-> Settle, k |-> 1, bank |-> TopBank(len), rgb |-> "red",
                sent |-> << >>, run |-> "off", fault |-> "none", at |-> 0]
        /\ m = [work |-> work, pc |-> "arm", stop |-> FALSE, sender |-> "none", verdict |-> {},
                begin |-> 0, end |-> 0, result |-> "none", raised |-> FALSE]
  BY ZenonT(60) DEF Init
<1>2. c = [pc |-> "connect", armed |-> FALSE, end |-> 0, late |-> FALSE, code |-> 0] BY DEF Init
<1>3. /\ d.len = len /\ d.rule = rule /\ d.t = Settle /\ d.k = 1 /\ d.bank = TopBank(len) /\ d.rgb = "red"
      /\ d.sent = << >> /\ d.fault = "none" /\ d.at = 0
  BY <1>1
<1>4. TopBank(len) \in 0 .. 2 BY TopBankIs DEF TopBank
<1>5. DriverTyped
  <2>1. d \in DriverSet
    <3>1. Settle \in Nat /\ "red" \in Color /\ << >> \in Seq(SlotSet) /\ 1 \in Nat \ {0} BY Numbers, Colours
    <3> QED BY <1>1, <1>4, <3>1 DEF DriverSet
  <2>2. Active # {} => d.bank \in Active BY <1>3, TopBankIs DEF Active
  <2>3. Len(d.sent) = 0 BY <1>3
  <2> QED BY <1>3, <2>1, <2>2, <2>3, Numbers DEF DriverTyped
<1>6. Len(Slots) = 1 /\ Slots[1] = Pending /\ Pending \in SlotSet /\ Slots \in Seq(SlotSet)
  <2>1. Len(d.sent) = 0 BY <1>3
  <2> QED BY <1>5, <2>1, SlotsAre
<1>7. StreamOrdered BY <1>6 DEF StreamOrdered, InOrder
<1>8. StreamRegular
  <2>1. SUFFICES ASSUME Active # {} PROVE RegularStream(Slots, d.len, d.rule) BY DEF StreamRegular
  <2>2. Pending.k = 1 /\ Pending.bank = TopBank(d.len) /\ Plain(Pending, d.len, d.rule)
    BY <1>3, <1>5, <2>1, PendingIs
  <2>3. AllPlain(Slots, d.len, d.rule) BY <1>6, <2>2 DEF AllPlain
  <2>4. AllTurn(Slots, d.len, d.rule) /\ AllSpaced(Slots, d.len) /\ CycleKept(Slots, d.rule)
    BY <1>6 DEF AllTurn, AllSpaced, CycleKept
  <2>5. TopBefore(Slots, d.len) BY <1>6, <2>2 DEF TopBefore
  <2> QED BY <2>3, <2>4, <2>5 DEF RegularStream
<1>9. StreamCounted
  <2>1. SUFFICES ASSUME Active # {}, NEW p \in Pin, d.len[p] > 0 PROVE Bursts(d.sent, p) = Due(d.k, d.bank, p)
    BY DEF StreamCounted, Counted
  <2>2. Bursts(d.sent, p) = 0
    <3>1. DOMAIN WireOf(d.sent, p) = {} BY <1>3 DEF WireOf
    <3> QED BY <3>1, FS_EmptySet DEF Bursts
  <2>3. BANKS[p] \in ActiveBanks(d.len) /\ BANKS[p] \in 0 .. 2 BY <2>1, MembersOfActive, PinBanks
  <2>4. BANKS[p] <= d.bank /\ d.bank \in 0 .. 2 BY <1>3, <1>4, <2>3, TopBankIs
  <2> HIDE DEF BANKS
  <2> QED BY <1>3, <2>2, <2>3, <2>4 DEF Due
<1>10. Marked BY <1>3 DEF Marked
<1>11. Bounded
  <2>1. Commands \in Nat \ {0} BY CommandsIs
  <2> QED BY <1>3, <2>1 DEF Bounded, Over
<1>12. DriverInv BY <1>5, <1>7, <1>8, <1>9, <1>10, <1>11 DEF DriverInv
<1>13. /\ SenderRests /\ StopAwaited /\ m.begin = 0 /\ m.result # "pass" /\ m.pc = "arm" /\ m.work = work
  BY <1>1, <1>2 DEF SenderRests, StopAwaited
<1>14. m.work = "case" => CaseHolds BY <1>1, <1>3, <1>13 DEF CaseHolds
<1>15. ~Analysed BY <1>13 DEF Analysed
<1>16. ProcessInv BY <1>1, <1>2, <1>13, <1>14, <1>15 DEF ProcessInv
<1> QED BY <1>12, <1>16 DEF BenchInv

LEMMA BenchNext == BenchInv /\ [Next]_vars => BenchInv'
<1> SUFFICES ASSUME BenchInv, [Next]_vars PROVE BenchInv' OBVIOUS
<1>1. DriverInv /\ ProcessInv /\ DriverTyped BY DEF BenchInv, DriverInv
<1>2. CASE SendBank
  <2>1. DriverInv' BY <1>1, <1>2, SendKeepsDriver
  <2>2. d'.rule = d.rule BY <1>1, <1>2, SendBankDoes DEF TurnedTo
  <2> QED BY <1>1, <1>2, <2>1, <2>2, DriverKeepsProcess DEF BenchInv
<1>3. CASE SendNothing
  <2>1. DriverInv' BY <1>1, <1>3, NothingKeepsDriver
  <2>2. d'.rule = d.rule
    <3>1. d' = [d EXCEPT !.k = @ + 1, !.t = @ + Settle] BY <1>3 DEF SendNothing
    <3> QED BY <1>1, <3>1 DEF DriverTyped, DriverSet
  <2> QED BY <1>1, <1>3, <2>1, <2>2, DriverKeepsProcess DEF BenchInv
<1>4. CASE Stray
  <2>1. DriverInv' /\ d'.rule = d.rule BY <1>1, <1>4, StrayKeepsDriver
  <2> QED BY <1>1, <1>4, <2>1, DriverKeepsProcess DEF BenchInv
<1>5. CASE CaptureStep
  <2>1. UNCHANGED <<d, m>>
    BY <1>5, Zenon DEF CaptureStep, CaptureConnects, CaptureArms, CaptureStops, CaptureEnds
  <2>2. Elsewhere BY <1>1, <2>1, RunChanges
  <2>3. DriverInv' BY <1>1, <2>1, <2>2, ElsewhereKeepsDriver
  <2> QED BY <1>1, <1>5, <2>3, CaptureKeepsProcess DEF BenchInv
<1>6. CASE CaseStep BY <1>1, <1>6, RunKeepsProcess, ElsewhereKeepsDriver DEF BenchInv
<1>7. CASE StreamStarts \/ AnalyseChunk
  BY <1>1, <1>7, ChunkKeepsProcess, ElsewhereKeepsDriver DEF BenchInv
<1>8. CASE UNCHANGED vars
  <2>1. UNCHANGED <<d, c, m>> BY <1>8 DEF vars
  <2>2. Elsewhere BY <1>1, <2>1, RunChanges
  <2>3. DriverInv' BY <1>1, <2>1, <2>2, ElsewhereKeepsDriver
  <2>4. Clean' = Clean /\ Cut' = Cut /\ Analysed' = Analysed
    BY <2>1 DEF Clean, Cut, Analysed, Over, Commands, Wire, ChunkArgs, CaseArgs
  <2>5. SenderRests' = SenderRests /\ StopAwaited' = StopAwaited
    BY <2>1 DEF SenderRests, StopAwaited, Over, Commands
  <2>6. ProcessInv' BY <1>1, <2>1, <2>4, <2>5 DEF ProcessInv, CaseHolds
  <2> QED BY <2>3, <2>6 DEF BenchInv
<1> QED BY <1>2, <1>3, <1>4, <1>5, <1>6, <1>7, <1>8 DEF Next

LEMMA BenchHolds == Spec => []BenchInv
BY BenchInit, BenchNext, PTL DEF Spec

-----------------------------------------------------------------------------
(* No false alarm.                                                         *)

LEMMA WireIs == ASSUME DriverTyped, NEW p \in Pin PROVE Wire(p) = WireOf(d.sent, p)
<1>1. d.sent \in Seq(SlotSet) BY DEF DriverTyped, DriverSet
<1>2. DOMAIN d.sent = 1 .. Len(d.sent) BY <1>1
<1> QED BY <1>2 DEF Wire, WireOf

LEMMA RunOfStream ==
  ASSUME DriverTyped, StreamRegular, d.fault = "none"
  PROVE  Run(d.sent, d.len, d.rule)
<1>1. d.len \in [Pin -> Nat] /\ d.sent \in Seq(SlotSet) BY Layout DEF DriverTyped, DriverSet
<1>2. CASE Active = {}
  <2>1. Len(d.sent) = 0
    <3>1. d.sent = << >> BY <1>2 DEF DriverTyped
    <3> QED BY <3>1
  <2>2. 1 .. Len(d.sent) = {} BY <2>1
  <2> QED BY <1>1, <2>2 DEF Run, AllPlain, AllTurn, AllSpaced, CycleKept
<1>3. CASE Active # {}
  <2>1. RegularStream(Slots, d.len, d.rule) BY <1>3 DEF StreamRegular
  <2>2. \A s \in 1 .. Len(d.sent) : s \in 1 .. Len(Slots) /\ Slots[s] = d.sent[s] BY SlotsAre
  <2>3. AllPlain(d.sent, d.len, d.rule) BY <2>1, <2>2 DEF RegularStream, AllPlain
  <2>4. AllTurn(d.sent, d.len, d.rule) BY <2>1, <2>2 DEF RegularStream, AllTurn
  <2>5. AllSpaced(d.sent, d.len)
    <3>1. SUFFICES ASSUME NEW s \in 1 .. Len(d.sent), NEW r \in 1 .. Len(d.sent), s < r
                   PROVE  Spaced(d.sent[s], d.sent[r], d.len)
      BY DEF AllSpaced
    <3>2. Spaced(Slots[s], Slots[r], d.len) BY <2>1, <2>2, <3>1 DEF RegularStream, AllSpaced
    <3> QED BY <2>2, <3>2
  <2>6. CycleKept(d.sent, d.rule)
    <3>1. SUFFICES ASSUME d.rule = "cycle", NEW s \in 1 .. Len(d.sent), NEW r \in 1 .. Len(d.sent), s < r,
                          LastOfBank(d.sent, s, r)
                   PROVE  Rgb(d.sent[r]) = IF d.sent[s].bank > d.sent[r].bank THEN Rgb(d.sent[s])
                                           ELSE Successor(Rgb(d.sent[s]))
      BY DEF CycleKept
    <3>2. \A i \in s + 1 .. r - 1 : i \in 1 .. Len(d.sent) /\ Slots[i] = d.sent[i] BY <2>2
    <3>3. LastOfBank(Slots, s, r) BY <2>2, <3>1, <3>2 DEF LastOfBank
    <3>4. s \in 1 .. Len(Slots) /\ r \in 1 .. Len(Slots) BY <2>2
    <3>5. Rgb(Slots[r]) = IF Slots[s].bank > Slots[r].bank THEN Rgb(Slots[s]) ELSE Successor(Rgb(Slots[s]))
      BY <2>1, <3>1, <3>3, <3>4 DEF RegularStream, CycleKept
    <3> QED BY <2>2, <3>5
  <2> QED BY <1>1, <2>3, <2>4, <2>5, <2>6 DEF Run
<1> QED BY <1>2, <1>3

LEMMA ChunkAsks == DriverTyped => Asks(ChunkArgs, d.rule)
BY DEF Asks, ChunkArgs

\* The frames of every pin.
AllFrames(all, q, len, begin, end, args) ==
  all = [p \in Pin |-> Frames(WireOf(q, p), begin, end, len[p], args)]

LEMMA ViolationsAre ==
  ASSUME NEW q, NEW len, NEW begin, NEW end, NEW args, NEW all, AllFrames(all, q, len, begin, end, args),
         NEW wire, wire = [p \in Pin |-> WireOf(q, p)]
  PROVE  /\ BankViolations(len, all) \subseteq Violations(wire, begin, end, len, args)
         /\ \A p \in Pin : ChannelViolations(all[p], len[p], args) \subseteq Violations(wire, begin, end, len, args)
         /\ \A x \in Violations(wire, begin, end, len, args) :
              x \in BankViolations(len, all) \/ \E p \in Pin : x \in ChannelViolations(all[p], len[p], args)
<1>1. all = [p \in Pin |-> Frames(wire[p], begin, end, len[p], args)] BY DEF AllFrames
<1>2. Violations(wire, begin, end, len, args) =
        BankViolations(len, all) \cup UNION {ChannelViolations(all[p], len[p], args) : p \in Pin}
  BY <1>1, Zenon DEF Violations
<1> QED BY <1>2

LEMMA QuietRun ==
  ASSUME NEW q, NEW len, NEW rule, Run(q, len, rule), NEW begin \in Nat, NEW end \in Nat,
         NEW args, Asks(args, rule), NEW wire, wire = [p \in Pin |-> WireOf(q, p)]
  PROVE  Violations(wire, begin, end, len, args) \subseteq {"no_complete_frames"}
<1> DEFINE all == [p \in Pin |-> Frames(WireOf(q, p), begin, end, len[p], args)]
<1>1. \A s \in 1 .. Len(q) : Rgb(q[s]) \in args.colors BY AllowedColours
<1>2. ASSUME NEW p \in Pin
      PROVE  /\ FramesOfRun(all[p], q, p, len, begin, end) /\ CompleteOfRun(all[p], q, p, len, begin, end)
             /\ ChannelViolations(all[p], len[p], args) \subseteq {"no_complete_frames"}
  <2>1. all[p] = Frames(WireOf(q, p), begin, end, len[p], args) OBVIOUS
  <2> HIDE DEF all
  <2> QED BY <1>1, <2>1, RunFrame, RunComplete, QuietChannel
<1>3. AllFrames(all, q, len, begin, end, args) BY DEF AllFrames
<1> HIDE DEF all
<1>4. BankViolations(len, all) = {}
  <2>1. AllFramesOfRun(all, q, len, begin, end) BY <1>2 DEF AllFramesOfRun
  <2> QED BY <2>1, QuietBanks
<1>5. \A x \in Violations(wire, begin, end, len, args) :
        x \in BankViolations(len, all) \/ \E p \in Pin : x \in ChannelViolations(all[p], len[p], args)
  BY <1>3, ViolationsAre
<1> QED BY <1>2, <1>4, <1>5

(***************************************************************************)
(* A capture cut anywhere out of a correct stream has no violation but     *)
(* that it may be too short for a complete frame: for every layout, any    *)
(* number of commands, each of the rules of colours, and every timing in   *)
(* which resets are long enough (analyze_channel, check_banks).            *)
(***************************************************************************)
THEOREM NoFalseAlarmHolds == Spec => []NoFalseAlarm
<1>1. ASSUME BenchInv PROVE NoFalseAlarm
  <2>1. SUFFICES ASSUME Analysed, d.fault = "none" PROVE m.verdict \subseteq {"no_complete_frames"}
    BY DEF NoFalseAlarm
  <2>2. DriverTyped /\ StreamRegular /\ Cut BY <1>1, <2>1 DEF BenchInv, DriverInv, ProcessInv
  <2>3. Run(d.sent, d.len, d.rule) BY <2>1, <2>2, RunOfStream
  <2>4. Asks(ChunkArgs, d.rule) BY <2>2, ChunkAsks
  <2>5. [p \in Pin |-> Wire(p)] = [p \in Pin |-> WireOf(d.sent, p)] BY <2>2, WireIs
  <2>6. /\ m.begin \in Nat /\ m.end \in Nat
        /\ m.verdict = Violations([p \in Pin |-> Wire(p)], m.begin, m.end, d.len, ChunkArgs)
    BY <2>2 DEF Cut
  <2>7. Violations([p \in Pin |-> Wire(p)], m.begin, m.end, d.len, ChunkArgs) \subseteq {"no_complete_frames"}
    BY <2>3, <2>4, <2>5, <2>6, QuietRun
  <2> QED BY <2>6, <2>7
<1>2. BenchInv => NoFalseAlarm BY <1>1
<1> QED BY <1>2, BenchHolds, PTL

-----------------------------------------------------------------------------
(* What the checker makes of the evidence.                                 *)

\* Slots in order, each on the pins of its bank.
Ordered(q, len) ==
  /\ len \in [Pin -> Nat] /\ q \in Seq(SlotSet) /\ InOrder(q)
  /\ \A s \in 1 .. Len(q) : Own(q[s], len)

LEMMA OrderedSlot ==
  ASSUME NEW q, NEW len, Ordered(q, len), NEW s \in 1 .. Len(q), NEW p \in Pin
  PROVE  /\ q[s] \in SlotSet /\ q[s].bank \in ActiveBanks(len) /\ q[s].bank \in 0 .. 2
         /\ q[s].burst[p].at \in Nat /\ q[s].burst[p].to \in Nat
         /\ IsHigh(q[s].burst[p]) <=> q[s].burst[p].at < q[s].burst[p].to
         /\ IsHigh(q[s].burst[p]) => p \in Members(q[s].bank, len) /\ BANKS[p] = q[s].bank /\ len[p] > 0
         /\ Len(q) \in Nat
<1>1. q[s] \in SlotSet /\ Len(q) \in Nat BY DEF Ordered
<1>2. Own(q[s], len) BY DEF Ordered
<1>3. IsHigh(q[s].burst[p]) => p \in Members(q[s].bank, len) /\ BANKS[p] = q[s].bank /\ len[p] > 0
  BY <1>2 DEF Own, Members
<1> QED BY <1>1, <1>2, <1>3, HighTimes DEF Own

LEMMA OrderedWire ==
  ASSUME NEW q, NEW len, Ordered(q, len), NEW p \in Pin
  PROVE  /\ Channel(WireOf(q, p), Separator)
         /\ \A s : s \in DOMAIN WireOf(q, p) <=> s \in 1 .. Len(q) /\ IsHigh(q[s].burst[p])
         /\ \A s \in DOMAIN WireOf(q, p) : WireOf(q, p)[s] = q[s].burst[p]
<1>1. \A s : s \in DOMAIN WireOf(q, p) <=> s \in 1 .. Len(q) /\ IsHigh(q[s].burst[p]) BY DEF WireOf
<1>2. \A s \in DOMAIN WireOf(q, p) : WireOf(q, p)[s] = q[s].burst[p] BY DEF WireOf
<1>3. ASSUME NEW s \in DOMAIN WireOf(q, p)
      PROVE  /\ s \in Nat /\ WireOf(q, p)[s].at \in Nat /\ WireOf(q, p)[s].to \in Nat
             /\ WireOf(q, p)[s].at < WireOf(q, p)[s].to
  <2>1. s \in 1 .. Len(q) /\ IsHigh(q[s].burst[p]) BY <1>1
  <2> QED BY <1>2, <2>1, OrderedSlot
<1>4. ASSUME NEW s \in DOMAIN WireOf(q, p), NEW r \in DOMAIN WireOf(q, p), s < r
      PROVE  WireOf(q, p)[s].to + Separator <= WireOf(q, p)[r].at
  <2>1. /\ s \in 1 .. Len(q) /\ IsHigh(q[s].burst[p]) /\ r \in 1 .. Len(q) /\ IsHigh(q[r].burst[p]) BY <1>1
  <2>2. Follows(q[s], q[r]) BY <1>4, <2>1 DEF Ordered, InOrder
  <2>3. q[s].bank = BANKS[p] /\ q[r].bank = BANKS[p] /\ q[s].bank \in 0 .. 2 BY <2>1, OrderedSlot
  <2>4. q[s].bank <= q[r].bank BY <2>3
  <2> QED BY <1>2, <2>1, <2>2, <2>4 DEF Follows
<1> QED BY <1>1, <1>2, <1>3, <1>4 DEF Channel

\* Bursts of one bank that start together are of one slot.
LEMMA StartOnce ==
  ASSUME NEW q, NEW len, Ordered(q, len), NEW s \in 1 .. Len(q), NEW r \in 1 .. Len(q), NEW x \in Pin, NEW y \in Pin,
         IsHigh(q[s].burst[x]), IsHigh(q[r].burst[y]), BANKS[x] = BANKS[y],
         q[s].burst[x].at = q[r].burst[y].at
  PROVE  r = s
<1>1. /\ q[s].bank = BANKS[x] /\ q[r].bank = BANKS[y] /\ q[s].bank \in 0 .. 2
      /\ q[s].burst[x].at \in Nat /\ q[r].burst[y].at \in Nat
  BY OrderedSlot
<1>2. q[s].bank = q[r].bank BY <1>1
<1>3. CASE s < r
  <2>1. Follows(q[s], q[r]) BY <1>3 DEF Ordered, InOrder
  <2>2. q[s].burst[x].at < q[r].burst[y].at \/ q[s].bank > q[r].bank BY <2>1, Zenon DEF Follows
  <2> QED BY <1>1, <1>2, <2>2
<1>4. CASE r < s
  <2>1. Follows(q[r], q[s]) BY <1>4 DEF Ordered, InOrder
  <2>2. q[r].burst[y].at < q[s].burst[x].at \/ q[r].bank > q[s].bank BY <2>1, Zenon DEF Follows
  <2> QED BY <1>1, <1>2, <2>2
<1> QED BY <1>3, <1>4

\* A frame that shows a burst as it was sent.
FrameOf(frames, s, b, length, args) ==
  /\ s \in DOMAIN frames /\ s \in Complete(frames) /\ frames[s].leading
  /\ frames[s].at = b.at /\ frames[s].to = b.to /\ frames[s].bits = b.to - b.at
  /\ frames[s].valid = (b.rgb \in args.colors)
  /\ frames[s].rgb = IF b.rgb \in args.colors /\ b.to - b.at <= length THEN b.rgb ELSE "none"

\* All of a slot is complete in the capture.
Whole(all, q, s, len, args) ==
  \A p \in Pin : IsHigh(q[s].burst[p]) => FrameOf(all[p], s, q[s].burst[p], len[p], args)

LEMMA FrameOfComplete ==
  ASSUME NEW q, NEW len, Ordered(q, len), NEW p \in Pin, NEW begin \in Nat, NEW end \in Nat, NEW args,
         NEW frames, frames = Frames(WireOf(q, p), begin, end, len[p], args), NEW s \in Complete(frames)
  PROVE  FrameOf(frames, s, q[s].burst[p], len[p], args) /\ s \in 1 .. Len(q) /\ IsHigh(q[s].burst[p])
<1> DEFINE w == WireOf(q, p)
<1>1. Channel(w, Separator) /\ Separator \in Nat BY OrderedWire, Numbers
<1>2. frames = Frames(w, begin, end, len[p], args) OBVIOUS
<1>3. \A i \in DOMAIN w : i \in 1 .. Len(q) /\ IsHigh(q[i].burst[p]) /\ w[i] = q[i].burst[p] BY OrderedWire
<1> HIDE DEF w
<1>4. /\ s \in Seen(w, begin, end) /\ s \in DOMAIN w /\ frames[s].leading
      /\ frames[s].at = w[s].at /\ frames[s].to = w[s].to /\ frames[s].bits = w[s].to - w[s].at
      /\ frames[s].rgb = IF w[s].rgb \in args.colors /\ frames[s].bits <= len[p] THEN w[s].rgb ELSE "none"
  <2>1. s \in Complete(Frames(w, begin, end, len[p], args)) BY <1>2
  <2> DEFINE frame == Frames(w, begin, end, len[p], args)[s]
  <2>2. /\ s \in Seen(w, begin, end) /\ s \in DOMAIN w /\ frame.leading
        /\ frame.at = w[s].at /\ frame.to = w[s].to /\ frame.bits = w[s].to - w[s].at
        /\ frame.rgb = IF w[s].rgb \in args.colors /\ frame.bits <= len[p] THEN w[s].rgb ELSE "none"
    BY <1>1, <2>1, CompleteIs
  <2> QED BY <1>2, <2>2, Zenon
<1>5. frames[s].valid = (w[s].rgb \in args.colors) BY <1>1, <1>2, <1>4, FrameIs
<1>6. s \in DOMAIN frames BY <1>2, <1>4, FramesOfSeen
<1>7. w[s] = q[s].burst[p] /\ s \in 1 .. Len(q) /\ IsHigh(q[s].burst[p]) BY <1>3, <1>4
<1> QED BY <1>4, <1>5, <1>6, <1>7 DEF FrameOf

\* A slot clear of both ends of a capture is whole.
LEMMA ClearIsWhole ==
  ASSUME NEW q, NEW len, Ordered(q, len), NEW begin \in Nat, NEW end \in Nat, NEW args,
         NEW all, AllFrames(all, q, len, begin, end, args), NEW s \in 1 .. Len(q),
         \A p \in Pin : IsHigh(q[s].burst[p]) =>
           begin + MinReset <= q[s].burst[p].at /\ q[s].burst[p].to + MinReset <= end
  PROVE  Whole(all, q, s, len, args)
<1>1. SUFFICES ASSUME NEW p \in Pin, IsHigh(q[s].burst[p])
               PROVE  FrameOf(all[p], s, q[s].burst[p], len[p], args)
  BY DEF Whole
<1>2. all[p] = Frames(WireOf(q, p), begin, end, len[p], args) BY DEF AllFrames
<1>3. /\ Channel(WireOf(q, p), Separator) /\ Separator \in Nat
      /\ s \in DOMAIN WireOf(q, p) /\ WireOf(q, p)[s] = q[s].burst[p]
  BY <1>1, OrderedWire, Numbers
<1>4. begin + MinReset <= WireOf(q, p)[s].at /\ WireOf(q, p)[s].to + MinReset <= end BY <1>1, <1>3
<1>5. s \in Complete(Frames(WireOf(q, p), begin, end, len[p], args)) BY <1>3, <1>4, ClearIsComplete
<1> QED BY <1>2, <1>5, FrameOfComplete

PinReported(len, all, args) == \E p \in Pin : ChannelViolations(all[p], len[p], args) # {}

LEMMA OddReported ==
  ASSUME NEW q, NEW len, Ordered(q, len), NEW rule, NEW args, args.colors = Allowed(rule), NEW all,
         NEW s \in 1 .. Len(q), Whole(all, q, s, len, args), Odd(q[s], len, rule)
  PROVE  PinReported(len, all, args)
<1>1. PICK p \in Pin :
        IsHigh(q[s].burst[p]) /\ (q[s].burst[p].to # q[s].burst[p].at + len[p] \/ q[s].burst[p].rgb \notin Allowed(rule))
  BY DEF Odd
<1> DEFINE b == q[s].burst[p]
           frames == all[p]
<1>2. FrameOf(frames, s, b, len[p], args) BY <1>1 DEF Whole
<1>3. len[p] > 0 /\ len[p] \in Nat /\ b.at \in Nat /\ b.to \in Nat BY <1>1, OrderedSlot DEF Ordered
<1>4. b.to # b.at + len[p] \/ b.rgb \notin args.colors BY <1>1
<1> HIDE DEF b, frames
<1>5. /\ s \in DOMAIN frames /\ s \in Complete(frames) /\ frames[s].bits = b.to - b.at
      /\ frames[s].valid = (b.rgb \in args.colors)
  BY <1>2 DEF FrameOf
<1>6. CASE b.to # b.at + len[p]
  <2>1. frames[s].bits # len[p] BY <1>3, <1>5, <1>6
  <2>2. WrongCount(frames, len[p]) BY <1>5, <2>1 DEF WrongCount
  <2>3. "frame_bit_count" \in ChannelViolations(frames, len[p], args)
    BY <1>3, <2>2 DEF ChannelViolations, Found
  <2> QED BY <2>3 DEF frames, PinReported
<1>7. CASE b.to = b.at + len[p]
  <2>1. frames[s].bits <= len[p] BY <1>3, <1>5, <1>7
  <2>2. ~frames[s].valid
    <3>1. b.rgb \notin args.colors BY <1>4, <1>7
    <3> QED BY <1>5, <3>1, Zenon
  <2>3. WrongContent(frames, len[p]) BY <1>5, <2>1, <2>2, Zenon DEF WrongContent
  <2>4. "frame_content" \in ChannelViolations(frames, len[p], args)
    BY <1>3, <2>3 DEF ChannelViolations, Found
  <2> QED BY <2>4 DEF frames, PinReported
<1> QED BY <1>6, <1>7

LEMMA PinsReported ==
  ASSUME NEW len, NEW all, NEW bank \in ActiveBanks(len), PinsDiffer(bank, len, all)
  PROVE  BankViolations(len, all) # {}
<1>1. "bank_pins" \in BankViolations(len, all) BY DEF BankViolations, Found
<1> QED BY <1>1

\* The beginnings of a pin that are known are those of bursts.
StartsOfBursts(frames, q, p) ==
  \A f \in KnownStart(frames) :
    \E i \in 1 .. Len(q) : IsHigh(q[i].burst[p]) /\ f.at = q[i].burst[p].at

LEMMA KnownIsBurst ==
  ASSUME NEW q, NEW len, Ordered(q, len), NEW begin \in Nat, NEW end \in Nat, NEW args,
         NEW p \in Pin, NEW frames, frames = Frames(WireOf(q, p), begin, end, len[p], args)
  PROVE  StartsOfBursts(frames, q, p)
<1> SUFFICES ASSUME NEW f \in KnownStart(frames)
             PROVE  \E i \in 1 .. Len(q) : IsHigh(q[i].burst[p]) /\ f.at = q[i].burst[p].at
  BY DEF StartsOfBursts
<1> DEFINE w == WireOf(q, p)
<1>1. Channel(w, Separator) /\ Separator \in Nat BY OrderedWire, Numbers
<1>2. \A i \in DOMAIN w : i \in 1 .. Len(q) /\ IsHigh(q[i].burst[p]) /\ w[i] = q[i].burst[p] BY OrderedWire
<1>3. frames = Frames(w, begin, end, len[p], args) OBVIOUS
<1> HIDE DEF w
<1>4. PICK i \in DOMAIN frames : frames[i].leading /\ f = frames[i] BY DEF KnownStart
<1>5. i \in Seen(w, begin, end) /\ i \in DOMAIN w
  <2>1. DOMAIN frames = Seen(w, begin, end) BY <1>3, FramesOfSeen
  <2> QED BY <1>4, <2>1 DEF Seen
<1>6. frames[i].leading => frames[i].at = w[i].at BY <1>1, <1>3, <1>5, KnownBeginning
<1> QED BY <1>2, <1>4, <1>5, <1>6

StartsDiffer(all, x, y) == {f.at : f \in KnownStart(all[x])} # {f.at : f \in KnownStart(all[y])}

\* A burst whose beginning another pin of its bank does not show.
LEMMA StartReported ==
  ASSUME NEW q, NEW len, Ordered(q, len), NEW begin \in Nat, NEW end \in Nat, NEW args,
         NEW all, AllFrames(all, q, len, begin, end, args), NEW s \in 1 .. Len(q), Whole(all, q, s, len, args),
         NEW x \in Pin, NEW y \in Pin, BANKS[x] = BANKS[y], IsHigh(q[s].burst[x]),
         IsHigh(q[s].burst[y]) => q[s].burst[y].at # q[s].burst[x].at
  PROVE  StartsDiffer(all, x, y)
<1> DEFINE at == q[s].burst[x].at
<1>1. all[y] = Frames(WireOf(q, y), begin, end, len[y], args) BY DEF AllFrames
<1>2. FrameOf(all[x], s, q[s].burst[x], len[x], args) BY DEF Whole
<1>3. all[x][s] \in KnownStart(all[x]) /\ all[x][s].at = at BY <1>2 DEF FrameOf, KnownStart
<1> HIDE DEF at
<1>4. ASSUME NEW f \in KnownStart(all[y]) PROVE f.at # at
  <2>1. PICK i \in 1 .. Len(q) : IsHigh(q[i].burst[y]) /\ f.at = q[i].burst[y].at
    <3>1. StartsOfBursts(all[y], q, y) BY <1>1, KnownIsBurst
    <3> QED BY <3>1 DEF StartsOfBursts
  <2>2. ASSUME f.at = at PROVE FALSE
    <3>1. q[s].burst[x].at = q[i].burst[y].at BY <2>1, <2>2 DEF at
    <3>2. i = s BY <2>1, <3>1, StartOnce
    <3> QED BY <2>1, <3>1, <3>2
  <2> QED BY <2>2
<1>5. at \in {f.at : f \in KnownStart(all[x])} /\ at \notin {f.at : f \in KnownStart(all[y])} BY <1>3, <1>4
<1> QED BY <1>5 DEF StartsDiffer

LEMMA UnalignedReported ==
  ASSUME NEW q, NEW len, Ordered(q, len), NEW begin \in Nat, NEW end \in Nat, NEW args,
         NEW all, AllFrames(all, q, len, begin, end, args), NEW s \in 1 .. Len(q), Whole(all, q, s, len, args),
         Unaligned(q[s], len)
  PROVE  BankViolations(len, all) # {}
<1> DEFINE bank == q[s].bank
           a == Anchor(bank, len)
<1>1. PICK p \in Members(bank, len) : Apart(q[s].burst[a], q[s].burst[p]) BY DEF Unaligned, First
<1>2. bank \in ActiveBanks(len) /\ len \in [Pin -> Nat]
  <2>1. 1 \in Pin BY DEF Pin
  <2> QED BY <2>1, OrderedSlot DEF Ordered
<1>3. a \in Members(bank, len) /\ a \in Pin /\ p \in Pin /\ BANKS[a] = BANKS[p]
  BY <1>2, AnchorIs DEF Members
<1>4. p # a BY <1>1 DEF Apart
<1>5. StartsDiffer(all, a, p)
  <2> HIDE DEF a, bank
  <2>1. BANKS[p] = BANKS[a] BY <1>3
  <2>2. CASE /\ IsHigh(q[s].burst[a])
             /\ IsHigh(q[s].burst[p]) => q[s].burst[p].at # q[s].burst[a].at
    BY <1>3, <2>2, StartReported
  <2>3. CASE /\ IsHigh(q[s].burst[p])
             /\ IsHigh(q[s].burst[a]) => q[s].burst[a].at # q[s].burst[p].at
    <3>1. StartsDiffer(all, p, a) BY <1>3, <2>1, <2>3, StartReported
    <3> QED BY <3>1, Zenon DEF StartsDiffer
  <2> QED BY <1>1, <2>2, <2>3 DEF Apart
<1>6. PinsDiffer(bank, len, all) BY <1>3, <1>4, <1>5, Zenon DEF PinsDiffer, StartsDiffer
<1> HIDE DEF bank
<1> QED BY <1>2, <1>6, PinsReported

\* An exact burst is shown in its colour.
LEMMA ExactShown ==
  ASSUME NEW q, NEW len, Ordered(q, len), NEW rule, NEW args, args.colors = Allowed(rule), NEW all,
         NEW s \in 1 .. Len(q), Whole(all, q, s, len, args), NEW p \in Pin, Exact(q[s].burst[p], len[p], rule)
  PROVE  /\ FrameOf(all[p], s, q[s].burst[p], len[p], args) /\ all[p][s].rgb = q[s].burst[p].rgb
         /\ q[s].burst[p].rgb # "none" /\ q[s].burst[p].rgb \in Color
<1> DEFINE b == q[s].burst[p]
           frame == all[p][s]
<1>1. FrameOf(all[p], s, b, len[p], args) BY DEF Whole, Exact
<1>2. IsHigh(b) /\ b.to = b.at + len[p] /\ b.rgb \in args.colors /\ b.rgb \in Allowed(rule) BY DEF Exact
<1>3. b.at \in Nat /\ b.to \in Nat /\ len[p] \in Nat BY OrderedSlot DEF Ordered
<1>4. frame.rgb = IF b.rgb \in args.colors /\ b.to - b.at <= len[p] THEN b.rgb ELSE "none" BY <1>1 DEF FrameOf
<1>5. b.rgb \in Color /\ b.rgb # "none" BY <1>2, Colours DEF Allowed
<1> HIDE DEF b, frame
<1>6. frame.rgb = b.rgb
  <2>1. b.to - b.at <= len[p] BY <1>2, <1>3
  <2> QED BY <1>2, <1>4, <2>1
<1> QED BY <1>1, <1>5, <1>6 DEF b, frame

LEMMA DiscordReported ==
  ASSUME NEW q, NEW len, Ordered(q, len), NEW rule, NEW args, args.colors = Allowed(rule), NEW all,
         NEW s \in 1 .. Len(q), Whole(all, q, s, len, args), Discord(q[s], len, rule)
  PROVE  BankViolations(len, all) # {}
<1> DEFINE bank == q[s].bank
           a == Anchor(bank, len)
<1>1. PICK p \in Members(bank, len) :
        /\ Exact(q[s].burst[p], len[p], rule) /\ Exact(q[s].burst[a], len[a], rule)
        /\ q[s].burst[p].at = q[s].burst[a].at /\ q[s].burst[p].rgb # q[s].burst[a].rgb
  BY DEF Discord, First
<1>2. bank \in ActiveBanks(len) /\ len \in [Pin -> Nat]
  <2>1. 1 \in Pin BY DEF Pin
  <2> QED BY <2>1, OrderedSlot DEF Ordered
<1>3. a \in Members(bank, len) /\ a \in Pin /\ p \in Pin BY <1>2, AnchorIs DEF Members
<1>4. p # a BY <1>1
<1>5. /\ FrameOf(all[p], s, q[s].burst[p], len[p], args) /\ all[p][s].rgb = q[s].burst[p].rgb
      /\ q[s].burst[p].rgb # "none"
  BY <1>1, <1>3, ExactShown, SMTT(30)
<1>6. /\ FrameOf(all[a], s, q[s].burst[a], len[a], args) /\ all[a][s].rgb = q[s].burst[a].rgb
      /\ q[s].burst[a].rgb # "none"
  BY <1>1, <1>3, ExactShown, SMTT(30)
<1>7. /\ all[p][s] \in KnownStart(all[p]) /\ all[p][s].at = q[s].burst[p].at
      /\ all[a][s] \in KnownStart(all[a]) /\ all[a][s].at = q[s].burst[a].at
  BY <1>5, <1>6, Zenon DEF FrameOf, KnownStart
<1>8. /\ all[a][s].at = all[p][s].at /\ "none" \notin {all[a][s].rgb, all[p][s].rgb}
      /\ all[a][s].rgb # all[p][s].rgb
  BY <1>1, <1>5, <1>6, <1>7
<1>9. PinsDiffer(bank, len, all) BY <1>3, <1>4, <1>7, <1>8, Zenon DEF PinsDiffer
<1> HIDE DEF bank
<1> QED BY <1>2, <1>9, PinsReported

-----------------------------------------------------------------------------
(* Slots that follow one another wrongly.                                  *)

\* A bank's event for a slot.
EventFor(i, bank, len, all) ==
  LET anchor == all[Anchor(bank, len)]
      known == UNION {KnownStart(all[p]) : p \in Members(bank, len)} IN
  [bank |-> bank, at |-> anchor[i].at, rgb |-> anchor[i].rgb,
   ends |-> {anchor[i].to} \cup {f.to : f \in {g \in known : g.at = anchor[i].at}}]

LEMMA EventsAre ==
  ASSUME NEW bank, NEW len, NEW all
  PROVE  /\ Events(bank, len, all) = {EventFor(i, bank, len, all) : i \in Complete(all[Anchor(bank, len)])}
         /\ \A i : /\ EventFor(i, bank, len, all).bank = bank
                   /\ EventFor(i, bank, len, all).at = all[Anchor(bank, len)][i].at
                   /\ EventFor(i, bank, len, all).rgb = all[Anchor(bank, len)][i].rgb
                   /\ all[Anchor(bank, len)][i].to \in EventFor(i, bank, len, all).ends
BY DEF Events, EventFor

\* Every event is of a slot whose anchor is high.
EventAt(e, q, len, i) ==
  i \in 1 .. Len(q) /\ e.bank = q[i].bank /\ IsHigh(First(q[i], len)) /\ e.at = First(q[i], len).at

LEMMA EventOfSlot ==
  ASSUME NEW q, NEW len, Ordered(q, len), NEW begin \in Nat, NEW end \in Nat, NEW args,
         NEW all, AllFrames(all, q, len, begin, end, args), NEW e \in AllEvents(len, all)
  PROVE  \E i \in 1 .. Len(q) : EventAt(e, q, len, i)
<1>1. PICK bank \in ActiveBanks(len) : e \in Events(bank, len, all) BY DEF AllEvents
<1> DEFINE a == Anchor(bank, len)
<1>2. a \in Members(bank, len) /\ a \in Pin /\ BANKS[a] = bank BY AnchorIs DEF Ordered, Members
<1>3. PICK i \in Complete(all[a]) : e = EventFor(i, bank, len, all) BY <1>1, EventsAre
<1>4. e.bank = bank /\ e.at = all[a][i].at BY <1>3, EventsAre
<1>5. all[a] = Frames(WireOf(q, a), begin, end, len[a], args) BY <1>2 DEF AllFrames
<1> HIDE DEF a
<1>6. FrameOf(all[a], i, q[i].burst[a], len[a], args) /\ i \in 1 .. Len(q) /\ IsHigh(q[i].burst[a])
  BY <1>2, <1>3, <1>5, FrameOfComplete
<1>7. q[i].bank = bank BY <1>2, <1>6, OrderedSlot
<1>8. all[a][i].at = q[i].burst[a].at BY <1>6 DEF FrameOf
<1> QED BY <1>4, <1>6, <1>7, <1>8 DEF EventAt, First, a

\* Of two slots the event of the first is before that of the second.
LEMMA EventsFollow ==
  ASSUME NEW q, NEW len, Ordered(q, len), NEW s \in 1 .. Len(q), NEW r \in 1 .. Len(q), s < r,
         NEW x, EventAt(x, q, len, s), NEW y, EventAt(y, q, len, r)
  PROVE  Before(x, y) /\ ~Before(y, x)
<1> DEFINE a == Anchor(q[s].bank, len)
           b == Anchor(q[r].bank, len)
<1>1. 1 \in Pin BY DEF Pin
<1>2. q[s].bank \in ActiveBanks(len) /\ q[r].bank \in ActiveBanks(len) BY <1>1, OrderedSlot
<1>3. a \in Pin /\ b \in Pin BY <1>2, AnchorIs DEF Ordered
<1>4. /\ x.at = q[s].burst[a].at /\ y.at = q[r].burst[b].at /\ x.bank = q[s].bank /\ y.bank = q[r].bank
      /\ IsHigh(q[s].burst[a]) /\ IsHigh(q[r].burst[b])
  BY DEF EventAt, First
<1>5. Follows(q[s], q[r]) BY DEF Ordered, InOrder
<1> HIDE DEF a, b
<1>6. \/ q[s].burst[a].at < q[r].burst[b].at
      \/ q[s].burst[a].at = q[r].burst[b].at /\ q[s].bank > q[r].bank
  BY <1>3, <1>4, <1>5, Zenon DEF Follows
<1>7. q[s].burst[a].at \in Nat /\ q[r].burst[b].at \in Nat /\ q[s].bank \in 0 .. 2 /\ q[r].bank \in 0 .. 2
  BY <1>3, OrderedSlot
<1>8. Before(x, y) BY <1>4, <1>6, <1>7 DEF Before
<1>9. ~Before(y, x) BY <1>4, <1>6, <1>7 DEF Before
<1> QED BY <1>8, <1>9

\* An event that shows a slot.
Shown(e, q, s, len, all) ==
  /\ EventAt(e, q, len, s) /\ First(q[s], len).to \in e.ends
  /\ e.rgb = all[Anchor(q[s].bank, len)][s].rgb

LEMMA ShownEvent ==
  ASSUME NEW q, NEW len, Ordered(q, len), NEW all, NEW args, NEW s \in 1 .. Len(q),
         Whole(all, q, s, len, args), IsHigh(First(q[s], len))
  PROVE  \E e \in AllEvents(len, all) : Shown(e, q, s, len, all)
<1> DEFINE bank == q[s].bank
           a == Anchor(bank, len)
<1>1. bank \in ActiveBanks(len) /\ len \in [Pin -> Nat]
  <2>1. 1 \in Pin BY DEF Pin
  <2> QED BY <2>1, OrderedSlot DEF Ordered
<1>2. a \in Pin BY <1>1, AnchorIs
<1>3. FrameOf(all[a], s, q[s].burst[a], len[a], args) BY <1>2 DEF Whole, First
<1>4. s \in Complete(all[a]) /\ all[a][s].at = q[s].burst[a].at /\ all[a][s].to = q[s].burst[a].to
  BY <1>3 DEF FrameOf
<1> DEFINE e == EventFor(s, bank, len, all)
<1>5. e \in Events(bank, len, all) /\ e.bank = bank /\ e.at = all[a][s].at /\ e.rgb = all[a][s].rgb
      /\ all[a][s].to \in e.ends
  BY <1>4, EventsAre
<1>6. First(q[s], len) = q[s].burst[a] BY DEF First
<1> HIDE DEF e
<1>7. e \in AllEvents(len, all) BY <1>1, <1>5 DEF AllEvents
<1>8. Shown(e, q, s, len, all) BY <1>4, <1>5, <1>6 DEF Shown, EventAt
<1> QED BY <1>7, <1>8

\* Two events with none between.
NextTo(x, y, events) ==
  /\ x \in events /\ y \in events /\ Before(x, y)
  /\ ~\E z \in events : Before(x, z) /\ Before(z, y)

LEMMA ShownNextTo ==
  ASSUME NEW q, NEW len, Ordered(q, len), NEW begin \in Nat, NEW end \in Nat, NEW args,
         NEW all, AllFrames(all, q, len, begin, end, args), NEW s \in 1 .. Len(q), NEW r \in 1 .. Len(q), r = s + 1,
         Whole(all, q, s, len, args), Whole(all, q, r, len, args), PairHigh(q[s], q[r], len)
  PROVE  \E x, y : /\ NextTo(x, y, AllEvents(len, all))
                   /\ Shown(x, q, s, len, all) /\ Shown(y, q, r, len, all)
<1> DEFINE events == AllEvents(len, all)
<1>1. PICK x \in events : Shown(x, q, s, len, all) BY ShownEvent DEF PairHigh
<1>2. PICK y \in events : Shown(y, q, r, len, all) BY ShownEvent DEF PairHigh
<1>3. s < r /\ EventAt(x, q, len, s) /\ EventAt(y, q, len, r) BY <1>1, <1>2 DEF Shown
<1>4. Before(x, y) BY <1>3, EventsFollow
<1>5. ASSUME NEW z \in events, Before(x, z), Before(z, y) PROVE FALSE
  <2>1. PICK i \in 1 .. Len(q) : EventAt(z, q, len, i) BY EventOfSlot
  <2>2. ~(i < s) BY <1>3, <1>5, <2>1, EventsFollow
  <2>3. ~(r < i) BY <1>3, <1>5, <2>1, EventsFollow
  <2>4. i = s \/ i = r BY <2>2, <2>3
  <2>5. ASSUME NEW e, NEW j \in 1 .. Len(q), EventAt(e, q, len, j), i = j PROVE ~Before(e, z) /\ ~Before(z, e)
    <3>1. e.at = z.at /\ e.bank = z.bank BY <2>1, <2>5 DEF EventAt
    <3>2. 1 \in Pin BY DEF Pin
    <3>3. q[j].bank \in ActiveBanks(len) /\ q[j].bank \in 0 .. 2 BY <3>2, OrderedSlot
    <3>4. Anchor(q[j].bank, len) \in Pin BY <3>3, AnchorIs DEF Ordered
    <3>5. e.at \in Nat /\ e.bank \in 0 .. 2 BY <2>5, <3>3, <3>4, OrderedSlot DEF EventAt, First
    <3> QED BY <3>1, <3>5 DEF Before
  <2> QED BY <1>3, <1>5, <2>4, <2>5
<1> HIDE DEF events
<1>6. NextTo(x, y, events) BY <1>4, <1>5 DEF NextTo
<1> QED BY <1>1, <1>2, <1>6 DEF events

LEMMA NextToReported ==
  ASSUME NEW len, NEW all, NEW x, NEW y, NextTo(x, y, AllEvents(len, all)),
         \/ ~InCyclicOrder(x.bank, y.bank, ActiveBanks(len))
         \/ \E to \in x.ends : y.at < to
         \/ y.bank < x.bank /\ x.rgb # y.rgb
  PROVE  BankViolations(len, all) # {}
<1> DEFINE events == UNION {Events(bank, len, all) : bank \in ActiveBanks(len)}
<1>1. /\ x \in events /\ y \in events /\ Before(x, y)
      /\ ~\E z \in events : Before(x, z) /\ Before(z, y)
  BY DEF NextTo, AllEvents
<1>2. CASE ~InCyclicOrder(x.bank, y.bank, ActiveBanks(len))
  <2>1. "bank_order" \in BankViolations(len, all) BY <1>1, <1>2 DEF BankViolations, Found
  <2> QED BY <2>1
<1>3. CASE \E to \in x.ends : y.at < to
  <2>1. "bank_overlap" \in BankViolations(len, all) BY <1>1, <1>3 DEF BankViolations, Found
  <2> QED BY <2>1
<1>4. CASE y.bank < x.bank /\ x.rgb # y.rgb
  <2>1. "bank_color_mismatch" \in BankViolations(len, all) BY <1>1, <1>4 DEF BankViolations, Found
  <2> QED BY <2>1
<1> QED BY <1>2, <1>3, <1>4

\* Neighbours in the wrong order, that overlap or differ in their colours.
LEMMA PairReported ==
  ASSUME NEW q, NEW len, Ordered(q, len), NEW begin \in Nat, NEW end \in Nat, NEW rule,
         NEW args, args.colors = Allowed(rule), NEW all, AllFrames(all, q, len, begin, end, args),
         NEW s \in 1 .. Len(q), NEW r \in 1 .. Len(q), r = s + 1,
         Whole(all, q, s, len, args), Whole(all, q, r, len, args),
         Disorder(q[s], q[r], len) \/ Overlapping(q[s], q[r], len) \/ Clash(q[s], q[r], len, rule)
  PROVE  BankViolations(len, all) # {}
<1>1. PairHigh(q[s], q[r], len) BY DEF Disorder, Overlapping, Clash, PairHigh, Exact
<1>2. PICK x, y : /\ NextTo(x, y, AllEvents(len, all))
                  /\ Shown(x, q, s, len, all) /\ Shown(y, q, r, len, all)
  BY <1>1, ShownNextTo
<1>3. /\ x.bank = q[s].bank /\ y.bank = q[r].bank
      /\ y.at = First(q[r], len).at /\ First(q[s], len).to \in x.ends
      /\ x.rgb = all[Anchor(q[s].bank, len)][s].rgb /\ y.rgb = all[Anchor(q[r].bank, len)][r].rgb
  BY <1>2 DEF Shown, EventAt
<1>4. CASE Disorder(q[s], q[r], len)
  <2>1. ~InCyclicOrder(x.bank, y.bank, ActiveBanks(len)) BY <1>3, <1>4 DEF InCyclicOrder, Disorder
  <2> QED BY <1>2, <2>1, NextToReported
<1>5. CASE Overlapping(q[s], q[r], len)
  <2>1. \E to \in x.ends : y.at < to BY <1>3, <1>5 DEF Overlapping
  <2> QED BY <1>2, <2>1, NextToReported
<1>6. CASE Clash(q[s], q[r], len, rule)
  <2> DEFINE a == Anchor(q[s].bank, len)
             b == Anchor(q[r].bank, len)
  <2>1. a \in Pin /\ b \in Pin
    <3>1. 1 \in Pin BY DEF Pin
    <3>2. q[s].bank \in ActiveBanks(len) /\ q[r].bank \in ActiveBanks(len) BY <3>1, OrderedSlot
    <3> QED BY <3>2, AnchorIs DEF Ordered
  <2>2. Exact(q[s].burst[a], len[a], rule) /\ Exact(q[r].burst[b], len[b], rule) BY <1>6 DEF Clash, First
  <2>3. all[a][s].rgb = q[s].burst[a].rgb /\ all[b][r].rgb = q[r].burst[b].rgb BY <2>1, <2>2, ExactShown
  <2>4. y.bank < x.bank /\ x.rgb # y.rgb BY <1>3, <1>6, <2>3 DEF Clash, First
  <2> QED BY <1>2, <2>4, NextToReported
<1> QED BY <1>4, <1>5, <1>6

\* The frames of a pin are of slots in which it is high.
LEMMA FramesOfSlots ==
  ASSUME NEW q, NEW len, Ordered(q, len), NEW begin, NEW end, NEW args,
         NEW all, AllFrames(all, q, len, begin, end, args), NEW p \in Pin, NEW i \in DOMAIN all[p]
  PROVE  i \in 1 .. Len(q) /\ IsHigh(q[i].burst[p]) /\ i \in Nat
<1>1. all[p] = Frames(WireOf(q, p), begin, end, len[p], args) BY DEF AllFrames
<1>2. i \in Seen(WireOf(q, p), begin, end) BY <1>1, FramesOfSeen
<1>3. i \in DOMAIN WireOf(q, p) BY <1>2 DEF Seen
<1> QED BY <1>3, OrderedWire

LEMMA HastyReported ==
  ASSUME NEW q, NEW len, Ordered(q, len), NEW begin, NEW end, NEW args,
         NEW all, AllFrames(all, q, len, begin, end, args),
         NEW s \in 1 .. Len(q), NEW r \in 1 .. Len(q), r = s + 1,
         Whole(all, q, s, len, args), Whole(all, q, r, len, args), Hasty(q[s], q[r], len)
  PROVE  PinReported(len, all, args)
<1> DEFINE a == Anchor(q[s].bank, len)
           frames == all[a]
<1>1. a \in Pin
  <2>1. 1 \in Pin BY DEF Pin
  <2>2. q[s].bank \in ActiveBanks(len) BY <2>1, OrderedSlot
  <2> QED BY <2>2, AnchorIs DEF Ordered
<1>2. /\ IsHigh(q[s].burst[a]) /\ IsHigh(q[r].burst[a])
      /\ q[r].burst[a].at - q[s].burst[a].to \in Separator .. MinReset - 1
  BY DEF Hasty, PairHigh, First
<1>3. FrameOf(frames, s, q[s].burst[a], len[a], args) /\ FrameOf(frames, r, q[r].burst[a], len[a], args)
  BY <1>1, <1>2, SMTT(30) DEF Whole
<1>4. /\ s \in DOMAIN frames /\ r \in DOMAIN frames
      /\ frames[r].at - frames[s].to \in Separator .. MinReset - 1
  BY <1>2, <1>3 DEF FrameOf
<1>5. Adjacent(s, r, DOMAIN frames)
  <2>1. \A i \in DOMAIN frames : i \in Nat BY <1>1, FramesOfSlots
  <2> QED BY <2>1 DEF Adjacent
<1> HIDE DEF frames
<1>6. ShortReset(frames) BY <1>4, <1>5 DEF ShortReset
<1>7. "reset_too_short" \in ChannelViolations(frames, len[a], args) BY <1>6 DEF ChannelViolations, Found
<1> QED BY <1>1, <1>7 DEF frames, PinReported

LEMMA CycleOnce == \A i, j \in 1 .. 3 : j = (i % 3) + 1 => Cycle[j] = Successor(Cycle[i])
<1>1. /\ Cycle[1] = "red" /\ Cycle[2] = "green" /\ Cycle[3] = "blue"
      /\ Successor("red") = "green" /\ Successor("green") = "blue" /\ Successor("blue") = "red"
  BY Colours, SuccessorIs
<1> QED BY <1>1

LEMMA UnsequencedReported ==
  ASSUME NEW q, NEW len, Ordered(q, len), NEW begin, NEW end,
         NEW args, args.colors = Allowed("cycle"), args.sequence = Cycle,
         NEW all, AllFrames(all, q, len, begin, end, args),
         NEW s \in 1 .. Len(q), NEW r \in 1 .. Len(q), s < r,
         Whole(all, q, s, len, args), Whole(all, q, r, len, args), Unsequenced(q, s, r, len)
  PROVE  PinReported(len, all, args)
<1>1. PICK p \in Pin :
        /\ Exact(q[s].burst[p], len[p], "cycle") /\ Exact(q[r].burst[p], len[p], "cycle")
        /\ q[r].burst[p].rgb # Successor(q[s].burst[p].rgb)
        /\ \A i \in s + 1 .. r - 1 : ~IsHigh(q[i].burst[p])
  BY DEF Unsequenced
<1> DEFINE frames == all[p]
           decoded == {i \in Complete(frames) : frames[i].rgb # "none"}
<1>2. /\ FrameOf(frames, s, q[s].burst[p], len[p], args) /\ frames[s].rgb = q[s].burst[p].rgb
      /\ q[s].burst[p].rgb # "none"
  BY <1>1, ExactShown
<1>3. /\ FrameOf(frames, r, q[r].burst[p], len[p], args) /\ frames[r].rgb = q[r].burst[p].rgb
      /\ q[r].burst[p].rgb # "none"
  BY <1>1, ExactShown
<1>4. s \in decoded /\ r \in decoded BY <1>2, <1>3 DEF FrameOf
<1>5. Adjacent(s, r, decoded)
  <2>1. ASSUME NEW i \in decoded, s < i, i < r PROVE FALSE
    <3>1. i \in DOMAIN all[p] BY <2>1 DEF Complete
    <3>2. i \in Nat /\ IsHigh(q[i].burst[p]) BY <3>1, FramesOfSlots
    <3>3. i \in s + 1 .. r - 1 BY <2>1, <3>2
    <3> QED BY <1>1, <3>2, <3>3
  <2> QED BY <2>1 DEF Adjacent
<1>6. frames[r].rgb # Successor(frames[s].rgb) BY <1>1, <1>2, <1>3
<1>7. len[p] # 0
  <2>1. len[p] > 0 BY <1>1, OrderedSlot DEF Exact
  <2> QED BY <2>1
<1>8. Cycle # << >> /\ DOMAIN Cycle = 1 .. 3 /\ Len(Cycle) = 3
  <2>1. Len(Cycle) = 3 /\ DOMAIN Cycle = 1 .. 3 BY Colours
  <2>2. Cycle # << >>
    <3> SUFFICES ASSUME Cycle = << >> PROVE FALSE OBVIOUS
    <3>1. Cycle[1] = "red" /\ 1 \in DOMAIN Cycle BY Colours
    <3>2. DOMAIN << >> = {} OBVIOUS
    <3> QED BY <3>1, <3>2
  <2> QED BY <2>1, <2>2
<1> HIDE DEF frames, decoded
<1>9. ~FollowsSequence(decoded, frames, Cycle)
  <2> SUFFICES ASSUME NEW place \in [decoded -> 1 .. 3],
                      \A i \in decoded : Cycle[place[i]] = frames[i].rgb,
                      \A i, j \in decoded : Adjacent(i, j, decoded) => place[j] = (place[i] % Len(Cycle)) + 1
               PROVE  FALSE
    BY <1>8 DEF FollowsSequence
  <2>1. place[s] \in 1 .. 3 /\ place[r] \in 1 .. 3 /\ place[r] = (place[s] % 3) + 1 BY <1>4, <1>5, <1>8
  <2>2. Cycle[place[r]] = Successor(Cycle[place[s]]) BY <2>1, CycleOnce
  <2> QED BY <1>4, <1>6, <2>2
<1>10. WrongSequence(frames, args.sequence) BY <1>8, <1>9, Zenon DEF WrongSequence, decoded
<1>11. "color_sequence" \in ChannelViolations(frames, len[p], args)
  BY <1>7, <1>10 DEF ChannelViolations, Found
<1> QED BY <1>11 DEF frames, PinReported

-----------------------------------------------------------------------------
(* What goes wrong is reported.                                            *)

Reported(len, all, args) == BankViolations(len, all) # {} \/ PinReported(len, all, args)

LEMMA EvidenceReported ==
  ASSUME NEW q, NEW len, Ordered(q, len), NEW begin \in Nat, NEW end \in Nat, NEW rule,
         NEW args, args.colors = Allowed(rule), rule = "cycle" => args.sequence = Cycle,
         NEW all, AllFrames(all, q, len, begin, end, args), NEW at \in Nat,
         \A s \in 1 .. Len(q) : Near(q[s], at) => Whole(all, q, s, len, args),
         Marks(q, at, len, rule) \/ Traces(q, at, len, rule)
  PROVE  Reported(len, all, args)
<1>1. \A s \in 1 .. Len(q) : q[s].k = at \/ q[s].k = at + 1 => Whole(all, q, s, len, args) BY DEF Near
<1>2. CASE Marks(q, at, len, rule)
  <2>1. CASE \E s \in 1 .. Len(q) : q[s].k = at /\ SlotMark(q[s], len, rule)
    <3>1. PICK s \in 1 .. Len(q) : q[s].k = at /\ SlotMark(q[s], len, rule) BY <2>1
    <3>2. Whole(all, q, s, len, args) BY <1>1, <3>1
    <3>3. CASE Odd(q[s], len, rule) BY <3>2, <3>3, OddReported DEF Reported
    <3>4. CASE Unaligned(q[s], len) BY <3>2, <3>4, UnalignedReported DEF Reported
    <3>5. CASE Discord(q[s], len, rule) BY <3>2, <3>5, DiscordReported DEF Reported
    <3> QED BY <3>1, <3>3, <3>4, <3>5 DEF SlotMark
  <2>2. CASE \E s, r \in 1 .. Len(q) : r = s + 1 /\ q[s].k = at /\ q[r].k = at /\ Overlapping(q[s], q[r], len)
    <3>1. PICK s \in 1 .. Len(q), r \in 1 .. Len(q) :
            r = s + 1 /\ q[s].k = at /\ q[r].k = at /\ Overlapping(q[s], q[r], len)
      BY <2>2
    <3>2. Whole(all, q, s, len, args) /\ Whole(all, q, r, len, args) BY <1>1, <3>1
    <3> QED BY <3>1, <3>2, PairReported DEF Reported
  <2>3. CASE \E s, r \in 1 .. Len(q) : r = s + 1 /\ q[s].k = at /\ q[r].k = at + 1 /\ Hasty(q[s], q[r], len)
    <3>1. PICK s \in 1 .. Len(q), r \in 1 .. Len(q) :
            r = s + 1 /\ q[s].k = at /\ q[r].k = at + 1 /\ Hasty(q[s], q[r], len)
      BY <2>3
    <3>2. Whole(all, q, s, len, args) /\ Whole(all, q, r, len, args) BY <1>1, <3>1
    <3> QED BY <3>1, <3>2, HastyReported DEF Reported
  <2> QED BY <1>2, <2>1, <2>2, <2>3 DEF Marks
<1>3. CASE Traces(q, at, len, rule)
  <2>1. CASE \E s, r \in 1 .. Len(q) : /\ r = s + 1 /\ Near(q[s], at) /\ Near(q[r], at)
                                       /\ Disorder(q[s], q[r], len) \/ Clash(q[s], q[r], len, rule)
    <3>1. PICK s \in 1 .. Len(q), r \in 1 .. Len(q) :
            /\ r = s + 1 /\ Near(q[s], at) /\ Near(q[r], at)
            /\ Disorder(q[s], q[r], len) \/ Clash(q[s], q[r], len, rule)
      BY <2>1
    <3> QED BY <3>1, PairReported DEF Reported
  <2>2. CASE /\ rule = "cycle"
             /\ \E s, r \in 1 .. Len(q) : s < r /\ Near(q[s], at) /\ Near(q[r], at) /\ Unsequenced(q, s, r, len)
    <3>1. PICK s \in 1 .. Len(q), r \in 1 .. Len(q) :
            s < r /\ Near(q[s], at) /\ Near(q[r], at) /\ Unsequenced(q, s, r, len)
      BY <2>2
    <3>2. args.colors = Allowed("cycle") /\ args.sequence = Cycle BY <2>2
    <3> QED BY <3>1, <3>2, UnsequencedReported DEF Reported
  <2> QED BY <1>3, <2>1, <2>2 DEF Traces
<1> QED BY <1>2, <1>3

LEMMA SentInOrder ==
  ASSUME DriverTyped, StreamOrdered, Active # {}
  PROVE  Ordered(d.sent, d.len)
<1>1. d.len \in [Pin -> Nat] /\ d.sent \in Seq(SlotSet) BY Layout DEF DriverTyped, DriverSet
<1>2. InOrder(d.sent)
  <2>1. \A s \in 1 .. Len(d.sent) : s \in 1 .. Len(Slots) /\ Slots[s] = d.sent[s] BY SlotsAre
  <2> QED BY <2>1 DEF StreamOrdered, InOrder
<1> QED BY <1>1, <1>2 DEF Ordered, DriverTyped

\* What does not need the bank to be sent shows in what is sent.
LEMMA SentShows ==
  ASSUME DriverTyped, NEW at \in Nat, at + 1 < d.k,
         Marks(Slots, at, d.len, d.rule) \/ Traces(Slots, at, d.len, d.rule)
  PROVE  Marks(d.sent, at, d.len, d.rule) \/ Traces(d.sent, at, d.len, d.rule)
<1> DEFINE n == Len(d.sent)
<1>1. n \in Nat /\ Len(Slots) = n + 1 /\ Slots[n + 1].k = d.k /\ d.k \in Nat
      /\ \A s \in 1 .. n : Slots[s] = d.sent[s]
  BY SlotsAre, PendingIs DEF DriverTyped, DriverSet
<1> HIDE DEF n
<1>2. \A s \in 1 .. Len(Slots) : Near(Slots[s], at) \/ Slots[s].k = at \/ Slots[s].k = at + 1 =>
        s \in 1 .. n /\ Slots[s] = d.sent[s]
  BY <1>1 DEF Near
<1>3. CASE \E s \in 1 .. Len(Slots) : Slots[s].k = at /\ SlotMark(Slots[s], d.len, d.rule)
  BY <1>2, <1>3 DEF Marks, n
<1>4. CASE \E s, r \in 1 .. Len(Slots) :
             r = s + 1 /\ Slots[s].k = at /\ Slots[r].k = at /\ Overlapping(Slots[s], Slots[r], d.len)
  BY <1>2, <1>4 DEF Marks, n
<1>5. CASE \E s, r \in 1 .. Len(Slots) :
             r = s + 1 /\ Slots[s].k = at /\ Slots[r].k = at + 1 /\ Hasty(Slots[s], Slots[r], d.len)
  BY <1>2, <1>5 DEF Marks, n
<1>6. CASE \E s, r \in 1 .. Len(Slots) :
             /\ r = s + 1 /\ Near(Slots[s], at) /\ Near(Slots[r], at)
             /\ Disorder(Slots[s], Slots[r], d.len) \/ Clash(Slots[s], Slots[r], d.len, d.rule)
  BY <1>2, <1>6 DEF Traces, n
<1>7. CASE /\ d.rule = "cycle"
           /\ \E s, r \in 1 .. Len(Slots) :
                s < r /\ Near(Slots[s], at) /\ Near(Slots[r], at) /\ Unsequenced(Slots, s, r, d.len)
  <2>1. PICK s \in 1 .. Len(Slots), r \in 1 .. Len(Slots) :
          s < r /\ Near(Slots[s], at) /\ Near(Slots[r], at) /\ Unsequenced(Slots, s, r, d.len)
    BY <1>7
  <2>2. s \in 1 .. n /\ r \in 1 .. n /\ Slots[s] = d.sent[s] /\ Slots[r] = d.sent[r] BY <1>2, <2>1
  <2>3. \A i \in s + 1 .. r - 1 : Slots[i] = d.sent[i] BY <1>1, <2>2
  <2>4. Unsequenced(d.sent, s, r, d.len) BY <2>1, <2>2, <2>3 DEF Unsequenced
  <2> QED BY <1>7, <2>1, <2>2, <2>4 DEF Traces, n
<1> QED BY <1>3, <1>4, <1>5, <1>6, <1>7 DEF Marks, Traces

(***************************************************************************)
(* Whatever goes wrong in one command is reported when the capture holds   *)
(* the commands before and after it, but for a command that is lost, or    *)
(* repeated by the only bank, where no sequence of colours shows it: for   *)
(* every layout and timing (analyze_channel, check_banks).                 *)
(***************************************************************************)
THEOREM FaultsAreReportedHolds == Spec => []FaultsAreReported
<1>1. ASSUME BenchInv PROVE FaultsAreReported
  <2> DEFINE Clear(s) == \A p \in Pin : IsHigh(d.sent[s].burst[p]) =>
               m.begin + MinReset <= d.sent[s].burst[p].at /\ d.sent[s].burst[p].to + MinReset <= m.end
  <2>1. SUFFICES ASSUME Analysed, d.fault # "none", 1 < d.at, d.at < Stream,
                        \A s \in DOMAIN d.sent : d.sent[s].k \in d.at - 1 .. d.at + 1 => Clear(s),
                        ~(d.fault = "command" /\ d.rule # "cycle")
                 PROVE  m.verdict # {}
    BY Zenon DEF FaultsAreReported
  <2>2. DriverTyped /\ StreamOrdered /\ Marked /\ Cut BY <1>1, <2>1 DEF BenchInv, DriverInv, ProcessInv
  <2>3. Active # {} BY <2>1, <2>2 DEF DriverTyped
  <2>4. Ordered(d.sent, d.len) /\ DOMAIN d.sent = 1 .. Len(d.sent) BY <2>2, <2>3, SentInOrder DEF Ordered
  <2>5. d.at \in Nat /\ d.at + 1 < d.k
    <3>1. Commands = Stream BY <2>1 DEF Analysed, Commands
    <3>2. d.k > Stream /\ Stream \in Nat BY <2>2, <3>1, DriverAssumption DEF Cut, Over
    <3>3. d.k \in Nat /\ d.at \in Nat BY <2>2 DEF DriverTyped, DriverSet
    <3> QED BY <2>1, <3>2, <3>3
  <2>6. Marks(d.sent, d.at, d.len, d.rule) \/ Traces(d.sent, d.at, d.len, d.rule)
    <3>1. Marks(Slots, d.at, d.len, d.rule) \/ Traces(Slots, d.at, d.len, d.rule)
      BY <2>1, <2>2 DEF Marked, Excused
    <3> QED BY <2>2, <2>5, <3>1, SentShows
  <2>7. m.begin \in Nat /\ m.end \in Nat BY <2>2 DEF Cut
  <2>8. ChunkArgs.colors = Allowed(d.rule) /\ (d.rule = "cycle" => ChunkArgs.sequence = Cycle)
    BY DEF ChunkArgs, Allowed
  <2> DEFINE all == [p \in Pin |-> Frames(WireOf(d.sent, p), m.begin, m.end, d.len[p], ChunkArgs)]
             wire == [p \in Pin |-> WireOf(d.sent, p)]
  <2>9. AllFrames(all, d.sent, d.len, m.begin, m.end, ChunkArgs) BY DEF AllFrames
  <2>10. m.verdict = Violations(wire, m.begin, m.end, d.len, ChunkArgs)
    <3>1. [p \in Pin |-> Wire(p)] = wire BY <2>2, WireIs
    <3> QED BY <2>2, <3>1 DEF Cut
  <2>11. wire = [p \in Pin |-> WireOf(d.sent, p)] OBVIOUS
  <2> HIDE DEF all, wire
  <2>12. ASSUME NEW s \in 1 .. Len(d.sent), Near(d.sent[s], d.at)
         PROVE  Whole(all, d.sent, s, d.len, ChunkArgs)
    <3>1. Clear(s) BY <2>1, <2>4, <2>12 DEF Near
    <3> QED BY <2>4, <2>7, <2>9, <3>1, ClearIsWhole
  <2>13. Reported(d.len, all, ChunkArgs) BY <2>4, <2>5, <2>6, <2>7, <2>8, <2>9, <2>12, EvidenceReported
  <2>14. /\ BankViolations(d.len, all) \subseteq m.verdict
         /\ \A p \in Pin : ChannelViolations(all[p], d.len[p], ChunkArgs) \subseteq m.verdict
    BY <2>9, <2>10, <2>11, ViolationsAre
  <2> QED BY <2>13, <2>14 DEF Reported, PinReported
<1>2. BenchInv => FaultsAreReported BY <1>1
<1> QED BY <1>2, BenchHolds, PTL

-----------------------------------------------------------------------------
(* A case that passes.                                                     *)

\* All that was sent is strictly between the beginning and the end of the capture.
LEMMA SentInside ==
  ASSUME DriverTyped, StreamOrdered, Bounded, Over, NEW s \in 1 .. Len(d.sent), NEW p \in Pin,
         IsHigh(d.sent[s].burst[p])
  PROVE  0 < d.sent[s].burst[p].at /\ d.sent[s].burst[p].to < d.t
<1>1. Active # {}
  <2> SUFFICES ASSUME Active = {} PROVE FALSE OBVIOUS
  <2>1. d.sent = << >> BY DEF DriverTyped
  <2>2. Len(d.sent) = 0 BY <2>1
  <2> QED BY <2>2
<1>2. Ordered(d.sent, d.len) BY <1>1, SentInOrder
<1>3. /\ d.sent[s].bank \in ActiveBanks(d.len) /\ d.sent[s].bank \in 0 .. 2
      /\ d.sent[s].burst[p].at \in Nat /\ d.sent[s].burst[p].to \in Nat
  BY <1>2, OrderedSlot
<1>4. Settle <= d.sent[s].burst[p].at BY <1>2 DEF Ordered, Own
<1>5. d.bank = TopBank(d.len) /\ d.bank \in ActiveBanks(d.len) BY <1>1, TopBankIs DEF Bounded, Active
<1>6. d.sent[s].bank <= d.bank BY <1>1, <1>3, <1>5, TopBankIs DEF Active
<1> DEFINE a == Anchor(d.bank, d.len)
<1>7. a \in Pin /\ IsHigh(Pending.burst[a]) /\ Pending.burst[a].at = d.t /\ Pending.bank = d.bank
  BY <1>2, <1>5, AnchorIs, PendingIs DEF Ordered
<1>8. Follows(d.sent[s], Pending)
  <2>1. /\ Len(d.sent) \in Nat /\ Len(Slots) = Len(d.sent) + 1 /\ Slots[Len(d.sent) + 1] = Pending
        /\ Slots[s] = d.sent[s]
    BY SlotsAre
  <2>2. s \in 1 .. Len(Slots) /\ Len(d.sent) + 1 \in 1 .. Len(Slots) /\ s < Len(d.sent) + 1 BY <2>1
  <2> QED BY <1>1, <2>1, <2>2 DEF StreamOrdered, InOrder
<1> HIDE DEF a
<1>9. d.sent[s].burst[p].to + Separator <= d.t BY <1>6, <1>7, <1>8, Zenon DEF Follows
<1>10. d.t \in Nat BY DEF DriverTyped, DriverSet
<1>11. \A at, to, t \in Nat : Settle <= at /\ to + Separator <= t => 0 < at /\ to < t BY Numbers
<1> QED BY <1>3, <1>4, <1>9, <1>10, <1>11, Zenon

\* What a case that passed has sent, and the capture's end.
Passed == m.work = "case" /\ m.pc = "done" /\ m.result = "pass"

LEMMA PassedIs ==
  ASSUME BenchInv, Passed
  PROVE  /\ DriverTyped /\ StreamOrdered /\ Marked /\ Bounded /\ Over /\ Clean
         /\ d.rule = "fixed" /\ m.begin = 0 /\ m.end = d.t /\ d.t \in Nat /\ Commands = Count
         /\ d.k = Count + 1 /\ Count \in Nat
<1>1. DriverInv /\ ProcessInv /\ CaseHolds /\ Clean BY DEF BenchInv, ProcessInv, CaseHolds, Passed
<1>2. Over /\ m.end = d.t BY <1>1 DEF CaseHolds, SenderRests, StopAwaited, Passed
<1>3. Commands = Count /\ Count \in Nat BY DriverAssumption DEF Commands, Passed
<1>4. d.t \in Nat /\ d.k \in Nat BY <1>1 DEF DriverInv, DriverTyped, DriverSet
<1>5. d.k = Count + 1 BY <1>1, <1>2, <1>3, <1>4 DEF DriverInv, Bounded, Over
<1> QED BY <1>1, <1>2, <1>3, <1>4, <1>5 DEF DriverInv, CaseHolds

\* The frames of a case that passed are all of what was sent.
FramesOfCase(all) ==
  /\ AllFrames(all, d.sent, d.len, 0, d.t, CaseArgs)
  /\ BankViolations(d.len, all) = {}
  /\ \A p \in Pin : /\ ChannelViolations(all[p], d.len[p], CaseArgs) = {}
                    /\ Complete(all[p]) = DOMAIN WireOf(d.sent, p) /\ DOMAIN all[p] = DOMAIN WireOf(d.sent, p)

LEMMA CaseFrames ==
  ASSUME BenchInv, Passed, Active # {}
  PROVE  \E all : /\ FramesOfCase(all)
                  /\ \A s \in 1 .. Len(d.sent) : Whole(all, d.sent, s, d.len, CaseArgs)
<1> DEFINE all == [p \in Pin |-> Frames(WireOf(d.sent, p), 0, d.t, d.len[p], CaseArgs)]
           wire == [p \in Pin |-> WireOf(d.sent, p)]
<1>1. /\ DriverTyped /\ StreamOrdered /\ Bounded /\ Over /\ Clean
      /\ m.begin = 0 /\ m.end = d.t /\ d.t \in Nat /\ 0 \in Nat
  BY PassedIs
<1>2. Ordered(d.sent, d.len) BY <1>1, SentInOrder
<1>3. AllFrames(all, d.sent, d.len, 0, d.t, CaseArgs) BY DEF AllFrames
<1>4. [p \in Pin |-> Wire(p)] = wire BY <1>1, WireIs
<1>5. Violations(wire, 0, d.t, d.len, CaseArgs) = {} BY <1>1, <1>4 DEF Clean
<1>6. ASSUME NEW p \in Pin
      PROVE  DOMAIN all[p] = DOMAIN WireOf(d.sent, p) /\ Complete(all[p]) = DOMAIN all[p]
  <2>1. all[p] = Frames(WireOf(d.sent, p), 0, d.t, d.len[p], CaseArgs) OBVIOUS
  <2>2. Wire(p) = WireOf(d.sent, p) BY <1>1, WireIs
  <2>3. Complete(all[p]) = DOMAIN all[p] BY <1>1, <2>1, <2>2, Zenon DEF Clean
  <2>4. ASSUME NEW s \in DOMAIN WireOf(d.sent, p)
        PROVE  WireOf(d.sent, p)[s].to > 0 /\ WireOf(d.sent, p)[s].at < d.t
    <3>1. /\ s \in 1 .. Len(d.sent) /\ IsHigh(d.sent[s].burst[p])
          /\ WireOf(d.sent, p)[s] = d.sent[s].burst[p]
      BY <1>2, OrderedWire
    <3>2. 0 < d.sent[s].burst[p].at /\ d.sent[s].burst[p].to < d.t BY <1>1, <3>1, SentInside
    <3>3. d.sent[s].burst[p].at \in Nat /\ d.sent[s].burst[p].to \in Nat
          /\ d.sent[s].burst[p].at < d.sent[s].burst[p].to
      BY <1>2, <3>1, OrderedSlot
    <3> QED BY <1>1, <3>1, <3>2, <3>3
  <2>5. Seen(WireOf(d.sent, p), 0, d.t) = DOMAIN WireOf(d.sent, p) BY <2>4 DEF Seen
  <2>6. DOMAIN all[p] = Seen(WireOf(d.sent, p), 0, d.t) BY <2>1, FramesOfSeen
  <2> QED BY <2>3, <2>5, <2>6
<1>7. wire = [p \in Pin |-> WireOf(d.sent, p)] OBVIOUS
<1> HIDE DEF all, wire
<1>8. /\ BankViolations(d.len, all) = {}
      /\ \A p \in Pin : ChannelViolations(all[p], d.len[p], CaseArgs) = {}
  <2>1. /\ BankViolations(d.len, all) \subseteq Violations(wire, 0, d.t, d.len, CaseArgs)
        /\ \A p \in Pin : ChannelViolations(all[p], d.len[p], CaseArgs) \subseteq
                            Violations(wire, 0, d.t, d.len, CaseArgs)
    BY <1>3, <1>7, ViolationsAre
  <2> QED BY <1>5, <2>1
<1>9. ASSUME NEW s \in 1 .. Len(d.sent), NEW p \in Pin, IsHigh(d.sent[s].burst[p])
      PROVE  FrameOf(all[p], s, d.sent[s].burst[p], d.len[p], CaseArgs)
  <2>1. s \in DOMAIN WireOf(d.sent, p) BY <1>2, <1>9, OrderedWire
  <2>2. s \in Complete(all[p]) BY <1>6, <2>1
  <2>3. all[p] = Frames(WireOf(d.sent, p), 0, d.t, d.len[p], CaseArgs) BY <1>3 DEF AllFrames
  <2>4. s \in Complete(Frames(WireOf(d.sent, p), 0, d.t, d.len[p], CaseArgs)) BY <2>2, <2>3
  <2> QED BY <1>1, <1>2, <2>3, <2>4, FrameOfComplete
<1> QED BY <1>3, <1>6, <1>8, <1>9 DEF FramesOfCase, Whole

\* A capture that ends in what would be too short a reset cannot tell that a frame has ended.
LEMMA LastFrameEnds ==
  ASSUME BenchInv, Passed, Active # {}, NEW all, FramesOfCase(all), NEW p \in Pin,
         NEW n \in 1 .. Len(d.sent), n = Len(d.sent), IsHigh(d.sent[n].burst[p])
  PROVE  d.sent[n].burst[p].to + MinReset <= d.t
<1> DEFINE w == WireOf(d.sent, p)
<1>1. DriverTyped /\ StreamOrdered /\ d.t \in Nat /\ 0 \in Nat BY PassedIs
<1>2. Ordered(d.sent, d.len) BY <1>1, SentInOrder
<1>3. /\ n \in DOMAIN w /\ w[n] = d.sent[n].burst[p] /\ Channel(w, Separator) /\ Separator \in Nat
      /\ \A j \in DOMAIN w : j \in 1 .. Len(d.sent)
  BY <1>2, OrderedWire, Numbers
<1>4. all[p] = Frames(w, 0, d.t, d.len[p], CaseArgs) BY DEF FramesOfCase, AllFrames
<1>5. n \in DOMAIN all[p] /\ n \in Complete(all[p]) BY <1>3 DEF FramesOfCase
<1> HIDE DEF w
<1>6. n \in Seen(w, 0, d.t) BY <1>4, <1>5, FramesOfSeen
<1>7. all[p][n].trailing BY <1>5 DEF Complete
<1>8. all[p][n].trailing = (d.t - all[p][n].to >= MinReset \/ \E j \in Seen(w, 0, d.t) : n < j)
  BY <1>1, <1>3, <1>4, <1>6, FrameIs
<1>9. ~\E j \in Seen(w, 0, d.t) : n < j
  <2>1. \A j \in Seen(w, 0, d.t) : j \in 1 .. Len(d.sent) BY <1>3 DEF Seen
  <2> QED BY <2>1
<1>10. d.t - all[p][n].to >= MinReset BY <1>7, <1>8, <1>9, Zenon
<1>11. all[p][n].to = w[n].to
  <2> DEFINE frame == all[p][n]
             length == d.len[p]
             end == d.t
  <2>1. frame = Frames(w, 0, end, length, CaseArgs)[n] BY <1>4
  <2>2. 0 \in Nat /\ end \in Nat /\ Separator \in Nat /\ Channel(w, Separator) /\ n \in Seen(w, 0, end)
    BY <1>1, <1>3, <1>6
  <2>3. frame.trailing BY <1>7
  <2> HIDE DEF frame, length, end
  <2>4. frame.to = w[n].to BY <2>1, <2>2, <2>3, KnownEnd, SMTT(30)
  <2> QED BY <2>4 DEF frame
<1>12. d.sent[n].burst[p].to \in Nat BY <1>2, OrderedSlot
<1> QED BY <1>1, <1>3, <1>10, <1>11, <1>12, Numbers

\* A case that passed had as many bursts on each pin as it has commands.
LEMMA CountIsExact ==
  ASSUME BenchInv, Passed, Active # {}, NEW all, FramesOfCase(all)
  PROVE  ~Miscounted
<1> SUFFICES ASSUME NEW p \in Pin, d.len[p] > 0 PROVE Bursts(d.sent, p) = Due(d.k, d.bank, p)
  BY DEF Miscounted
<1>1. DriverTyped /\ Bounded /\ Over /\ d.k = Count + 1 /\ Count \in Nat BY PassedIs
<1>2. Cardinality(Complete(all[p])) = Count
  <2> SUFFICES ASSUME Cardinality(Complete(all[p])) # Count PROVE FALSE OBVIOUS
  <2>1. CaseArgs.expected = Count BY DEF CaseArgs
  <2>2. Count # -1 /\ d.len[p] # 0 BY <1>1
  <2>3. "expected_frame_count" \in ChannelViolations(all[p], d.len[p], CaseArgs)
    BY <2>1, <2>2 DEF ChannelViolations, Found
  <2> QED BY <2>3 DEF FramesOfCase
<1>3. Bursts(d.sent, p) = Count BY <1>2 DEF FramesOfCase, Bursts
<1>4. BANKS[p] <= d.bank
  <2>1. d.bank = TopBank(d.len) BY <1>1 DEF Bounded
  <2>2. BANKS[p] \in ActiveBanks(d.len) BY MembersOfActive
  <2> QED BY <2>1, <2>2, TopBankIs
<1>5. BANKS[p] \in 0 .. 2 /\ d.bank \in 0 .. 2 BY <1>1, PinBanks DEF DriverTyped, DriverSet
<1> HIDE DEF BANKS
<1>6. Due(d.k, d.bank, p) = Count BY <1>1, <1>4, <1>5 DEF Due
<1> QED BY <1>3, <1>6

\* Nor has it a mark of anything that went wrong.
LEMMA NoMarks ==
  ASSUME BenchInv, Passed, Active # {}, NEW all, FramesOfCase(all),
         \A s \in 1 .. Len(d.sent) : Whole(all, d.sent, s, d.len, CaseArgs), d.at <= Count, d.at \in Nat
  PROVE  ~Marks(Slots, d.at, d.len, "fixed")
<1>1. DriverTyped /\ StreamOrdered /\ d.t \in Nat /\ d.k = Count + 1 /\ Count \in Nat BY PassedIs
<1>2. Ordered(d.sent, d.len) BY <1>1, SentInOrder
<1>3. CaseArgs.colors = Allowed("fixed") /\ 0 \in Nat BY DEF CaseArgs, Allowed
<1>4. /\ AllFrames(all, d.sent, d.len, 0, d.t, CaseArgs) /\ BankViolations(d.len, all) = {}
      /\ ~PinReported(d.len, all, CaseArgs)
  BY DEF FramesOfCase, PinReported
<1> DEFINE n == Len(d.sent)
<1>5. n \in Nat /\ Len(Slots) = n + 1 /\ Slots[n + 1] = Pending /\ Pending.k = d.k
      /\ \A s \in 1 .. n : Slots[s] = d.sent[s]
  BY <1>1, SlotsAre, PendingIs
<1>6. \A s \in 1 .. Len(Slots) : Slots[s].k = d.at => s \in 1 .. n
  BY <1>1, <1>5
<1>7. ASSUME NEW s \in 1 .. Len(Slots), Slots[s].k = d.at PROVE ~SlotMark(Slots[s], d.len, "fixed")
  <2>1. s \in 1 .. Len(d.sent) /\ Slots[s] = d.sent[s] /\ Whole(all, d.sent, s, d.len, CaseArgs)
    BY <1>5, <1>6, <1>7
  <2>2. ~Odd(d.sent[s], d.len, "fixed") BY <1>2, <1>3, <1>4, <2>1, OddReported
  <2>3. ~Unaligned(d.sent[s], d.len) BY <1>1, <1>2, <1>3, <1>4, <2>1, UnalignedReported
  <2> QED BY <2>1, <2>2, <2>3 DEF SlotMark
<1>8. ASSUME NEW s \in 1 .. Len(Slots), NEW r \in 1 .. Len(Slots), r = s + 1,
             Slots[s].k = d.at, Slots[r].k = d.at
      PROVE  ~Overlapping(Slots[s], Slots[r], d.len)
  <2>1. /\ s \in 1 .. Len(d.sent) /\ Slots[s] = d.sent[s] /\ Whole(all, d.sent, s, d.len, CaseArgs)
        /\ r \in 1 .. Len(d.sent) /\ Slots[r] = d.sent[r] /\ Whole(all, d.sent, r, d.len, CaseArgs)
    BY <1>5, <1>6, <1>8
  <2> QED BY <1>1, <1>2, <1>3, <1>4, <1>8, <2>1, PairReported
<1>9. ASSUME NEW s \in 1 .. Len(Slots), NEW r \in 1 .. Len(Slots), r = s + 1, Slots[s].k = d.at
      PROVE  ~Hasty(Slots[s], Slots[r], d.len)
  <2>1. s \in 1 .. Len(d.sent) /\ Slots[s] = d.sent[s] /\ Whole(all, d.sent, s, d.len, CaseArgs)
    BY <1>5, <1>6, <1>9
  <2>2. CASE r \in 1 .. n
    <3>1. r \in 1 .. Len(d.sent) /\ Slots[r] = d.sent[r] /\ Whole(all, d.sent, r, d.len, CaseArgs) BY <1>5, <2>2
    <3> QED BY <1>2, <1>4, <1>9, <2>1, <3>1, HastyReported
  <2>3. CASE r \notin 1 .. n
    <3>1. s = Len(d.sent) /\ Slots[r] = Pending BY <1>5, <1>9, <2>1, <2>3
    <3> SUFFICES ASSUME Hasty(d.sent[s], Pending, d.len) PROVE FALSE BY <2>1, <3>1
    <3> DEFINE a == Anchor(d.sent[s].bank, d.len)
    <3>2. a \in Pin
      <4>1. 1 \in Pin BY DEF Pin
      <4>2. d.sent[s].bank \in ActiveBanks(d.len) BY <1>2, <2>1, <4>1, OrderedSlot, SMTT(30)
      <4> QED BY <1>2, <4>2, AnchorIs DEF Ordered
    <3>3. /\ IsHigh(d.sent[s].burst[a])
          /\ Pending.burst[a].at - d.sent[s].burst[a].to \in Separator .. MinReset - 1
      BY DEF Hasty, PairHigh, First
    <3>4. Pending.burst[a].at = d.t BY <1>1, <3>2, PendingIs
    <3> HIDE DEF a
    <3>5. d.sent[s].burst[a].to + MinReset <= d.t BY <2>1, <3>1, <3>2, <3>3, LastFrameEnds
    <3>6. d.sent[s].burst[a].to \in Nat BY <1>2, <2>1, <3>2, OrderedSlot
    <3>7. d.t - d.sent[s].burst[a].to \in Separator .. MinReset - 1 BY <3>3, <3>4
    <3>8. \A to, t \in Nat : t - to \in Separator .. MinReset - 1 => ~(to + MinReset <= t) BY Numbers
    <3> QED BY <1>1, <3>5, <3>6, <3>7, <3>8
  <2> QED BY <2>2, <2>3
<1> QED BY <1>7, <1>8, <1>9 DEF Marks

(***************************************************************************)
(* A case passes only if the driver sent exactly its commands, without     *)
(* anything going wrong on a wire, and the capture holds all of it and has *)
(* ended; a case leaves its capture running only if its handler failed as  *)
(* well: for every layout and timing, any number of commands, and every    *)
(* interleaving of the driver, the capture and run_case with its waits     *)
(* that give up and its writes that fail (run_case, analyze).              *)
(***************************************************************************)
THEOREM CasesAreExact == Spec => []CaseIsExact
<1>1. ASSUME BenchInv PROVE CaseIsCovered
  <2>1. SUFFICES ASSUME m.work = "case", m.pc = "done"
                 PROVE  /\ c.pc = "gone" \/ m.raised
                        /\ m.result = "pass" =>
                             /\ c.pc = "gone" /\ Over /\ m.end = d.t
                             /\ \A p \in Pin : \A s \in DOMAIN Wire(p) :
                                  m.begin < Wire(p)[s].at /\ Wire(p)[s].to < m.end
    BY Zenon DEF CaseIsCovered
  <2>2. (c.pc = "gone" \/ m.raised) /\ (m.result = "pass" => c.pc = "gone")
    BY <1>1, <2>1 DEF BenchInv, ProcessInv, CaseHolds, StopAwaited
  <2>3. ASSUME m.result = "pass", NEW p \in Pin, NEW s \in DOMAIN Wire(p)
        PROVE  m.begin < Wire(p)[s].at /\ Wire(p)[s].to < m.end
    <3>1. DriverTyped /\ StreamOrdered /\ Bounded /\ Over /\ m.begin = 0 /\ m.end = d.t
      BY <1>1, <2>1, <2>3, PassedIs DEF Passed
    <3>2. Wire(p) = WireOf(d.sent, p) BY <3>1, WireIs
    <3>3. s \in 1 .. Len(d.sent) /\ IsHigh(d.sent[s].burst[p]) /\ Wire(p)[s] = d.sent[s].burst[p]
      BY <2>3, <3>2 DEF WireOf
    <3> QED BY <3>1, <3>3, SentInside
  <2>4. m.result = "pass" => Over /\ m.end = d.t BY <1>1, <2>1, PassedIs DEF Passed
  <2> QED BY <2>2, <2>3, <2>4
<1>2. ASSUME BenchInv, Passed PROVE d.fault = "none"
  <2> SUFFICES ASSUME d.fault # "none" PROVE FALSE OBVIOUS
  <2>1. DriverTyped /\ Marked /\ Bounded /\ d.rule = "fixed" /\ Commands = Count BY <1>2, PassedIs
  <2>2. Active # {} BY <2>1 DEF DriverTyped
  <2>3. d.at <= Count /\ d.at \in Nat BY <2>1 DEF Bounded, DriverTyped, DriverSet
  <2>4. PICK all : /\ FramesOfCase(all)
                   /\ \A s \in 1 .. Len(d.sent) : Whole(all, d.sent, s, d.len, CaseArgs)
    BY <1>2, <2>2, CaseFrames
  <2>5. ~Miscounted BY <1>2, <2>2, <2>4, CountIsExact
  <2>6. ~Marks(Slots, d.at, d.len, "fixed") BY <1>2, <2>2, <2>3, <2>4, NoMarks
  <2> QED BY <2>1, <2>5, <2>6 DEF Marked
<1>3. BenchInv => CaseIsExact BY <1>1, <1>2 DEF CaseIsExact, Passed
<1> QED BY <1>3, BenchHolds, PTL
===============================================================================
