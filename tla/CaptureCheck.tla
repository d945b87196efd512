----------------------------- MODULE CaptureCheck -----------------------------
(***************************************************************************)
(* The capture checker (tools/analyze_capture.py, mode dld): what it finds *)
(* wrong with the six channels of a capture.                               *)
(*                                                                         *)
(* Time is counted in pixels.  A channel is a function: bursts [at, to,     *)
(* rgb], numbered in the order of time, with at least Separator between    *)
(* two; the colour of a burst whose pixels differ is "mixed".  The widths  *)
(* of bits, the phase of a fragment whose both ends are cut and the 50 ns  *)
(* of skew are below this resolution: pins start together or a pixel apart.*)
(***************************************************************************)
EXTENDS Integers, Sequences, FiniteSetsExt

CONSTANTS MinReset,   \* --min-reset-us
          Separator   \* --reset-separator-us

ASSUME ResetAssumption == MinReset \in Nat /\ Separator \in 1 .. MinReset

Pin == 1 .. 6
BANKS == <<2, 2, 1, 0, 1, 2>>

\* The banks with an enabled string; a command goes through them in the order 2, 1, 0.
ActiveBanks(len) == {BANKS[p] : p \in {q \in Pin : len[q] > 0}}
Members(bank, len) == {p \in Pin : BANKS[p] = bank /\ len[p] > 0}

\* The bank wanted after this one.
NextBank(bank, active) ==
  LET lower == {b \in active : b < bank} IN Max(IF lower = {} THEN active ELSE lower)

\* The longest string of the bank, the first of several.
Anchor(bank, len) ==
  CHOOSE p \in Members(bank, len) : \A q \in Members(bank, len) :
    len[q] < len[p] \/ (len[q] = len[p] /\ p <= q)

\* The bursts of which something lies between begin and end.
Seen(bursts, begin, end) == {i \in DOMAIN bursts : bursts[i].to > begin /\ bursts[i].at < end}

(* args: [colors, sequence, expected]: the colours --colors allows, the cycle of --sequence  *)
(* or << >>, and --expected-frames or -1.                                                    *)

\* The frames of a channel.  rgb is "none" where it is not decoded or matches no colour.
Frames(bursts, begin, end, length, args) ==
  LET seen == Seen(bursts, begin, end) IN
  [i \in seen |->
     LET at == IF bursts[i].at < begin THEN begin ELSE bursts[i].at
         to == IF bursts[i].to > end THEN end ELSE bursts[i].to
         valid == bursts[i].rgb \in args.colors IN
     [at |-> at, to |-> to, bits |-> to - at, valid |-> valid,
      leading |-> at - begin >= MinReset \/ \E j \in seen : j < i,
      trailing |-> end - to >= MinReset \/ \E j \in seen : i < j,
      rgb |-> IF valid /\ to - at <= length THEN bursts[i].rgb ELSE "none"]]

Complete(frames) == {i \in DOMAIN frames : frames[i].leading /\ frames[i].trailing}

\* Two members of a set of frame numbers with none between.
Adjacent(i, j, numbers) == i < j /\ ~\E x \in numbers : i < x /\ x < j

ShortReset(frames) ==
  \E i, j \in DOMAIN frames :
    Adjacent(i, j, DOMAIN frames) /\ frames[j].at - frames[i].to \in Separator .. MinReset - 1

\* A fragment may be short, but not too long.
WrongCount(frames, length) ==
  \E i \in DOMAIN frames :
    \/ frames[i].bits > length
    \/ i \in Complete(frames) /\ frames[i].bits # length

WrongContent(frames, length) == \E i \in DOMAIN frames : frames[i].bits <= length /\ ~frames[i].valid

\* sequence_positions keeps every place of the cycle the capture may be at; none is left
\* unless the colours follow the cycle from one of them.
FollowsSequence(decoded, frames, sequence) ==
  \E place \in [decoded -> DOMAIN sequence] :
    /\ \A i \in decoded : sequence[place[i]] = frames[i].rgb
    /\ \A i, j \in decoded :
         Adjacent(i, j, decoded) => place[j] = (place[i] % Len(sequence)) + 1

WrongSequence(frames, sequence) ==
  /\ sequence # << >>
  /\ ~FollowsSequence({i \in Complete(frames) : frames[i].rgb # "none"}, frames, sequence)

Found(kind, bad) == IF bad THEN {kind} ELSE {}

ChannelViolations(frames, length, args) ==
  Found("reset_too_short", ShortReset(frames)) \cup
    IF length = 0 THEN Found("disabled_channel_not_low", DOMAIN frames # {})
    ELSE UNION {Found("frame_bit_count", WrongCount(frames, length)),
                Found("frame_content", WrongContent(frames, length)),
                Found("color_sequence", WrongSequence(frames, args.sequence)),
                Found("no_complete_frames", Complete(frames) = {}),
                Found("expected_frame_count",
                      args.expected # -1 /\ Cardinality(Complete(frames)) # args.expected)}

-----------------------------------------------------------------------------
(* check_banks.  all is the frames of every pin.                           *)

\* A mutant: only complete frames are compared.
KnownStartIfComplete(frames) == {frames[i] : i \in Complete(frames)}

\* Complete frames, and those of which only the end is missing.
KnownStart(frames) == {frames[i] : i \in {j \in DOMAIN frames : frames[j].leading}}

PinsDiffer(bank, len, all) ==
  LET anchor == KnownStart(all[Anchor(bank, len)]) IN
  \E p \in Members(bank, len) \ {Anchor(bank, len)} :
    LET member == KnownStart(all[p]) IN
    \/ {f.at : f \in anchor} # {f.at : f \in member}        \* bank_pin_start_mismatch
    \/ \E a \in anchor, f \in member :                       \* bank_pin_color_mismatch
         a.at = f.at /\ "none" \notin {a.rgb, f.rgb} /\ a.rgb # f.rgb

\* A bank's events are its anchor's complete frames; ends holds the ends of all of its pins.
Events(bank, len, all) ==
  LET anchor == all[Anchor(bank, len)]
      known == UNION {KnownStart(all[p]) : p \in Members(bank, len)} IN
  {[bank |-> bank, at |-> anchor[i].at, rgb |-> anchor[i].rgb,
    ends |-> {anchor[i].to} \cup {f.to : f \in {g \in known : g.at = anchor[i].at}}] :
      i \in Complete(anchor)}

\* A mutant: a bank may also follow itself.
InCyclicOrder_lax(x, y, active) == y \in {x, NextBank(x, active)}

InCyclicOrder(x, y, active) == y = NextBank(x, active)

\* Events are sorted by their start, those that start together in the order of the banks.
Before(x, y) == x.at < y.at \/ (x.at = y.at /\ x.bank > y.bank)

BankViolations(len, all) ==
  LET active == ActiveBanks(len)
      events == UNION {Events(bank, len, all) : bank \in active}
      Follow(Bad(_, _)) ==
        \E x, y \in events : /\ Before(x, y) /\ Bad(x, y)
                             /\ ~\E z \in events : Before(x, z) /\ Before(z, y) IN
  UNION {Found("bank_pins", \E bank \in active : PinsDiffer(bank, len, all)),
         Found("bank_order", Follow(LAMBDA x, y : ~InCyclicOrder(x.bank, y.bank, active))),
         Found("bank_overlap", Follow(LAMBDA x, y : \E to \in x.ends : y.at < to)),
         Found("bank_color_mismatch", Follow(LAMBDA x, y : y.bank < x.bank /\ x.rgb # y.rgb))}

Violations(wire, begin, end, len, args) ==
  LET all == [p \in Pin |-> Frames(wire[p], begin, end, len[p], args)] IN
  BankViolations(len, all)
    \cup UNION {ChannelViolations(all[p], len[p], args) : p \in Pin}
=============================================================================
