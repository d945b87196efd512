------------------------------ MODULE BenchPrepare ------------------------------
(***************************************************************************)
(* Board preparation (tools/bench_prepare.py): apply records the CPU policy*)
(* and the user LEDs in a state file and then fixes the clock and darkens  *)
(* the LEDs, one sysfs write after the other; restore writes back what was *)
(* recorded.  Either may be killed between any two writes and run again.   *)
(*                                                                         *)
(* There is one state file; save replaces it whole (write, rename).  While *)
(* an LED has a trigger, the trigger drives its brightness.                *)
(***************************************************************************)
EXTENDS Naturals, Sequences

CONSTANTS Freqs, Full,   \* scaling frequencies, and the 1 GHz among them
          Leds           \* number of user LEDs

ASSUME FreqsAssumption == Freqs \subseteq Nat /\ Full \in Freqs /\ \A f \in Freqs : f <= Full
ASSUME LedsAssumption == Leds \in Nat \ {0}

VARIABLES cpu, led,   \* the settings in sysfs
          file,       \* the state file
          run,        \* the command in progress
          original    \* the settings before the first apply; no code reads it

vars == <<cpu, led, file, run, original>>

Cpu == {c \in [min : Freqs, max : Freqs, governor : {"ondemand", "performance"}] : c.min <= c.max}
Led == [trigger : {"none", "heartbeat"}, brightness : {0, 1}]

NoFile == [saved |-> FALSE]

\* n: the write to do next.  i: the LED.
Idle == [op |-> "none", at |-> "idle", n |-> 1, i |-> 1]

Init ==
  /\ cpu \in Cpu /\ led \in [1 .. Leds -> Led]
  /\ original = [cpu |-> cpu, led |-> led]
  /\ file = NoFile /\ run = Idle

-----------------------------------------------------------------------------

\* Recovery information is saved before the first write; an existing file is never replaced.
ApplyBegins ==
  /\ run = Idle /\ ~file.saved
  /\ file' = [saved |-> TRUE, cpu |-> cpu, led |-> led, applied |-> FALSE, restored |-> FALSE]
  /\ run' = [Idle EXCEPT !.op = "apply", !.at = "cpu"]
  /\ UNCHANGED <<cpu, led, original>>

RestoreBegins ==
  /\ run = Idle /\ file.saved /\ ~file.restored
  /\ run' = [Idle EXCEPT !.op = "restore", !.at = "cpu"]
  /\ UNCHANGED <<cpu, led, file, original>>

\* A mutant: restore writes in the order of apply.
CpuOrderOfApply == <<"max", "min", "governor">>

\* The minimum is lowered first, so that the maximum never conflicts.
CpuOrder == IF run.op = "apply" THEN <<"max", "min", "governor">> ELSE <<"min", "max", "governor">>
LedOrder == IF run.op = "apply" THEN <<"none", "brightness">> ELSE <<"none", "brightness", "trigger">>

CpuTarget == IF run.op = "apply" THEN [min |-> Full, max |-> Full, governor |-> "performance"]
             ELSE file.cpu

\* cpufreq refuses a policy whose minimum exceeds its maximum.
Accepted(policy) == policy.min <= policy.max

WriteCpu ==
  /\ run.at = "cpu"
  /\ LET policy == [cpu EXCEPT ![CpuOrder[run.n]] = CpuTarget[CpuOrder[run.n]]] IN
     IF Accepted(policy)
     THEN /\ cpu' = policy
          /\ run' = IF run.n < Len(CpuOrder) THEN [run EXCEPT !.n = @ + 1]
                    ELSE [run EXCEPT !.at = "led", !.n = 1]
     ELSE run' = [run EXCEPT !.at = "refused"] /\ UNCHANGED cpu
  /\ UNCHANGED <<led, file, original>>

\* Removing a trigger switches its LED off; a new one drives it.
WithTrigger(one, trigger) ==
  IF trigger = "none" /\ one.trigger # "none" THEN [trigger |-> "none", brightness |-> 0]
  ELSE [one EXCEPT !.trigger = trigger]

WriteLed ==
  /\ run.at = "led"
  /\ led' = [led EXCEPT ![run.i] =
       CASE LedOrder[run.n] = "none" -> WithTrigger(@, "none")
         [] LedOrder[run.n] = "brightness" ->
              [@ EXCEPT !.brightness = IF run.op = "apply" THEN 0 ELSE file.led[run.i].brightness]
         [] LedOrder[run.n] = "trigger" -> WithTrigger(@, file.led[run.i].trigger)]
  /\ run' = IF run.n < Len(LedOrder) THEN [run EXCEPT !.n = @ + 1]
            ELSE IF run.i < Leds THEN [run EXCEPT !.n = 1, !.i = @ + 1]
            ELSE [run EXCEPT !.at = "verify"]
  /\ UNCHANGED <<cpu, file, original>>

\* apply reads the policy back; scaling_cur_freq may still be another.
VerifyFails ==
  /\ run.at = "verify" /\ run.op = "apply"
  /\ run' = Idle
  /\ UNCHANGED <<cpu, led, file, original>>

Save ==
  /\ run.at = "verify"
  /\ run.op = "apply" => cpu.min = Full /\ cpu.max = Full
  /\ file' = IF run.op = "apply" THEN [file EXCEPT !.applied = TRUE]
             ELSE [file EXCEPT !.restored = TRUE]
  /\ run' = Idle
  /\ UNCHANGED <<cpu, led, original>>

Killed ==
  /\ run # Idle
  /\ run' = Idle
  /\ UNCHANGED <<cpu, led, file, original>>

Blink ==
  /\ \E i \in 1 .. Leds :
       led[i].trigger # "none" /\ led' = [led EXCEPT ![i].brightness = 1 - @]
  /\ UNCHANGED <<cpu, file, run, original>>

Next == \/ ApplyBegins \/ RestoreBegins \/ WriteCpu \/ WriteLed \/ VerifyFails \/ Save
        \/ Killed \/ Blink

Spec == Init /\ [][Next]_vars

-----------------------------------------------------------------------------

AsOriginally ==
  /\ cpu = original.cpu
  /\ \A i \in 1 .. Leds :
       /\ led[i].trigger = original.led[i].trigger
       /\ led[i].trigger = "none" => led[i].brightness = original.led[i].brightness

(***************************************************************************)
(* However apply and earlier restores were cut short, a restore is never   *)
(* refused by the kernel, and one that reports success has brought every   *)
(* setting back to what it was before the first apply (restore).           *)
(***************************************************************************)
RestoreRecovers ==
  /\ run.op = "restore" => run.at # "refused"
  /\ file.saved /\ file.restored => AsOriginally
=============================================================================
