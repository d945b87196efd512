------------------------------- MODULE UdpLoad -------------------------------
(***************************************************************************)
(* The UDP load of the bench (tools/bench_udp_load.py): a token bucket     *)
(* that earns one packet every Unit ticks and holds at most Credit         *)
(* packets, so that a host that was held up does not catch up in a burst.  *)
(* Tokens are counted in ticks: a packet costs Unit of them.               *)
(***************************************************************************)
EXTENDS BenchHost, Integers, Sequences, FiniteSetsExt

CONSTANTS Unit,           \* ticks per packet, 1 / --pps
          Credit,         \* max_credit
          UdpSeconds,     \* --seconds
          MaxErrors,      \* MAX_CONSECUTIVE_ERRORS
          UdpNap          \* the longest sleep

ASSUME UdpAssumption == {Unit, Credit, UdpSeconds, MaxErrors, UdpNap} \subseteq Nat \ {0}

VARIABLE udp

Labels == {"start", "look", "sleep", "batch", "send", "finish", "done"}

UdpInit == udp = [pc |-> "start", start |-> 0, deadline |-> 0, previous |-> 0, tokens |-> 0,
                  wake |-> 0, consecutive |-> 0, failed |-> FALSE, code |-> 0,
                  log |-> << >>]    \* history: when each datagram was sent, and if too late

UdpGoes(label) == udp' = [udp EXCEPT !.pc = label]

\* report raises OSError; main returns 1.
UdpReportFails == ~disk /\ udp' = [udp EXCEPT !.pc = "done", !.code = 1]

UdpStart ==
  /\ udp.pc = "start"
  /\ \/ UdpReportFails
     \/ disk /\ udp' = [udp EXCEPT !.pc = "look", !.start = now, !.deadline = now + UdpSeconds,
                                   !.previous = now, !.tokens = Unit]

\* A mutant: the credit is not capped.
Refilled_uncapped == udp.tokens + (now - udp.previous)

Refilled == Min({Credit * Unit, udp.tokens + (now - udp.previous)})

\* A progress report may have fallen due.
UdpLook ==
  /\ udp.pc = "look"
  /\ IF stop \/ now >= udp.deadline THEN UdpGoes("finish")
     ELSE \/ UdpReportFails
          \/ udp' = [udp EXCEPT
               !.pc = IF Refilled < Unit THEN "sleep" ELSE "batch",
               !.tokens = Refilled, !.previous = now,
               !.wake = now + Min({Unit - Refilled, udp.deadline - now, UdpNap})]

UdpWake == udp.pc = "sleep" /\ now >= udp.wake /\ UdpGoes("look")

\* One datagram is tested at a time; range(int(tokens)) ends when no whole packet is left.
UdpBatch ==
  /\ udp.pc = "batch"
  /\ IF udp.tokens < Unit THEN UdpGoes("look")
     ELSE IF stop \/ now >= udp.deadline THEN UdpGoes("finish")
     ELSE UdpGoes("send")

UdpSend ==
  /\ udp.pc = "send"
  /\ \E ok \in BOOLEAN :
       LET run == IF ok THEN 0 ELSE udp.consecutive + 1 IN
       udp' = [udp EXCEPT !.pc = IF run >= MaxErrors THEN "finish" ELSE "batch",
                          !.tokens = @ - Unit,
                          !.consecutive = run,
                          !.failed = @ \/ ~ok,
                          !.log = Append(@, [at |-> now, late |-> stop \/ now >= udp.deadline])]

UdpFinish ==
  /\ udp.pc = "finish"
  /\ \/ UdpReportFails
     \/ disk /\ udp' = [udp EXCEPT !.pc = "done", !.code = IF udp.failed THEN 1 ELSE 0]

UdpStep == (UdpStart \/ UdpLook \/ UdpWake \/ UdpBatch \/ UdpSend \/ UdpFinish) /\ UNCHANGED host

UdpVars == <<host, udp>>

UdpSpec == HostInit /\ UdpInit /\ [][UdpStep \/ (HostNext /\ UNCHANGED udp)]_UdpVars

-----------------------------------------------------------------------------

Sent(i, j) == (j - i + 1) * Unit    \* the cost of datagrams i .. j

(***************************************************************************)
(* However the host is held up, the load never exceeds its rate: not over  *)
(* the whole run, and not over any part of it by more than the credit      *)
(* before and the credit after the hold-up.  After a stop request or the   *)
(* deadline at most the one datagram that was already admitted is sent     *)
(* (run_load).                                                             *)
(***************************************************************************)
TrafficIsBounded ==
  LET Datagrams == DOMAIN udp.log IN
  /\ udp.pc # "start" => Sent(1, Len(udp.log)) <= Unit + (now - udp.start)
  /\ \A i, j \in Datagrams :
       i <= j => Sent(i, j) <= 2 * Credit * Unit + (udp.log[j].at - udp.log[i].at)
  /\ \A i \in Datagrams : i < Len(udp.log) => ~udp.log[i].late
=============================================================================
