------------------------------ MODULE BenchHost ------------------------------
(***************************************************************************)
(* What the paced tools of the bench read of the machine they run on: its  *)
(* monotonic clock, whether they were asked to stop, and whether the disk  *)
(* that takes their reports has room.  All three may change between any    *)
(* two steps of a tool, so a step of a tool may take any time.             *)
(***************************************************************************)
EXTENDS Naturals

CONSTANT Horizon      \* bound: the last value of the clock
ASSUME HorizonAssumption == Horizon \in Nat

VARIABLES now,        \* CLOCK_MONOTONIC
          stop,       \* a caught signal, or the operator's stop file
          disk        \* reports can be written

host == <<now, stop, disk>>

HostTypeOK == now \in 0 .. Horizon /\ stop \in BOOLEAN /\ disk \in BOOLEAN

HostInit == now = 0 /\ stop = FALSE /\ disk = TRUE

Elapse == now < Horizon /\ now' = now + 1 /\ UNCHANGED <<stop, disk>>

StopRequested == ~stop /\ stop' = TRUE /\ UNCHANGED <<now, disk>>

ReportsFail == disk /\ disk' = FALSE /\ UNCHANGED <<now, stop>>

HostNext == Elapse \/ StopRequested \/ ReportsFail
=============================================================================
