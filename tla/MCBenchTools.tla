----------------------------- MODULE MCBenchTools -----------------------------
(* One of the paced tools, for TLC. *)
EXTENDS UdpLoad, StorageLoad, PanelExercise

VARIABLE tool

vars == <<host, tool, udp, storage, panel>>

Init ==
  /\ tool \in {"udp", "storage", "panel"}
  /\ HostInit /\ UdpInit /\ StorageInit /\ PanelInit
  /\ tool # "panel" => ~panel.timed

Udp == tool = "udp" /\ UdpStep /\ UNCHANGED <<tool, storage, panel>>
Storage == tool = "storage" /\ StorageStep /\ UNCHANGED <<tool, udp, panel>>
Panel == tool = "panel" /\ PanelStep /\ UNCHANGED <<tool, udp, storage>>

\* What happens before the tool first reads the clock, and after its end, makes no difference.
Working == [udp |-> udp.pc, storage |-> storage.pc, panel |-> panel.pc][tool] \notin {"start", "done"}
Host == HostNext /\ (Working \/ now' = now) /\ UNCHANGED <<tool, udp, storage, panel>>

Next == Udp \/ Storage \/ Panel \/ Host

Spec == Init /\ [][Next]_vars
=============================================================================
