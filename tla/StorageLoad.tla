----------------------------- MODULE StorageLoad -----------------------------
(***************************************************************************)
(* The storage load of the bench (tools/bench_storage_load.py): a new file *)
(* that is written block by block as a ring, each block with its fsync and *)
(* a pause after it.  The wall clock may be set at any time, so its        *)
(* deadline may be found reached at any look.                              *)
(***************************************************************************)
EXTENDS BenchHost, Integers, FiniteSetsExt

CONSTANTS Slots,            \* RING_BYTES \div BLOCK_BYTES
          Parts,            \* bound: the writes one block may take
          Interval,         \* INTERVAL_SECONDS
          StorageSeconds,   \* --seconds
          StorageNap        \* the longest sleep

ASSUME StorageAssumption ==
  {Slots, Parts, Interval, StorageSeconds, StorageNap} \subseteq Nat \ {0}

VARIABLE storage

Slot == 0 .. Slots - 1

StorageInit ==
  storage = [pc |-> "start", open |-> FALSE, next |-> 0, deadline |-> 0, wake |-> 0,
             offset |-> 0, written |-> 0, error |-> FALSE, code |-> 0,
             begun |-> 0, rest |-> 0, blocks |-> 0,      \* history: last block's begin, last fsync
             ring |-> [slot \in Slot |-> "hole"]]        \* what is known to be on the disk

StorageGoes(label) == storage' = [storage EXCEPT !.pc = label]
StorageFails == storage' = [storage EXCEPT !.pc = "finish", !.error = TRUE]

\* A stop reason may be there at once; then no file is created.  The creation fails when
\* something has that name (O_EXCL), and the report that follows it may fail.
StorageStart ==
  /\ storage.pc = "start"
  /\ \/ StorageGoes("finish")
     \/ ~stop /\ StorageFails
     \/ \E seconds \in 1 .. StorageSeconds :
          /\ ~stop
          /\ storage' = [storage EXCEPT !.pc = IF disk THEN "look" ELSE "finish",
                           !.open = TRUE, !.error = ~disk,
                           !.next = now, !.deadline = now + seconds]

StorageLook ==
  /\ storage.pc = "look"
  /\ \/ StorageGoes("finish")                   \* utc_deadline
     \/ IF stop \/ now >= storage.deadline THEN StorageGoes("finish")
        ELSE \/ ~disk /\ StorageFails           \* a progress report has fallen due
             \/ IF now < storage.next
                THEN storage' = [storage EXCEPT !.pc = "sleep",
                       !.wake = now + Min({storage.next - now, storage.deadline - now, StorageNap})]
                ELSE storage' = [storage EXCEPT !.pc = "write", !.written = 0, !.begun = now]

StorageWake == storage.pc = "sleep" /\ now >= storage.wake /\ StorageGoes("look")

StorageWrite ==
  /\ storage.pc = "write"
  /\ \/ StorageFails
     \/ \E count \in 1 .. Parts - storage.written :
          storage' = [storage EXCEPT !.pc = IF storage.written + count = Parts THEN "sync" ELSE "write",
                                     !.written = @ + count,
                                     !.ring[storage.offset] = "dirty"]

\* A mutant: the next block is due an interval after the last was.
StorageSyncPeriodic ==
  /\ storage.pc = "sync"
  /\ \/ StorageFails
     \/ storage' = [storage EXCEPT !.pc = "look",
                      !.offset = (@ + 1) % Slots,
                      !.next = @ + Interval,
                      !.rest = now, !.blocks = @ + 1,
                      !.ring[storage.offset] = "durable"]

StorageSync ==
  /\ storage.pc = "sync"
  /\ \/ StorageFails
     \/ storage' = [storage EXCEPT !.pc = "look",
                      !.offset = (@ + 1) % Slots,
                      !.next = now + Interval,
                      !.rest = now, !.blocks = @ + 1,
                      !.ring[storage.offset] = "durable"]

\* The close, and the final report, may fail.
StorageFinish ==
  /\ storage.pc = "finish"
  /\ \E closed \in BOOLEAN :
       /\ storage.open \/ closed
       /\ storage' = [storage EXCEPT !.pc = "done", !.open = FALSE,
                        !.code = IF storage.error \/ ~closed \/ ~disk THEN 1 ELSE 0]

StorageStep ==
  /\ \/ StorageStart \/ StorageLook \/ StorageWake \/ StorageWrite \/ StorageSync \/ StorageFinish
  /\ UNCHANGED host

StorageVars == <<host, storage>>

StorageSpec ==
  HostInit /\ StorageInit /\ [][StorageStep \/ (HostNext /\ UNCHANGED storage)]_StorageVars

-----------------------------------------------------------------------------

(***************************************************************************)
(* The storage rests for the whole interval before the next block, however *)
(* long the last fsync took, and never has more than the block being       *)
(* written to make durable; what a load that reports success has written   *)
(* is durable (run_load).                                                  *)
(***************************************************************************)
StorageIsSpared ==
  /\ storage.pc \in {"write", "sync"} /\ storage.blocks > 0 =>
       storage.begun >= storage.rest + Interval
  /\ \A slot \in Slot : storage.ring[slot] = "dirty" =>
       slot = storage.offset /\ storage.pc # "look" /\ (storage.pc = "done" => storage.code = 1)
=============================================================================
