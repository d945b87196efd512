--------------------------- MODULE BenchTools_proofs ---------------------------
(***************************************************************************)
(* The tools the bench is prepared and loaded with.  The paced ones keep   *)
(* their pace on every host, for every rate, interval and number of        *)
(* panels: each property follows from an inductive invariant that relates  *)
(* the tool's next due time to what it has last done.  And restore         *)
(* recovers the board, however often apply and restore were killed before. *)
(***************************************************************************)
EXTENDS UdpLoad, StorageLoad, PanelExercise, BenchPrepare, TLAPS

LEMMA MinOfTwo ==
  ASSUME NEW a \in Int, NEW b \in Int
  PROVE  Min({a, b}) \in {a, b} /\ Min({a, b}) <= a /\ Min({a, b}) <= b
<1>1. \E x \in {a, b} : \A y \in {a, b} : x <= y
  OBVIOUS
<1> QED  BY <1>1 DEF Min

LEMMA MinOfThree ==
  ASSUME NEW a \in Int, NEW b \in Int, NEW e \in Int
  PROVE  Min({a, b, e}) \in Int
<1>1. \E x \in {a, b, e} : \A y \in {a, b, e} : x <= y
  OBVIOUS
<1>2. Min({a, b, e}) \in {a, b, e}
  BY <1>1 DEF Min
<1> QED  BY <1>2

-----------------------------------------------------------------------------
(* The panel exercise. *)

PanelLabel == {"start", "look", "sleep", "send", "anchor", "black", "nap", "finish", "done"}

PanelRecord ==
  [pc : PanelLabel, timed : BOOLEAN, start : Int, next : Int, wake : Int,
   frame : {"scene", "black"}, i : Target, attempted : BOOLEAN, raised : BOOLEAN, code : {0, 1},
   last : [Target -> Int], shown : [Target -> {"none", "scene", "black"}]]

PanelTypeOK == now \in Nat /\ panel \in PanelRecord

\* The next frame is due an interval after every panel's last attempt.
Paced == \A t \in Target : panel.last[t] <= now /\ panel.last[t] + FrameInterval <= panel.next

Due ==
  /\ panel.pc = "start" => panel.next = 0
  /\ panel.pc = "send" => \A t \in panel.i .. Panels : now >= panel.last[t] + FrameInterval

Blackened ==
  /\ ~panel.attempted => \A t \in Target : panel.shown[t] = "none"
  /\ panel.pc = "send" /\ panel.frame = "black" =>
       \A t \in Target : t < panel.i => panel.shown[t] = "black"
  /\ panel.pc = "finish" => \A t \in Target : panel.shown[t] \in {"none", "black"}

PanelInv == PanelTypeOK /\ Paced /\ Due /\ Blackened

LEMMA PanelInitial == HostInit /\ PanelInit => PanelInv
<1>1. SUFFICES ASSUME HostInit, PanelInit PROVE PanelInv
  OBVIOUS
<1>2. /\ now = 0 /\ stop = FALSE /\ disk = TRUE
      /\ 1 \in Target /\ -FrameInterval \in Int
  BY <1>1, PanelAssumption DEF HostInit, Target
<1>3. PICK timed \in BOOLEAN :
        panel = [pc |-> "start", timed |-> timed, start |-> 0, next |-> 0, wake |-> 0,
             frame |-> "scene", i |-> 1, attempted |-> FALSE, raised |-> FALSE, code |-> 0,
             last |-> [t \in Target |-> -FrameInterval],
             shown |-> [t \in Target |-> "none"]]
  BY <1>1 DEF PanelInit
<1>4. panel \in PanelRecord
  BY <1>2, <1>3 DEF PanelRecord, PanelLabel
<1>5. PanelTypeOK
  BY <1>2, <1>4 DEF PanelTypeOK
<1>6. Paced /\ Due /\ Blackened
  BY <1>2, <1>3, PanelAssumption DEF Paced, Due, Blackened
<1> QED  BY <1>5, <1>6 DEF PanelInv

\* Time and the host's state change under the tool.
LEMMA PanelHost ==
  ASSUME PanelInv, HostNext, UNCHANGED panel
  PROVE  PanelInv'
<1>1. now \in Nat /\ now' \in Nat /\ now' >= now
  BY DEF PanelInv, PanelTypeOK, HostNext, Elapse, StopRequested, ReportsFail
<1>2. PanelTypeOK'
  BY <1>1 DEF PanelInv, PanelTypeOK
<1>3. \A t \in Target : panel.last[t] \in Int
  BY DEF PanelInv, PanelTypeOK, PanelRecord
<1>4. Paced'
  BY <1>1, <1>3 DEF PanelInv, Paced
<1>5. \A t \in panel.i .. Panels : t \in Target
  BY PanelAssumption DEF PanelInv, PanelTypeOK, PanelRecord, Target
<1>6. Due'
  BY <1>1, <1>3, <1>5, PanelAssumption DEF PanelInv, Due
<1>7. Blackened'
  BY DEF PanelInv, Blackened
<1> QED  BY <1>2, <1>4, <1>6, <1>7 DEF PanelInv

LEMMA PanelSteps ==
  ASSUME PanelInv, PanelStep
  PROVE  PanelInv'
<1>1. /\ UNCHANGED <<now, stop, disk>>
      /\ now \in Nat /\ now \in Int /\ 1 \in Target
      /\ panel \in PanelRecord
      /\ {FrameInterval, PanelNap, Panels, now + FrameInterval} \subseteq Int
      /\ FrameInterval > 0
  BY PanelAssumption DEF PanelStep, host, PanelInv, PanelTypeOK, Target
<1>2. /\ panel.i \in Target /\ panel.last \in [Target -> Int]
      /\ panel.next \in Int
      /\ panel.shown \in [Target -> {"none", "scene", "black"}]
      /\ Paced /\ Due /\ Blackened
  BY <1>1 DEF PanelRecord, PanelInv
<1>3. now + Min({PanelNap, panel.next - now}) \in Int
  <2>1. PanelNap \in Int /\ panel.next - now \in Int
    BY <1>1, <1>2
  <2>2. Min({PanelNap, panel.next - now}) \in Int
    BY <2>1, MinOfTwo
  <2> QED  BY <1>1, <2>2
\* A step that sends nothing, and after which no frame is due earlier.
<1>4. ASSUME panel' \in PanelRecord,
             panel'.next >= panel.next \/ panel'.next = now + FrameInterval,
             panel'.last = panel.last, panel'.shown = panel.shown,
             panel'.attempted = panel.attempted, panel'.pc # "start",
             panel'.pc = "send" => now >= panel.next /\ panel'.i = 1,
             panel'.pc = "finish" => ~panel.attempted
      PROVE  PanelInv'
  <2>1. PanelTypeOK'
    BY <1>1, <1>4 DEF PanelTypeOK
  <2>2. panel'.next \in Int
    BY <1>4 DEF PanelRecord
  <2>3. Paced'
    BY <1>1, <1>2, <1>4, <2>2 DEF Paced
  <2>4. Due'
    <3>1. ASSUME panel'.pc = "send", NEW t \in panel'.i .. Panels
          PROVE  now' >= panel'.last[t] + FrameInterval
      <4>1. t \in Target
        BY <1>1, <1>4, <3>1 DEF Target
      <4>2. panel.last[t] \in Int /\ panel.last[t] + FrameInterval <= panel.next
        BY <1>2, <4>1 DEF Paced
      <4> QED  BY <1>1, <1>2, <1>4, <3>1, <4>2
    <3> QED  BY <1>4, <3>1 DEF Due
  <2>5. Blackened'
    BY <1>1, <1>2, <1>4 DEF Blackened, Target
  <2> QED  BY <2>1, <2>3, <2>4, <2>5 DEF PanelInv
<1>5. ASSUME PanelRaises, panel.pc # "send" PROVE PanelInv'
  <2>1. panel' = [panel EXCEPT !.pc = "black", !.raised = TRUE]
    BY <1>5 DEF PanelRaises
  <2>2. panel' \in PanelRecord
    BY <1>1, <2>1 DEF PanelRecord, PanelLabel
  <2> QED  BY <1>1, <1>2, <1>4, <2>1, <2>2 DEF PanelRecord
<1>6. ASSUME NEW label \in PanelLabel \ {"start", "send"}, PanelGoes(label),
             label = "finish" => ~panel.attempted
      PROVE  PanelInv'
  <2>1. panel' = [panel EXCEPT !.pc = label]
    BY <1>6 DEF PanelGoes
  <2>2. panel' \in PanelRecord
    BY <1>1, <2>1 DEF PanelRecord, PanelLabel
  <2> QED  BY <1>1, <1>2, <1>4, <1>6, <2>1, <2>2 DEF PanelRecord
<1>7. CASE PanelStart
  <2>1. ASSUME panel' = [panel EXCEPT !.pc = "done", !.code = 1] PROVE PanelInv'
    <3>1. panel' \in PanelRecord
      BY <1>1, <2>1 DEF PanelRecord, PanelLabel
    <3> QED  BY <1>1, <1>2, <1>4, <2>1, <3>1 DEF PanelRecord
  <2>2. ASSUME panel' = [panel EXCEPT !.pc = "look", !.start = now, !.next = now], panel.pc = "start"
        PROVE  PanelInv'
    <3>1. panel' \in PanelRecord
      BY <1>1, <2>2 DEF PanelRecord, PanelLabel
    <3>2. panel'.next >= panel.next
      BY <1>1, <1>2, <2>2 DEF PanelRecord, Due
    <3> QED  BY <1>1, <1>2, <1>4, <2>2, <3>1, <3>2 DEF PanelRecord
  <2> QED  BY <1>5, <1>7, <2>1, <2>2 DEF PanelStart
<1>8. CASE PanelLook
  <2>1. ASSUME panel' = [panel EXCEPT !.pc = "sleep", !.wake = now + Min({PanelNap, panel.next - now})]
        PROVE  PanelInv'
    <3>1. panel' \in PanelRecord
      BY <1>1, <1>3, <2>1 DEF PanelRecord, PanelLabel
    <3> QED  BY <1>1, <1>2, <1>4, <2>1, <3>1 DEF PanelRecord
  <2>2. ASSUME panel' = [panel EXCEPT !.pc = "send", !.frame = "scene", !.i = 1], ~(now < panel.next),
               panel.pc = "look"
        PROVE  PanelInv'
    <3>1. panel' \in PanelRecord
      BY <1>1, <2>2 DEF PanelRecord, PanelLabel
    <3> QED  BY <1>1, <1>2, <1>4, <2>2, <3>1 DEF PanelRecord
  <2>3. "black" \in PanelLabel \ {"start", "send"}
    BY DEF PanelLabel
  <2> QED  BY <1>5, <1>6, <1>8, <2>1, <2>2, <2>3 DEF PanelLook
<1>9. CASE PanelWake
  BY <1>6, <1>9 DEF PanelWake, PanelLabel
<1>10. CASE PanelAnchor
  <2>1. ASSUME NEW label \in {"look", "black"}, NEW raised \in BOOLEAN,
               panel' = [panel EXCEPT !.pc = label, !.next = now + FrameInterval, !.raised = raised]
        PROVE  PanelInv'
    <3>1. panel' \in PanelRecord
      BY <1>1, <2>1 DEF PanelRecord, PanelLabel
    <3> QED  BY <1>1, <1>2, <1>4, <2>1, <3>1 DEF PanelRecord
  <2>2. CASE panel' = [panel EXCEPT !.pc = "look", !.next = now + FrameInterval]
    <3>1. panel.raised \in BOOLEAN
      BY <1>1 DEF PanelRecord
    <3>2. panel' = [panel EXCEPT !.pc = "look", !.next = now + FrameInterval, !.raised = panel.raised]
      BY <1>1, <2>2 DEF PanelRecord
    <3> QED  BY <2>1, <3>1, <3>2
  <2> QED  BY <1>10, <2>1, <2>2 DEF PanelAnchor
<1>11. CASE PanelBlack
  <2>1. ASSUME panel' = [panel EXCEPT !.pc = "nap", !.wake = now + Min({PanelNap, panel.next - now})]
        PROVE  PanelInv'
    <3>1. panel' \in PanelRecord
      BY <1>1, <1>3, <2>1 DEF PanelRecord, PanelLabel
    <3> QED  BY <1>1, <1>2, <1>4, <2>1, <3>1 DEF PanelRecord
  <2>2. ASSUME panel' = [panel EXCEPT !.pc = "send", !.frame = "black", !.i = 1], ~(now < panel.next)
        PROVE  PanelInv'
    <3>1. panel' \in PanelRecord
      BY <1>1, <2>2 DEF PanelRecord, PanelLabel
    <3> QED  BY <1>1, <1>2, <1>4, <2>2, <3>1 DEF PanelRecord
  <2>3. "finish" \in PanelLabel \ {"start", "send"}
    BY DEF PanelLabel
  <2> QED  BY <1>6, <1>11, <2>1, <2>2, <2>3 DEF PanelBlack
<1>12. CASE PanelNapEnds
  BY <1>6, <1>12 DEF PanelNapEnds, PanelLabel
<1>13. CASE PanelFinish
  <2>1. PICK code \in {0, 1} : panel' = [panel EXCEPT !.pc = "done", !.code = code]
    BY <1>13 DEF PanelFinish
  <2>2. panel' \in PanelRecord
    BY <1>1, <2>1 DEF PanelRecord, PanelLabel
  <2> QED  BY <1>1, <1>2, <1>4, <2>1, <2>2 DEF PanelRecord
<1>14. CASE PanelSend
  <2>1. PICK i \in Target, label \in {"send", "anchor", "black", "finish", "done"},
             raised \in BOOLEAN, code \in {0, 1} :
          /\ panel' = [panel EXCEPT !.attempted = TRUE, !.next = now + FrameInterval,
                                    !.last = [panel.last EXCEPT ![panel.i] = now],
                                    !.shown = [panel.shown EXCEPT ![panel.i] = panel.frame],
                                    !.i = i, !.pc = label, !.raised = raised, !.code = code]
          /\ label = "send" => i = panel.i + 1
          /\ label = "finish" => panel.frame = "black" /\ panel.i = Panels
    <3> DEFINE tried == [panel EXCEPT !.attempted = TRUE, !.next = now + FrameInterval,
                                      !.last[panel.i] = now, !.shown[panel.i] = panel.frame]
    <3>1. ASSUME NEW i \in Target, NEW label \in {"send", "anchor", "black", "finish", "done"},
                 NEW raised \in BOOLEAN, NEW code \in {0, 1},
                 panel' = [tried EXCEPT !.i = i, !.pc = label, !.raised = raised, !.code = code]
          PROVE  panel' = [panel EXCEPT !.attempted = TRUE, !.next = now + FrameInterval,
                                    !.last = [panel.last EXCEPT ![panel.i] = now],
                                    !.shown = [panel.shown EXCEPT ![panel.i] = panel.frame],
                                    !.i = i, !.pc = label, !.raised = raised, !.code = code]
      BY <1>1, <3>1, SMTT(30) DEF PanelRecord
    <3>2. CASE panel' = [tried EXCEPT !.i = IF @ < Panels THEN @ + 1 ELSE 1,
                               !.pc = IF panel.i < Panels THEN "send"
                                      ELSE IF panel.frame = "scene" THEN "anchor" ELSE "finish"]
      <4> DEFINE turn == IF panel.i < Panels THEN panel.i + 1 ELSE 1
                 goal == IF panel.i < Panels THEN "send"
                         ELSE IF panel.frame = "scene" THEN "anchor" ELSE "finish"
      <4>1. /\ turn \in Target /\ goal \in {"send", "anchor", "black", "finish", "done"}
            /\ panel.raised \in BOOLEAN /\ panel.code \in {0, 1}
            /\ goal = "send" => turn = panel.i + 1
            /\ goal = "finish" => panel.frame = "black" /\ panel.i = Panels
        BY <1>1, <1>2 DEF PanelRecord, Target
      <4>2. panel' = [tried EXCEPT !.i = turn, !.pc = goal, !.raised = panel.raised, !.code = panel.code]
        BY <1>1, <3>2 DEF PanelRecord
      <4>3. CASE panel.raised = TRUE
        <5>1. panel' = [tried EXCEPT !.i = turn, !.pc = goal, !.raised = TRUE, !.code = panel.code]
          BY <4>2, <4>3
        <5> HIDE DEF turn, goal
        <5> QED  BY <3>1, <4>1, <5>1, ZenonT(40)
      <4>4. CASE panel.raised = FALSE
        <5>1. panel' = [tried EXCEPT !.i = turn, !.pc = goal, !.raised = FALSE, !.code = panel.code]
          BY <4>2, <4>4
        <5> HIDE DEF turn, goal
        <5> QED  BY <3>1, <4>1, <5>1, ZenonT(40)
      <4> QED  BY <4>1, <4>3, <4>4
    <3>3. CASE panel' = [tried EXCEPT !.raised = TRUE,
                               !.pc = IF panel.frame = "scene" THEN "black" ELSE "done",
                               !.code = IF panel.frame = "scene" THEN @ ELSE 1]
      <4> DEFINE label == IF panel.frame = "scene" THEN "black" ELSE "done"
                 code == IF panel.frame = "scene" THEN panel.code ELSE 1
      <4>1. /\ panel.i \in Target /\ label \in {"send", "anchor", "black", "finish", "done"}
            /\ TRUE \in BOOLEAN /\ code \in {0, 1}
            /\ label = "send" => panel.i = panel.i + 1
            /\ label = "finish" => panel.frame = "black" /\ panel.i = Panels
        BY <1>1, <1>2 DEF PanelRecord
      <4>2. panel' = [tried EXCEPT !.i = panel.i, !.pc = label, !.raised = TRUE, !.code = code]
        BY <1>1, <3>3 DEF PanelRecord
      <4> QED  BY <3>1, <4>1, <4>2
    <3> QED  BY <1>14, <3>2, <3>3 DEF PanelSend
  <2>2. panel' \in PanelRecord
    <3>1. /\ [panel.last EXCEPT ![panel.i] = now] \in [Target -> Int]
          /\ [panel.shown EXCEPT ![panel.i] = panel.frame] \in [Target -> {"none", "scene", "black"}]
      BY <1>1, <1>2 DEF PanelRecord
    <3> QED  BY <1>1, <2>1, <3>1 DEF PanelRecord, PanelLabel
  <2>3. /\ panel'.pc \in {"send", "anchor", "black", "finish", "done"} /\ panel'.attempted
        /\ panel'.next = now + FrameInterval
        /\ panel'.frame = panel.frame
        /\ \A t \in Target : panel'.last[t] = IF t = panel.i THEN now ELSE panel.last[t]
        /\ \A t \in Target : panel'.shown[t] = IF t = panel.i THEN panel.frame ELSE panel.shown[t]
        /\ panel'.pc = "send" => panel'.i = panel.i + 1
        /\ panel'.pc = "finish" => panel.frame = "black" /\ panel.i = Panels
    BY <1>1, <1>2, <2>1 DEF PanelRecord
  <2>4. PanelTypeOK'
    BY <1>1, <2>2 DEF PanelTypeOK
  <2>5. Paced'
    BY <1>1, <1>2, <2>3 DEF Paced
  <2>6. Due'
    <3>1. ASSUME panel'.pc = "send", NEW t \in panel'.i .. Panels
          PROVE  now' >= panel'.last[t] + FrameInterval
      <4>1. t \in Target /\ t # panel.i /\ t \in panel.i .. Panels
        BY <1>1, <1>2, <2>3, <3>1 DEF Target
      <4> QED  BY <1>1, <1>2, <1>14, <2>3, <4>1 DEF Due, PanelSend
    <3> QED  BY <2>3, <3>1 DEF Due
  <2>7. Blackened'
    <3>1. ASSUME panel'.pc = "send", panel.frame = "black", NEW t \in Target, t < panel.i + 1
          PROVE  panel'.shown[t] = "black"
      <4>1. t = panel.i \/ t < panel.i
        BY <1>2, <3>1 DEF Target
      <4> QED  BY <1>2, <1>14, <2>3, <3>1, <4>1 DEF Blackened, PanelSend
    <3>2. ASSUME panel'.pc = "finish", NEW t \in Target
          PROVE  panel'.shown[t] = "black"
      <4>1. t = panel.i \/ t < panel.i
        BY <1>1, <1>2, <2>3, <3>2 DEF Target
      <4> QED  BY <1>2, <1>14, <2>3, <3>2, <4>1 DEF Blackened, PanelSend
    <3> QED  BY <2>3, <3>1, <3>2 DEF Blackened
  <2> QED  BY <2>4, <2>5, <2>6, <2>7 DEF PanelInv
<1> QED  BY <1>7, <1>8, <1>9, <1>10, <1>11, <1>12, <1>13, <1>14 DEF PanelStep

(***************************************************************************)
(* No panel is sent a frame earlier than an interval after its last, and   *)
(* the exercise ends black (transmit, run_exercise).                       *)
(***************************************************************************)
THEOREM PanelsKeepPace == PanelSpec => []PanelsAreSpared
<1>1. HostInit /\ PanelInit => PanelInv
  BY PanelInitial
<1>2. PanelInv /\ [PanelStep \/ (HostNext /\ UNCHANGED panel)]_PanelVars => PanelInv'
  <2>1. ASSUME PanelInv, UNCHANGED PanelVars PROVE PanelInv'
    BY <2>1 DEF PanelVars, host, PanelInv, PanelTypeOK, Paced, Due, Blackened
  <2> QED  BY <2>1, PanelSteps, PanelHost
<1>3. PanelInv => PanelsAreSpared
  BY DEF PanelInv, Due, Blackened, PanelsAreSpared
<1> QED  BY <1>1, <1>2, <1>3, PTL DEF PanelSpec

-----------------------------------------------------------------------------
(* The storage load. *)

StorageLabel == {"start", "look", "sleep", "write", "sync", "finish", "done"}

StorageRecord ==
  [pc : StorageLabel, open : BOOLEAN, next : Int, deadline : Int, wake : Int,
   offset : Int, written : Int, error : BOOLEAN, code : {0, 1},
   begun : Int, rest : Int, blocks : Nat, ring : [Slot -> {"hole", "dirty", "durable"}]]

StorageTypeOK == now \in Nat /\ storage \in StorageRecord

\* The due time carries the rest from the last fsync to the next block.
Rested ==
  /\ storage.pc = "start" => storage.blocks = 0
  /\ storage.blocks > 0 => storage.next >= storage.rest + Interval
  /\ storage.pc \in {"write", "sync"} => storage.begun >= storage.next

\* A block that is not durable is the one at the offset, and only an error leaves it so.
Durable ==
  \A slot \in Slot : storage.ring[slot] = "dirty" =>
    /\ slot = storage.offset
    /\ storage.pc \in {"write", "sync", "finish", "done"}
    /\ storage.pc = "finish" => storage.error
    /\ storage.pc = "done" => storage.code = 1

StorageInv == StorageTypeOK /\ Rested /\ Durable

LEMMA StorageInitial == HostInit /\ StorageInit => StorageInv
<1>1. SUFFICES ASSUME HostInit, StorageInit PROVE StorageInv
  OBVIOUS
<1>2. now = 0 /\ [slot \in Slot |-> "hole"] \in [Slot -> {"hole", "dirty", "durable"}]
  BY <1>1 DEF HostInit
<1>3. storage \in StorageRecord
  BY <1>1, <1>2 DEF StorageInit, StorageRecord, StorageLabel
<1>4. StorageTypeOK
  BY <1>2, <1>3 DEF StorageTypeOK
<1>5. Rested /\ Durable
  BY <1>1 DEF StorageInit, Rested, Durable
<1> QED  BY <1>4, <1>5 DEF StorageInv

LEMMA StorageHost ==
  ASSUME StorageInv, HostNext, UNCHANGED storage
  PROVE  StorageInv'
<1>1. now' \in Nat
  BY DEF StorageInv, StorageTypeOK, HostNext, Elapse, StopRequested, ReportsFail
<1> QED  BY <1>1 DEF StorageInv, StorageTypeOK, Rested, Durable

LEMMA StorageSteps ==
  ASSUME StorageInv, StorageStep
  PROVE  StorageInv'
<1>1. /\ UNCHANGED <<now, stop, disk>>
      /\ now \in Nat /\ now \in Int
      /\ storage \in StorageRecord
      /\ {Interval, StorageNap, Slots, Parts, now + Interval} \subseteq Int
      /\ Slots > 0
  BY StorageAssumption DEF StorageStep, host, StorageInv, StorageTypeOK
<1>2. /\ {storage.next, storage.deadline, storage.rest, storage.begun, storage.offset,
          storage.written} \subseteq Int
      /\ storage.blocks \in Nat
      /\ storage.ring \in [Slot -> {"hole", "dirty", "durable"}]
      /\ Rested /\ Durable
  BY <1>1 DEF StorageRecord, StorageInv
<1>3. ASSUME NEW pc \in StorageLabel, NEW written \in Int, NEW begun \in Int,
             NEW ring \in [Slot -> {"hole", "dirty", "durable"}],
             storage' = [storage EXCEPT !.pc = pc, !.written = written, !.begun = begun, !.ring = ring]
      PROVE  storage' \in StorageRecord
  BY <1>1, <1>3 DEF StorageRecord
\* A step that neither writes nor moves the due time.
<1>4. ASSUME storage' \in StorageRecord,
             storage'.next = storage.next \/ storage.blocks = 0,
             storage'.rest = storage.rest, storage'.blocks = storage.blocks,
             storage'.ring = storage.ring, storage'.offset = storage.offset,
             storage'.pc # "start",
             storage'.pc \in {"write", "sync"} => storage'.begun >= storage'.next,
             \/ storage.pc \in {"start", "look", "sleep"}
             \/ storage'.pc = "finish" /\ storage'.error
             \/ storage'.pc = "done" /\ (storage.error => storage'.code = 1) /\ storage.pc = "finish"
      PROVE  StorageInv'
  <2>1. StorageTypeOK'
    BY <1>1, <1>4 DEF StorageTypeOK
  <2>2. Rested'
    BY <1>2, <1>4 DEF Rested
  <2>3. Durable'
    BY <1>2, <1>4 DEF Durable
  <2> QED  BY <2>1, <2>2, <2>3 DEF StorageInv
<1>5. ASSUME storage.pc # "done", StorageFails PROVE StorageInv'
  <2>1. storage' = [storage EXCEPT !.pc = "finish", !.error = TRUE]
    BY <1>5 DEF StorageFails
  <2>2. storage' \in StorageRecord
    BY <1>1, <2>1 DEF StorageRecord, StorageLabel
  <2> QED  BY <1>1, <1>2, <1>4, <2>1, <2>2 DEF StorageRecord
<1>6. ASSUME NEW label \in {"look", "finish"}, storage.pc \in {"start", "look", "sleep"},
             StorageGoes(label)
      PROVE  StorageInv'
  <2>1. storage' = [storage EXCEPT !.pc = label]
    BY <1>6 DEF StorageGoes
  <2>2. storage' \in StorageRecord
    BY <1>1, <1>6, <2>1 DEF StorageRecord, StorageLabel
  <2> QED  BY <1>1, <1>2, <1>4, <1>6, <2>1, <2>2 DEF StorageRecord
<1>7. CASE StorageStart
  <2>1. ASSUME NEW seconds \in 1 .. StorageSeconds,
               storage' = [storage EXCEPT !.pc = IF disk THEN "look" ELSE "finish",
                             !.open = TRUE, !.error = ~disk,
                             !.next = now, !.deadline = now + seconds]
        PROVE  StorageInv'
    <3>1. now + seconds \in Int /\ (~disk) \in BOOLEAN
      BY <1>1, StorageAssumption
    <3>2. storage' \in StorageRecord
      BY <1>1, <2>1, <3>1 DEF StorageRecord, StorageLabel
    <3>3. storage.pc = "start" /\ storage.blocks = 0
      BY <1>2, <1>7 DEF StorageStart, Rested
    <3> QED  BY <1>1, <1>4, <2>1, <3>2, <3>3 DEF StorageRecord
  <2> QED  BY <1>5, <1>6, <1>7, <2>1 DEF StorageStart
<1>8. CASE StorageLook
  <2>1. ASSUME storage' = [storage EXCEPT !.pc = "sleep",
                 !.wake = now + Min({storage.next - now, storage.deadline - now, StorageNap})]
        PROVE  StorageInv'
    <3>1. /\ storage.next - now \in Int /\ storage.deadline - now \in Int
          /\ StorageNap \in Int
      BY <1>1, <1>2
    <3>2. Min({storage.next - now, storage.deadline - now, StorageNap}) \in Int
      BY <3>1, MinOfThree
    <3>3. now + Min({storage.next - now, storage.deadline - now, StorageNap}) \in Int
      BY <1>1, <3>2
    <3>4. storage' \in StorageRecord
      BY <1>1, <2>1, <3>3 DEF StorageRecord, StorageLabel
    <3> QED  BY <1>1, <1>2, <1>4, <1>8, <2>1, <3>4 DEF StorageRecord, StorageLook
  <2>2. ASSUME storage' = [storage EXCEPT !.pc = "write", !.written = 0, !.begun = now],
               ~(now < storage.next)
        PROVE  StorageInv'
    <3>1. "write" \in StorageLabel /\ 0 \in Int
      BY DEF StorageLabel
    <3>2. storage' = [storage EXCEPT !.pc = "write", !.written = 0, !.begun = now, !.ring = storage.ring]
      BY <1>1, <2>2 DEF StorageRecord
    <3>3. storage' \in StorageRecord
      BY <1>1, <1>2, <1>3, <3>1, <3>2
    <3> QED  BY <1>1, <1>2, <1>4, <1>8, <2>2, <3>3 DEF StorageRecord, StorageLook
  <2> QED  BY <1>5, <1>6, <1>8, <2>1, <2>2 DEF StorageLook
<1>9. CASE StorageWake
  BY <1>6, <1>9 DEF StorageWake
<1>10. CASE StorageWrite
  <2>1. ASSUME NEW count \in 1 .. Parts - storage.written,
               storage' = [storage EXCEPT
                 !.pc = IF storage.written + count = Parts THEN "sync" ELSE "write",
                 !.written = @ + count, !.ring[storage.offset] = "dirty"]
        PROVE  StorageInv'
    <3>1. [storage.ring EXCEPT ![storage.offset] = "dirty"] \in [Slot -> {"hole", "dirty", "durable"}]
      BY <1>2
    <3>2. storage.written + count \in Int
      BY <1>1, <1>2
    <3>3. storage' \in StorageRecord
      BY <1>1, <2>1, <3>1, <3>2 DEF StorageRecord, StorageLabel
    <3>4. StorageTypeOK'
      BY <1>1, <3>3 DEF StorageTypeOK
    <3>5. Rested'
      BY <1>1, <1>2, <1>10, <2>1 DEF Rested, StorageRecord, StorageWrite
    <3>6. Durable'
      BY <1>1, <1>2, <1>10, <2>1 DEF Durable, StorageRecord, StorageWrite
    <3> QED  BY <3>4, <3>5, <3>6 DEF StorageInv
  <2> QED  BY <1>5, <1>10, <2>1 DEF StorageWrite
<1>11. CASE StorageSync
  <2>1. ASSUME storage' = [storage EXCEPT !.pc = "look", !.offset = (@ + 1) % Slots,
                             !.next = now + Interval, !.rest = now, !.blocks = @ + 1,
                             !.ring[storage.offset] = "durable"]
        PROVE  StorageInv'
    <3>1. [storage.ring EXCEPT ![storage.offset] = "durable"] \in [Slot -> {"hole", "dirty", "durable"}]
      BY <1>2
    <3>2. (storage.offset + 1) % Slots \in Int
      BY <1>1, <1>2
    <3>3. storage' \in StorageRecord
      <4>1. ASSUME NEW offset \in Int, NEW next \in Int, NEW rest \in Int, NEW blocks \in Nat,
                   NEW ring \in [Slot -> {"hole", "dirty", "durable"}],
                   storage' = [storage EXCEPT !.pc = "look", !.offset = offset, !.next = next,
                                 !.rest = rest, !.blocks = blocks, !.ring = ring]
            PROVE  storage' \in StorageRecord
        BY <1>1, <4>1 DEF StorageRecord, StorageLabel
      <4> DEFINE turn == (storage.offset + 1) % Slots
                 due == now + Interval
                 count == storage.blocks + 1
                 dry == [storage.ring EXCEPT ![storage.offset] = "durable"]
      <4>2. /\ turn \in Int /\ due \in Int /\ count \in Nat
            /\ dry \in [Slot -> {"hole", "dirty", "durable"}]
        BY <1>1, <1>2, <3>1, <3>2
      <4>3. storage' = [storage EXCEPT !.pc = "look", !.offset = turn, !.next = due,
                                 !.rest = now, !.blocks = count, !.ring = dry]
        BY <2>1
      <4> HIDE DEF turn, due, count, dry
      <4> QED  BY <1>1, <4>1, <4>2, <4>3
    <3>4. StorageTypeOK'
      BY <1>1, <3>3 DEF StorageTypeOK
    <3>5. Rested'
      BY <1>1, <1>2, <2>1 DEF Rested, StorageRecord
    <3>6. Durable'
      BY <1>1, <1>2, <2>1 DEF Durable, StorageRecord
    <3> QED  BY <3>4, <3>5, <3>6 DEF StorageInv
  <2> QED  BY <1>5, <1>11, <2>1 DEF StorageSync
<1>12. CASE StorageFinish
  <2>1. PICK code \in {0, 1} :
          /\ storage' = [storage EXCEPT !.pc = "done", !.open = FALSE, !.code = code]
          /\ storage.error => code = 1
    <3>1. PICK closed \in BOOLEAN :
            storage' = [storage EXCEPT !.pc = "done", !.open = FALSE,
                          !.code = IF storage.error \/ ~closed \/ ~disk THEN 1 ELSE 0]
      BY <1>12 DEF StorageFinish
    <3> DEFINE code == IF storage.error \/ ~closed \/ ~disk THEN 1 ELSE 0
    <3>2. code \in {0, 1} /\ (storage.error => code = 1)
      OBVIOUS
    <3> HIDE DEF code
    <3> QED  BY <3>1, <3>2 DEF code
  <2>2. storage' \in StorageRecord
    BY <1>1, <2>1 DEF StorageRecord, StorageLabel
  <2> QED  BY <1>1, <1>2, <1>4, <1>12, <2>1, <2>2 DEF StorageRecord, StorageFinish
<1> QED  BY <1>7, <1>8, <1>9, <1>10, <1>11, <1>12 DEF StorageStep

(***************************************************************************)
(* The storage rests for the whole interval between two blocks, whatever   *)
(* time a write or an fsync takes, and a load that ends with success       *)
(* leaves no block that is not durable, for every ring, interval and       *)
(* splitting of the writes.                                                *)
(***************************************************************************)
THEOREM StorageRests == StorageSpec => []StorageIsSpared
<1>1. HostInit /\ StorageInit => StorageInv
  BY StorageInitial
<1>2. StorageInv /\ [StorageStep \/ (HostNext /\ UNCHANGED storage)]_StorageVars => StorageInv'
  <2>1. ASSUME StorageInv, UNCHANGED StorageVars PROVE StorageInv'
    BY <2>1 DEF StorageVars, host, StorageInv, StorageTypeOK, Rested, Durable
  <2> QED  BY <2>1, StorageSteps, StorageHost
<1>3. StorageInv => StorageIsSpared
  <2>1. SUFFICES ASSUME StorageInv PROVE StorageIsSpared
    OBVIOUS
  <2>2. {storage.next, storage.rest, storage.begun, Interval} \subseteq Int
    BY <2>1, StorageAssumption DEF StorageInv, StorageTypeOK, StorageRecord
  <2> QED  BY <2>1, <2>2 DEF StorageInv, Rested, Durable, StorageIsSpared
<1> QED  BY <1>1, <1>2, <1>3, PTL DEF StorageSpec

-----------------------------------------------------------------------------
(* The UDP load. *)

LEMMA SentFacts ==
  ASSUME NEW i \in Int, NEW j \in Int
  PROVE  /\ Sent(i, j) \in Int /\ Sent(i, j + 1) = Sent(i, j) + Unit
         /\ Sent(i, i) = Unit /\ Sent(i, i - 1) = 0
<1>1. Unit \in Int /\ j - i + 1 \in Int
  BY UdpAssumption
<1>2. \A n \in Int : (n + 1) * Unit = n * Unit + Unit
  BY <1>1
<1>3. (j + 1) - i + 1 = (j - i + 1) + 1 /\ i - i + 1 = 1 /\ (i - 1) - i + 1 = 0
  OBVIOUS
<1>4. 1 * Unit = Unit /\ 0 * Unit = 0 /\ (j - i + 1) * Unit \in Int
  BY <1>1
<1> QED  BY <1>1, <1>2, <1>3, <1>4 DEF Sent

Cap == Credit * Unit

LEMMA CapFacts == Unit \in Int /\ Unit > 0 /\ Cap \in Int /\ Unit <= Cap /\ Cap + Cap = 2 * Credit * Unit
<1>1. /\ Unit \in Int /\ Unit > 0 /\ Credit \in Int /\ Credit >= 1
  BY UdpAssumption
<1>2. Credit * Unit \in Int /\ Credit * Unit >= Unit
  BY <1>1
<1>3. Credit * Unit + Credit * Unit = 2 * Credit * Unit
  BY <1>1
<1> QED  BY <1>1, <1>2, <1>3 DEF Cap

UdpRecord ==
  [pc : Labels, start : Int, deadline : Int, previous : Int, tokens : Int, wake : Int,
   consecutive : Nat, failed : BOOLEAN, code : {0, 1}, log : Seq([at : Int, late : BOOLEAN])]

UdpTypeOK == now \in Nat /\ udp \in UdpRecord

N == Len(udp.log)

\* The bucket holds no more than it earned since the start, and never more than its cap.
Earned ==
  /\ udp.pc = "start" => udp.log = << >>
  /\ udp.start <= udp.previous /\ udp.previous <= now
  /\ 0 <= udp.tokens /\ udp.tokens <= Cap
  /\ Sent(1, N) + udp.tokens <= Unit + (udp.previous - udp.start)
  /\ udp.pc = "send" => udp.tokens >= Unit

\* What was sent from any datagram on, with what may still be sent at once.
Banked ==
  \A i \in 1 .. N :
    /\ udp.log[i].at <= now
    /\ udp.previous < udp.log[i].at => Sent(i, N) + udp.tokens <= Cap
    /\ udp.previous >= udp.log[i].at =>
         Sent(i, N) + udp.tokens <= Cap + Cap + (udp.previous - udp.log[i].at)

Spread ==
  \A i, j \in 1 .. N : i <= j => Sent(i, j) <= Cap + Cap + (udp.log[j].at - udp.log[i].at)

\* Only the last datagram may be late, and then no other is admitted.
Prompt ==
  /\ \A i \in 1 .. N : i < N => ~udp.log[i].late
  /\ N > 0 /\ udp.log[N].late => (stop \/ now >= udp.deadline) /\ udp.pc \notin {"start", "send"}

UdpInv == UdpTypeOK /\ Earned /\ Banked /\ Spread /\ Prompt

LEMMA UdpInitial == HostInit /\ UdpInit => UdpInv
<1>1. SUFFICES ASSUME HostInit, UdpInit PROVE UdpInv
  OBVIOUS
<1>2. now = 0 /\ udp \in UdpRecord
  BY <1>1 DEF HostInit, UdpInit, UdpRecord, Labels
<1>3. /\ N = 0 /\ udp.log = << >> /\ udp.pc = "start"
      /\ udp.start = 0 /\ udp.previous = 0 /\ udp.tokens = 0
  BY <1>1 DEF UdpInit, N
<1>4. Sent(1, 0) = 0
  <2>1. Sent(1, 1 - 1) = 0
    BY SentFacts
  <2> QED  BY <2>1
<1>5. Earned
  BY <1>2, <1>3, <1>4, CapFacts DEF Earned
<1>6. Banked /\ Spread /\ Prompt
  BY <1>3 DEF Banked, Spread, Prompt
<1> QED  BY <1>2, <1>5, <1>6 DEF UdpInv, UdpTypeOK

\* The facts about the numbers of a state that the steps below use.
LEMMA UdpNumbers ==
  ASSUME UdpInv
  PROVE  /\ now \in Int /\ udp.start \in Int /\ udp.deadline \in Int
         /\ udp.previous \in Int /\ udp.tokens \in Int
         /\ N \in Nat /\ udp.log \in Seq([at : Int, late : BOOLEAN])
         /\ \A i \in 1 .. N : udp.log[i].at \in Int
         /\ \A i, j \in Int : Sent(i, j) \in Int
<1>1. /\ now \in Int /\ udp.log \in Seq([at : Int, late : BOOLEAN])
      /\ udp.start \in Int /\ udp.deadline \in Int
      /\ udp.previous \in Int /\ udp.tokens \in Int
  BY DEF UdpInv, UdpTypeOK, UdpRecord
<1>2. N \in Nat
  BY <1>1 DEF N
<1>3. ASSUME NEW i \in 1 .. N
      PROVE  udp.log[i].at \in Int
  <2>1. udp.log[i] \in [at : Int, late : BOOLEAN]
    <3> DEFINE S == [at : Int, late : BOOLEAN]
    <3>1. udp.log \in Seq(S) /\ i \in 1 .. Len(udp.log)
      BY <1>1, <1>3 DEF N
    <3> HIDE DEF S
    <3>2. udp.log[i] \in S
      BY <3>1
    <3> QED  BY <3>2 DEF S
  <2> QED  BY <2>1
<1>4. \A i, j \in Int : Sent(i, j) \in Int
  BY SentFacts
<1> QED  BY <1>1, <1>2, <1>3, <1>4

LEMMA UdpHost ==
  ASSUME UdpInv, HostNext, UNCHANGED udp
  PROVE  UdpInv'
<1>1. now \in Nat /\ now' \in Nat /\ now' >= now /\ (stop => stop')
  BY DEF UdpInv, UdpTypeOK, HostNext, Elapse, StopRequested, ReportsFail
<1>2. N' = N
  BY DEF N
<1>3. /\ now \in Int /\ now' \in Int /\ udp.deadline \in Int
      /\ \A i \in 1 .. N : udp.log[i].at \in Int
  <2>1. now \in Int /\ now' \in Int
    BY <1>1
  <2>2. udp.deadline \in Int
    BY UdpNumbers
  <2>3. \A i \in 1 .. N : udp.log[i].at \in Int
    BY UdpNumbers
  <2> QED  BY <2>1, <2>2, <2>3
<1>4. UdpTypeOK'
  BY <1>1 DEF UdpInv, UdpTypeOK
<1>5. Earned'
  BY <1>1, <1>2, UdpNumbers, CapFacts DEF UdpInv, Earned, Sent
<1>6. Banked'
  <2>1. ASSUME NEW i \in 1 .. N PROVE udp.log[i].at <= now'
    BY <1>1, <1>3, <2>1 DEF UdpInv, Banked
  <2> QED  BY <1>2, <2>1 DEF UdpInv, Banked, Sent
<1>7. Spread'
  BY <1>2 DEF UdpInv, Spread, Sent
<1>8. Prompt'
  <2>1. now >= udp.deadline => now' >= udp.deadline
    BY <1>1, <1>3
  <2> QED  BY <1>1, <1>2, <2>1 DEF UdpInv, Prompt
<1> QED  BY <1>4, <1>5, <1>6, <1>7, <1>8 DEF UdpInv

LEMMA UdpSteps ==
  ASSUME UdpInv, UdpStep
  PROVE  UdpInv'
<1>1. /\ now' = now /\ stop' = stop /\ disk' = disk
      /\ now \in Nat /\ udp \in UdpRecord
      /\ Earned /\ Banked /\ Spread /\ Prompt
  BY DEF UdpStep, host, UdpInv, UdpTypeOK
<1>2. /\ now \in Int /\ udp.start \in Int /\ udp.deadline \in Int
      /\ udp.previous \in Int /\ udp.tokens \in Int
  BY UdpNumbers
<1>3. N \in Nat
  BY UdpNumbers
<1>4. \A i \in 1 .. N : udp.log[i].at \in Int
  BY UdpNumbers
<1>5. \A i, j \in Int : Sent(i, j) \in Int
  BY SentFacts
<1>6. \A i \in 1 .. N : i \in Int
  OBVIOUS
\* A step that sends nothing and leaves the bucket alone.
<1>7. ASSUME udp' \in UdpRecord, udp'.log = udp.log, udp'.start = udp.start,
             udp'.deadline = udp.deadline, udp'.previous = udp.previous, udp'.tokens = udp.tokens,
             udp'.pc # "start",
             udp'.pc = "send" => udp.tokens >= Unit /\ ~(stop \/ now >= udp.deadline)
      PROVE  UdpInv'
  <2>1. UdpTypeOK'
    BY <1>1, <1>7 DEF UdpTypeOK
  <2>2. N' = N
    BY <1>7 DEF N
  <2>3. Earned'
    BY <1>1, <1>7, <2>2 DEF Earned, Sent
  <2>4. Banked'
    BY <1>1, <1>7, <2>2 DEF Banked, Sent
  <2>5. Spread'
    BY <1>1, <1>7, <2>2 DEF Spread, Sent
  <2>6. Prompt'
    BY <1>1, <1>7, <2>2 DEF Prompt
  <2> QED  BY <2>1, <2>3, <2>4, <2>5, <2>6 DEF UdpInv
<1>8. ASSUME NEW label \in Labels, UdpGoes(label), label # "start",
             label = "send" => udp.tokens >= Unit /\ ~(stop \/ now >= udp.deadline)
      PROVE  UdpInv'
  <2>1. udp' = [udp EXCEPT !.pc = label]
    BY <1>8 DEF UdpGoes
  <2>2. udp' \in UdpRecord
    BY <1>1, <2>1 DEF UdpRecord
  <2> QED  BY <1>1, <1>7, <1>8, <2>1, <2>2 DEF UdpRecord
<1>9. ASSUME NEW code \in {0, 1}, udp' = [udp EXCEPT !.pc = "done", !.code = code]
      PROVE  UdpInv'
  <2>1. udp' \in UdpRecord
    BY <1>1, <1>9 DEF UdpRecord, Labels
  <2> QED  BY <1>1, <1>7, <1>9, <2>1 DEF UdpRecord
<1>10. UdpReportFails => UdpInv'
  BY <1>9 DEF UdpReportFails
<1>11. CASE UdpStart
  <2>1. ASSUME udp' = [udp EXCEPT !.pc = "look", !.start = now, !.deadline = now + UdpSeconds,
                                  !.previous = now, !.tokens = Unit]
        PROVE  UdpInv'
    <3>1. now + UdpSeconds \in Int /\ Unit \in Int
      BY <1>2, UdpAssumption
    <3>2. udp' \in UdpRecord
      BY <1>1, <1>2, <2>1, <3>1 DEF UdpRecord, Labels
    <3>3. /\ udp'.log = << >> /\ N' = 0 /\ udp'.pc = "look"
          /\ udp'.start = now /\ udp'.previous = now /\ udp'.tokens = Unit
      BY <1>1, <1>11, <2>1 DEF UdpStart, UdpRecord, Earned, N
    <3>4. Sent(1, 1 - 1) = 0
      BY SentFacts
    <3>5. Sent(1, N') = 0
      BY <3>3, <3>4
    <3>6. Earned'
      BY <1>1, <1>2, <3>3, <3>5, CapFacts DEF Earned, Sent
    <3>7. Banked' /\ Spread' /\ Prompt'
      BY <3>3 DEF Banked, Spread, Prompt
    <3> QED  BY <1>1, <3>2, <3>6, <3>7 DEF UdpInv, UdpTypeOK
  <2> QED  BY <1>10, <1>11, <2>1 DEF UdpStart
<1>12. CASE UdpLook
  <2>1. Refilled \in Int /\ Refilled <= Cap /\ Refilled <= udp.tokens + (now - udp.previous)
        /\ Refilled >= 0
    <3> DEFINE gain == udp.tokens + (now - udp.previous)
    <3>1. gain \in Int /\ gain >= 0 /\ Cap \in Int /\ Cap >= 0
      BY <1>1, <1>2, CapFacts DEF Earned
    <3>2. Refilled = Min({Cap, gain})
      BY DEF Refilled, Cap
    <3> HIDE DEF gain
    <3>3. Min({Cap, gain}) \in {Cap, gain} /\ Min({Cap, gain}) <= Cap /\ Min({Cap, gain}) <= gain
      BY <3>1, MinOfTwo
    <3>4. Refilled \in Int /\ Refilled <= Cap /\ Refilled <= gain /\ Refilled >= 0
      BY <3>1, <3>2, <3>3
    <3> QED  BY <3>4 DEF gain
  <2>2. ASSUME NEW label \in {"sleep", "batch"}, NEW wake \in Int,
               udp' = [udp EXCEPT !.pc = label, !.tokens = Refilled, !.previous = now, !.wake = wake]
        PROVE  UdpInv'
    <3>1. udp' \in UdpRecord
      BY <1>1, <1>2, <2>1, <2>2 DEF UdpRecord, Labels
    <3>2. /\ udp'.log = udp.log /\ udp'.start = udp.start /\ udp'.deadline = udp.deadline
          /\ udp'.tokens = Refilled /\ udp'.previous = now /\ udp'.pc \notin {"start", "send"}
      BY <1>1, <2>2 DEF UdpRecord
    <3>3. N' = N
      BY <3>2 DEF N
    <3>4. Sent(1, N) \in Int
      BY <1>3, <1>5
    <3>5. Earned'
      <4>1. Sent(1, N) + Refilled <= Unit + (now - udp.start)
        <5>1. Sent(1, N) + udp.tokens <= Unit + (udp.previous - udp.start)
          BY <1>1 DEF Earned
        <5> QED  BY <1>2, <2>1, <3>4, <5>1, CapFacts
      <4> QED  BY <1>1, <1>2, <2>1, <3>2, <3>3, <4>1 DEF Earned, Sent
    <3>6. ASSUME NEW i \in 1 .. N
          PROVE  /\ udp.log[i].at <= now
                 /\ Sent(i, N) + Refilled <= Cap + Cap + (now - udp.log[i].at)
      <4>1. /\ udp.log[i].at \in Int /\ Sent(i, N) \in Int
            /\ udp.log[i].at <= now
            /\ udp.tokens >= 0 /\ udp.previous <= now
        <5>1. i \in Int /\ N \in Int
          BY <1>3
        <5> QED  BY <1>1, <1>4, <1>5, <5>1 DEF Banked, Earned
      <4>2. CASE udp.previous < udp.log[i].at
        <5>1. Sent(i, N) + udp.tokens <= Cap
          BY <1>1, <4>2 DEF Banked
        <5> QED  BY <1>2, <2>1, <4>1, <5>1, CapFacts
      <4>3. CASE udp.previous >= udp.log[i].at
        <5>1. Sent(i, N) + udp.tokens <= Cap + Cap + (udp.previous - udp.log[i].at)
          BY <1>1, <4>3 DEF Banked
        <5> QED  BY <1>2, <2>1, <4>1, <5>1, CapFacts
      <4> QED  BY <1>2, <4>1, <4>2, <4>3
    <3>7. Banked'
      <4>1. \A i \in 1 .. N : ~(now < udp.log[i].at)
        BY <1>2, <1>4, <3>6
      <4> QED  BY <1>1, <3>2, <3>3, <3>6, <4>1 DEF Banked, Sent
    <3>8. Spread'
      BY <1>1, <3>2, <3>3 DEF Spread, Sent
    <3>9. Prompt'
      BY <1>1, <3>2, <3>3 DEF Prompt
    <3> QED  BY <1>1, <3>1, <3>5, <3>7, <3>8, <3>9 DEF UdpInv, UdpTypeOK
  <2>3. ASSUME udp' = [udp EXCEPT
               !.pc = IF Refilled < Unit THEN "sleep" ELSE "batch",
               !.tokens = Refilled, !.previous = now,
               !.wake = now + Min({Unit - Refilled, udp.deadline - now, UdpNap})]
        PROVE  UdpInv'
    <3> DEFINE goal == IF Refilled < Unit THEN "sleep" ELSE "batch"
               alarm == now + Min({Unit - Refilled, udp.deadline - now, UdpNap})
    <3>1. Unit - Refilled \in Int /\ udp.deadline - now \in Int /\ UdpNap \in Int
      BY <1>2, <2>1, UdpAssumption
    <3>2. Min({Unit - Refilled, udp.deadline - now, UdpNap}) \in Int
      BY <3>1, MinOfThree
    <3>3. goal \in {"sleep", "batch"} /\ alarm \in Int
      BY <1>2, <3>2
    <3>4. udp' = [udp EXCEPT !.pc = goal, !.tokens = Refilled, !.previous = now, !.wake = alarm]
      BY <2>3
    <3> HIDE DEF goal, alarm
    <3> QED  BY <2>2, <3>3, <3>4
  <2>4. ASSUME UdpGoes("finish") PROVE UdpInv'
    BY <1>8, <2>4 DEF Labels
  <2> QED  BY <1>10, <1>12, <2>3, <2>4 DEF UdpLook
<1>13. CASE UdpWake
  BY <1>8, <1>13 DEF UdpWake, Labels
<1>14. CASE UdpBatch
  <2>1. /\ "look" \in Labels /\ "finish" \in Labels /\ "send" \in Labels
        /\ (~(udp.tokens < Unit) => udp.tokens >= Unit)
    BY <1>2, CapFacts DEF Labels
  <2> QED  BY <1>8, <1>14, <2>1 DEF UdpBatch
<1>15. CASE UdpSend
  <2> DEFINE late == stop \/ now >= udp.deadline
             datagram == [at |-> now, late |-> late]
  <2>1. PICK label \in {"finish", "batch"}, failures \in Nat, failed \in BOOLEAN :
          udp' = [udp EXCEPT !.pc = label, !.tokens = udp.tokens - Unit, !.consecutive = failures,
                             !.failed = failed, !.log = Append(udp.log, datagram)]
    <3>1. PICK ok \in BOOLEAN :
            LET failures == IF ok THEN 0 ELSE udp.consecutive + 1 IN
            udp' = [udp EXCEPT !.pc = IF failures >= MaxErrors THEN "finish" ELSE "batch",
                          !.tokens = @ - Unit, !.consecutive = failures, !.failed = @ \/ ~ok,
                          !.log = Append(@, [at |-> now, late |-> stop \/ now >= udp.deadline])]
      BY <1>15 DEF UdpSend
    <3> DEFINE r == IF ok THEN 0 ELSE udp.consecutive + 1
               l == IF r >= MaxErrors THEN "finish" ELSE "batch"
               f == udp.failed \/ ~ok
    <3>2. r \in Nat /\ l \in {"finish", "batch"} /\ f \in BOOLEAN
      BY <1>1 DEF UdpRecord
    <3>3. udp' = [udp EXCEPT !.pc = l, !.tokens = udp.tokens - Unit, !.consecutive = r,
                             !.failed = f, !.log = Append(udp.log, datagram)]
      BY <1>1, <3>1 DEF UdpRecord
    <3> HIDE DEF r, l, f, datagram
    <3> QED  BY <3>2, <3>3
  <2>2. late \in BOOLEAN /\ datagram \in [at : Int, late : BOOLEAN] /\ datagram.at = now
    BY <1>2
  <2> HIDE DEF late, datagram
  <2>3. /\ udp'.log = Append(udp.log, datagram) /\ udp'.pc = label
        /\ udp'.tokens = udp.tokens - Unit /\ udp'.previous = udp.previous
        /\ udp'.start = udp.start /\ udp'.deadline = udp.deadline
    BY <1>1, <2>1 DEF UdpRecord
  <2>4. /\ udp.pc = "send" /\ udp.tokens >= Unit
        /\ N > 0 => ~udp.log[N].late
    BY <1>1, <1>15 DEF UdpSend, Earned, Prompt
  <2>5. UdpTypeOK'
    <3>1. udp.tokens - Unit \in Int
      BY <1>2, CapFacts
    <3>2. Append(udp.log, datagram) \in Seq([at : Int, late : BOOLEAN])
      <4> DEFINE S == [at : Int, late : BOOLEAN]
      <4>1. udp.log \in Seq(S) /\ datagram \in S
        BY <1>1, <2>2 DEF UdpRecord
      <4> HIDE DEF S
      <4>2. Append(udp.log, datagram) \in Seq(S)
        BY <4>1
      <4> QED  BY <4>2 DEF S
    <3> DEFINE longer == Append(udp.log, datagram)
               fewer == udp.tokens - Unit
    <3>3. /\ udp' = [udp EXCEPT !.pc = label, !.tokens = fewer, !.consecutive = failures,
                             !.failed = failed, !.log = longer]
          /\ longer \in Seq([at : Int, late : BOOLEAN]) /\ fewer \in Int
      BY <2>1, <3>1, <3>2
    <3> HIDE DEF longer, fewer
    <3>4. udp' \in UdpRecord
      BY <1>1, <2>1, <3>3 DEF UdpRecord, Labels
    <3> QED  BY <1>1, <3>4 DEF UdpTypeOK
  <2>6. /\ N' = N + 1 /\ udp'.log[N + 1] = datagram
        /\ \A i \in 1 .. N : udp'.log[i] = udp.log[i]
    <3> DEFINE S == [at : Int, late : BOOLEAN]
    <3>1. udp.log \in Seq(S) /\ datagram \in S
      BY <1>1, <2>2 DEF UdpRecord
    <3> HIDE DEF S
    <3> QED  BY <2>3, <3>1 DEF N
  <2>7. \A i \in 1 .. N + 1 : i \in 1 .. N \/ i = N + 1
    BY <1>3
  <2>8. /\ \A i \in 1 .. N : Sent(i, N + 1) = Sent(i, N) + Unit /\ Sent(i, N) \in Int
        /\ Sent(N + 1, N + 1) = Unit
        /\ Sent(1, N + 1) = Sent(1, N) + Unit /\ Sent(1, N) \in Int
    <3>1. \A i \in Int : Sent(i, N + 1) = Sent(i, N) + Unit /\ Sent(i, N) \in Int
      BY <1>3, SentFacts
    <3>2. Sent(N + 1, N + 1) = Unit
      BY <1>3, SentFacts
    <3> QED  BY <3>1, <3>2
  <2>9. Earned'
    <3>1. Sent(1, N + 1) + (udp.tokens - Unit) <= Unit + (udp.previous - udp.start)
      <4>1. Sent(1, N) + udp.tokens <= Unit + (udp.previous - udp.start)
        BY <1>1 DEF Earned
      <4> QED  BY <1>2, <2>8, <4>1, CapFacts
    <3>2. 0 <= udp.tokens - Unit /\ udp.tokens - Unit <= Cap
      BY <1>1, <1>2, <2>4, CapFacts DEF Earned
    <3> QED  BY <1>1, <2>1, <2>3, <2>6, <3>1, <3>2 DEF Earned, Sent
  <2>10. Banked'
    <3>1. ASSUME NEW i \in 1 .. N
          PROVE  /\ udp.log[i].at <= now
                 /\ udp.previous < udp.log[i].at => Sent(i, N + 1) + (udp.tokens - Unit) <= Cap
                 /\ udp.previous >= udp.log[i].at =>
                      Sent(i, N + 1) + (udp.tokens - Unit)
                        <= Cap + Cap + (udp.previous - udp.log[i].at)
      <4>1. Sent(i, N + 1) + (udp.tokens - Unit) = Sent(i, N) + udp.tokens
        BY <1>2, <2>8, CapFacts
      <4> QED  BY <1>1, <4>1 DEF Banked
    <3>2. /\ udp.previous < now => Unit + (udp.tokens - Unit) <= Cap
          /\ udp.previous >= now => Unit + (udp.tokens - Unit) <= Cap + Cap + (udp.previous - now)
      BY <1>1, <1>2, CapFacts DEF Earned
    <3>3. now <= now
      BY <1>2
    <3>4. ASSUME NEW i \in 1 .. N + 1
          PROVE  /\ udp'.log[i].at <= now
                 /\ udp.previous < udp'.log[i].at => Sent(i, N + 1) + (udp.tokens - Unit) <= Cap
                 /\ udp.previous >= udp'.log[i].at =>
                      Sent(i, N + 1) + (udp.tokens - Unit)
                        <= Cap + Cap + (udp.previous - udp'.log[i].at)
      <4>1. CASE i \in 1 .. N
        BY <2>6, <3>1, <4>1
      <4>2. CASE i = N + 1
        BY <2>2, <2>6, <2>8, <3>2, <3>3, <4>2
      <4> QED  BY <2>7, <4>1, <4>2
    <3> QED  BY <1>1, <2>3, <2>6, <3>4 DEF Banked, Sent
  <2>11. Spread'
    <3>1. ASSUME NEW i \in 1 .. N
          PROVE  Sent(i, N + 1) <= Cap + Cap + (now - udp.log[i].at)
      <4>1. udp.log[i].at \in Int /\ udp.log[i].at <= now /\ udp.previous <= now
        BY <1>1, <1>4 DEF Banked, Earned
      <4>2. Sent(i, N + 1) <= Sent(i, N) + udp.tokens
        BY <1>2, <2>4, <2>8, CapFacts
      <4>3. Sent(i, N) \in Int
        BY <2>8
      <4>4. CASE udp.previous < udp.log[i].at
        <5>1. Sent(i, N) + udp.tokens <= Cap
          BY <1>1, <4>4 DEF Banked
        <5> QED  BY <1>2, <2>8, <4>1, <4>2, <4>3, <5>1, CapFacts
      <4>5. CASE udp.previous >= udp.log[i].at
        <5>1. Sent(i, N) + udp.tokens <= Cap + Cap + (udp.previous - udp.log[i].at)
          BY <1>1, <4>5 DEF Banked
        <5> QED  BY <1>2, <2>8, <4>1, <4>2, <4>3, <5>1, CapFacts
      <4> QED  BY <1>2, <4>1, <4>4, <4>5
    <3>2. Unit <= Cap + Cap + (now - now)
      BY <1>2, CapFacts
    <3>3. ASSUME NEW i \in 1 .. N + 1, NEW j \in 1 .. N + 1, i <= j
          PROVE  Sent(i, j) <= Cap + Cap + (udp'.log[j].at - udp'.log[i].at)
      <4>1. CASE j \in 1 .. N
        <5>1. i \in 1 .. N
          BY <1>3, <3>3, <4>1
        <5> QED  BY <1>1, <2>6, <3>3, <4>1, <5>1 DEF Spread
      <4>2. CASE j = N + 1 /\ i \in 1 .. N
        BY <2>2, <2>6, <3>1, <4>2
      <4>3. CASE j = N + 1 /\ i = N + 1
        BY <2>2, <2>6, <2>8, <3>2, <4>3
      <4> QED  BY <2>7, <4>1, <4>2, <4>3
    <3> QED  BY <2>6, <3>3 DEF Spread, Sent
  <2>12. Prompt'
    <3>1. datagram.late => stop \/ now >= udp.deadline
      BY DEF datagram, late
    <3>2. ASSUME NEW i \in 1 .. N + 1, i < N + 1 PROVE ~udp'.log[i].late
      <4>1. i \in 1 .. N
        BY <1>3, <3>2
      <4>2. CASE i < N
        BY <1>1, <2>6, <4>1, <4>2 DEF Prompt
      <4>3. CASE i = N
        BY <1>3, <2>4, <2>6, <4>1, <4>3
      <4> QED  BY <1>3, <4>1, <4>2, <4>3
    <3>3. udp'.pc \notin {"start", "send"}
      BY <2>1, <2>3
    <3> QED  BY <1>1, <2>3, <2>6, <3>1, <3>2, <3>3 DEF Prompt
  <2> QED  BY <2>5, <2>9, <2>10, <2>11, <2>12 DEF UdpInv
<1>16. CASE UdpFinish
  <2>1. ASSUME udp' = [udp EXCEPT !.pc = "done", !.code = IF udp.failed THEN 1 ELSE 0]
        PROVE  UdpInv'
    <3> DEFINE code == IF udp.failed THEN 1 ELSE 0
    <3>1. code \in {0, 1} /\ udp' = [udp EXCEPT !.pc = "done", !.code = code]
      BY <2>1
    <3> HIDE DEF code
    <3> QED  BY <1>9, <3>1
  <2> QED  BY <1>10, <1>16, <2>1 DEF UdpFinish
<1> QED  BY <1>11, <1>12, <1>13, <1>14, <1>15, <1>16 DEF UdpStep

(***************************************************************************)
(* The load keeps its rate and its bound on bursts at every rate and every *)
(* credit, however the host is held up, and sends at most one datagram     *)
(* after a stop request or its deadline.                                   *)
(***************************************************************************)
THEOREM TrafficKeepsPace == UdpSpec => []TrafficIsBounded
<1>1. HostInit /\ UdpInit => UdpInv
  BY UdpInitial
<1>2. UdpInv /\ [UdpStep \/ (HostNext /\ UNCHANGED udp)]_UdpVars => UdpInv'
  <2>1. ASSUME UdpInv, UNCHANGED UdpVars PROVE UdpInv'
    BY <2>1 DEF UdpVars, host, UdpInv, UdpTypeOK, Earned, Banked, Spread, Prompt, N, Sent
  <2> QED  BY <2>1, UdpSteps, UdpHost
<1>3. UdpInv => TrafficIsBounded
  <2>1. SUFFICES ASSUME UdpInv PROVE TrafficIsBounded
    OBVIOUS
  <2>2. /\ Earned /\ Spread /\ Prompt
        /\ now \in Int /\ udp.start \in Int /\ udp.previous \in Int /\ udp.tokens \in Int
    BY <2>1, UdpNumbers DEF UdpInv
  <2>3. DOMAIN udp.log = 1 .. N /\ Len(udp.log) = N /\ N \in Int
    BY <2>1 DEF UdpInv, UdpTypeOK, UdpRecord, N
  <2>4. Sent(1, N) <= Unit + (now - udp.start)
    <3>1. Sent(1, N) \in Int
      BY <2>3, SentFacts
    <3> QED  BY <2>2, <3>1, CapFacts, SMTT(30) DEF Earned
  <2>5. \A i, j \in 1 .. N :
          i <= j => Sent(i, j) <= 2 * Credit * Unit + (udp.log[j].at - udp.log[i].at)
    BY <2>2, CapFacts DEF Spread
  <2> QED  BY <2>2, <2>3, <2>4, <2>5 DEF Prompt, TrafficIsBounded
<1> QED  BY <1>1, <1>2, <1>3, PTL DEF UdpSpec

-----------------------------------------------------------------------------
(* Preparing and restoring the board: the inductive invariant.             *)

Saved == [saved : {TRUE}, cpu : Cpu, led : [1 .. Leds -> Led], applied : BOOLEAN,
          restored : BOOLEAN]
Command == [op : {"none", "apply", "restore"}, at : {"idle", "cpu", "led", "verify", "refused"},
            n : 1 .. 3, i : 1 .. Leds]

TypeOK ==
  /\ cpu \in Cpu /\ led \in [1 .. Leds -> Led]
  /\ original \in [cpu : Cpu, led : [1 .. Leds -> Led]]
  /\ file = NoFile \/ file \in Saved
  /\ run \in Command

\* Two settings of an LED nobody can tell apart: a trigger drives the brightness.
Alike(one, other) ==
  one.trigger = other.trigger /\ (one.trigger = "none" => one.brightness = other.brightness)

AllAlike(some, others) == \A i \in 1 .. Leds : Alike(some[i], others[i])

\* The state file holds the original settings, and nothing is written without one.
Recorded ==
  /\ ~file.saved => run = Idle /\ AsOriginally
  /\ file.saved => file.cpu = original.cpu /\ AllAlike(file.led, original.led)
  /\ file.saved /\ file.restored => run = Idle /\ AsOriginally

\* Wherever a command was killed, the maximum is one the recorded minimum fits under.
Acceptable ==
  /\ file.saved => cpu.max \in {file.cpu.max, Full}
  /\ run.op = "apply" /\ run.at = "cpu" /\ run.n > 1 => cpu.max = Full
  /\ run.op = "apply" /\ run.at = "led" => run.n < 3
  /\ run.at # "refused"
  /\ run = Idle \/ run.op # "none"

\* What a restore has brought back so far.
RestoredSoFar ==
  run.op = "restore" =>
    /\ run.at = "cpu" => /\ run.i = 1
                         /\ run.n > 1 => cpu.min = file.cpu.min
                         /\ run.n > 2 => cpu.max = file.cpu.max
    /\ run.at \in {"led", "verify"} => cpu = file.cpu
    /\ run.at = "led" =>
         /\ \A j \in 1 .. Leds : j < run.i => Alike(led[j], file.led[j])
         /\ run.n > 1 => led[run.i].trigger = "none"
         /\ run.n > 2 => led[run.i].brightness = file.led[run.i].brightness
    /\ run.at = "verify" => AllAlike(led, file.led)

PrepareInv == TypeOK /\ Recorded /\ Acceptable /\ RestoredSoFar

USE FreqsAssumption, LedsAssumption

LEMMA Typed ==
  ASSUME PrepareInv
  PROVE  /\ cpu \in Cpu /\ led \in [1 .. Leds -> Led] /\ run \in Command
         /\ original.cpu \in Cpu /\ original.led \in [1 .. Leds -> Led]
         /\ file.saved \in BOOLEAN /\ (file.saved => file \in Saved)
<1>1. file = NoFile => file.saved = FALSE BY DEF NoFile
<1>2. file \in Saved => file.saved = TRUE BY DEF Saved
<1> QED BY <1>1, <1>2 DEF PrepareInv, TypeOK

LEMMA IdleIsCommand == Idle \in Command
  BY DEF Idle, Command

LEMMA Begins ==
  ASSUME NEW op \in {"apply", "restore"}
  PROVE  LET begun == [Idle EXCEPT !.op = op, !.at = "cpu"]
         IN begun \in Command /\ begun.op = op /\ begun.at = "cpu" /\ begun.n = 1 /\ begun.i = 1
<1>1. Idle.n = 1 /\ Idle.i = 1 BY DEF Idle
<1> QED BY <1>1, IdleIsCommand DEF Command

\* A command that runs has its state file, and it is not restored yet.
LEMMA Running ==
  ASSUME PrepareInv, run # Idle
  PROVE  /\ file \in Saved /\ file.saved /\ ~file.restored /\ run.op \in {"apply", "restore"}
         /\ file.cpu \in Cpu /\ file.led \in [1 .. Leds -> Led]
         /\ file.cpu = original.cpu /\ AllAlike(file.led, original.led)
<1>1. file.saved /\ file \in Saved /\ run.op \in {"apply", "restore"}
  BY Typed DEF PrepareInv, Recorded, Acceptable, Command
<1>2. file.restored \in BOOLEAN /\ file.cpu \in Cpu /\ file.led \in [1 .. Leds -> Led]
  BY <1>1 DEF Saved
<1> QED BY <1>1, <1>2 DEF PrepareInv, Recorded

LEMMA CpuFields ==
  ASSUME NEW c \in Cpu
  PROVE  c.min \in Nat /\ c.max \in Nat /\ c.min \in Freqs /\ c.max \in Freqs
         /\ c.min <= c.max /\ c.max <= Full /\ c.min <= Full /\ Full \in Nat
  BY DEF Cpu

-----------------------------------------------------------------------------
(* The CPU policy.                                                         *)

\* The three writes of apply: none is refused, for the maximum is raised first.
LEMMA ApplyWritesCpu ==
  ASSUME PrepareInv, WriteCpu, run.op = "apply"
  PROVE  /\ cpu' \in Cpu /\ cpu'.max = Full
         /\ run' = IF run.n < 3 THEN [run EXCEPT !.n = @ + 1]
                   ELSE [run EXCEPT !.at = "led", !.n = 1]
<1> DEFINE target == [min |-> Full, max |-> Full, governor |-> "performance"]
           policy == [cpu EXCEPT ![CpuOrder[run.n]] = target[CpuOrder[run.n]]]
<1>1. run.at = "cpu" /\ CpuOrder = <<"max", "min", "governor">> /\ CpuTarget = target
  BY DEF WriteCpu, CpuOrder, CpuTarget
<1>2. run.n \in 1 .. 3 /\ Len(CpuOrder) = 3 BY <1>1, Typed DEF Command
<1>3. /\ Accepted(policy) => /\ cpu' = policy
                             /\ run' = IF run.n < 3 THEN [run EXCEPT !.n = @ + 1]
                                       ELSE [run EXCEPT !.at = "led", !.n = 1]
  BY <1>1, <1>2 DEF WriteCpu
<1>4. cpu \in Cpu /\ cpu.min <= Full /\ (run.n > 1 => cpu.max = Full)
  BY <1>1, Typed, CpuFields DEF PrepareInv, Acceptable
<1>5. policy \in Cpu /\ policy.max = Full
  <2>1. CASE run.n = 1
    <3>1. CpuOrder[run.n] = "max" BY <1>1, <2>1
    <3>2. policy = [cpu EXCEPT !.max = Full] BY <3>1
    <3> HIDE DEF policy
    <3> QED BY <1>4, <3>2 DEF Cpu
  <2>2. CASE run.n = 2
    <3>1. CpuOrder[run.n] = "min" BY <1>1, <2>2
    <3>2. policy = [cpu EXCEPT !.min = Full] BY <3>1
    <3> HIDE DEF policy
    <3> QED BY <1>4, <2>2, <3>2 DEF Cpu
  <2>3. CASE run.n = 3
    <3>1. CpuOrder[run.n] = "governor" BY <1>1, <2>3
    <3>2. policy = [cpu EXCEPT !.governor = "performance"] BY <3>1
    <3> HIDE DEF policy
    <3> QED BY <1>4, <2>3, <3>2 DEF Cpu
  <2> QED BY <1>2, <2>1, <2>2, <2>3
<1> HIDE DEF policy
<1>6. Accepted(policy) BY <1>5 DEF Accepted, Cpu
<1> QED BY <1>3, <1>5, <1>6

\* The three writes of restore: the minimum first, which fits under whatever maximum is there.
LEMMA RestoreWritesCpu ==
  ASSUME PrepareInv, WriteCpu, run.op = "restore"
  PROVE  /\ cpu' \in Cpu /\ cpu'.min = file.cpu.min /\ cpu'.max \in {file.cpu.max, Full}
         /\ run.n > 1 => cpu'.max = file.cpu.max
         /\ run.n > 2 => cpu' = file.cpu
         /\ run' = IF run.n < 3 THEN [run EXCEPT !.n = @ + 1]
                   ELSE [run EXCEPT !.at = "led", !.n = 1]
<1> DEFINE policy == [cpu EXCEPT ![CpuOrder[run.n]] = file.cpu[CpuOrder[run.n]]]
<1>1. run.at = "cpu" /\ CpuOrder = <<"min", "max", "governor">> /\ CpuTarget = file.cpu
  BY DEF WriteCpu, CpuOrder, CpuTarget
<1>2. run.n \in 1 .. 3 /\ Len(CpuOrder) = 3 BY <1>1, Typed DEF Command
<1>3. /\ Accepted(policy) => /\ cpu' = policy
                             /\ run' = IF run.n < 3 THEN [run EXCEPT !.n = @ + 1]
                                       ELSE [run EXCEPT !.at = "led", !.n = 1]
  BY <1>1, <1>2 DEF WriteCpu
<1>4. run # Idle BY <1>1 DEF Idle
<1>5. file.cpu \in Cpu /\ file.saved BY <1>4, Running
<1>6. /\ cpu \in Cpu /\ cpu.max \in {file.cpu.max, Full}
      /\ run.n > 1 => cpu.min = file.cpu.min
      /\ run.n > 2 => cpu.max = file.cpu.max
  BY <1>1, <1>5, Typed DEF PrepareInv, Acceptable, RestoredSoFar
<1>7. /\ policy \in Cpu /\ policy.min = file.cpu.min /\ policy.max \in {file.cpu.max, Full}
      /\ run.n > 1 => policy.max = file.cpu.max
      /\ run.n > 2 => policy = file.cpu
  <2>1. CASE run.n = 1
    <3>1. CpuOrder[run.n] = "min" BY <1>1, <2>1
    <3>2. policy = [cpu EXCEPT !.min = file.cpu.min] BY <3>1
    <3>3. file.cpu.min \in Freqs /\ file.cpu.min <= cpu.max BY <1>5, <1>6, CpuFields
    <3> HIDE DEF policy
    <3> QED BY <1>6, <2>1, <3>2, <3>3 DEF Cpu
  <2>2. CASE run.n = 2
    <3>1. CpuOrder[run.n] = "max" BY <1>1, <2>2
    <3>2. policy = [cpu EXCEPT !.max = file.cpu.max] BY <3>1
    <3>3. file.cpu.max \in Freqs /\ cpu.min <= file.cpu.max
      BY <1>5, <1>6, <2>2, CpuFields
    <3> HIDE DEF policy
    <3> QED BY <1>6, <2>2, <3>2, <3>3 DEF Cpu
  <2>3. CASE run.n = 3
    <3>1. CpuOrder[run.n] = "governor" BY <1>1, <2>3
    <3>2. policy = [cpu EXCEPT !.governor = file.cpu.governor] BY <3>1
    <3> HIDE DEF policy
    <3>3. policy = file.cpu BY <1>5, <1>6, <2>3, <3>2 DEF Cpu
    <3> QED BY <1>5, <1>6, <2>3, <3>3
  <2> QED BY <1>2, <2>1, <2>2, <2>3
<1> HIDE DEF policy
<1>8. Accepted(policy) BY <1>7 DEF Accepted, Cpu
<1> QED BY <1>3, <1>7, <1>8

LEMMA WriteCpuKeeps ==
  ASSUME PrepareInv, WriteCpu
  PROVE  PrepareInv'
<1>1. run.at = "cpu" /\ UNCHANGED <<led, file, original>> BY DEF WriteCpu
<1>2. run # Idle BY <1>1 DEF Idle
<1>3. run.op \in {"apply", "restore"} /\ file.saved /\ ~file.restored BY <1>2, Running
<1>4. /\ cpu' \in Cpu
      /\ run' = IF run.n < 3 THEN [run EXCEPT !.n = @ + 1]
                ELSE [run EXCEPT !.at = "led", !.n = 1]
  BY <1>3, ApplyWritesCpu, RestoreWritesCpu
<1>5. run.n \in 1 .. 3 /\ run.i \in 1 .. Leds BY Typed DEF Command
<1>6. /\ run' \in Command /\ run'.op = run.op /\ run'.i = run.i
      /\ run.n < 3 => run'.at = "cpu" /\ run'.n = run.n + 1
      /\ ~(run.n < 3) => run'.at = "led" /\ run'.n = 1
  <2>1. CASE run.n < 3
    <3>1. run' = [run EXCEPT !.n = run.n + 1] BY <1>4, <2>1
    <3>2. run.n + 1 \in 1 .. 3 BY <1>5, <2>1
    <3> QED BY <1>1, <2>1, <3>1, <3>2, Typed DEF Command
  <2>2. CASE ~(run.n < 3)
    <3>1. run' = [run EXCEPT !.at = "led", !.n = 1] BY <1>4, <2>2
    <3>2. 1 \in 1 .. 3 OBVIOUS
    <3> QED BY <2>2, <3>1, <3>2, Typed DEF Command
  <2> QED BY <2>1, <2>2
<1>7. TypeOK' BY <1>1, <1>4, <1>6 DEF PrepareInv, TypeOK
<1>8. Recorded' BY <1>1, <1>3 DEF PrepareInv, Recorded, AllAlike
<1>9. run' # Idle BY <1>6, <1>3 DEF Idle
<1>10. Acceptable'
  BY <1>1, <1>3, <1>6, ApplyWritesCpu, RestoreWritesCpu DEF Acceptable
<1>11. RestoredSoFar'
  <2> SUFFICES ASSUME run.op = "restore" PROVE RestoredSoFar'
    BY <1>6 DEF RestoredSoFar
  <2>1. run.i = 1 BY <1>1 DEF PrepareInv, RestoredSoFar
  <2>2. \A j \in 1 .. Leds : ~(j < 1) OBVIOUS
  <2>3. /\ cpu'.min = file.cpu.min
        /\ run.n > 1 => cpu'.max = file.cpu.max
        /\ run.n > 2 => cpu' = file.cpu
    BY RestoreWritesCpu
  <2> QED BY <1>1, <1>5, <1>6, <2>1, <2>2, <2>3 DEF RestoredSoFar
<1> QED BY <1>7, <1>8, <1>10, <1>11 DEF PrepareInv

-----------------------------------------------------------------------------
(* The LEDs.                                                               *)

LEMMA TriggerChanges ==
  ASSUME NEW one \in Led, NEW trigger \in {"none", "heartbeat"}
  PROVE  /\ WithTrigger(one, trigger) \in Led /\ WithTrigger(one, trigger).trigger = trigger
         /\ one.trigger = "none" => WithTrigger(one, trigger).brightness = one.brightness
  BY DEF WithTrigger, Led

\* What a write makes of its LED: restore removes the trigger, which would drive the
\* brightness, before it writes that, and brings the trigger back last.
LEMMA LedWritten ==
  ASSUME PrepareInv, WriteLed
  PROVE  \E new \in Led :
           /\ led' = [led EXCEPT ![run.i] = new]
           /\ run.n = 1 => new.trigger = "none"
           /\ run.op = "restore" /\ run.n = 2 =>
                new.trigger = "none" /\ new.brightness = file.led[run.i].brightness
           /\ run.op = "restore" /\ run.n = 3 => Alike(new, file.led[run.i])
<1> DEFINE one == led[run.i]
           old == file.led[run.i]
           lit == CASE LedOrder[run.n] = "none" -> WithTrigger(one, "none")
                    [] LedOrder[run.n] = "brightness" ->
                         [one EXCEPT !.brightness = IF run.op = "apply" THEN 0 ELSE old.brightness]
                    [] LedOrder[run.n] = "trigger" -> WithTrigger(one, old.trigger)
<1>1. run.at = "led" /\ led' = [led EXCEPT ![run.i] = lit] BY Typed DEF WriteLed
<1>2. run # Idle BY <1>1 DEF Idle
<1>3. run.i \in 1 .. Leds /\ run.n \in 1 .. 3 /\ one \in Led /\ old \in Led
  BY <1>2, Typed, Running DEF Command
<1>4. one.trigger \in {"none", "heartbeat"} /\ old.trigger \in {"none", "heartbeat"}
      /\ old.brightness \in {0, 1}
  BY <1>3 DEF Led
<1>5. CASE run.n = 1
  <2>1. LedOrder[run.n] = "none" BY <1>5 DEF LedOrder
  <2>2. lit = WithTrigger(one, "none") BY <2>1
  <2> HIDE DEF lit, one, old
  <2>3. lit \in Led /\ lit.trigger = "none" BY <1>3, <2>2, TriggerChanges
  <2>4. lit \in Led BY <2>3
  <2> WITNESS lit \in Led
  <2> QED BY <1>1, <1>5, <2>3
<1>6. CASE run.n = 2
  <2>1. LedOrder[run.n] = "brightness" BY <1>6 DEF LedOrder
  <2> DEFINE brightness == IF run.op = "apply" THEN 0 ELSE old.brightness
  <2>2. lit = [one EXCEPT !.brightness = brightness] BY <2>1
  <2>3. brightness \in {0, 1} BY <1>4
  <2>4. run.op = "restore" => one.trigger = "none" /\ brightness = old.brightness
    BY <1>1, <1>6 DEF PrepareInv, RestoredSoFar
  <2> HIDE DEF lit, one, brightness
  <2>5. lit \in Led /\ lit.trigger = one.trigger /\ lit.brightness = brightness
    BY <1>3, <2>2, <2>3 DEF Led
  <2>6. lit \in Led BY <2>5
  <2> WITNESS lit \in Led
  <2> QED BY <1>1, <1>6, <2>4, <2>5
<1>7. CASE run.n = 3
  <2>1. run.op = "restore"
    BY <1>1, <1>2, <1>7, Running DEF PrepareInv, Acceptable
  <2>2. LedOrder[run.n] = "trigger" BY <1>7, <2>1 DEF LedOrder
  <2>3. lit = WithTrigger(one, old.trigger) BY <2>2
  <2>4. one.trigger = "none" /\ one.brightness = old.brightness
    BY <1>1, <1>7, <2>1 DEF PrepareInv, RestoredSoFar
  <2> HIDE DEF lit, one, old
  <2>5. lit \in Led /\ Alike(lit, old) BY <1>3, <1>4, <2>3, <2>4, TriggerChanges DEF Alike
  <2>6. lit \in Led BY <2>5
  <2> WITNESS lit \in Led
  <2> QED BY <1>1, <1>7, <2>5 DEF old
<1> QED BY <1>3, <1>5, <1>6, <1>7

\* Where the writes go on.
LEMMA LedProceeds ==
  ASSUME PrepareInv, WriteLed
  PROVE  /\ run' \in Command /\ run'.op = run.op
         /\ \/ run'.at = "led" /\ run'.i = run.i /\ run'.n = run.n + 1
               /\ run.n < (IF run.op = "apply" THEN 2 ELSE 3)
            \/ run'.at = "led" /\ run'.i = run.i + 1 /\ run'.n = 1 /\ (run.op = "restore" => run.n = 3)
            \/ run'.at = "verify" /\ run.i = Leds /\ (run.op = "restore" => run.n = 3)
<1>1. run.at = "led" BY DEF WriteLed
<1>2. run.op \in {"apply", "restore"} BY <1>1, Running DEF Idle
<1>3. run.i \in 1 .. Leds /\ run.n \in 1 .. 3 BY Typed DEF Command
<1>4. Len(LedOrder) = IF run.op = "apply" THEN 2 ELSE 3 BY <1>2 DEF LedOrder
<1>5. CASE run.n < Len(LedOrder)
  <2>1. run' = [run EXCEPT !.n = run.n + 1] BY <1>5 DEF WriteLed
  <2>2. run.n + 1 \in 1 .. 3 BY <1>3, <1>4, <1>5
  <2> QED BY <1>1, <1>4, <1>5, <2>1, <2>2, Typed DEF Command
<1>6. CASE ~(run.n < Len(LedOrder)) /\ run.i < Leds
  <2>1. run' = [run EXCEPT !.n = 1, !.i = run.i + 1] BY <1>6 DEF WriteLed
  <2>2. 1 \in 1 .. 3 /\ run.i + 1 \in 1 .. Leds BY <1>3, <1>6
  <2>3. run.op = "restore" => run.n = 3 BY <1>3, <1>4, <1>6
  <2> QED BY <1>1, <2>1, <2>2, <2>3, Typed DEF Command
<1>7. CASE ~(run.n < Len(LedOrder)) /\ ~(run.i < Leds)
  <2>1. run' = [run EXCEPT !.at = "verify"] BY <1>7 DEF WriteLed
  <2>2. run.i = Leds BY <1>3, <1>7
  <2>3. run.op = "restore" => run.n = 3 BY <1>3, <1>4, <1>7
  <2> QED BY <2>1, <2>2, <2>3, Typed DEF Command
<1> QED BY <1>5, <1>6, <1>7

LEMMA WriteLedKeeps ==
  ASSUME PrepareInv, WriteLed
  PROVE  PrepareInv'
<1>1. run.at = "led" /\ UNCHANGED <<cpu, file, original>> BY DEF WriteLed
<1>2. run # Idle BY <1>1 DEF Idle
<1>3. run.op \in {"apply", "restore"} /\ file.saved /\ ~file.restored BY <1>2, Running
<1>4. run.i \in 1 .. Leds /\ run.n \in 1 .. 3 /\ led \in [1 .. Leds -> Led] BY Typed DEF Command
<1>5. PICK new \in Led :
        /\ led' = [led EXCEPT ![run.i] = new]
        /\ run.n = 1 => new.trigger = "none"
        /\ run.op = "restore" /\ run.n = 2 =>
             new.trigger = "none" /\ new.brightness = file.led[run.i].brightness
        /\ run.op = "restore" /\ run.n = 3 => Alike(new, file.led[run.i])
  BY LedWritten
<1>6. /\ run' \in Command /\ run'.op = run.op
      /\ \/ run'.at = "led" /\ run'.i = run.i /\ run'.n = run.n + 1
            /\ run.n < (IF run.op = "apply" THEN 2 ELSE 3)
         \/ run'.at = "led" /\ run'.i = run.i + 1 /\ run'.n = 1 /\ (run.op = "restore" => run.n = 3)
         \/ run'.at = "verify" /\ run.i = Leds /\ (run.op = "restore" => run.n = 3)
  BY LedProceeds
<1>7. /\ led' \in [1 .. Leds -> Led] /\ led'[run.i] = new
      /\ \A j \in 1 .. Leds : j # run.i => led'[j] = led[j]
  BY <1>4, <1>5
<1>8. TypeOK' BY <1>1, <1>6, <1>7 DEF PrepareInv, TypeOK
<1>9. Recorded' BY <1>1, <1>3 DEF PrepareInv, Recorded, AllAlike
<1>10. Acceptable'
  <2>1. run'.op # "none" /\ run'.at # "refused" /\ run'.at # "cpu" BY <1>3, <1>6
  <2>2. run'.op = "apply" /\ run'.at = "led" => run'.n < 3 BY <1>3, <1>4, <1>6
  <2> QED BY <1>1, <2>1, <2>2 DEF PrepareInv, Acceptable
<1>11. RestoredSoFar'
  <2> SUFFICES ASSUME run.op = "restore" PROVE RestoredSoFar'
    BY <1>6 DEF RestoredSoFar
  <2>1. cpu = file.cpu /\ \A j \in 1 .. Leds : j < run.i => Alike(led[j], file.led[j])
    BY <1>1 DEF PrepareInv, RestoredSoFar
  <2>2. \A j \in 1 .. Leds : j < run.i => Alike(led'[j], file.led[j])
    BY <1>4, <1>7, <2>1
  <2>3. run.n = 3 => \A j \in 1 .. Leds : j < run.i + 1 => Alike(led'[j], file.led[j])
    <3> SUFFICES ASSUME run.n = 3, NEW j \in 1 .. Leds, j < run.i + 1
                 PROVE  Alike(led'[j], file.led[j])
      OBVIOUS
    <3>1. CASE j = run.i BY <1>5, <1>7, <3>1
    <3>2. CASE j # run.i
      <4>1. j < run.i BY <1>4, <3>2
      <4> QED BY <2>2, <4>1
    <3> QED BY <3>1, <3>2
  <2>4. CASE run'.at = "led" /\ run'.i = run.i /\ run'.n = run.n + 1 /\ run.n < 3
    <3>1. run.n > 1 => run.n = 2 BY <1>4, <2>4
    <3>2. led'[run.i].trigger = "none" BY <1>4, <1>5, <1>7, <2>4, <3>1
    <3>3. run'.n > 2 => led'[run.i].brightness = file.led[run.i].brightness
      BY <1>4, <1>5, <1>7, <2>4
    <3> QED BY <1>1, <2>1, <2>2, <2>4, <3>2, <3>3 DEF RestoredSoFar
  <2>5. CASE run'.at = "led" /\ run'.i = run.i + 1 /\ run'.n = 1 /\ run.n = 3
    BY <1>1, <2>1, <2>3, <2>5 DEF RestoredSoFar
  <2>6. CASE run'.at = "verify" /\ run.i = Leds /\ run.n = 3
    <3>1. \A j \in 1 .. Leds : j < run.i + 1 BY <2>6
    <3> QED BY <1>1, <2>1, <2>3, <2>6, <3>1 DEF RestoredSoFar, AllAlike
  <2> QED BY <1>6, <2>4, <2>5, <2>6
<1> QED BY <1>8, <1>9, <1>10, <1>11 DEF PrepareInv

-----------------------------------------------------------------------------
(* Beginnings, ends and what happens around the commands.                  *)

\* A command that ends, or is killed, leaves the settings as they are.
LEMMA IdleKeeps ==
  ASSUME PrepareInv, run' = Idle, UNCHANGED <<cpu, led, original>>,
         file' = NoFile \/ file' \in Saved, file'.saved = file.saved,
         file.saved => file'.cpu = file.cpu /\ file'.led = file.led,
         file'.saved /\ file'.restored => AsOriginally
  PROVE  PrepareInv'
<1>1. TypeOK' BY IdleIsCommand DEF PrepareInv, TypeOK
<1>2. Recorded' BY DEF PrepareInv, Recorded, AsOriginally, AllAlike
<1>3. Acceptable' BY DEF PrepareInv, Acceptable, Idle
<1>4. RestoredSoFar' BY DEF RestoredSoFar, Idle
<1> QED BY <1>1, <1>2, <1>3, <1>4 DEF PrepareInv

LEMMA ApplyBeginsKeeps ==
  ASSUME PrepareInv, ApplyBegins
  PROVE  PrepareInv'
<1>1. /\ run = Idle /\ ~file.saved /\ UNCHANGED <<cpu, led, original>>
      /\ file' = [saved |-> TRUE, cpu |-> cpu, led |-> led, applied |-> FALSE, restored |-> FALSE]
      /\ run' = [Idle EXCEPT !.op = "apply", !.at = "cpu"]
  BY DEF ApplyBegins
<1>2. /\ file' \in Saved /\ file'.saved = TRUE /\ file'.cpu = cpu /\ file'.led = led
      /\ file'.restored = FALSE
  BY <1>1, Typed DEF Saved
<1>3. run' \in Command /\ run'.op = "apply" /\ run'.at = "cpu" /\ run'.n = 1
  BY <1>1, Begins
<1>4. AsOriginally BY <1>1 DEF PrepareInv, Recorded
<1>5. TypeOK' BY <1>1, <1>2, <1>3 DEF PrepareInv, TypeOK
<1>6. Recorded' BY <1>1, <1>2, <1>4 DEF Recorded, AsOriginally, AllAlike, Alike
<1>7. Acceptable' BY <1>1, <1>2, <1>3 DEF Acceptable
<1>8. RestoredSoFar' BY <1>3 DEF RestoredSoFar
<1> QED BY <1>5, <1>6, <1>7, <1>8 DEF PrepareInv

LEMMA RestoreBeginsKeeps ==
  ASSUME PrepareInv, RestoreBegins
  PROVE  PrepareInv'
<1>1. /\ run = Idle /\ file.saved /\ ~file.restored /\ UNCHANGED <<cpu, led, file, original>>
      /\ run' = [Idle EXCEPT !.op = "restore", !.at = "cpu"]
  BY DEF RestoreBegins
<1>2. run' \in Command /\ run'.op = "restore" /\ run'.at = "cpu" /\ run'.n = 1 /\ run'.i = 1
  BY <1>1, Begins
<1>3. TypeOK' BY <1>1, <1>2 DEF PrepareInv, TypeOK
<1>4. Recorded' BY <1>1 DEF PrepareInv, Recorded, AllAlike
<1>5. Acceptable' BY <1>1, <1>2 DEF PrepareInv, Acceptable
<1>6. RestoredSoFar' BY <1>2 DEF RestoredSoFar
<1> QED BY <1>3, <1>4, <1>5, <1>6 DEF PrepareInv

LEMMA KilledKeeps ==
  ASSUME PrepareInv, Killed \/ VerifyFails
  PROVE  PrepareInv'
<1>1. run' = Idle /\ UNCHANGED <<cpu, led, file, original>> BY DEF Killed, VerifyFails
<1>2. file = NoFile \/ file \in Saved BY DEF PrepareInv, TypeOK
<1>3. file.saved /\ file.restored => AsOriginally BY DEF PrepareInv, Recorded
<1> QED BY <1>1, <1>2, <1>3, IdleKeeps

\* What a restore that went through has brought back is what the file recorded.
LEMMA SaveKeeps ==
  ASSUME PrepareInv, Save
  PROVE  PrepareInv'
<1>1. run.at = "verify" /\ run' = Idle /\ UNCHANGED <<cpu, led, original>> BY DEF Save
<1>2. run # Idle BY <1>1 DEF Idle
<1>3. /\ file \in Saved /\ file.saved /\ ~file.restored /\ run.op \in {"apply", "restore"}
      /\ file.cpu = original.cpu /\ AllAlike(file.led, original.led)
  BY <1>2, Running
<1>4. CASE run.op = "apply"
  <2>1. file' = [file EXCEPT !.applied = TRUE] BY <1>4 DEF Save
  <2>2. /\ file' \in Saved /\ file'.saved = file.saved /\ file'.restored = file.restored
        /\ file'.cpu = file.cpu /\ file'.led = file.led
    BY <1>3, <2>1 DEF Saved
  <2> QED BY <1>1, <1>3, <2>2, IdleKeeps
<1>5. CASE run.op = "restore"
  <2>1. file' = [file EXCEPT !.restored = TRUE] BY <1>5 DEF Save
  <2>2. /\ file' \in Saved /\ file'.saved = file.saved
        /\ file'.cpu = file.cpu /\ file'.led = file.led
    BY <1>3, <2>1 DEF Saved
  <2>3. cpu = file.cpu /\ AllAlike(led, file.led)
    BY <1>1, <1>5 DEF PrepareInv, RestoredSoFar
  <2>4. AsOriginally BY <1>3, <2>3 DEF AsOriginally, AllAlike, Alike
  <2> QED BY <1>1, <2>2, <2>4, IdleKeeps
<1> QED BY <1>3, <1>4, <1>5

\* A LED whose trigger drives it is alike in either brightness.
LEMMA BlinkKeeps ==
  ASSUME PrepareInv, Blink
  PROVE  PrepareInv'
<1>1. UNCHANGED <<cpu, file, run, original>> BY DEF Blink
<1>2. PICK i \in 1 .. Leds : led[i].trigger # "none" /\ led' = [led EXCEPT ![i].brightness = 1 - @]
  BY DEF Blink
<1>3. led \in [1 .. Leds -> Led] /\ led[i] \in Led BY Typed
<1> DEFINE new == [led[i] EXCEPT !.brightness = 1 - led[i].brightness]
<1>4. led' = [led EXCEPT ![i] = new] BY <1>2, <1>3
<1>5. new \in Led /\ new.trigger = led[i].trigger
  <2>1. 1 - led[i].brightness \in {0, 1} BY <1>3 DEF Led
  <2> QED BY <1>3, <2>1 DEF Led
<1> HIDE DEF new
<1>6. led' \in [1 .. Leds -> Led] BY <1>3, <1>4, <1>5
<1>7. \A j \in 1 .. Leds : led'[j].trigger = led[j].trigger
                           /\ (led[j].trigger = "none" => led'[j] = led[j])
  BY <1>2, <1>3, <1>4, <1>5
<1>8. TypeOK' BY <1>1, <1>6 DEF PrepareInv, TypeOK
<1>9. Recorded'
  BY <1>1, <1>7 DEF PrepareInv, Recorded, AsOriginally, AllAlike
<1>10. Acceptable' BY <1>1 DEF PrepareInv, Acceptable
<1>11. RestoredSoFar'
  <2>1. run.i \in 1 .. Leds BY Typed DEF Command
  <2>2. \A j \in 1 .. Leds : Alike(led[j], file.led[j]) => Alike(led'[j], file.led[j])
    BY <1>7 DEF Alike
  <2> SUFFICES ASSUME run.op = "restore" PROVE RestoredSoFar'
    BY <1>1 DEF RestoredSoFar
  <2>3. CASE run.at = "cpu" BY <1>1, <2>3 DEF PrepareInv, RestoredSoFar
  <2>4. CASE run.at = "led"
    <3>1. /\ cpu = file.cpu
          /\ \A j \in 1 .. Leds : j < run.i => Alike(led[j], file.led[j])
          /\ run.n > 1 => led[run.i].trigger = "none"
          /\ run.n > 2 => led[run.i].brightness = file.led[run.i].brightness
      BY <2>4 DEF PrepareInv, RestoredSoFar
    <3>2. run.n > 2 => run.n > 1 BY Typed DEF Command
    <3>3. /\ run.n > 1 => led'[run.i].trigger = "none"
          /\ run.n > 2 => led'[run.i].brightness = file.led[run.i].brightness
      BY <1>7, <2>1, <3>1, <3>2
    <3> QED BY <1>1, <2>2, <2>4, <3>1, <3>3 DEF RestoredSoFar
  <2>5. CASE run.at = "verify"
    <3>1. cpu = file.cpu /\ AllAlike(led, file.led) BY <2>5 DEF PrepareInv, RestoredSoFar
    <3> QED BY <1>1, <2>2, <2>5, <3>1 DEF RestoredSoFar, AllAlike
  <2>6. CASE ~(run.at \in {"cpu", "led", "verify"}) BY <1>1, <2>6 DEF RestoredSoFar
  <2> QED BY <2>3, <2>4, <2>5, <2>6
<1> QED BY <1>8, <1>9, <1>10, <1>11 DEF PrepareInv

LEMMA InitHolds == Init => PrepareInv
<1> SUFFICES ASSUME Init PROVE PrepareInv OBVIOUS
<1>1. /\ cpu \in Cpu /\ led \in [1 .. Leds -> Led] /\ file = NoFile /\ run = Idle
      /\ original = [cpu |-> cpu, led |-> led]
  BY DEF Init
<1>2. TypeOK BY <1>1, IdleIsCommand DEF TypeOK
<1>3. ~file.saved BY <1>1 DEF NoFile
<1>4. Recorded BY <1>1, <1>3 DEF Recorded, AsOriginally
<1>5. Acceptable /\ RestoredSoFar BY <1>1, <1>3 DEF Acceptable, RestoredSoFar, Idle
<1> QED BY <1>2, <1>4, <1>5 DEF PrepareInv

LEMMA NextKeeps == PrepareInv /\ [Next]_vars => PrepareInv'
<1> SUFFICES ASSUME PrepareInv, [Next]_vars PROVE PrepareInv' OBVIOUS
<1>1. CASE UNCHANGED vars
  <2>1. UNCHANGED <<cpu, led, file, run, original>> BY <1>1 DEF vars
  <2>2. TypeOK' BY <2>1 DEF PrepareInv, TypeOK
  <2>3. Recorded' BY <2>1 DEF PrepareInv, Recorded, AsOriginally, AllAlike
  <2>4. Acceptable' /\ RestoredSoFar'
    BY <2>1 DEF PrepareInv, Acceptable, RestoredSoFar, AllAlike
  <2> QED BY <2>2, <2>3, <2>4 DEF PrepareInv
<1> QED
  BY <1>1, ApplyBeginsKeeps, RestoreBeginsKeeps, WriteCpuKeeps, WriteLedKeeps, KilledKeeps,
     SaveKeeps, BlinkKeeps
  DEF Next

(***************************************************************************)
(* The inductive invariant of the board preparation: wherever apply or     *)
(* restore is killed, the state file holds the original settings, and each *)
(* write of a restore builds on the ones before it (bench_prepare.py).     *)
(***************************************************************************)
THEOREM PrepareHolds == Spec => []PrepareInv
  BY InitHolds, NextKeeps, PTL DEF Spec

(***************************************************************************)
(* No restore is refused by the kernel, and one that reports success has   *)
(* brought back every setting from before the first apply, for every set   *)
(* of frequencies and number of LEDs (restore).                            *)
(***************************************************************************)
THEOREM RestoreAlwaysRecovers == Spec => []RestoreRecovers
<1>1. PrepareInv => RestoreRecovers
  BY DEF PrepareInv, Recorded, Acceptable, RestoreRecovers
<1> QED BY <1>1, PrepareHolds, PTL
===============================================================================
