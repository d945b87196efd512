--------------------------- MODULE BenchSoak_proofs ---------------------------
(***************************************************************************)
(* Theorems about the soak supervisor, for every plan and every limit the  *)
(* reserve covers: it abandons nothing, reports no phase better than it    *)
(* was, and is done by its deadline.                                       *)
(***************************************************************************)
EXTENDS BenchSoak, TLAPS

-----------------------------------------------------------------------------
(* The inductive invariant.                                                *)

Working == {"loop", "capture", "captured", "analysis", "judge"}
Cleaning == {"stopping", "stopLocal", "stopSender", "stopLoad", "reapSender", "reapLoad",
             "retrieve", "settle", "phaseEnd"}
SoakLabel == {"plan", "begin", "sender", "load", "ended"} \cup Working \cup Cleaning

PhaseRecord ==
  [load : {"none", "ethernet", "remote"}, end : Int, seconds : Int,
   error : {"none", "failed", "cancelled"}, errors : BOOLEAN,
   captured : Nat, checked : Nat, valid : Nat, journal : BOOLEAN,
   tried : SUBSET Work, lost : BOOLEAN,
   outcome : {"none", "pass", "completed_with_violations", "fail"}]

Supervisor ==
  [pc : SoakLabel, done : Nat, keep : BOOLEAN, bad : BOOLEAN,
   status : {"running", "pass", "completed_with_violations", "stopped", "fail"},
   phase : PhaseRecord]

SoakTypeOK ==
  /\ now \in Int /\ cancel \in BOOLEAN /\ disk \in BOOLEAN
  /\ s \in Supervisor
  /\ p \in [Work -> Process]

\* What the local process of w says of the program on the board: only the exit of a
\* program that has ended is zero.
Truthful(w) ==
  /\ p[w].run = "none" => p[w].far = "off"
  /\ p[w].run = "up" => Alive(w)
  /\ p[w].run = "gone" => p[w].far # "off"
  /\ p[w].run = "gone" /\ p[w].code = 0 => p[w].far = "done"

\* What has been started at each label, unless the phase has an error.
Launched ==
  /\ At("plan") \/ At("begin") => \A w \in Work : ~Alive(w) /\ p[w].run # "up"
  /\ At("sender") => \A w \in Work : p[w].run = "none"
  /\ At("load") => p["load"].run = "none"
  /\ s.phase.load = "none" => p["load"].run = "none"
  /\ s.phase.error = "none" /\ s.pc \in {"load"} \cup Working \cup Cleaning => Started("sender")
  /\ s.phase.error = "none" /\ s.pc \in Working \cup Cleaning /\ s.phase.load # "none" =>
       Started("load")

\* Whom the cleanup has asked to stop, and whose process is gone, at each label.
Asked ==
  /\ s.pc \in Cleaning \ {"stopping", "stopLocal"} /\ s.phase.load = "ethernet" /\ Alive("load") =>
       "load" \in s.phase.tried
  /\ s.pc \in Cleaning \ {"stopping", "stopLocal", "stopSender"} /\ Alive("sender") =>
       "sender" \in s.phase.tried
  /\ s.pc \in {"reapSender", "reapLoad", "retrieve", "settle", "phaseEnd"} /\ Alive("load") =>
       "load" \in s.phase.tried \/ s.phase.lost
  /\ s.pc \in {"reapLoad", "retrieve", "settle", "phaseEnd"} => p["sender"].run # "up"
  /\ s.pc \in {"retrieve", "settle", "phaseEnd"} => p["load"].run # "up"
  /\ At("ended") => \A w \in Work :
       p[w].run # "up" /\ (Alive(w) => w \in s.phase.tried \/ (w = "load" /\ s.phase.lost))

\* A cleanup without an error has seen both exits to be zero and confirmed the journal.
Confirmed ==
  /\ s.pc \in {"reapLoad", "retrieve", "settle", "phaseEnd"} /\ ~s.phase.errors =>
       p["sender"].code = 0
  /\ s.pc \in {"retrieve", "settle", "phaseEnd"} /\ ~s.phase.errors => p["load"].code = 0
  /\ s.pc \in {"settle", "phaseEnd"} /\ ~s.phase.errors /\ Started("sender") => s.phase.journal
  /\ At("phaseEnd") /\ s.phase.error = "none" => ~s.phase.errors

\* Every chunk is analysed before the next is captured, or the phase has an error.
Counted ==
  /\ s.phase.error = "none" =>
       s.phase.captured = IF s.pc \in {"analysis", "judge"} THEN s.phase.checked + 1
                          ELSE s.phase.checked
  /\ s.phase.valid <= s.phase.checked
  /\ ~s.bad => s.phase.valid = s.phase.checked

EndedWell ==
  /\ s.phase.error = "none" /\ s.phase.journal
  /\ p["sender"].run # "up" /\ p["sender"].far = "done" /\ p["sender"].code = 0
  /\ s.phase.load # "none" =>
       p["load"].run # "up" /\ p["load"].far = "done" /\ p["load"].code = 0

Judged ==
  /\ s.phase.outcome # "none" => s.pc \in {"plan", "begin", "ended"}
  /\ s.pc \in {"plan", "begin"} => s.phase.outcome # "fail"
  /\ s.phase.outcome \in {"pass", "completed_with_violations"} => EndedWell
  /\ s.phase.outcome = "pass" => s.phase.valid = s.phase.checked
  /\ s.phase.outcome = "completed_with_violations" => s.phase.valid < s.phase.checked
  /\ ~At("ended") => s.status = "running"
  /\ s.status = "pass" => ~s.bad /\ s.phase.outcome \in {"none", "pass"}

\* What the rest of the cleanup may still take, from each of its labels.
TimeLeft ==
  LET load == IF s.phase.load = "ethernet" THEN 0 ELSE Io + 2 * Kill
      stop == Io + 2 * Kill
      reap == Reap + 2 * Kill
      retrieve == Retrieve + 2 * Kill
  IN CASE s.pc \in {"stopping", "stopLocal"} -> Reserve
       [] At("stopSender") -> stop + load + 2 * reap + retrieve
       [] At("stopLoad") -> load + 2 * reap + retrieve
       [] At("reapSender") -> 2 * reap + retrieve
       [] At("reapLoad") -> reap + retrieve
       [] At("retrieve") -> retrieve
       [] OTHER -> 0

InTime ==
  /\ s.pc \in {"begin", "sender", "load", "loop", "judge"} => now + Reserve <= Deadline
  /\ At("capture") => /\ s.phase.seconds > 0
                      /\ now + s.phase.seconds + Overhead + Analysis + Reserve <= Deadline
  /\ s.pc \in {"captured", "analysis"} => now + Analysis + Reserve <= Deadline
  /\ now + TimeLeft <= Deadline + 2 * Kill

SoakInv == /\ SoakTypeOK
           /\ \A w \in Work : Truthful(w)
           /\ Launched /\ Asked /\ Confirmed /\ Counted /\ Judged /\ InTime


USE PlanAssumption, LimitsAssumption, ReserveAssumption

LEMMA Numbers ==
  /\ Phases \in Nat /\ Duration \in Nat /\ Chunk \in Nat /\ Deadline \in Nat
  /\ Overhead \in Nat /\ Analysis \in Nat /\ Io \in Nat /\ Reap \in Nat /\ Retrieve \in Nat
  /\ Kill \in Nat /\ Reserve \in Nat /\ Skew \in Nat
  OBVIOUS

LEMMA MinOfTwo ==
  ASSUME NEW a \in Int, NEW b \in Int
  PROVE  Min({a, b}) \in Int /\ Min({a, b}) <= a /\ Min({a, b}) <= b
<1>1. \E x \in {a, b} : \A y \in {a, b} : x <= y OBVIOUS
<1> QED BY <1>1 DEF Min

LEMMA MinOfThree ==
  ASSUME NEW a \in Int, NEW b \in Int, NEW c \in Int
  PROVE  Min({a, b, c}) \in Int /\ Min({a, b, c}) <= c
<1>1. \E x \in {a, b, c} : \A y \in {a, b, c} : x <= y OBVIOUS
<1> QED BY <1>1 DEF Min

\* However the wall clock is set, no more time remains than the monotonic clock has.
LEMMA RemainingBounded ==
  ASSUME now \in Int, NEW remaining \in Remaining
  PROVE  remaining \in Int /\ remaining <= Deadline - now
<1>1. PICK skew \in -Skew .. Skew : remaining = Min({Deadline - now, Deadline - now - skew})
  BY DEF Remaining
<1>2. skew \in Int BY <1>1, Numbers
<1> QED BY <1>1, <1>2, Numbers, MinOfTwo

\* A worker that succeeds took no more than its limit; one that does not, two kills more.
LEMMA BoundedTakes ==
  ASSUME NEW least \in Int, NEW limit \in Int, least <= limit, 0 <= limit,
         NEW end \in Bounded(least, limit)
  PROVE  /\ end.d \in Int /\ end.d <= limit + 2 * Kill
         /\ end.how \in {"ok", "failed", "cancelled"}
         /\ end.how = "ok" => end.d <= limit
  BY Numbers DEF Bounded

LEMMA StillInTime ==
  ASSUME NEW a \in Int, NEW b \in Int, NEW x \in Int, NEW rest \in Int, NEW end \in Int,
         a <= b + x, b + x + rest <= end
  PROVE  a + rest <= end
  OBVIOUS

LEMMA CleanupTakes ==
  ASSUME NEW limit \in Nat, NEW end \in BoundedCleanup(limit)
  PROVE  end.d \in Int /\ end.d <= limit + 2 * Kill /\ end.how \in {"ok", "failed"}
  BY Numbers DEF BoundedCleanup

-----------------------------------------------------------------------------
(* What a step does to the supervisor's record.                            *)

Phased(label, q) ==
  /\ s'.pc = label /\ s'.phase = q /\ s'.bad = s.bad /\ s'.status = s.status
  /\ s' \in Supervisor

LEMMA PhasedTyped ==
  ASSUME s \in Supervisor, NEW label \in SoakLabel, NEW q \in PhaseRecord,
         s' = [s EXCEPT !.pc = label, !.phase = q]
  PROVE  Phased(label, q)
  BY DEF Supervisor, Phased

LEMMA GoPhased ==
  ASSUME s \in Supervisor, NEW label \in SoakLabel, Go(label)
  PROVE  Phased(label, s.phase)
  BY DEF Supervisor, Phased, Go

LEMMA RaisePhased ==
  ASSUME s \in Supervisor, NEW error \in {"failed", "cancelled"}, Raise(error)
  PROVE  Phased("stopping", [s.phase EXCEPT !.error = error])
<1> DEFINE q == [s.phase EXCEPT !.error = error]
<1>1. q \in PhaseRecord BY DEF Supervisor, PhaseRecord
<1>2. s' = [s EXCEPT !.pc = "stopping", !.phase = q] BY DEF Raise
<1>3. "stopping" \in SoakLabel BY DEF SoakLabel, Cleaning
<1> HIDE DEF q
<1>4. Phased("stopping", q) BY <1>1, <1>2, <1>3, PhasedTyped
<1> QED BY <1>4 DEF q

LEMMA SoakTyped ==
  ASSUME SoakInv
  PROVE  /\ s \in Supervisor /\ s.phase \in PhaseRecord /\ p \in [Work -> Process]
         /\ p["sender"] \in Process /\ p["load"] \in Process
         /\ now \in Int /\ cancel \in BOOLEAN /\ disk \in BOOLEAN
         /\ s.phase.seconds \in Int /\ s.phase.end \in Int
  BY DEF SoakInv, SoakTypeOK, Supervisor, PhaseRecord, Work

LEMMA Labels ==
  {"plan", "begin", "sender", "load", "loop", "capture", "captured", "analysis", "judge",
   "stopping", "stopLocal", "stopSender", "stopLoad", "reapSender", "reapLoad", "retrieve",
   "settle", "phaseEnd", "ended"} = SoakLabel
  BY DEF SoakLabel, Working, Cleaning

-----------------------------------------------------------------------------
(* The steps of a phase.                                                   *)

\* An exception inside the phase, in time for the cleanup.
LEMMA RaiseKeeps ==
  ASSUME SoakInv, NEW error \in {"failed", "cancelled"}, Raise(error),
         s.pc \in {"sender", "load"} \cup Working,
         now' \in Int, cancel' \in BOOLEAN, disk' = disk, p' = p,
         now' + Reserve <= Deadline + 2 * Kill
  PROVE  SoakInv'
<1>1. Phased("stopping", [s.phase EXCEPT !.error = error]) BY SoakTyped, RaisePhased
<1>2. SoakTypeOK' BY <1>1 DEF SoakInv, SoakTypeOK, Phased
<1>3. s'.phase.error = error /\ s'.phase.load = s.phase.load /\ s'.phase.valid = s.phase.valid
      /\ s'.phase.checked = s.phase.checked /\ s'.phase.outcome = s.phase.outcome
  BY <1>1, SoakTyped DEF Phased, PhaseRecord
<1> QED
  BY <1>1, <1>2, <1>3, Numbers
  DEF Phased, SoakInv, Truthful, Launched, Asked, Confirmed, Counted, Judged, EndedWell, InTime,
      TimeLeft, Work, At, Alive, Started, Working, Cleaning

\* The supervisor is done, and nothing of a phase is running.
LEMMA FinishKeeps ==
  ASSUME SoakInv, UNCHANGED <<now, cancel, disk, p>>, s.pc \in {"plan", "begin"},
         NEW status \in {"pass", "completed_with_violations", "stopped", "fail"},
         status = "pass" => ~s.bad, Finish(status)
  PROVE  SoakInv'
<1> USE SoakTyped
    DEF SoakInv, Truthful, Launched, Asked, Confirmed, Counted, Judged, EndedWell,
        TimeLeft, Work, At, Alive, Started, Working, Cleaning
<1>1. s' = [s EXCEPT !.pc = "ended", !.status = status] BY DEF Finish
<1>2. s' \in Supervisor BY <1>1, Labels DEF Supervisor
<1>3. s'.pc = "ended" /\ s'.status = status /\ s'.phase = s.phase /\ s'.bad = s.bad
  BY <1>1 DEF Supervisor
<1>4. SoakTypeOK' BY <1>2 DEF SoakTypeOK
<1>5. /\ s.phase.outcome \in {"none", "pass", "completed_with_violations"}
      /\ s.phase.valid \in Int /\ s.phase.checked \in Int
  BY DEF PhaseRecord
<1>6. (\A w \in Work : Truthful(w)') /\ Launched' /\ Asked' BY <1>3
<1>7. Confirmed' /\ Counted' BY <1>3
<1>8. Judged' BY <1>3, <1>5
<1>9. InTime'
  <2>1. TimeLeft = 0 /\ TimeLeft' = 0 BY <1>3
  <2> QED BY <1>3, <2>1 DEF InTime
<1> QED BY <1>4, <1>6, <1>7, <1>8, <1>9

LEMMA NextPhaseKeeps ==
  ASSUME SoakInv, NextPhase
  PROVE  SoakInv'
<1>0. s.pc = "plan" /\ UNCHANGED <<now, cancel, disk, p>> BY DEF NextPhase, At
<1>1. PICK remaining \in Remaining :
        IF s.done = Phases THEN Finish(Completed)
        ELSE IF cancel THEN Finish("stopped")
        ELSE IF remaining < Reserve + Overhead + Analysis + 1 THEN Finish(Completed)
        ELSE Go("begin")
  BY DEF NextPhase
<1>2. remaining \in Int /\ remaining <= Deadline - now BY SoakTyped, RemainingBounded
<1>3. ASSUME NEW status \in {"stopped", Completed}, Finish(status) PROVE SoakInv'
  <2>1. status \in {"pass", "completed_with_violations", "stopped", "fail"}
        /\ (status = "pass" => ~s.bad)
    BY DEF Completed
  <2> QED BY <1>0, <1>3, <2>1, FinishKeeps
<1>4. CASE Go("begin") /\ remaining >= Reserve + Overhead + Analysis + 1
  <2>1. Phased("begin", s.phase) BY <1>4, SoakTyped, GoPhased, Labels
  <2>2. SoakTypeOK' BY <2>1, <1>0 DEF SoakInv, SoakTypeOK, Phased
  <2>3. now + Reserve <= Deadline BY <1>2, <1>4, Numbers, SoakTyped
  <2> QED
    BY <1>0, <2>1, <2>2, <2>3, Numbers, SoakTyped
    DEF Phased, SoakInv, Truthful, Launched, Asked, Confirmed, Counted, Judged, EndedWell,
        InTime, TimeLeft, Work, At, Alive, Started, Working, Cleaning
<1>5. remaining < Reserve + Overhead + Analysis + 1
      \/ remaining >= Reserve + Overhead + Analysis + 1
  BY <1>2, Numbers
<1> QED BY <1>1, <1>3, <1>4, <1>5

LEMMA BeginKeeps ==
  ASSUME SoakInv, Begin
  PROVE  SoakInv'
<1>0. s.pc = "begin" /\ UNCHANGED <<now, cancel, disk>> BY DEF Begin, At
<1>1. CASE Finish("fail") /\ UNCHANGED p BY <1>0, <1>1, FinishKeeps
<1>2. ASSUME NEW load \in {"none", "ethernet", "remote"}, p' = [w \in Work |-> Absent],
             s' = [s EXCEPT !.pc = "sender",
                            !.phase = [NewPhase EXCEPT !.load = load, !.end = now + Duration]]
      PROVE  SoakInv'
  <2> DEFINE q == [NewPhase EXCEPT !.load = load, !.end = now + Duration]
  <2>1. q \in PhaseRecord
    <3>1. NewPhase \in PhaseRecord BY DEF NewPhase, PhaseRecord
    <3>2. now + Duration \in Int BY Numbers, SoakTyped
    <3> QED BY <3>1, <3>2 DEF PhaseRecord
  <2>2. /\ q.error = "none" /\ q.outcome = "none" /\ q.load = load /\ q.tried = {}
        /\ q.captured = 0 /\ q.checked = 0 /\ q.valid = 0
    BY DEF NewPhase
  <2> HIDE DEF q
  <2>3. Phased("sender", q) BY <1>2, <2>1, SoakTyped, PhasedTyped, Labels DEF q
  <2>4. p' \in [Work -> Process] BY <1>2 DEF Process, Absent
  <2>5. \A w \in Work : p'[w].run = "none" /\ p'[w].far = "off" /\ p'[w].code = 0
    BY <1>2 DEF Absent
  <2>6. SoakTypeOK' BY <1>0, <2>3, <2>4 DEF SoakInv, SoakTypeOK, Phased
  <2> QED
    BY <1>0, <2>2, <2>3, <2>5, <2>6, Numbers, SoakTyped
    DEF Phased, SoakInv, Truthful, Launched, Asked, Confirmed, Counted, Judged, EndedWell,
        InTime, TimeLeft, Work, At, Alive, Started, Working, Cleaning
<1> QED BY <1>0, <1>1, <1>2 DEF Begin

\* Starting a process can fail at any point, which leaves the phase to its cleanup.
LEMMA SpawnKeeps ==
  ASSUME SoakInv, UNCHANGED <<now, cancel, disk>>,
         NEW w \in Work, NEW far \in {"starting", "up"}, NEW reserve, NEW next,
         \/ s.pc = "sender" /\ w = "sender" /\ next = "load"
         \/ s.pc = "load" /\ w = "load" /\ s.phase.load # "none" /\ next = "loop",
         Spawn(w, far, reserve, next)
  PROVE  SoakInv'
<1>1. now + Reserve <= Deadline + 2 * Kill /\ now + Reserve <= Deadline
  BY SoakTyped, Numbers DEF SoakInv, InTime
<1>2. CASE cancel /\ Raise("cancelled") /\ UNCHANGED p
  BY <1>1, <1>2, RaiseKeeps, SoakTyped
<1>3. CASE ~cancel /\ Raise("failed") /\ UNCHANGED p
  BY <1>1, <1>3, RaiseKeeps, SoakTyped
<1>4. CASE p' = [p EXCEPT ![w] = [Absent EXCEPT !.run = "up", !.far = far]] /\ Go(next)
  <2>1. Phased(next, s.phase) BY <1>4, SoakTyped, GoPhased, Labels
  <2>2. p' \in [Work -> Process] BY <1>4, SoakTyped DEF Process, Absent
  <2>3. /\ p'[w].run = "up" /\ p'[w].far = far /\ p'[w].code = 0
        /\ \A v \in Work \ {w} : p'[v] = p[v]
    BY <1>4, SoakTyped DEF Absent
  <2>4. SoakTypeOK' BY <2>1, <2>2 DEF SoakInv, SoakTypeOK, Phased
  <2>5. (\A v \in Work : Truthful(v)') /\ Launched' /\ Asked'
    BY <2>1, <2>3, SoakTyped
    DEF Phased, SoakInv, Truthful, Launched, Asked, Work, At, Alive, Started, Working, Cleaning
  <2>6. Confirmed' /\ Counted' /\ Judged'
    BY <2>1, SoakTyped
    DEF Phased, SoakInv, Confirmed, Counted, Judged, At, Working, Cleaning
  <2>7. InTime'
    BY <1>1, <2>1, SoakTyped, Numbers DEF Phased, SoakInv, InTime, TimeLeft, At
  <2> QED BY <2>4, <2>5, <2>6, <2>7 DEF SoakInv
<1> QED BY <1>2, <1>3, <1>4 DEF Spawn

LEMMA SpawnSenderKeeps ==
  ASSUME SoakInv, SpawnSender
  PROVE  SoakInv'
  BY SpawnKeeps DEF SpawnSender, At, Work

LEMMA SpawnLoadKeeps ==
  ASSUME SoakInv, SpawnLoad
  PROVE  SoakInv'
<1>0. s.pc = "load" /\ UNCHANGED <<now, cancel, disk>> BY DEF SpawnLoad, At
<1>1. CASE s.phase.load = "none" /\ Go("loop") /\ UNCHANGED p
  <2>1. Phased("loop", s.phase) BY <1>1, SoakTyped, GoPhased, Labels
  <2>2. SoakTypeOK' BY <1>0, <1>1, <2>1 DEF SoakInv, SoakTypeOK, Phased
  <2> QED
    BY <1>0, <1>1, <2>1, <2>2, Numbers, SoakTyped
    DEF Phased, SoakInv, Truthful, Launched, Asked, Confirmed, Counted, Judged, EndedWell,
        InTime, TimeLeft, Work, At, Alive, Started, Working, Cleaning
<1>2. CASE s.phase.load = "ethernet" /\ Spawn("load", "up", 0, "loop")
  BY <1>0, <1>2, SpawnKeeps DEF Work
<1>3. CASE s.phase.load = "remote" /\ Spawn("load", "starting", 0, "loop")
  BY <1>0, <1>3, SpawnKeeps DEF Work
<1> QED BY <1>1, <1>2, <1>3 DEF SpawnLoad

LEMMA LoopKeeps ==
  ASSUME SoakInv, Loop
  PROVE  SoakInv'
<1>0. s.pc = "loop" /\ UNCHANGED <<now, cancel, disk, p>> BY DEF Loop, At
<1>1. PICK remaining \in Remaining :
        LET seconds == Min({Chunk, s.phase.end - now, available(remaining)}) IN
        IF now >= s.phase.end THEN Go("stopping")
        ELSE IF cancel THEN Raise("cancelled")
        ELSE IF seconds < 1 THEN Go("stopping")
        ELSE IF ~disk \/ \E w \in Work : p[w].run = "gone" THEN Raise("failed")
        ELSE s' = [s EXCEPT !.pc = "capture", !.phase.seconds = seconds]
  BY DEF Loop
<1> DEFINE seconds == Min({Chunk, s.phase.end - now, available(remaining)})
<1>2. remaining \in Int /\ remaining <= Deadline - now BY SoakTyped, RemainingBounded
<1>3. seconds \in Int /\ seconds <= remaining - Reserve - Overhead - Analysis
  <2>1. Chunk \in Int /\ s.phase.end - now \in Int BY SoakTyped, Numbers
  <2>2. /\ available(remaining) \in Int
        /\ available(remaining) = remaining - Reserve - Overhead - Analysis
    BY <1>2, Numbers DEF available
  <2>3. seconds \in Int /\ seconds <= available(remaining) BY <2>1, <2>2, MinOfThree
  <2> QED BY <2>2, <2>3
<1> HIDE DEF seconds
<1>4. CASE Go("stopping")
  <2>1. Phased("stopping", s.phase) BY <1>4, SoakTyped, GoPhased, Labels
  <2>2. SoakTypeOK' BY <1>0, <2>1 DEF SoakInv, SoakTypeOK, Phased
  <2> QED
    BY <1>0, <2>1, <2>2, Numbers, SoakTyped
    DEF Phased, SoakInv, Truthful, Launched, Asked, Confirmed, Counted, Judged, EndedWell,
        InTime, TimeLeft, Work, At, Alive, Started, Working, Cleaning
<1>5. ASSUME NEW error \in {"failed", "cancelled"}, Raise(error) PROVE SoakInv'
  <2>1. now + Reserve <= Deadline + 2 * Kill
    BY <1>0, SoakTyped, Numbers DEF SoakInv, InTime
  <2>2. now' \in Int /\ cancel' \in BOOLEAN /\ s.pc \in Working
    BY <1>0, SoakTyped DEF Working
  <2> QED BY <1>0, <1>5, <2>1, <2>2, RaiseKeeps
<1>6. CASE seconds >= 1 /\ s' = [s EXCEPT !.pc = "capture", !.phase.seconds = seconds]
  <2> DEFINE q == [s.phase EXCEPT !.seconds = seconds]
  <2>1. q \in PhaseRecord BY <1>3, SoakTyped DEF PhaseRecord
  <2>2. /\ q.load = s.phase.load /\ q.error = s.phase.error /\ q.seconds = seconds
        /\ q.captured = s.phase.captured /\ q.checked = s.phase.checked
        /\ q.valid = s.phase.valid /\ q.outcome = s.phase.outcome
    BY SoakTyped DEF PhaseRecord
  <2>3. s' = [s EXCEPT !.pc = "capture", !.phase = q] BY <1>6
  <2> HIDE DEF q
  <2>4. Phased("capture", q) BY <2>1, <2>3, SoakTyped, PhasedTyped, Labels
  <2>5. SoakTypeOK' BY <1>0, <2>4 DEF SoakInv, SoakTypeOK, Phased
  <2>6. now + seconds + Overhead + Analysis + Reserve <= Deadline
    BY <1>2, <1>3, SoakTyped, Numbers
  <2> QED
    BY <1>0, <1>3, <1>6, <2>2, <2>4, <2>5, <2>6, Numbers, SoakTyped
    DEF Phased, SoakInv, Truthful, Launched, Asked, Confirmed, Counted, Judged, EndedWell,
        InTime, TimeLeft, Work, At, Alive, Started, Working, Cleaning
<1>7. seconds < 1 \/ seconds >= 1 BY <1>3
<1> QED BY <1>1, <1>4, <1>5, <1>6, <1>7 DEF seconds

\* A worker of the phase goes on to the next label, or raises with the cleanup's time left.
LEMMA WorkerKeeps ==
  ASSUME SoakInv, NEW least \in Int, NEW limit \in Int, least <= limit, 0 <= limit,
         NEW label, NEW next, Worker(label, least, limit, next),
         now + limit + Reserve <= Deadline,
         \/ label = "capture" /\ next = "captured" /\ now + limit + Analysis + Reserve <= Deadline
         \/ label = "analysis" /\ next = "judge"
  PROVE  SoakInv'
<1>0. s.pc = label /\ UNCHANGED <<disk, p>> BY DEF Worker, At
<1>1. PICK end \in Bounded(least, limit) :
        /\ now' = now + end.d
        /\ cancel' = (cancel \/ end.how = "cancelled")
        /\ IF end.how = "ok" THEN Go(next) ELSE Raise(end.how)
  BY DEF Worker
<1>2. /\ end.d \in Int /\ end.d <= limit + 2 * Kill
      /\ end.how \in {"ok", "failed", "cancelled"}
      /\ end.how = "ok" => end.d <= limit
  BY BoundedTakes
<1>3. now' \in Int /\ cancel' \in BOOLEAN BY <1>1, <1>2, SoakTyped
<1>4. CASE end.how = "ok"
  <2>1. Phased(next, s.phase) BY <1>1, <1>4, SoakTyped, GoPhased, Labels
  <2>2. SoakTypeOK' BY <1>0, <1>3, <2>1 DEF SoakInv, SoakTypeOK, Phased
  <2>3. now' <= now + limit BY <1>1, <1>2, <1>4, SoakTyped
  <2>4. (\A w \in Work : Truthful(w)') /\ Launched' /\ Asked' /\ Confirmed'
        /\ Counted' /\ Judged'
    BY <1>0, <2>1, SoakTyped
    DEF Phased, SoakInv, Truthful, Launched, Asked, Confirmed, Counted, Judged, EndedWell,
        Work, At, Alive, Started, Working, Cleaning
  <2>5. InTime'
    BY <1>3, <2>1, <2>3, SoakTyped, Numbers DEF Phased, InTime, TimeLeft, At
  <2> QED BY <2>2, <2>4, <2>5 DEF SoakInv
<1>5. CASE end.how \in {"failed", "cancelled"}
  <2>1. now' + Reserve <= Deadline + 2 * Kill BY <1>1, <1>2, SoakTyped, Numbers
  <2>2. s.pc \in Working BY <1>0 DEF Working
  <2>3. Raise(end.how) BY <1>1, <1>5
  <2> QED BY <1>0, <1>3, <1>5, <2>1, <2>2, <2>3, RaiseKeeps
<1> QED BY <1>2, <1>4, <1>5

LEMMA CaptureKeeps ==
  ASSUME SoakInv, Capture
  PROVE  SoakInv'
<1>1. /\ s.phase.seconds \in Int /\ s.phase.seconds + Overhead \in Int
      /\ s.phase.seconds <= s.phase.seconds + Overhead /\ 0 <= s.phase.seconds + Overhead
      /\ now + (s.phase.seconds + Overhead) + Reserve <= Deadline
      /\ now + (s.phase.seconds + Overhead) + Analysis + Reserve <= Deadline
  BY SoakTyped, Numbers DEF Capture, Worker, At, SoakInv, InTime
<1> QED BY <1>1, WorkerKeeps DEF Capture

LEMMA AnalyseKeeps ==
  ASSUME SoakInv, Analyse
  PROVE  SoakInv'
<1>1. /\ 0 \in Int /\ Analysis \in Int /\ 0 <= Analysis
      /\ now + Analysis + Reserve <= Deadline
  BY SoakTyped, Numbers DEF Analyse, Worker, At, SoakInv, InTime
<1> QED BY <1>1, WorkerKeeps DEF Analyse

LEMMA CapturedKeeps ==
  ASSUME SoakInv, Captured
  PROVE  SoakInv'
<1>0. s.pc = "captured" /\ UNCHANGED <<now, cancel, disk, p>> BY DEF Captured, At
<1>1. now + Reserve <= Deadline + 2 * Kill
  BY <1>0, SoakTyped, Numbers DEF SoakInv, InTime
<1>2. CASE Raise("failed")
  <2>1. s.pc \in Working /\ now' \in Int /\ cancel' \in BOOLEAN
    BY <1>0, SoakTyped DEF Working
  <2> QED BY <1>0, <1>1, <1>2, <2>1, RaiseKeeps
<1>3. ASSUME NEW lost \in BOOLEAN,
             s' = [s EXCEPT !.phase.captured = @ + 1,
                            !.pc = IF lost THEN "stopping" ELSE "analysis",
                            !.phase.error = IF lost THEN "failed" ELSE @]
      PROVE  SoakInv'
  <2> DEFINE label == IF lost THEN "stopping" ELSE "analysis"
             error == IF lost THEN "failed" ELSE s.phase.error
             q == [s.phase EXCEPT !.captured = @ + 1, !.error = error]
  <2>0. error \in {"none", "failed", "cancelled"} /\ s.phase.captured + 1 \in Nat
    BY SoakTyped DEF PhaseRecord
  <2>1. q \in PhaseRecord
    <3> HIDE DEF error
    <3> QED BY <2>0, SoakTyped DEF PhaseRecord
  <2>2. /\ q.load = s.phase.load /\ q.error = error /\ q.seconds = s.phase.seconds
        /\ q.captured = s.phase.captured + 1 /\ q.checked = s.phase.checked
        /\ q.valid = s.phase.valid /\ q.outcome = s.phase.outcome
        /\ q.errors = s.phase.errors /\ q.journal = s.phase.journal
    BY SoakTyped DEF PhaseRecord
  <2>3. s' = [s EXCEPT !.pc = label, !.phase = q] BY <1>3, SoakTyped DEF Supervisor, PhaseRecord
  <2>4. label \in SoakLabel BY Labels
  <2>5. (label = "stopping" /\ error = "failed") \/ (label = "analysis" /\ error = s.phase.error)
    OBVIOUS
  <2> HIDE DEF q, label, error
  <2>6. Phased(label, q) BY <2>1, <2>3, <2>4, SoakTyped, PhasedTyped
  <2>7. SoakTypeOK' BY <1>0, <2>6 DEF SoakInv, SoakTypeOK, Phased
  <2> QED
    BY <1>0, <1>1, <2>2, <2>5, <2>6, <2>7, Numbers, SoakTyped
    DEF Phased, SoakInv, Truthful, Launched, Asked, Confirmed, Counted, Judged, EndedWell,
        InTime, TimeLeft, Work, At, Alive, Started, Working, Cleaning
<1>4. (now < s.phase.end /\ \E w \in Work : p[w].run = "gone") \in BOOLEAN BY Zenon
<1> QED BY <1>2, <1>3, <1>4 DEF Captured

LEMMA JudgeKeeps ==
  ASSUME SoakInv, Judge
  PROVE  SoakInv'
<1>0. s.pc = "judge" /\ UNCHANGED <<now, cancel, disk, p>> BY DEF Judge, At
<1>1. now + Reserve <= Deadline + 2 * Kill
  BY <1>0, SoakTyped, Numbers DEF SoakInv, InTime
<1>2. CASE Raise("failed")
  <2>1. s.pc \in Working /\ now' \in Int /\ cancel' \in BOOLEAN
    BY <1>0, SoakTyped DEF Working
  <2> QED BY <1>0, <1>1, <1>2, <2>1, RaiseKeeps
<1>3. ASSUME NEW clean \in BOOLEAN, NEW failed \in BOOLEAN,
             s' = [s EXCEPT !.pc = IF failed THEN "stopping" ELSE "loop",
                            !.bad = @ \/ ~clean,
                            !.phase.checked = @ + 1,
                            !.phase.valid = IF clean THEN @ + 1 ELSE @,
                            !.phase.error = IF failed THEN "failed" ELSE @]
      PROVE  SoakInv'
  <2> DEFINE label == IF failed THEN "stopping" ELSE "loop"
             error == IF failed THEN "failed" ELSE s.phase.error
             valid == IF clean THEN s.phase.valid + 1 ELSE s.phase.valid
             bad == s.bad \/ ~clean
             q == [s.phase EXCEPT !.checked = @ + 1, !.valid = valid, !.error = error]
  <2>0. /\ valid \in Nat /\ s.phase.checked \in Nat /\ s.phase.checked + 1 \in Nat
        /\ error \in {"none", "failed", "cancelled"}
    BY SoakTyped DEF PhaseRecord
  <2>1. q \in PhaseRecord
    <3> HIDE DEF error, valid
    <3> QED BY <2>0, SoakTyped DEF PhaseRecord
  <2>2. /\ q.load = s.phase.load /\ q.error = error /\ q.seconds = s.phase.seconds
        /\ q.captured = s.phase.captured /\ q.checked = s.phase.checked + 1
        /\ q.valid = valid /\ q.outcome = s.phase.outcome
        /\ q.errors = s.phase.errors /\ q.journal = s.phase.journal
    BY SoakTyped DEF PhaseRecord
  <2>3. s' = [s EXCEPT !.pc = label, !.bad = bad, !.phase = q]
    BY <1>3, SoakTyped DEF Supervisor, PhaseRecord
  <2>4. label \in SoakLabel /\ bad \in BOOLEAN BY Labels, SoakTyped DEF Supervisor
  <2>5. (label = "stopping" /\ error = "failed") \/ (label = "loop" /\ error = s.phase.error)
    OBVIOUS
  <2>6. /\ s.phase.valid <= s.phase.checked => valid <= s.phase.checked + 1
        /\ ~bad => ~s.bad /\ valid = s.phase.valid + 1
    BY SoakTyped DEF PhaseRecord
  <2> HIDE DEF q, label, error, valid, bad
  <2>7. s'.pc = label /\ s'.phase = q /\ s'.bad = bad /\ s'.status = s.status
        /\ s' \in Supervisor
    BY <2>1, <2>3, <2>4, SoakTyped DEF Supervisor
  <2>8. SoakTypeOK' BY <1>0, <2>7 DEF SoakInv, SoakTypeOK
  <2>9. (\A w \in Work : Truthful(w)') /\ Launched' /\ Asked' /\ Confirmed'
    BY <1>0, <2>2, <2>5, <2>7
    DEF SoakInv, Truthful, Launched, Asked, Confirmed, Work, At, Alive, Started, Working,
        Cleaning
  <2>10. Counted'
    BY <1>0, <2>0, <2>2, <2>5, <2>6, <2>7, SoakTyped DEF SoakInv, Counted, PhaseRecord
  <2>11. Judged' BY <1>0, <2>2, <2>5, <2>7 DEF SoakInv, Judged, At
  <2>12. InTime'
    BY <1>0, <1>1, <2>5, <2>7, Numbers, SoakTyped DEF SoakInv, InTime, TimeLeft, At
  <2> QED BY <2>8, <2>9, <2>10, <2>11, <2>12 DEF SoakInv
<1>4. \A clean \in BOOLEAN : (~disk \/ (~clean /\ ~s.keep)) \in BOOLEAN OBVIOUS
<1> QED BY <1>2, <1>3, <1>4 DEF Judge

-----------------------------------------------------------------------------
(* The steps of the cleanup.                                               *)

LEMMA CleaningFacts ==
  ASSUME SoakInv, s.pc \in Cleaning
  PROVE  /\ s.phase.outcome = "none" /\ s.status = "running"
         /\ s.phase.load \in {"none", "ethernet", "remote"}
         /\ s.phase.error \in {"none", "failed", "cancelled"}
         /\ s.phase.errors \in BOOLEAN /\ s.phase.journal \in BOOLEAN
         /\ s.phase.lost \in BOOLEAN
         /\ now + TimeLeft <= Deadline + 2 * Kill
  BY SoakTyped DEF SoakInv, Judged, InTime, PhaseRecord, At, Cleaning

\* A step that goes on with the cleanup and touches neither the clock's margin nor what the
\* processes say: the parts that concern the cleanup itself remain to be shown.
LEMMA CleanupTyped ==
  ASSUME SoakInv, s.pc \in Cleaning, UNCHANGED <<cancel, disk>>,
         NEW label \in Cleaning, NEW q \in PhaseRecord, now' \in Int, p' \in [Work -> Process],
         s' = [s EXCEPT !.pc = label, !.phase = q]
  PROVE  Phased(label, q) /\ SoakTypeOK'
<1>1. label \in SoakLabel BY DEF SoakLabel
<1>2. Phased(label, q) BY <1>1, SoakTyped, PhasedTyped
<1> QED BY <1>2, SoakTyped DEF Phased, SoakTypeOK

LEMMA StoppingKeeps ==
  ASSUME SoakInv, Stopping
  PROVE  SoakInv'
<1>0. s.pc = "stopping" /\ UNCHANGED <<now, cancel, disk, p>> BY DEF Stopping, At
<1> DEFINE error == IF s.phase.error = "none" /\ ~disk THEN "failed" ELSE s.phase.error
           q == [s.phase EXCEPT !.error = error]
<1>1. error \in {"none", "failed", "cancelled"} /\ (error = "none" => s.phase.error = "none")
  BY SoakTyped DEF PhaseRecord
<1>2. s' = [s EXCEPT !.pc = "stopLocal", !.phase = q]
  BY SoakTyped DEF Stopping, Supervisor, PhaseRecord
<1> HIDE DEF error
<1>3. q \in PhaseRecord BY <1>1, SoakTyped DEF PhaseRecord
<1>4. /\ q.load = s.phase.load /\ q.error = error /\ q.captured = s.phase.captured
      /\ q.checked = s.phase.checked /\ q.valid = s.phase.valid /\ q.outcome = s.phase.outcome
  BY SoakTyped DEF PhaseRecord
<1> HIDE DEF q
<1>5. Phased("stopLocal", q) /\ SoakTypeOK'
  BY <1>0, <1>2, <1>3, SoakTyped, CleanupTyped DEF Cleaning
<1>6. (\A w \in Work : Truthful(w)') /\ Launched' /\ Asked' /\ Confirmed' /\ Counted'
      /\ Judged' /\ InTime'
  BY <1>0, <1>1, <1>4, <1>5
  DEF Phased, SoakInv, Truthful, Launched, Asked, Confirmed, Counted, Judged, EndedWell,
      InTime, TimeLeft, Work, At, Alive, Started, Working, Cleaning
<1> QED BY <1>5, <1>6 DEF SoakInv

LEMMA StopLocalKeeps ==
  ASSUME SoakInv, StopLocal
  PROVE  SoakInv'
<1>0. s.pc = "stopLocal" /\ s.pc \in Cleaning /\ UNCHANGED <<cancel, disk>>
  BY DEF StopLocal, At, Cleaning
<1>1. now + Reserve <= Deadline + 2 * Kill
  BY <1>0, CleaningFacts, SoakTyped, Numbers DEF TimeLeft, At
<1>2. CASE /\ s.phase.load = "ethernet" /\ Started("load")
           /\ s' = [s EXCEPT !.pc = "stopSender", !.phase.tried = @ \cup {"load"},
                             !.phase.errors = @ \/ ~disk]
           /\ IF disk THEN UNCHANGED <<now, p>>
              ELSE /\ p' = [p EXCEPT !["load"] = [run |-> "gone", far |-> "done",
                                  code |-> IF @.run = "up" THEN 1 ELSE @.code]]
                   /\ now' = now + 2 * Kill
  <2> DEFINE tried == s.phase.tried \cup {"load"}
             errors == s.phase.errors \/ ~disk
             q == [s.phase EXCEPT !.tried = tried, !.errors = errors]
  <2>1. tried \in SUBSET Work /\ errors \in BOOLEAN
    BY SoakTyped DEF PhaseRecord, Work
  <2>2. q \in PhaseRecord
    <3> HIDE DEF tried, errors
    <3> QED BY <2>1, SoakTyped DEF PhaseRecord
  <2>3. /\ q.load = "ethernet" /\ q.error = s.phase.error /\ q.captured = s.phase.captured
        /\ q.checked = s.phase.checked /\ q.valid = s.phase.valid
        /\ q.outcome = s.phase.outcome /\ q.tried = tried
    BY <1>2, SoakTyped DEF PhaseRecord
  <2>4. s' = [s EXCEPT !.pc = "stopSender", !.phase = q]
    BY <1>2, SoakTyped DEF Supervisor, PhaseRecord
  <2>5. "load" \in tried OBVIOUS
  <2> HIDE DEF q, tried, errors
  <2>6. now' \in Int /\ now' <= now + 2 * Kill /\ p' \in [Work -> Process]
        /\ p'["sender"] = p["sender"]
        /\ \/ p'["load"] = p["load"]
           \/ p'["load"].run = "gone" /\ p'["load"].far = "done"
    <3>1. CASE UNCHANGED <<now, p>> BY <3>1, SoakTyped, Numbers
    <3>2. CASE /\ now' = now + 2 * Kill
               /\ p' = [p EXCEPT !["load"] = [run |-> "gone", far |-> "done",
                                   code |-> IF @.run = "up" THEN 1 ELSE @.code]]
      <4>1. (IF p["load"].run = "up" THEN 1 ELSE p["load"].code) \in {0, 1}
        BY SoakTyped DEF Process
      <4>2. [run |-> "gone", far |-> "done",
             code |-> IF p["load"].run = "up" THEN 1 ELSE p["load"].code] \in Process
        BY <4>1 DEF Process
      <4>4. /\ p' \in [Work -> Process] /\ p'["sender"] = p["sender"]
            /\ p'["load"].run = "gone" /\ p'["load"].far = "done"
        BY <3>2, <4>2, SoakTyped DEF Work
      <4>5. now' \in Int /\ now' <= now + 2 * Kill BY <3>2, SoakTyped, Numbers
      <4> QED BY <4>4, <4>5
    <3> QED BY <1>2, <3>1, <3>2
  <2>7. Phased("stopSender", q) /\ SoakTypeOK'
    BY <1>0, <2>2, <2>4, <2>6, CleanupTyped DEF Cleaning
  <2>8. (\A w \in Work : Truthful(w)') /\ Launched' /\ Asked'
    BY <1>0, <1>2, <2>3, <2>5, <2>6, <2>7
    DEF Phased, SoakInv, Truthful, Launched, Asked, Work, At, Alive, Started, Working, Cleaning
  <2>9. Confirmed' /\ Counted' /\ Judged'
    BY <1>0, <2>3, <2>7 DEF Phased, SoakInv, Confirmed, Counted, Judged, At
  <2>10. InTime'
    <3>1. TimeLeft' \in Int /\ TimeLeft' <= Io + 2 * Reap + Retrieve + 8 * Kill
      BY <2>3, <2>7, Numbers DEF Phased, TimeLeft, At
    <3>2. now' + TimeLeft' <= Deadline + 2 * Kill
      <4>1. now' \in Int /\ now' <= now + 2 * Kill BY <2>6
      <4>2. now' + TimeLeft' <= (now + 2 * Kill) + (Io + 2 * Reap + Retrieve + 8 * Kill)
        BY <3>1, <4>1, SoakTyped, Numbers
      <4>3. (now + 2 * Kill) + (Io + 2 * Reap + Retrieve + 8 * Kill) <= now + Reserve
        BY SoakTyped, Numbers
      <4>4. now' + TimeLeft' \in Int BY <3>1, <4>1
      <4> QED BY <1>1, <4>2, <4>3, <4>4, SoakTyped, Numbers
    <3> QED BY <2>7, <3>2 DEF Phased, InTime, At
  <2> QED BY <2>7, <2>8, <2>9, <2>10 DEF SoakInv
<1>3. CASE /\ ~(s.phase.load = "ethernet" /\ Started("load"))
           /\ Go("stopSender") /\ UNCHANGED <<now, p>>
  <2>1. Phased("stopSender", s.phase) BY <1>3, SoakTyped, GoPhased, Labels
  <2>2. SoakTypeOK' BY <1>0, <1>3, <2>1 DEF SoakInv, SoakTypeOK, Phased
  <2>3. s.phase.load = "ethernet" => ~Alive("load")
    BY <1>3, SoakTyped DEF SoakInv, Truthful, Started, Alive, Work
  <2>4. (\A w \in Work : Truthful(w)') /\ Launched' /\ Asked' /\ Confirmed' /\ Counted'
        /\ Judged'
    BY <1>0, <1>3, <2>1, <2>3
    DEF Phased, SoakInv, Truthful, Launched, Asked, Confirmed, Counted, Judged, Work, At,
        Alive, Started, Working, Cleaning
  <2>5. InTime'
    <3>1. TimeLeft' \in Int /\ TimeLeft' <= 2 * Io + 2 * Reap + Retrieve + 10 * Kill
      BY <2>1, Numbers DEF Phased, TimeLeft, At
    <3>2. now' + TimeLeft' <= Deadline + 2 * Kill
      BY <1>1, <1>3, <3>1, SoakTyped, Numbers
    <3> QED BY <2>1, <3>2 DEF Phased, InTime, At
  <2> QED BY <2>2, <2>4, <2>5 DEF SoakInv
<1> QED BY <1>2, <1>3 DEF StopLocal

\* An ssh of the cleanup: it either does what it is for or uses up its limit.
LEMMA StopSenderKeeps ==
  ASSUME SoakInv, StopSender
  PROVE  SoakInv'
<1>0. s.pc = "stopSender" /\ s.pc \in Cleaning /\ UNCHANGED <<cancel, disk, p>>
  BY DEF StopSender, At, Cleaning
<1> DEFINE load == IF s.phase.load = "ethernet" THEN 0 ELSE Io + 2 * Kill
           rest == load + 2 * (Reap + 2 * Kill) + Retrieve + 2 * Kill
<1>1. load \in Nat /\ rest \in Nat BY Numbers
<1>2. now + (Io + 2 * Kill) + rest <= Deadline + 2 * Kill
  <2>1. TimeLeft = Io + 2 * Kill + load + 2 * (Reap + 2 * Kill) + (Retrieve + 2 * Kill)
    BY <1>0 DEF TimeLeft, At
  <2> QED BY <1>0, <1>1, <2>1, CleaningFacts, SoakTyped, Numbers
<1> HIDE DEF load
<1>3. ASSUME NEW end \in BoundedCleanup(Io), Started("sender"), now' = now + end.d,
             s' = [s EXCEPT !.pc = "stopLoad", !.phase.tried = @ \cup {"sender"},
                            !.phase.errors = @ \/ end.how = "failed"]
      PROVE  SoakInv'
  <2> DEFINE tried == s.phase.tried \cup {"sender"}
             errors == s.phase.errors \/ end.how = "failed"
             q == [s.phase EXCEPT !.tried = tried, !.errors = errors]
  <2>1. tried \in SUBSET Work /\ errors \in BOOLEAN BY SoakTyped DEF PhaseRecord, Work
  <2>2. q \in PhaseRecord
    <3> HIDE DEF tried, errors
    <3> QED BY <2>1, SoakTyped DEF PhaseRecord
  <2>3. /\ q.load = s.phase.load /\ q.error = s.phase.error /\ q.captured = s.phase.captured
        /\ q.checked = s.phase.checked /\ q.valid = s.phase.valid
        /\ q.outcome = s.phase.outcome /\ q.tried = tried /\ q.lost = s.phase.lost
    BY <1>3, SoakTyped DEF PhaseRecord
  <2>4. s' = [s EXCEPT !.pc = "stopLoad", !.phase = q]
    BY <1>3, SoakTyped DEF Supervisor, PhaseRecord
  <2>5. "sender" \in tried /\ s.phase.tried \subseteq tried OBVIOUS
  <2>6. now' \in Int /\ now' <= now + (Io + 2 * Kill)
    BY <1>3, CleanupTakes, SoakTyped, Numbers
  <2> HIDE DEF q, tried, errors
  <2>7. Phased("stopLoad", q) /\ SoakTypeOK'
    BY <1>0, <2>2, <2>4, <2>6, SoakTyped, CleanupTyped DEF Cleaning
  <2>8. (\A w \in Work : Truthful(w)') /\ Launched' /\ Asked' /\ Confirmed' /\ Counted'
        /\ Judged'
    BY <1>0, <2>3, <2>5, <2>7
    DEF Phased, SoakInv, Truthful, Launched, Asked, Confirmed, Counted, Judged, Work, At,
        Alive, Started, Working, Cleaning
  <2>9. InTime'
    <3>1. TimeLeft' = rest BY <2>3, <2>7 DEF Phased, TimeLeft, At, load
    <3> HIDE DEF rest
    <3>2. Io + 2 * Kill \in Int /\ Deadline + 2 * Kill \in Int BY Numbers
    <3>3. now' + rest <= Deadline + 2 * Kill
      BY <1>1, <1>2, <2>6, <3>2, SoakTyped, StillInTime
    <3> QED BY <2>7, <3>1, <3>3 DEF Phased, InTime, At
  <2> QED BY <2>7, <2>8, <2>9 DEF SoakInv
<1>4. CASE ~Started("sender") /\ Go("stopLoad") /\ UNCHANGED now
  <2>1. Phased("stopLoad", s.phase) BY <1>4, SoakTyped, GoPhased, Labels
  <2>2. SoakTypeOK' BY <1>0, <1>4, <2>1 DEF SoakInv, SoakTypeOK, Phased
  <2>3. ~Alive("sender") BY <1>4 DEF SoakInv, Truthful, Started, Alive, Work
  <2>4. (\A w \in Work : Truthful(w)') /\ Launched' /\ Asked' /\ Confirmed' /\ Counted'
        /\ Judged'
    BY <1>0, <1>4, <2>1, <2>3
    DEF Phased, SoakInv, Truthful, Launched, Asked, Confirmed, Counted, Judged, Work, At,
        Alive, Started, Working, Cleaning
  <2>5. InTime'
    <3>1. TimeLeft' = rest BY <2>1 DEF Phased, TimeLeft, At, load
    <3> HIDE DEF rest
    <3>2. now' + TimeLeft' <= Deadline + 2 * Kill
      BY <1>1, <1>2, <1>4, <3>1, SoakTyped, Numbers
    <3> QED BY <2>1, <3>2 DEF Phased, InTime, At
  <2> QED BY <2>2, <2>4, <2>5 DEF SoakInv
<1> QED BY <1>3, <1>4 DEF StopSender

LEMMA StopLoadKeeps ==
  ASSUME SoakInv, StopLoad
  PROVE  SoakInv'
<1>0. s.pc = "stopLoad" /\ s.pc \in Cleaning /\ UNCHANGED <<cancel, disk, p>>
  BY DEF StopLoad, At, Cleaning
<1> DEFINE rest == 2 * (Reap + 2 * Kill) + Retrieve + 2 * Kill
<1>1. rest \in Nat BY Numbers
<1>2. /\ now + rest <= Deadline + 2 * Kill
      /\ s.phase.load = "remote" => now + (Io + 2 * Kill) + rest <= Deadline + 2 * Kill
  <2>1. TimeLeft = (IF s.phase.load = "ethernet" THEN 0 ELSE Io + 2 * Kill)
                   + 2 * (Reap + 2 * Kill) + (Retrieve + 2 * Kill)
    BY <1>0 DEF TimeLeft, At
  <2> QED BY <1>0, <1>1, <2>1, CleaningFacts, SoakTyped, Numbers
<1>3. ASSUME NEW tried \in SUBSET Work, NEW errors \in BOOLEAN, NEW lost \in BOOLEAN,
             s' = [s EXCEPT !.pc = "reapSender",
                            !.phase = [@ EXCEPT !.tried = tried, !.errors = errors, !.lost = lost]],
             s.phase.tried \subseteq tried, Alive("load") => "load" \in tried \/ lost,
             now' \in Int, now' + rest <= Deadline + 2 * Kill
      PROVE  SoakInv'
  <2> DEFINE q == [s.phase EXCEPT !.tried = tried, !.errors = errors, !.lost = lost]
  <2>1. q \in PhaseRecord BY SoakTyped DEF PhaseRecord
  <2>2. /\ q.load = s.phase.load /\ q.error = s.phase.error /\ q.captured = s.phase.captured
        /\ q.checked = s.phase.checked /\ q.valid = s.phase.valid
        /\ q.outcome = s.phase.outcome /\ q.tried = tried /\ q.lost = lost
    BY SoakTyped DEF PhaseRecord
  <2>3. s' = [s EXCEPT !.pc = "reapSender", !.phase = q] BY <1>3
  <2> HIDE DEF q
  <2>4. Phased("reapSender", q) /\ SoakTypeOK'
    BY <1>0, <1>3, <2>1, <2>3, SoakTyped, CleanupTyped DEF Cleaning
  <2>5. (\A w \in Work : Truthful(w)') /\ Launched' /\ Asked' /\ Confirmed' /\ Counted'
        /\ Judged'
    BY <1>0, <1>3, <2>2, <2>4
    DEF Phased, SoakInv, Truthful, Launched, Asked, Confirmed, Counted, Judged, Work, At,
        Alive, Started, Working, Cleaning
  <2>6. InTime'
    <3>1. TimeLeft' = rest BY <2>4, Numbers DEF Phased, TimeLeft, At
    <3> HIDE DEF rest
    <3> QED BY <1>3, <2>4, <3>1 DEF Phased, InTime, At
  <2> QED BY <2>4, <2>5, <2>6 DEF SoakInv
<1> HIDE DEF rest
<1>4. ASSUME NEW end \in BoundedCleanup(Io), s.phase.load = "remote", now' = now + end.d,
             s' = [s EXCEPT !.pc = "reapSender", !.phase.tried = @ \cup {"load"},
                            !.phase.errors = @ \/ end.how = "failed"]
      PROVE  SoakInv'
  <2> DEFINE tried == s.phase.tried \cup {"load"}
             errors == s.phase.errors \/ end.how = "failed"
  <2>1. /\ tried \in SUBSET Work /\ errors \in BOOLEAN /\ s.phase.lost \in BOOLEAN
        /\ "load" \in tried /\ s.phase.tried \subseteq tried
    BY SoakTyped DEF PhaseRecord, Work
  <2>2. s' = [s EXCEPT !.pc = "reapSender", !.phase = [@ EXCEPT !.tried = tried,
                                             !.errors = errors, !.lost = s.phase.lost]]
    <3> DEFINE q == [s.phase EXCEPT !.tried = tried, !.errors = errors]
    <3>1. s' = [s EXCEPT !.pc = "reapSender", !.phase = q]
      BY <1>4, SoakTyped DEF Supervisor, PhaseRecord
    <3> HIDE DEF tried, errors
    <3>2. q = [s.phase EXCEPT !.tried = tried, !.errors = errors, !.lost = s.phase.lost]
      BY SoakTyped DEF PhaseRecord
    <3> HIDE DEF q
    <3> QED BY <3>1, <3>2
  <2>3. now' \in Int /\ now' <= now + (Io + 2 * Kill)
    BY <1>4, CleanupTakes, SoakTyped, Numbers
  <2>4. now' + rest <= Deadline + 2 * Kill
    BY <1>1, <1>2, <1>4, <2>3, SoakTyped, Numbers
  <2> HIDE DEF tried, errors
  <2> QED BY <1>3, <2>1, <2>2, <2>3, <2>4
<1>5. CASE /\ ~(s.phase.load = "remote" /\ Started("load") /\ p["load"].run = "up")
           /\ s' = [s EXCEPT !.pc = "reapSender",
                             !.phase.lost = s.phase.load = "remote" /\ Started("load")]
           /\ UNCHANGED now
  <2> DEFINE lost == s.phase.load = "remote" /\ Started("load")
  <2>1. s.phase.tried \in SUBSET Work /\ s.phase.errors \in BOOLEAN /\ lost \in BOOLEAN
    BY SoakTyped DEF PhaseRecord
  <2>2. s' = [s EXCEPT !.pc = "reapSender", !.phase = [@ EXCEPT !.tried = s.phase.tried,
                                             !.errors = s.phase.errors, !.lost = lost]]
    BY <1>5, SoakTyped DEF Supervisor, PhaseRecord
  <2>3. Alive("load") => "load" \in s.phase.tried \/ lost
    BY <1>0, <1>5, CleaningFacts
    DEF SoakInv, Truthful, Asked, Launched, Alive, Started, Work, At, Cleaning
  <2>4. now' \in Int /\ now' + rest <= Deadline + 2 * Kill BY <1>2, <1>5, SoakTyped
  <2> HIDE DEF lost
  <2> QED BY <1>3, <2>1, <2>2, <2>3, <2>4
<1> QED BY <1>4, <1>5 DEF StopLoad

\* A process that is reaped is gone, and its exit is an error unless it is zero.
LEMMA ReapedGone ==
  ASSUME SoakInv, NEW w \in Work, NEW next, next \in Cleaning, Reaped(w, next)
  PROVE  \E errors \in BOOLEAN :
           /\ s' = [s EXCEPT !.pc = next, !.phase = [@ EXCEPT !.errors = errors]]
           /\ s.phase.errors => errors
           /\ ~errors => p'[w].code = 0
           /\ p'[w].run # "up"
           /\ p' \in [Work -> Process]
           /\ \A v \in Work \ {w} : p'[v] = p[v]
           /\ p'[w].far = p[w].far /\ (p[w].run = "none" => p'[w] = p[w])
           /\ (p[w].run # "none" => p'[w].run # "none")
           /\ (p'[w].code = 0 => p'[w] = p[w])
           /\ now' \in Int /\ now' <= now + (Reap + 2 * Kill)
<1>1. CASE /\ p[w].run # "up"
           /\ s' = [s EXCEPT !.pc = next, !.phase.errors = @ \/ p[w].code # 0]
           /\ UNCHANGED <<now, p>>
  <2> DEFINE errors == s.phase.errors \/ p[w].code # 0
  <2>1. errors \in BOOLEAN /\ (s.phase.errors => errors) /\ (~errors => p[w].code = 0)
    BY SoakTyped DEF PhaseRecord
  <2>2. s' = [s EXCEPT !.pc = next, !.phase = [@ EXCEPT !.errors = errors]]
    BY <1>1, SoakTyped DEF Supervisor, PhaseRecord
  <2>3. now' \in Int /\ now' <= now + (Reap + 2 * Kill) BY <1>1, SoakTyped, Numbers
  <2> HIDE DEF errors
  <2> QED BY <1>1, <2>1, <2>2, <2>3, SoakTyped
<1>2. CASE /\ p[w].run = "up"
           /\ p' = [p EXCEPT ![w] = [@ EXCEPT !.run = "gone", !.code = 1]]
           /\ now' = now + Reap + 2 * Kill
           /\ s' = [s EXCEPT !.pc = next, !.phase.errors = TRUE]
  <2>1. s' = [s EXCEPT !.pc = next, !.phase = [@ EXCEPT !.errors = TRUE]]
    BY <1>2, SoakTyped DEF Supervisor, PhaseRecord
  <2>2. now' \in Int /\ now' <= now + (Reap + 2 * Kill) BY <1>2, SoakTyped, Numbers
  <2>3. /\ p' \in [Work -> Process] /\ p'[w].run = "gone" /\ p'[w].code = 1
        /\ p'[w].far = p[w].far /\ \A v \in Work \ {w} : p'[v] = p[v]
    <3>1. p[w] \in Process BY SoakTyped
    <3>2. [p[w] EXCEPT !.run = "gone", !.code = 1] \in Process BY <3>1 DEF Process
    <3> QED BY <1>2, <3>1, <3>2, SoakTyped DEF Process
  <2>4. TRUE \in BOOLEAN OBVIOUS
  <2> WITNESS TRUE \in BOOLEAN
  <2> QED BY <1>2, <2>1, <2>2, <2>3
<1> QED BY <1>1, <1>2 DEF Reaped

LEMMA ReapSenderKeeps ==
  ASSUME SoakInv, ReapSender
  PROVE  SoakInv'
<1>0. s.pc = "reapSender" /\ s.pc \in Cleaning /\ UNCHANGED <<cancel, disk>>
  BY DEF ReapSender, At, Cleaning
<1> DEFINE rest == Reap + 2 * Kill + Retrieve + 2 * Kill
<1>1. rest \in Nat BY Numbers
<1>2. now + (Reap + 2 * Kill) + rest <= Deadline + 2 * Kill
  <2>1. TimeLeft = 2 * (Reap + 2 * Kill) + (Retrieve + 2 * Kill) BY <1>0 DEF TimeLeft, At
  <2> QED BY <1>0, <2>1, CleaningFacts, SoakTyped, Numbers
<1>3. PICK errors \in BOOLEAN :
        /\ s' = [s EXCEPT !.pc = "reapLoad", !.phase = [@ EXCEPT !.errors = errors]]
        /\ s.phase.errors => errors
        /\ ~errors => p'["sender"].code = 0
        /\ p'["sender"].run # "up"
        /\ p' \in [Work -> Process]
        /\ \A v \in Work \ {"sender"} : p'[v] = p[v]
        /\ p'["sender"].far = p["sender"].far
        /\ p["sender"].run = "none" => p'["sender"] = p["sender"]
        /\ p["sender"].run # "none" => p'["sender"].run # "none"
        /\ p'["sender"].code = 0 => p'["sender"] = p["sender"]
        /\ now' \in Int /\ now' <= now + (Reap + 2 * Kill)
  BY ReapedGone DEF ReapSender, Work, Cleaning
<1> DEFINE q == [s.phase EXCEPT !.errors = errors]
<1>4. q \in PhaseRecord BY SoakTyped DEF PhaseRecord
<1>5. /\ q.load = s.phase.load /\ q.error = s.phase.error /\ q.captured = s.phase.captured
      /\ q.checked = s.phase.checked /\ q.valid = s.phase.valid /\ q.errors = errors
      /\ q.outcome = s.phase.outcome /\ q.tried = s.phase.tried /\ q.lost = s.phase.lost
  BY SoakTyped DEF PhaseRecord
<1>6. s' = [s EXCEPT !.pc = "reapLoad", !.phase = q] BY <1>3
<1> HIDE DEF q, rest
<1>7. Phased("reapLoad", q) /\ SoakTypeOK'
  BY <1>0, <1>3, <1>4, <1>6, SoakTyped, CleanupTyped DEF Cleaning
<1>8. p'["load"] = p["load"] BY <1>3 DEF Work
<1>9. \A w \in Work : Truthful(w)'
  <2>1. Truthful("load")' BY <1>8 DEF SoakInv, Truthful, Alive, Work
  <2>2. Truthful("sender")' BY <1>3, SoakTyped DEF SoakInv, Truthful, Alive, Work, Process
  <2> QED BY <2>1, <2>2 DEF Work
<1>10. Launched' /\ Asked'
  BY <1>0, <1>3, <1>5, <1>7, <1>8
  DEF Phased, SoakInv, Launched, Asked, Work, At, Alive, Started, Working, Cleaning
<1>11. Confirmed' /\ Counted' /\ Judged'
  BY <1>0, <1>3, <1>5, <1>7
  DEF Phased, SoakInv, Confirmed, Counted, Judged, At, Started, Working, Cleaning
<1>12. InTime'
  <2>1. TimeLeft' = rest BY <1>7, Numbers DEF Phased, TimeLeft, At, rest
  <2>2. now' \in Int /\ now' <= now + (Reap + 2 * Kill) BY <1>3
  <2>3. Reap + 2 * Kill \in Int /\ Deadline + 2 * Kill \in Int BY Numbers
  <2>4. now' + rest <= Deadline + 2 * Kill
    BY <1>1, <1>2, <2>2, <2>3, SoakTyped, StillInTime
  <2> QED BY <1>7, <2>1, <2>4 DEF Phased, InTime, At
<1> QED BY <1>7, <1>9, <1>10, <1>11, <1>12 DEF SoakInv

LEMMA ReapLoadKeeps ==
  ASSUME SoakInv, ReapLoad
  PROVE  SoakInv'
<1>0. s.pc = "reapLoad" /\ s.pc \in Cleaning /\ UNCHANGED <<cancel, disk>>
  BY DEF ReapLoad, At, Cleaning
<1> DEFINE rest == Retrieve + 2 * Kill
<1>1. rest \in Nat BY Numbers
<1>2. now + (Reap + 2 * Kill) + rest <= Deadline + 2 * Kill
  <2>1. TimeLeft = (Reap + 2 * Kill) + (Retrieve + 2 * Kill) BY <1>0 DEF TimeLeft, At
  <2> QED BY <1>0, <2>1, CleaningFacts, SoakTyped, Numbers
<1>3. PICK errors \in BOOLEAN :
        /\ s' = [s EXCEPT !.pc = "retrieve", !.phase = [@ EXCEPT !.errors = errors]]
        /\ s.phase.errors => errors
        /\ ~errors => p'["load"].code = 0
        /\ p'["load"].run # "up"
        /\ p' \in [Work -> Process]
        /\ \A v \in Work \ {"load"} : p'[v] = p[v]
        /\ p'["load"].far = p["load"].far
        /\ p["load"].run = "none" => p'["load"] = p["load"]
        /\ p["load"].run # "none" => p'["load"].run # "none"
        /\ p'["load"].code = 0 => p'["load"] = p["load"]
        /\ now' \in Int /\ now' <= now + (Reap + 2 * Kill)
  BY ReapedGone DEF ReapLoad, Work, Cleaning
<1> DEFINE q == [s.phase EXCEPT !.errors = errors]
<1>4. q \in PhaseRecord BY SoakTyped DEF PhaseRecord
<1>5. /\ q.load = s.phase.load /\ q.error = s.phase.error /\ q.captured = s.phase.captured
      /\ q.checked = s.phase.checked /\ q.valid = s.phase.valid /\ q.errors = errors
      /\ q.outcome = s.phase.outcome /\ q.tried = s.phase.tried /\ q.lost = s.phase.lost
  BY SoakTyped DEF PhaseRecord
<1>6. s' = [s EXCEPT !.pc = "retrieve", !.phase = q] BY <1>3
<1> HIDE DEF q, rest
<1>7. Phased("retrieve", q) /\ SoakTypeOK'
  BY <1>0, <1>3, <1>4, <1>6, SoakTyped, CleanupTyped DEF Cleaning
<1>8. p'["sender"] = p["sender"] BY <1>3 DEF Work
<1>9. \A w \in Work : Truthful(w)'
  <2>1. Truthful("sender")' BY <1>8 DEF SoakInv, Truthful, Alive, Work
  <2>2. Truthful("load")' BY <1>3, SoakTyped DEF SoakInv, Truthful, Alive, Work, Process
  <2> QED BY <2>1, <2>2 DEF Work
<1>10. Launched' /\ Asked'
  BY <1>0, <1>3, <1>5, <1>7, <1>8
  DEF Phased, SoakInv, Launched, Asked, Work, At, Alive, Started, Working, Cleaning
<1>11. Confirmed' /\ Counted' /\ Judged'
  BY <1>0, <1>3, <1>5, <1>7, <1>8
  DEF Phased, SoakInv, Confirmed, Counted, Judged, At, Started, Working, Cleaning
<1>12. InTime'
  <2>1. TimeLeft' = rest BY <1>7, Numbers DEF Phased, TimeLeft, At, rest
  <2>2. now' \in Int /\ now' <= now + (Reap + 2 * Kill) BY <1>3
  <2>3. Reap + 2 * Kill \in Int /\ Deadline + 2 * Kill \in Int BY Numbers
  <2>4. now' + rest <= Deadline + 2 * Kill
    BY <1>1, <1>2, <2>2, <2>3, SoakTyped, StillInTime
  <2> QED BY <1>7, <2>1, <2>4 DEF Phased, InTime, At
<1> QED BY <1>7, <1>9, <1>10, <1>11, <1>12 DEF SoakInv

LEMMA RetrieveSenderKeeps ==
  ASSUME SoakInv, RetrieveSender
  PROVE  SoakInv'
<1>0. s.pc = "retrieve" /\ s.pc \in Cleaning /\ UNCHANGED <<cancel, disk, p>>
  BY DEF RetrieveSender, At, Cleaning
<1>1. now + (Retrieve + 2 * Kill) <= Deadline + 2 * Kill
  <2>1. TimeLeft = Retrieve + 2 * Kill BY <1>0 DEF TimeLeft, At
  <2> QED BY <1>0, <2>1, CleaningFacts
<1>2. ASSUME NEW errors \in BOOLEAN, NEW journal \in BOOLEAN,
             s' = [s EXCEPT !.pc = "settle",
                            !.phase = [@ EXCEPT !.journal = journal, !.errors = errors]],
             s.phase.errors => errors, ~errors /\ Started("sender") => journal,
             now' \in Int, now' <= Deadline + 2 * Kill
      PROVE  SoakInv'
  <2> DEFINE q == [s.phase EXCEPT !.journal = journal, !.errors = errors]
  <2>1. q \in PhaseRecord BY SoakTyped DEF PhaseRecord
  <2>2. /\ q.load = s.phase.load /\ q.error = s.phase.error /\ q.captured = s.phase.captured
        /\ q.checked = s.phase.checked /\ q.valid = s.phase.valid /\ q.errors = errors
        /\ q.outcome = s.phase.outcome /\ q.tried = s.phase.tried /\ q.lost = s.phase.lost
        /\ q.journal = journal
    BY SoakTyped DEF PhaseRecord
  <2>3. s' = [s EXCEPT !.pc = "settle", !.phase = q] BY <1>2
  <2> HIDE DEF q
  <2>4. Phased("settle", q) /\ SoakTypeOK'
    BY <1>0, <1>2, <2>1, <2>3, SoakTyped, CleanupTyped DEF Cleaning
  <2>5. (\A w \in Work : Truthful(w)') /\ Launched' /\ Asked'
    BY <1>0, <2>2, <2>4
    DEF Phased, SoakInv, Truthful, Launched, Asked, Work, At, Alive, Started, Working, Cleaning
  <2>6. Confirmed' /\ Counted' /\ Judged'
    BY <1>0, <1>2, <2>2, <2>4
    DEF Phased, SoakInv, Confirmed, Counted, Judged, At, Started, Working, Cleaning
  <2>7. InTime'
    <3>1. TimeLeft' = 0 BY <2>4 DEF Phased, TimeLeft, At
    <3> QED BY <1>2, <2>4, <3>1 DEF Phased, InTime, At
  <2> QED BY <2>4, <2>5, <2>6, <2>7 DEF SoakInv
<1>3. ASSUME NEW end \in BoundedCleanup(Retrieve), now' = now + end.d,
             s' = [s EXCEPT !.pc = "settle", !.phase.journal = end.how = "ok",
                            !.phase.errors = @ \/ end.how = "failed"]
      PROVE  SoakInv'
  <2> DEFINE journal == end.how = "ok"
             errors == s.phase.errors \/ end.how = "failed"
  <2>1. end.d \in Int /\ end.d <= Retrieve + 2 * Kill /\ end.how \in {"ok", "failed"}
    BY CleanupTakes, Numbers
  <2>2. now' \in Int /\ now' <= Deadline + 2 * Kill
    BY <1>1, <1>3, <2>1, SoakTyped, Numbers
  <2>3. journal \in BOOLEAN /\ errors \in BOOLEAN /\ (s.phase.errors => errors)
        /\ (~errors => journal)
    BY <2>1, SoakTyped DEF PhaseRecord
  <2>4. s' = [s EXCEPT !.pc = "settle",
                       !.phase = [@ EXCEPT !.journal = journal, !.errors = errors]]
    BY <1>3, SoakTyped DEF Supervisor, PhaseRecord
  <2> HIDE DEF journal, errors
  <2> QED BY <1>2, <2>2, <2>3, <2>4
<1>4. CASE ~Started("sender") /\ Go("settle") /\ UNCHANGED now
  <2>1. s.phase.errors \in BOOLEAN /\ s.phase.journal \in BOOLEAN
    BY SoakTyped DEF PhaseRecord
  <2>2. s' = [s EXCEPT !.pc = "settle", !.phase = [@ EXCEPT !.journal = s.phase.journal,
                                                           !.errors = s.phase.errors]]
    BY <1>4, SoakTyped DEF Go, Supervisor, PhaseRecord
  <2>3. now' \in Int /\ now' <= Deadline + 2 * Kill
    BY <1>1, <1>4, SoakTyped, Numbers
  <2> QED BY <1>2, <1>4, <2>1, <2>2, <2>3
<1> QED BY <1>3, <1>4 DEF RetrieveSender

LEMMA SettleKeeps ==
  ASSUME SoakInv, Settle
  PROVE  SoakInv'
<1>0. s.pc = "settle" /\ s.pc \in Cleaning /\ UNCHANGED <<now, cancel, disk, p>>
  BY DEF Settle, At, Cleaning
<1> DEFINE error == IF s.phase.error = "none" /\ (~disk \/ s.phase.errors) THEN "failed"
                    ELSE s.phase.error
           q == [s.phase EXCEPT !.error = error]
<1>1. /\ error \in {"none", "failed", "cancelled"}
      /\ error = "none" => s.phase.error = "none" /\ ~s.phase.errors
  BY SoakTyped DEF PhaseRecord
<1>2. s' = [s EXCEPT !.pc = "phaseEnd", !.phase = q]
  BY SoakTyped DEF Settle, Supervisor, PhaseRecord
<1> HIDE DEF error
<1>3. q \in PhaseRecord BY <1>1, SoakTyped DEF PhaseRecord
<1>4. /\ q.load = s.phase.load /\ q.error = error /\ q.captured = s.phase.captured
      /\ q.checked = s.phase.checked /\ q.valid = s.phase.valid /\ q.outcome = s.phase.outcome
      /\ q.errors = s.phase.errors /\ q.journal = s.phase.journal
      /\ q.tried = s.phase.tried /\ q.lost = s.phase.lost
  BY SoakTyped DEF PhaseRecord
<1> HIDE DEF q
<1>5. Phased("phaseEnd", q) /\ SoakTypeOK'
  BY <1>0, <1>2, <1>3, SoakTyped, CleanupTyped DEF Cleaning
<1>6. (\A w \in Work : Truthful(w)') /\ Launched' /\ Asked' /\ Confirmed' /\ Counted'
      /\ Judged' /\ InTime'
  BY <1>0, <1>1, <1>4, <1>5
  DEF Phased, SoakInv, Truthful, Launched, Asked, Confirmed, Counted, Judged, EndedWell,
      InTime, TimeLeft, Work, At, Alive, Started, Working, Cleaning
<1> QED BY <1>5, <1>6 DEF SoakInv

\* A phase without an error has ended as it should.
LEMMA EndsWell ==
  ASSUME SoakInv, s.pc = "phaseEnd", s.phase.error = "none"
  PROVE  EndedWell /\ \A w \in Work : ~Alive(w) /\ p[w].run # "up"
<1>1. ~s.phase.errors /\ Started("sender") /\ (s.phase.load # "none" => Started("load"))
      /\ (s.phase.load = "none" => p["load"].run = "none")
  BY DEF SoakInv, Confirmed, Launched, At, Cleaning
<1>2. p["sender"].run # "up" /\ p["sender"].code = 0 /\ s.phase.journal
      /\ p["load"].run # "up" /\ p["load"].code = 0
  BY <1>1 DEF SoakInv, Confirmed, Asked, At
<1>3. p["sender"].run = "gone" /\ p["sender"].far = "done"
  BY <1>1, <1>2, SoakTyped DEF SoakInv, Truthful, Started, Work, Process
<1>4. p["load"].far = IF s.phase.load # "none" THEN "done" ELSE "off"
  BY <1>1, <1>2, SoakTyped DEF SoakInv, Truthful, Started, Work, Process
<1> QED BY <1>2, <1>3, <1>4 DEF EndedWell, Alive, Work

LEMMA PhaseEndKeeps ==
  ASSUME SoakInv, PhaseEnd
  PROVE  SoakInv'
<1>0. s.pc = "phaseEnd" /\ s.pc \in Cleaning /\ UNCHANGED <<now, cancel, disk, p>>
  BY DEF PhaseEnd, At, Cleaning
<1> DEFINE outcome == IF s.phase.error # "none" THEN "fail"
                      ELSE IF s.phase.valid < s.phase.checked THEN "completed_with_violations"
                      ELSE "pass"
           q == [s.phase EXCEPT !.outcome = outcome]
<1>1. /\ outcome \in {"pass", "completed_with_violations", "fail"}
      /\ outcome # "fail" => s.phase.error = "none"
      /\ outcome = "pass" => s.phase.valid = s.phase.checked
      /\ outcome = "completed_with_violations" => s.phase.valid < s.phase.checked
  <2>1. /\ s.phase.valid \in Int /\ s.phase.checked \in Int
        /\ s.phase.valid <= s.phase.checked
    BY SoakTyped DEF PhaseRecord, SoakInv, Counted
  <2>2. CASE s.phase.error # "none"
    <3>1. outcome = "fail" BY <2>2
    <3> QED BY <3>1
  <2>3. CASE s.phase.error = "none" /\ s.phase.valid < s.phase.checked
    <3>1. outcome = "completed_with_violations" BY <2>3
    <3> QED BY <2>3, <3>1
  <2>4. CASE s.phase.error = "none" /\ ~(s.phase.valid < s.phase.checked)
    <3>1. outcome = "pass" BY <2>4
    <3>2. s.phase.valid = s.phase.checked BY <2>1, <2>4
    <3> QED BY <2>4, <3>1, <3>2
  <2> QED BY <2>2, <2>3, <2>4
<1>2. PICK label \in {"plan", "ended"}, status \in {"running", "stopped", "fail"} :
        /\ s' = [s EXCEPT !.pc = label, !.status = status, !.done = @ + 1, !.phase = q]
        /\ label = "plan" => status = "running" /\ outcome # "fail"
  <2>1. s = [s EXCEPT !.status = "running"] BY <1>0, CleaningFacts, SoakTyped DEF Supervisor
  <2>2. CASE ~disk
    <3>1. s' = [s EXCEPT !.pc = "ended", !.status = "fail", !.done = @ + 1, !.phase = q]
      BY <2>2, SoakTyped DEF PhaseEnd, Supervisor, PhaseRecord
    <3> QED BY <3>1
  <2>3. CASE disk /\ outcome = "fail"
    <3> DEFINE status == IF s.phase.error = "cancelled" THEN "stopped" ELSE "fail"
    <3>1. s' = [s EXCEPT !.pc = "ended", !.status = status, !.done = @ + 1, !.phase = q]
      BY <2>3, SoakTyped DEF PhaseEnd, Supervisor, PhaseRecord
    <3> QED BY <3>1
  <2>4. CASE disk /\ outcome # "fail"
    <3>1. s' = [s EXCEPT !.pc = "plan", !.status = s.status, !.done = @ + 1, !.phase = q]
      BY <2>4, SoakTyped DEF PhaseEnd, Supervisor, PhaseRecord
    <3>2. s.status = "running" BY <1>0, CleaningFacts
    <3> QED BY <2>4, <3>1, <3>2
  <2> QED BY <2>2, <2>3, <2>4
<1>3. q \in PhaseRecord
  <2> HIDE DEF outcome
  <2> QED BY <1>1, SoakTyped DEF PhaseRecord
<1>4. /\ q.load = s.phase.load /\ q.error = s.phase.error /\ q.captured = s.phase.captured
      /\ q.checked = s.phase.checked /\ q.valid = s.phase.valid /\ q.outcome = outcome
      /\ q.errors = s.phase.errors /\ q.journal = s.phase.journal
      /\ q.tried = s.phase.tried /\ q.lost = s.phase.lost
  BY SoakTyped DEF PhaseRecord
<1> HIDE DEF outcome, q
<1>5. /\ s'.pc = label /\ s'.status = status /\ s'.phase = q /\ s'.bad = s.bad
      /\ s' \in Supervisor
  <2>1. s.done + 1 \in Nat BY SoakTyped DEF Supervisor
  <2> QED BY <1>2, <1>3, <2>1, SoakTyped, Labels DEF Supervisor
<1>6. SoakTypeOK' BY <1>0, <1>5 DEF SoakInv, SoakTypeOK
<1>7. outcome # "fail" => EndedWell /\ \A w \in Work : ~Alive(w) /\ p[w].run # "up"
  BY <1>0, <1>1, EndsWell
<1>8. (\A w \in Work : Truthful(w)') /\ Launched' /\ Asked'
  BY <1>0, <1>2, <1>4, <1>5, <1>7
  DEF SoakInv, Truthful, Launched, Asked, Work, At, Alive, Started, Working, Cleaning
<1>9. Confirmed' /\ Counted' BY <1>0, <1>4, <1>5 DEF SoakInv, Confirmed, Counted, At
<1>10. Judged'
  BY <1>0, <1>1, <1>2, <1>4, <1>5, <1>7 DEF Judged, EndedWell, At
<1>11. InTime'
  <2>1. TimeLeft' = 0 /\ TimeLeft = 0 BY <1>0, <1>5 DEF TimeLeft, At
  <2> QED BY <1>0, <1>5, <2>1, CleaningFacts DEF InTime, At
<1> QED BY <1>6, <1>8, <1>9, <1>10, <1>11 DEF SoakInv

-----------------------------------------------------------------------------
(* The surroundings.                                                       *)

\* One of the two processes changes, but is not started: the supervisor's knowledge holds.
LEMMA SurroundingsKeep ==
  ASSUME SoakInv, UNCHANGED <<now, cancel, disk, s>>,
         NEW w \in Work, NEW q \in Process, p' = [p EXCEPT ![w] = q],
         Alive(w), q.far \in {"starting", "up", "done"},
         q.run = "none" <=> p[w].run = "none",
         q.run = "up" => p[w].run = "up" /\ q.far # "done",
         q.run = "gone" /\ q.code = 0 => q.far = "done",
         p[w].run = "gone" => q.code = p[w].code,
         ~(s.pc = "ended" /\ q.run = "up")
  PROVE  SoakInv'
<1>1. /\ p' \in [Work -> Process] /\ p'[w] = q /\ \A v \in Work \ {w} : p'[v] = p[v]
  BY SoakTyped
<1>2. p[w].run # "none" /\ p[w].far # "done"
  BY DEF SoakInv, Truthful, Alive
<1>3. ~(At("plan") \/ At("begin") \/ At("sender"))
  BY <1>2 DEF SoakInv, Launched, At
<1>4. SoakTypeOK' BY <1>1, SoakTyped DEF SoakInv, SoakTypeOK
<1>5. \A v \in Work : Truthful(v)'
  <2>1. Truthful(w)' BY <1>1, <1>2 DEF Truthful, Alive, Process
  <2>2. ASSUME NEW v \in Work \ {w} PROVE Truthful(v)'
    BY <1>1 DEF SoakInv, Truthful, Alive
  <2> QED BY <2>1, <2>2
<1>6. Launched'
  BY <1>1, <1>2, <1>3 DEF SoakInv, Launched, At, Alive, Started, Work
<1>7. Asked' BY <1>1, <1>2 DEF SoakInv, Asked, At, Alive, Work
<1>8. Confirmed'
  <2>1. s.pc \in {"reapLoad", "retrieve", "settle", "phaseEnd"} /\ w = "sender" =>
          q.code = p[w].code
    BY <1>2, SoakTyped DEF SoakInv, Asked, Process
  <2>2. s.pc \in {"retrieve", "settle", "phaseEnd"} /\ w = "load" => q.code = p[w].code
    BY <1>2, SoakTyped DEF SoakInv, Asked, Process
  <2>3. w = "sender" \/ w = "load" BY DEF Work
  <2> QED BY <1>1, <1>2, <2>1, <2>2, <2>3 DEF SoakInv, Confirmed, At, Started, Work
<1>9. Counted' BY DEF SoakInv, Counted
<1>10. Judged'
  <2>1. s.phase.outcome \in {"pass", "completed_with_violations"} => EndedWell'
    <3>1. SUFFICES ASSUME EndedWell PROVE EndedWell' BY DEF SoakInv, Judged
    <3>2. w = "load" /\ s.phase.load = "none"
      BY <3>1 DEF EndedWell, Alive, Work
    <3>3. FALSE BY <1>2, <3>2 DEF SoakInv, Launched
    <3> QED BY <3>3
  <2> QED BY <2>1 DEF SoakInv, Judged, At
<1>11. InTime' BY DEF SoakInv, InTime, TimeLeft, At
<1> QED BY <1>4, <1>5, <1>6, <1>7, <1>8, <1>9, <1>10, <1>11 DEF SoakInv

LEMMA ComesUpKeeps ==
  ASSUME SoakInv, ComesUp
  PROVE  SoakInv'
<1>1. PICK w \in Work : p[w].far = "starting" /\ p' = [p EXCEPT ![w].far = "up"]
  BY DEF ComesUp
<1> DEFINE q == [p[w] EXCEPT !.far = "up"]
<1>2. p[w] \in Process BY SoakTyped
<1>3. /\ q \in Process /\ q.far = "up" /\ q.run = p[w].run /\ q.code = p[w].code
  BY <1>2 DEF Process
<1>4. p' = [p EXCEPT ![w] = q] BY <1>1
<1> HIDE DEF q
<1>5. ~(s.pc = "ended" /\ q.run = "up") BY <1>3 DEF SoakInv, Asked, At
<1>6. q.run = "gone" /\ q.code = 0 => q.far = "done"
  BY <1>1, <1>3 DEF SoakInv, Truthful
<1>7. UNCHANGED <<now, cancel, disk, s>> BY DEF ComesUp
<1>8. Alive(w) BY <1>1 DEF Alive
<1>9. p[w].run = "gone" => q.code = p[w].code BY <1>3
<1>10. q.run = "up" => p[w].run = "up" /\ q.far # "done" BY <1>3
<1> QED BY <1>3, <1>4, <1>5, <1>6, <1>7, <1>8, <1>9, <1>10, SurroundingsKeep

LEMMA WorkEndsKeeps ==
  ASSUME SoakInv, WorkEnds
  PROVE  SoakInv'
<1>1. PICK w \in Work, code \in {0, 1} :
        /\ Alive(w)
        /\ p' = [p EXCEPT ![w] = [run |-> "gone", far |-> "done",
                                  code |-> IF @.run = "up" THEN code ELSE @.code]]
  BY DEF WorkEnds
<1> DEFINE last == IF p[w].run = "up" THEN code ELSE p[w].code
           q == [run |-> "gone", far |-> "done", code |-> last]
<1>2. p[w] \in Process BY SoakTyped
<1>3. last \in {0, 1} /\ (p[w].run = "gone" => last = p[w].code) BY <1>2 DEF Process
<1>4. p' = [p EXCEPT ![w] = q] BY <1>1
<1> HIDE DEF last
<1>5. q \in Process /\ q.far = "done" /\ q.run = "gone" /\ q.code = last
  BY <1>3 DEF Process
<1>6. p[w].run # "none" BY <1>1 DEF SoakInv, Truthful, Alive
<1> HIDE DEF q
<1> QED BY <1>1, <1>3, <1>4, <1>5, <1>6, SurroundingsKeep DEF WorkEnds

LEMMA LinkLostKeeps ==
  ASSUME SoakInv, LinkLost
  PROVE  SoakInv'
<1>1. PICK w \in Work : /\ p[w].run = "up" /\ Alive(w)
                        /\ p' = [p EXCEPT ![w] = [@ EXCEPT !.run = "gone", !.code = 1]]
  BY DEF LinkLost
<1> DEFINE q == [p[w] EXCEPT !.run = "gone", !.code = 1]
<1>2. p[w] \in Process BY SoakTyped
<1>3. /\ q \in Process /\ q.far = p[w].far /\ q.run = "gone" /\ q.code = 1
  BY <1>2 DEF Process
<1>4. p' = [p EXCEPT ![w] = q] BY <1>1
<1> HIDE DEF q
<1>5. q.far \in {"starting", "up", "done"} BY <1>1, <1>3 DEF Alive
<1>6. UNCHANGED <<now, cancel, disk, s>> BY DEF LinkLost
<1>7. /\ q.run = "none" <=> p[w].run = "none"
      /\ ~(q.run = "gone" /\ q.code = 0) /\ q.run # "up" /\ p[w].run # "gone"
  BY <1>1, <1>3
<1> QED BY <1>1, <1>3, <1>4, <1>5, <1>6, <1>7, SurroundingsKeep

LEMMA InitHolds ==
  ASSUME Init
  PROVE  SoakInv
<1>1. PICK keep \in BOOLEAN :
        s = [pc |-> "plan", done |-> 0, keep |-> keep, bad |-> FALSE, status |-> "running",
             phase |-> NewPhase]
  BY DEF Init
<1>2. p = [w \in Work |-> Absent] /\ now = 0 /\ cancel = FALSE /\ disk = TRUE BY DEF Init
<1>3. NewPhase \in PhaseRecord BY DEF NewPhase, PhaseRecord
<1>4. s \in Supervisor BY <1>1, <1>3, Labels DEF Supervisor
<1>5. p \in [Work -> Process] BY <1>2 DEF Absent, Process
<1>6. SoakTypeOK
  <2>1. now \in Int BY <1>2
  <2>2. cancel \in BOOLEAN /\ disk \in BOOLEAN BY <1>2, Zenon
  <2> QED BY <1>4, <1>5, <2>1, <2>2 DEF SoakTypeOK
<1>7. \A w \in Work : p[w].run = "none" /\ p[w].far = "off" /\ p[w].code = 0
  BY <1>2 DEF Absent
<1>8. /\ s.pc = "plan" /\ s.phase.load = "none" /\ s.phase.error = "none" /\ ~s.bad
      /\ s.phase.captured = 0 /\ s.phase.checked = 0 /\ s.phase.valid = 0
      /\ s.phase.outcome = "none" /\ s.status = "running"
  BY <1>1 DEF NewPhase
<1>9. (\A w \in Work : Truthful(w)) /\ Launched /\ Asked /\ Confirmed /\ Counted /\ Judged
  BY <1>7, <1>8
  DEF Truthful, Launched, Asked, Confirmed, Counted, Judged, Work, At, Alive, Started, Working,
      Cleaning
<1>10. InTime BY <1>2, <1>8, Numbers DEF InTime, TimeLeft, At
<1> QED BY <1>6, <1>9, <1>10 DEF SoakInv

LEMMA StepKeeps ==
  ASSUME SoakInv, [Next]_vars
  PROVE  SoakInv'
<1>1. CASE PhaseStep
  BY <1>1, NextPhaseKeeps, BeginKeeps, SpawnSenderKeeps, SpawnLoadKeeps, LoopKeeps, CaptureKeeps,
     CapturedKeeps, AnalyseKeeps, JudgeKeeps
  DEF PhaseStep
<1>2. CASE CleanupStep
  BY <1>2, StoppingKeeps, StopLocalKeeps, StopSenderKeeps, StopLoadKeeps, ReapSenderKeeps,
     ReapLoadKeeps, RetrieveSenderKeeps, SettleKeeps, PhaseEndKeeps
  DEF CleanupStep
<1>3. CASE Cancel \/ DiskFills \/ UNCHANGED vars
  <2>1. UNCHANGED <<now, s, p>> /\ cancel' \in BOOLEAN /\ disk' \in BOOLEAN
    BY <1>3, SoakTyped DEF Cancel, DiskFills, vars
  <2>2. SoakTypeOK' BY <2>1, SoakTyped DEF SoakTypeOK
  <2>3. (\A w \in Work : Truthful(w)') /\ Launched' /\ Asked' /\ Confirmed' /\ Counted'
        /\ Judged' /\ InTime'
    BY <2>1
    DEF SoakInv, Truthful, Launched, Asked, Confirmed, Counted, Judged, EndedWell, InTime,
        TimeLeft, At, Alive, Started
  <2> QED BY <2>2, <2>3 DEF SoakInv
<1> QED
  BY <1>1, <1>2, <1>3, ComesUpKeeps, WorkEndsKeeps, LinkLostKeeps DEF Next

-----------------------------------------------------------------------------
(***************************************************************************)
(* What the supervisor knows of its processes, its phase and its time      *)
(* holds throughout the soak (run_phase, stop_phase).                      *)
(***************************************************************************)
THEOREM SoakHolds == Spec => []SoakInv
  BY InitHolds, StepKeeps, PTL DEF Spec

(***************************************************************************)
(* No phase begins while anything of an earlier one runs, and the          *)
(* supervisor leaves no local process and nothing on the board that it has *)
(* not asked to stop, whichever step of the cleanup fails (stop_phase).    *)
(***************************************************************************)
THEOREM NothingLeftBehind == Spec => []NothingIsAbandoned
<1>1. SoakInv => NothingIsAbandoned
  BY DEF SoakInv, Launched, Asked, NothingIsAbandoned, At
<1> QED BY <1>1, SoakHolds, PTL

(***************************************************************************)
(* No phase and no run is reported better than it was: both programs ended *)
(* by themselves with exit 0, the journal was confirmed, every captured    *)
(* second was analysed, and a pass had no violation (run_phase).           *)
(***************************************************************************)
THEOREM PassesAreEarned == Spec => []PassIsEarned
<1>1. ASSUME SoakInv PROVE PassIsEarned
  <2>1. s.phase.outcome \in {"pass", "completed_with_violations"} =>
          EndedWell /\ s.phase.captured = s.phase.checked
    BY <1>1 DEF SoakInv, Judged, EndedWell, Counted, At
  <2>2. s.phase.outcome = "pass" => s.phase.valid = s.phase.checked
    BY <1>1 DEF SoakInv, Judged
  <2>3. s.status = "pass" => ~s.bad /\ s.phase.outcome \in {"none", "pass"}
    BY <1>1 DEF SoakInv, Judged
  <2> QED BY <2>1, <2>2, <2>3 DEF EndedWell, PassIsEarned
<1> QED BY <1>1, SoakHolds, PTL

(***************************************************************************)
(* The reserves are enough for every length of the waits they are meant    *)
(* to cover and however the wall clock is set: no capture starts that      *)
(* could last into them, and the soak is over by its deadline, but for the *)
(* two kills of its last worker (CAPTURE_OVERHEAD ... CLEANUP_RESERVE).    *)
(***************************************************************************)
THEOREM ReservesAlwaysSuffice == Spec => []ReservesSuffice
<1>1. ASSUME SoakInv PROVE ReservesSuffice
  <2>1. TimeLeft \in Nat BY Numbers DEF TimeLeft
  <2>2. now \in Int /\ now + TimeLeft <= Deadline + 2 * Kill
    BY <1>1 DEF SoakInv, SoakTypeOK, InTime
  <2>3. now <= Deadline + 2 * Kill BY <2>1, <2>2, Numbers
  <2> QED BY <1>1, <2>3 DEF SoakInv, InTime, ReservesSuffice
<1> QED BY <1>1, SoakHolds, PTL
===============================================================================
