-------------------------- MODULE BenchSender_proofs --------------------------
(***************************************************************************)
(* Theorems about the bench sender, for every timeout, grace and deadline: *)
(* its watchdog signals only the command it has found overdue, its records *)
(* are true, and it supervises no command at its UTC limit.                *)
(***************************************************************************)
EXTENDS BenchSender, TLAPS

-----------------------------------------------------------------------------
(* The inductive invariant.                                                *)

Item == [stage : -1 .. 2, expired : BOOLEAN, deadline : Int]
Command == [pc : {"none", "running", "exited"}, n : Nat, good : BOOLEAN, hit : BOOLEAN, born : Nat]
Record == [n : Nat, good : BOOLEAN, hit : BOOLEAN]

SenderTypeOK ==
  /\ now \in Nat /\ skew \in Int /\ stop \in {"none", "signal", "file"}
  /\ disk \in BOOLEAN /\ lock \in BOOLEAN
  /\ m \in Main /\ w \in Watchdog /\ item \in Item /\ child \in Command
  /\ log \in Seq(Record)

Armed == item # NoItem

\* What the two threads know of the command and of each other, at each of their labels.
Supervised ==
  /\ m.pc \in {"communicate", "disarm"} => Armed
  /\ Armed => m.pc \in {"communicate", "disarm", "exited"} /\ item.stage \in 0 .. 2
  /\ Alive /\ child.pc = "running" => m.pc \in {"arm", "communicate"}
  /\ m.pc \in {"disarm", "judge"} => child.pc = "exited"
  /\ m.pc \in {"arm", "communicate", "disarm", "judge"} => child.n = m.todo
  /\ m.pc \in {"spawn", "arm", "communicate", "disarm", "judge"} => m.todo <= Count
  /\ W("signal") <=> lock
  /\ W("signal") => Armed /\ item.expired /\ now >= child.born + Timeout
  /\ W("timed") => Armed /\ w.due = item.deadline
  /\ W("idle") => ~Armed

\* A command that was signalled is known to have expired, from the signal to the verdict.
Signalled ==
  /\ m.pc = "arm" => ~child.hit
  /\ m.pc \in {"communicate", "disarm"} /\ child.hit => item.expired
  /\ m.pc = "judge" /\ child.hit => m.expired

\* Room is left for each stage that the command may still go through.
InTime ==
  /\ m.pc \in {"spawn", "arm"} => now + Timeout + 2 * Grace < Deadline
  /\ child.born <= now
  /\ Armed => /\ now <= item.deadline
              /\ item.deadline >= child.born + Timeout
              /\ item.deadline + (2 - item.stage) * Grace < Deadline

Recorded ==
  /\ Len(log) = IF m.todo = 0 THEN 0 ELSE m.todo - 1
  /\ RecordsAreTrue

SenderInv == SenderTypeOK /\ Supervised /\ Signalled /\ InTime /\ Recorded

USE TimesAssumption

LEMMA Numbers ==
  /\ Timeout \in Nat /\ Grace \in Nat /\ Deadline \in Nat /\ Count \in Nat /\ Count > 0
  OBVIOUS

LEMMA Typed ==
  ASSUME SenderInv
  PROVE  /\ now \in Nat /\ skew \in Int /\ stop \in {"none", "signal", "file"}
         /\ disk \in BOOLEAN /\ lock \in BOOLEAN /\ log \in Seq(Record)
         /\ m \in Main /\ w \in Watchdog /\ item \in Item /\ child \in Command
         /\ m.todo \in Int /\ m.todo >= 0 /\ m.todo <= Count + 1
         /\ item.stage \in Int /\ item.deadline \in Int /\ child.born \in Nat /\ w.due \in Nat
<1>1. SenderTypeOK BY DEF SenderInv
<1>2. m.todo \in Int /\ m.todo >= 0 /\ m.todo <= Count + 1
  BY <1>1, Numbers DEF SenderTypeOK, Main
<1>3. item.stage \in Int /\ item.deadline \in Int BY <1>1 DEF SenderTypeOK, Item
<1>4. child.born \in Nat /\ w.due \in Nat BY <1>1 DEF SenderTypeOK, Command, Watchdog
<1> QED BY <1>1, <1>2, <1>3, <1>4 DEF SenderTypeOK

LEMMA Ints ==
  ASSUME SenderInv
  PROVE  /\ now \in Nat /\ m.todo \in Int /\ m.todo >= 0 /\ m.todo <= Count + 1
         /\ item.stage \in Int /\ item.deadline \in Int /\ child.born \in Nat /\ w.due \in Nat
         /\ Len(log) \in Nat
  BY Typed

LEMMA GoMoves ==
  ASSUME m \in Main, NEW label, Go(label),
         label \in {"look", "spawn", "arm", "communicate", "disarm", "close", "finish"}
  PROVE  m' \in Main /\ m'.pc = label /\ m'.todo = m.todo /\ m'.expired = m.expired
  BY DEF Go, Main

LEMMA FailMoves ==
  ASSUME m \in Main, NEW code \in {1, 124}, Fail(code)
  PROVE  m' \in Main /\ m'.pc = "close" /\ m'.todo = m.todo
  BY DEF Fail, Main

\* notify_all leaves the watchdog at its test, unless it is signalling or gone.
LEMMA NotifiedTyped ==
  ASSUME w \in Watchdog, w' = Notified
  PROVE  /\ w' \in Watchdog /\ w'.pc \in {"top", "signal", "gone"}
         /\ w'.pc = "signal" <=> w.pc = "signal"
<1>1. CASE w.pc \in {"idle", "timed", "nap"}
  <2>1. w' = [w EXCEPT !.pc = "top"] BY <1>1 DEF Notified
  <2> QED BY <1>1, <2>1 DEF Watchdog
<1>2. CASE w.pc \notin {"idle", "timed", "nap"}
  <2>1. w' = w BY <1>2 DEF Notified
  <2> QED BY <1>2, <2>1 DEF Watchdog
<1> QED BY <1>1, <1>2

-----------------------------------------------------------------------------
(* The main thread.                                                        *)

\* Steps of the main thread between two commands, or away from them.
LEMMA MoveKeeps ==
  ASSUME SenderInv, UNCHANGED <<now, skew, stop, disk, item, lock, child, log>>,
         m.pc \in {"start", "look", "spawn", "judge", "progress", "close", "join", "finish"},
         m' \in Main, m'.todo = m.todo,
         m'.pc \in {"look", "close", "join", "finish", "ended"},
         w' \in Watchdog, w' = w \/ (w'.pc \in {"top", "gone"} /\ ~lock)
  PROVE  SenderInv'
<1>1. ~Armed /\ child.pc # "running"
  BY DEF SenderInv, Supervised, Alive
<1>2. SenderTypeOK' BY Typed DEF SenderTypeOK
<1>3. Supervised'
  BY <1>1 DEF SenderInv, Supervised, Armed, Alive, W
<1>4. Signalled' /\ InTime' /\ Recorded'
  BY <1>1 DEF SenderInv, Signalled, InTime, Recorded, RecordsAreTrue, Armed
<1> QED BY <1>2, <1>3, <1>4 DEF SenderInv

LEMMA StartKeeps ==
  ASSUME SenderInv, Start
  PROVE  SenderInv'
<1>1. m.pc = "start" /\ UNCHANGED <<now, skew, stop, disk, w, item, lock, child, log>>
  BY DEF Start, M
<1>2. m' \in Main /\ m'.todo = m.todo /\ m'.pc \in {"look", "close"}
  BY Typed, GoMoves, FailMoves DEF Start
<1> QED BY <1>1, <1>2, Typed, MoveKeeps

\* A command is started only with the time for all its stages left.
LEMMA LookKeeps ==
  ASSUME SenderInv, Look
  PROVE  SenderInv'
<1>1. m.pc = "look" /\ UNCHANGED <<now, skew, stop, disk, w, item, lock, child, log>>
  BY DEF Look, M
<1>2. CASE Go("close")
  <2>1. m' \in Main /\ m'.pc = "close" /\ m'.todo = m.todo BY <1>2, Typed, GoMoves
  <2> QED BY <1>1, <2>1, Typed, MoveKeeps
<1>3. CASE ~stop_reason /\ Go("spawn")
  <2>1. m' \in Main /\ m'.pc = "spawn" /\ m'.todo = m.todo BY <1>3, Typed, GoMoves
  <2>2. m.todo <= Count /\ now + Timeout + 2 * Grace < Deadline
    <3>1. ~(m.todo > Count) /\ ~(now + Timeout + 2 * Grace >= Deadline)
      BY <1>3 DEF stop_reason
    <3>2. now + Timeout + 2 * Grace \in Int BY Typed, Numbers
    <3> QED BY <3>1, <3>2, Ints, Numbers, SMTT(30)
  <2>3. ~Armed /\ child.pc # "running" BY <1>1 DEF SenderInv, Supervised, Alive
  <2>4. SenderTypeOK' BY <1>1, <2>1, Typed DEF SenderTypeOK
  <2>5. Supervised' BY <1>1, <2>1, <2>2, <2>3 DEF SenderInv, Supervised, Armed, Alive, W
  <2>6. Signalled' /\ InTime' /\ Recorded'
    BY <1>1, <2>1, <2>2, <2>3
    DEF SenderInv, Signalled, InTime, Recorded, RecordsAreTrue, Armed
  <2> QED BY <2>4, <2>5, <2>6 DEF SenderInv
<1> QED BY <1>2, <1>3 DEF Look

LEMMA SpawnKeeps ==
  ASSUME SenderInv, Spawn
  PROVE  SenderInv'
<1>1. m.pc = "spawn" /\ UNCHANGED <<now, skew, stop, disk, w, item, lock, log>>
  BY DEF Spawn, M
<1>2. CASE Fail(1) /\ UNCHANGED child
  <2>1. m' \in Main /\ m'.pc = "close" /\ m'.todo = m.todo BY <1>2, Typed, FailMoves
  <2> QED BY <1>1, <1>2, <2>1, Typed, MoveKeeps
<1>3. CASE child' = [NoChild EXCEPT !.pc = "running", !.n = m.todo, !.born = now] /\ Go("arm")
  <2>1. m' \in Main /\ m'.pc = "arm" /\ m'.todo = m.todo BY <1>3, Typed, GoMoves
  <2>2. /\ child' \in Command /\ child'.pc = "running" /\ child'.n = m.todo
        /\ child'.born = now /\ ~child'.hit
    <3>1. child' = [pc |-> "running", n |-> m.todo, good |-> FALSE, hit |-> FALSE, born |-> now]
      BY <1>3 DEF NoChild
    <3>2. m.todo \in Nat /\ now \in Nat BY Typed
    <3> QED BY <3>1, <3>2 DEF Command
  <2>3. ~Armed /\ w.pc # "signal" BY <1>1 DEF SenderInv, Supervised, W
  <2>4. SenderTypeOK' BY <1>1, <2>1, <2>2, Typed DEF SenderTypeOK
  <2>5. Supervised' BY <1>1, <2>1, <2>2, <2>3 DEF SenderInv, Supervised, Armed, Alive, W
  <2>6. Signalled' BY <1>1, <2>1, <2>2, <2>3 DEF SenderInv, Signalled
  <2>7. InTime' BY <1>1, <2>1, <2>2, <2>3, Typed DEF SenderInv, InTime, Armed
  <2>8. Recorded' BY <1>1, <2>1 DEF SenderInv, Recorded, RecordsAreTrue
  <2> QED BY <2>4, <2>5, <2>6, <2>7, <2>8 DEF SenderInv
<1> QED BY <1>2, <1>3 DEF Spawn

LEMMA ArmKeeps ==
  ASSUME SenderInv, Arm
  PROVE  SenderInv'
<1>1. /\ m.pc = "arm" /\ ~lock /\ UNCHANGED <<now, skew, stop, disk, lock, child, log>>
      /\ item' = [stage |-> 0, expired |-> FALSE, deadline |-> now + Timeout]
      /\ w' = Notified /\ Go("communicate")
  BY DEF Arm, M
<1>2. m' \in Main /\ m'.pc = "communicate" /\ m'.todo = m.todo BY <1>1, Typed, GoMoves
<1>3. w' \in Watchdog /\ w'.pc \in {"top", "gone"}
  BY <1>1, Typed, NotifiedTyped DEF SenderInv, Supervised, W
<1>4. /\ item' \in Item /\ item'.stage = 0 /\ item'.deadline = now + Timeout /\ Armed'
  <2>1. now + Timeout \in Int BY Typed, Numbers
  <2> QED BY <1>1, <2>1 DEF Item, Armed, NoItem
<1>5. SenderTypeOK' BY <1>1, <1>2, <1>3, <1>4, Typed DEF SenderTypeOK
<1>6. Supervised'
  BY <1>1, <1>2, <1>3, <1>4 DEF SenderInv, Supervised, Alive, W
<1>7. Signalled' BY <1>1, <1>2 DEF SenderInv, Signalled
<1>8. InTime'
  <2>1. now + Timeout + 2 * Grace < Deadline /\ child.born <= now BY <1>1 DEF SenderInv, InTime
  <2> QED BY <1>1, <1>2, <1>4, <2>1, Ints, Numbers DEF InTime
<1>9. Recorded' BY <1>1, <1>2 DEF SenderInv, Recorded, RecordsAreTrue
<1> QED BY <1>5, <1>6, <1>7, <1>8, <1>9 DEF SenderInv

LEMMA CommunicateKeeps ==
  ASSUME SenderInv, Communicate
  PROVE  SenderInv'
<1>1. /\ m.pc = "communicate" /\ child.pc = "exited" /\ Go("disarm")
      /\ UNCHANGED <<now, skew, stop, disk, w, item, lock, child, log>>
  BY DEF Communicate, M
<1>2. m' \in Main /\ m'.pc = "disarm" /\ m'.todo = m.todo BY <1>1, Typed, GoMoves
<1>3. SenderTypeOK' BY <1>1, <1>2, Typed DEF SenderTypeOK
<1>4. Supervised' BY <1>1, <1>2 DEF SenderInv, Supervised, Armed, Alive, W
<1>5. Signalled' BY <1>1, <1>2 DEF SenderInv, Signalled
<1>6. InTime' BY <1>1, <1>2 DEF SenderInv, InTime, Armed
<1>7. Recorded' BY <1>1, <1>2 DEF SenderInv, Recorded, RecordsAreTrue
<1> QED BY <1>3, <1>4, <1>5, <1>6, <1>7 DEF SenderInv

LEMMA DisarmKeeps ==
  ASSUME SenderInv, Disarm
  PROVE  SenderInv'
<1>1. /\ m.pc = "disarm" /\ ~lock /\ item' = NoItem /\ w' = Notified
      /\ m' = [m EXCEPT !.pc = "judge", !.expired = item.expired]
      /\ UNCHANGED <<now, skew, stop, disk, lock, child, log>>
  BY DEF Disarm, M
<1>2. m' \in Main /\ m'.pc = "judge" /\ m'.todo = m.todo /\ m'.expired = item.expired
  BY <1>1, Typed DEF Main, Item
<1>3. w' \in Watchdog /\ w'.pc \in {"top", "gone"}
  BY <1>1, Typed, NotifiedTyped DEF SenderInv, Supervised, W
<1>4. item' \in Item /\ ~Armed' BY <1>1 DEF Item, Armed, NoItem
<1>5. SenderTypeOK' BY <1>1, <1>2, <1>3, <1>4, Typed DEF SenderTypeOK
<1>6. Supervised' BY <1>1, <1>2, <1>3, <1>4 DEF SenderInv, Supervised, Alive, W
<1>7. Signalled' BY <1>1, <1>2 DEF SenderInv, Signalled
<1>8. InTime' BY <1>1, <1>2, <1>4 DEF SenderInv, InTime
<1>9. Recorded' BY <1>1, <1>2 DEF SenderInv, Recorded, RecordsAreTrue
<1> QED BY <1>5, <1>6, <1>7, <1>8, <1>9 DEF SenderInv

LEMMA RecordAdded ==
  ASSUME log \in Seq(Record), RecordsAreTrue, NEW e \in Record,
         e = [n |-> Len(log) + 1, good |-> TRUE, hit |-> FALSE], log' = Append(log, e)
  PROVE  log' \in Seq(Record) /\ Len(log') = Len(log) + 1 /\ RecordsAreTrue'
<1>1. log' \in Seq(Record) /\ Len(log') = Len(log) + 1 /\ Len(log) \in Nat OBVIOUS
<1>2. ASSUME NEW i \in DOMAIN log' PROVE log'[i] = [n |-> i, good |-> TRUE, hit |-> FALSE]
  <2>1. i \in 1 .. Len(log) + 1 BY <1>1, <1>2
  <2>2. CASE i \in 1 .. Len(log)
    <3>1. log'[i] = log[i] BY <2>2
    <3>2. i \in DOMAIN log BY <2>2
    <3>3. log[i] = [n |-> i, good |-> TRUE, hit |-> FALSE] BY <3>2 DEF RecordsAreTrue
    <3> QED BY <3>1, <3>3
  <2>3. CASE i = Len(log) + 1
    <3>1. log'[i] = e BY <2>3
    <3> QED BY <2>3, <3>1
  <2> QED BY <1>1, <2>1, <2>2, <2>3
<1> QED BY <1>1, <1>2 DEF RecordsAreTrue

\* A command that has expired is never recorded, and an unsignalled one under its own number.
LEMMA JudgeKeeps ==
  ASSUME SenderInv, Judge
  PROVE  SenderInv'
<1>1. m.pc = "judge" /\ UNCHANGED <<now, skew, stop, disk, w, item, lock, child>>
  BY DEF Judge, M
<1>2. CASE UNCHANGED log /\ Fail(IF disk /\ m.expired THEN 124 ELSE 1)
  <2>1. (IF disk /\ m.expired THEN 124 ELSE 1) \in {1, 124} OBVIOUS
  <2>2. m' \in Main /\ m'.pc = "close" /\ m'.todo = m.todo BY <1>2, <2>1, Typed, FailMoves
  <2> QED BY <1>1, <1>2, <2>2, Typed, MoveKeeps
<1>3. CASE /\ command_ok
           /\ m' = [m EXCEPT !.pc = "progress", !.todo = @ + 1]
           /\ log' = IF m.todo = 0 THEN log
                     ELSE Append(log, [n |-> child.n, good |-> child.good, hit |-> child.hit])
  <2>1. m.todo <= Count /\ child.n = m.todo /\ ~Armed /\ child.pc = "exited"
    BY <1>1 DEF SenderInv, Supervised
  <2>2. m' \in Main /\ m'.pc = "progress" /\ m'.todo = m.todo + 1
    <3>1. m.todo + 1 \in 0 .. Count + 1 BY <2>1, Ints, Numbers
    <3> QED BY <1>3, <3>1, Typed DEF Main
  <2>3. log' \in Seq(Record) /\ Recorded'
    <3>1. CASE m.todo = 0
      <4>1. log' = log BY <1>3, <3>1
      <4> QED BY <2>2, <3>1, <4>1, Typed DEF SenderInv, Recorded, RecordsAreTrue
    <3>2. CASE m.todo # 0
      <4> DEFINE e == [n |-> child.n, good |-> child.good, hit |-> child.hit]
      <4>1. log' = Append(log, e) BY <1>3, <3>2
      <4>2. ~child.hit /\ child.good /\ child.good \in BOOLEAN /\ child.hit \in BOOLEAN
        BY <1>1, <1>3, Typed DEF SenderInv, Signalled, command_ok, Command
      <4>3. child.good = TRUE /\ child.hit = FALSE BY <4>2
      <4>4. Len(log) + 1 = child.n BY <2>1, <3>2, Ints DEF SenderInv, Recorded
      <4>5. e = [n |-> Len(log) + 1, good |-> TRUE, hit |-> FALSE] BY <4>3, <4>4
      <4>6. e \in Record BY Typed DEF Command, Record
      <4> HIDE DEF e
      <4>7. log' \in Seq(Record) /\ Len(log') = Len(log) + 1 /\ RecordsAreTrue'
        BY <4>1, <4>5, <4>6, Typed, RecordAdded DEF SenderInv, Recorded
      <4>8. Len(log') = m'.todo - 1 /\ m'.todo # 0
        BY <2>1, <2>2, <4>4, <4>7, Ints
      <4> QED BY <4>7, <4>8 DEF Recorded
    <3> QED BY <3>1, <3>2
  <2>4. SenderTypeOK' BY <1>1, <2>2, <2>3, Typed DEF SenderTypeOK
  <2>5. Supervised' BY <1>1, <2>1, <2>2 DEF SenderInv, Supervised, Armed, Alive, W
  <2>6. Signalled' BY <1>1, <2>2 DEF SenderInv, Signalled
  <2>7. InTime' BY <1>1, <2>1, <2>2 DEF SenderInv, InTime, Armed
  <2> QED BY <2>3, <2>4, <2>5, <2>6, <2>7 DEF SenderInv
<1> QED BY <1>2, <1>3 DEF Judge

LEMMA ProgressKeeps ==
  ASSUME SenderInv, Progress
  PROVE  SenderInv'
<1>1. m.pc = "progress" /\ UNCHANGED <<now, skew, stop, disk, w, item, lock, child, log>>
  BY DEF Progress, M
<1>2. m' \in Main /\ m'.todo = m.todo /\ m'.pc \in {"look", "close"}
  BY Typed, GoMoves, FailMoves DEF Progress
<1> QED BY <1>1, <1>2, Typed, MoveKeeps

LEMMA CloseKeeps ==
  ASSUME SenderInv, Close
  PROVE  SenderInv'
<1>1. /\ m.pc = "close" /\ ~lock /\ w' = Notified
      /\ m' = [m EXCEPT !.pc = "join", !.closed = TRUE]
      /\ UNCHANGED <<now, skew, stop, disk, item, lock, child, log>>
  BY DEF Close, M
<1>2. m' \in Main /\ m'.pc = "join" /\ m'.todo = m.todo BY <1>1, Typed DEF Main
<1>3. w' \in Watchdog /\ w'.pc \in {"top", "gone"}
  BY <1>1, Typed, NotifiedTyped DEF SenderInv, Supervised, W
<1> QED BY <1>1, <1>2, <1>3, MoveKeeps

LEMMA JoinKeeps ==
  ASSUME SenderInv, Join
  PROVE  SenderInv'
<1>1. m.pc = "join" /\ UNCHANGED <<now, skew, stop, disk, w, item, lock, child, log>>
  BY DEF Join, M
<1>2. m' \in Main /\ m'.todo = m.todo /\ m'.pc = "finish" BY Typed, GoMoves DEF Join
<1> QED BY <1>1, <1>2, Typed, MoveKeeps

LEMMA FinishKeeps ==
  ASSUME SenderInv, Finish
  PROVE  SenderInv'
<1>1. m.pc = "finish" /\ UNCHANGED <<now, skew, stop, disk, w, item, lock, child, log>>
  BY DEF Finish, M
<1> DEFINE exit == IF ~disk THEN 1 ELSE IF m.exit = 0 /\ stop = "signal" THEN 128 ELSE m.exit
<1>2. exit \in {0, 1, 124, 125, 128} BY Typed DEF Main
<1>3. m' = [m EXCEPT !.pc = "ended", !.exit = exit] BY DEF Finish
<1> HIDE DEF exit
<1>4. m' \in Main /\ m'.todo = m.todo /\ m'.pc = "ended" BY <1>2, <1>3, Typed DEF Main
<1> QED BY <1>1, <1>4, Typed, MoveKeeps

-----------------------------------------------------------------------------
(* The watchdog.                                                           *)

\* Steps that only move the watchdog, between two of its signals.
LEMMA WatchKeeps ==
  ASSUME SenderInv, UNCHANGED <<now, skew, stop, disk, m, item, lock, child, log>>,
         w' \in Watchdog, w.pc # "signal", w'.pc # "signal",
         w'.pc = "timed" => Armed /\ w'.due = item.deadline,
         w'.pc = "idle" => ~Armed
  PROVE  SenderInv'
<1>1. SenderTypeOK' BY Typed DEF SenderTypeOK
<1>2. Supervised' BY DEF SenderInv, Supervised, Armed, Alive, W
<1>3. Signalled' /\ InTime' /\ Recorded'
  BY DEF SenderInv, Signalled, InTime, Recorded, RecordsAreTrue, Armed
<1> QED BY <1>1, <1>2, <1>3 DEF SenderInv

LEMMA WaitKeeps ==
  ASSUME SenderInv, Leave \/ Sleep \/ Nap \/ Wake
  PROVE  SenderInv'
<1>1. /\ UNCHANGED <<now, skew, stop, disk, m, item, lock, child, log>>
      /\ w.pc # "signal"
  BY DEF Leave, Sleep, Nap, Wake, Overdue, W
<1>2. CASE \/ w' = [w EXCEPT !.pc = "gone"] \/ w' = [w EXCEPT !.pc = "nap"]
           \/ w' = [w EXCEPT !.pc = "top"]
  <2>1. w' \in Watchdog /\ w'.pc \in {"gone", "nap", "top"} BY <1>2, Typed DEF Watchdog
  <2> QED BY <1>1, <2>1, WatchKeeps
<1>3. CASE ~Armed /\ w' = [w EXCEPT !.pc = "idle"]
  <2>1. w' \in Watchdog /\ w'.pc = "idle" BY <1>3, Typed DEF Watchdog
  <2> QED BY <1>1, <1>3, <2>1, WatchKeeps
<1>4. CASE Armed /\ w' = [pc |-> "timed", due |-> item.deadline]
  <2>1. item.deadline \in Nat
    BY <1>4, Ints, SMTT(30) DEF SenderInv, InTime
  <2>2. w' \in Watchdog /\ w'.pc = "timed" /\ w'.due = item.deadline
    BY <1>4, <2>1 DEF Watchdog
  <2> QED BY <1>1, <1>4, <2>2, WatchKeeps
<1> QED BY <1>2, <1>3, <1>4 DEF Leave, Sleep, Nap, Wake, Armed

\* A command is overdue only while the main thread waits for it.
LEMMA OverdueKnown ==
  ASSUME SenderInv, Overdue, child.pc = "running"
  PROVE  /\ Armed /\ m.pc = "communicate" /\ child.n = m.todo
         /\ item.stage \in 0 .. 2 /\ now = item.deadline /\ now >= child.born + Timeout
<1>1. Armed /\ m.pc = "communicate" /\ child.n = m.todo /\ item.stage \in 0 .. 2
  BY DEF SenderInv, Supervised, Overdue, Armed
<1>2. now >= item.deadline /\ now <= item.deadline /\ item.deadline >= child.born + Timeout
  BY <1>1 DEF SenderInv, InTime, Overdue
<1> QED BY <1>1, <1>2, Ints, Numbers

LEMMA ExpireKeeps ==
  ASSUME SenderInv, Expire
  PROVE  SenderInv'
<1>1. /\ Overdue /\ child.pc = "running" /\ item.stage < 2
      /\ item' = [stage |-> item.stage + 1, expired |-> TRUE, deadline |-> now + Grace]
      /\ w' = [w EXCEPT !.pc = "signal"] /\ lock' = TRUE
      /\ UNCHANGED <<now, skew, stop, disk, m, child, log>>
  BY DEF Expire
<1>2. /\ Armed /\ m.pc = "communicate" /\ child.n = m.todo
      /\ item.stage \in 0 .. 2 /\ now = item.deadline /\ now >= child.born + Timeout
  BY <1>1, OverdueKnown
<1>3. /\ item'.stage = item.stage + 1 /\ item'.stage \in 0 .. 2 /\ item'.expired
      /\ item'.deadline = now + Grace /\ item' \in Item /\ Armed'
  <2>1. item.stage \in {0, 1} BY <1>1, <1>2
  <2>2. item.stage + 1 \in {1, 2} BY <2>1
  <2>3. now + Grace \in Int BY Typed, Numbers
  <2>4. item' = [stage |-> item.stage + 1, expired |-> TRUE, deadline |-> now + Grace]
    BY <1>1
  <2> QED BY <2>2, <2>3, <2>4 DEF Item, Armed, NoItem
<1>5. w' \in Watchdog /\ w'.pc = "signal" BY <1>1, Typed DEF Watchdog
<1>6. SenderTypeOK' BY <1>1, <1>3, <1>5, Typed DEF SenderTypeOK
<1>7. Supervised'
  BY <1>1, <1>2, <1>3, <1>5 DEF SenderInv, Supervised, Alive, W
<1>8. Signalled' BY <1>1, <1>2, <1>3 DEF SenderInv, Signalled
<1>9. InTime'
  <2>1. item.deadline + (2 - item.stage) * Grace < Deadline /\ child.born <= now
    BY <1>2 DEF SenderInv, InTime
  <2>2. now + Grace + (2 - (item.stage + 1)) * Grace < Deadline
    <3>1. CASE item.stage = 0 BY <1>2, <2>1, <3>1, Ints, Numbers
    <3>2. CASE item.stage = 1 BY <1>2, <2>1, <3>2, Ints, Numbers
    <3> QED BY <1>1, <1>2, <3>1, <3>2
  <2>3. now <= now + Grace /\ now + Grace >= child.born + Timeout
    BY <1>2, Ints, Numbers
  <2> QED BY <1>1, <1>2, <1>3, <2>1, <2>2, <2>3 DEF InTime
<1>10. Recorded' BY <1>1 DEF SenderInv, Recorded, RecordsAreTrue
<1> QED BY <1>6, <1>7, <1>8, <1>9, <1>10 DEF SenderInv

LEMMA SignalKeeps ==
  ASSUME SenderInv, Signal
  PROVE  SenderInv'
<1>1. /\ w.pc = "signal" /\ Alive
      /\ child' = [child EXCEPT !.hit = @ \/ child.pc = "running"]
      /\ w' = [w EXCEPT !.pc = "top"] /\ lock' = FALSE
      /\ UNCHANGED <<now, skew, stop, disk, m, item, log>>
  BY DEF Signal, W
<1>2. Armed /\ item.expired /\ m.pc \in {"communicate", "disarm"}
  BY <1>1 DEF SenderInv, Supervised, W, Alive
<1> DEFINE hit == child.hit \/ child.pc = "running"
<1>3. hit \in BOOLEAN /\ child' = [child EXCEPT !.hit = hit] BY <1>1, Typed DEF Command
<1> HIDE DEF hit
<1>4. /\ child' \in Command /\ child'.pc = child.pc /\ child'.n = child.n
      /\ child'.born = child.born
  BY <1>3, Typed DEF Command
<1>5. w' \in Watchdog /\ w'.pc = "top" BY <1>1, Typed DEF Watchdog
<1>6. SenderTypeOK' BY <1>1, <1>4, <1>5, Typed DEF SenderTypeOK
<1>7. Supervised' BY <1>1, <1>2, <1>4, <1>5 DEF SenderInv, Supervised, Armed, Alive, W
<1>8. Signalled' BY <1>1, <1>2 DEF SenderInv, Signalled
<1>9. InTime' BY <1>1, <1>2, <1>4 DEF SenderInv, InTime, Armed
<1>10. Recorded' BY <1>1 DEF SenderInv, Recorded, RecordsAreTrue
<1> QED BY <1>6, <1>7, <1>8, <1>9, <1>10 DEF SenderInv

\* The watchdog gives the harness up, and may kill the command first.
LEMMA AbandonKeeps ==
  ASSUME SenderInv, FatalHang \/ WatchdogFails
  PROVE  SenderInv'
<1>1. /\ Overdue /\ child.pc = "running"
      /\ UNCHANGED <<now, skew, stop, disk, w, item, lock, log>>
      /\ Abandon(124) \/ Abandon(125)
      /\ child' = child \/ child' = [child EXCEPT !.hit = TRUE]
  BY DEF FatalHang, WatchdogFails
<1>2. m' \in Main /\ m'.pc = "exited" /\ m'.todo = m.todo
  <2>1. PICK code \in {124, 125} : m' = [m EXCEPT !.pc = "exited", !.exit = code]
    BY <1>1 DEF Abandon
  <2> QED BY <2>1, Typed DEF Main
<1>3. Armed /\ m.pc = "communicate" BY <1>1, OverdueKnown
<1>4. child' \in Command /\ child'.born = child.born BY <1>1, Typed DEF Command
<1>5. SenderTypeOK' BY <1>1, <1>2, <1>4, Typed DEF SenderTypeOK
<1>6. Supervised' BY <1>1, <1>2, <1>3, <1>4 DEF SenderInv, Supervised, Armed, Alive, W
<1>7. Signalled' BY <1>1, <1>2 DEF SenderInv, Signalled
<1>8. InTime' BY <1>1, <1>2, <1>3, <1>4 DEF SenderInv, InTime, Armed
<1>9. Recorded' BY <1>1, <1>2 DEF SenderInv, Recorded, RecordsAreTrue
<1> QED BY <1>5, <1>6, <1>7, <1>8, <1>9 DEF SenderInv

-----------------------------------------------------------------------------
(* The surroundings, and the specification.                                *)

LEMMA ExitsKeeps ==
  ASSUME SenderInv, Exits
  PROVE  SenderInv'
<1>1. PICK good \in BOOLEAN : child' = [child EXCEPT !.pc = "exited", !.good = good]
  BY DEF Exits
<1>2. /\ child.pc = "running" /\ UNCHANGED <<now, skew, stop, disk, m, w, item, lock, log>>
  BY DEF Exits
<1>3. /\ child' \in Command /\ child'.pc = "exited" /\ child'.n = child.n
      /\ child'.born = child.born /\ child'.hit = child.hit
  BY <1>1, Typed DEF Command
<1>4. SenderTypeOK' BY <1>2, <1>3, Typed DEF SenderTypeOK
<1>5. Supervised' BY <1>2, <1>3 DEF SenderInv, Supervised, Armed, Alive, W
<1>6. Signalled' /\ InTime' /\ Recorded'
  BY <1>2, <1>3 DEF SenderInv, Signalled, InTime, Recorded, RecordsAreTrue, Armed
<1> QED BY <1>4, <1>5, <1>6 DEF SenderInv

LEMMA OutsideKeeps ==
  ASSUME SenderInv, UNCHANGED <<now, m, w, item, lock, child, log>>,
         skew' \in Int, stop' \in {"none", "signal", "file"}, disk' \in BOOLEAN
  PROVE  SenderInv'
<1>1. SenderTypeOK' BY Typed DEF SenderTypeOK
<1>2. Supervised' /\ Signalled' /\ InTime' /\ Recorded'
  BY DEF SenderInv, Supervised, Signalled, InTime, Recorded, RecordsAreTrue, Armed, Alive, W
<1> QED BY <1>1, <1>2 DEF SenderInv

LEMMA SkewTyped ==
  ASSUME ClockAdjusted
  PROVE  skew' \in Int
<1>1. Skew \in Nat /\ skew' \in -Skew .. Skew BY DEF ClockAdjusted
<1> QED BY <1>1

\* Time passes only up to the watchdog's deadline.
LEMMA TickKeeps ==
  ASSUME SenderInv, Tick
  PROVE  SenderInv'
<1>1. /\ m.pc = "communicate"
      /\ w.pc = "idle" \/ (w.pc = "timed" /\ now < w.due)
      /\ now' = now + 1
      /\ UNCHANGED <<skew, stop, disk, m, w, item, lock, child, log>>
  BY DEF Tick, M, W
<1>2. Armed /\ now < item.deadline BY <1>1 DEF SenderInv, Supervised, W
<1>3. now' \in Nat /\ now' <= item.deadline BY <1>1, <1>2, Ints
<1>4. SenderTypeOK' BY <1>1, <1>3, Typed DEF SenderTypeOK
<1>5. Supervised' BY <1>1, <1>2 DEF SenderInv, Supervised, Armed, Alive, W
<1>6. InTime'
  <2>1. child.born <= now' BY <1>1, Ints DEF SenderInv, InTime
  <2>2. /\ item.deadline >= child.born + Timeout
        /\ item.deadline + (2 - item.stage) * Grace < Deadline
    BY <1>2 DEF SenderInv, InTime
  <2>3. m'.pc = "communicate" /\ item' = item /\ child' = child BY <1>1
  <2> QED BY <1>3, <2>1, <2>2, <2>3 DEF InTime
<1>7. Signalled' /\ Recorded'
  BY <1>1 DEF SenderInv, Signalled, Recorded, RecordsAreTrue
<1> QED BY <1>4, <1>5, <1>6, <1>7 DEF SenderInv

LEMMA InitHolds ==
  ASSUME Init
  PROVE  SenderInv
<1>1. PICK first \in {0, 1} :
        m = [pc |-> "start", todo |-> first, expired |-> FALSE, closed |-> FALSE, exit |-> 0]
  BY DEF Init
<1>2. /\ now = 0 /\ skew = 0 /\ stop = "none" /\ w = [pc |-> "top", due |-> 0]
      /\ item = NoItem /\ child = NoChild /\ log = <<>>
  BY DEF Init
<1>3. disk \in BOOLEAN /\ lock \in BOOLEAN BY Zenon DEF Init
<1>4. ~lock BY DEF Init
<1>5. m \in Main
  <2>1. first \in 0 .. Count + 1 BY Numbers
  <2> QED BY <1>1, <2>1 DEF Main
<1>6. w \in Watchdog /\ item \in Item /\ child \in Command /\ ~Armed
  BY <1>2 DEF Watchdog, Item, Command, NoItem, NoChild, Armed
<1>7. log \in Seq(Record) /\ Len(log) = 0 /\ DOMAIN log = {} BY <1>2
<1>8. SenderTypeOK BY <1>2, <1>3, <1>5, <1>6, <1>7 DEF SenderTypeOK
<1>9. m.pc = "start" /\ m.todo \in {0, 1} /\ child.pc = "none" /\ child.born = 0 /\ w.pc = "top"
  BY <1>1, <1>2 DEF NoChild
<1>10. Supervised BY <1>4, <1>6, <1>9 DEF Supervised, W
<1>11. Signalled /\ InTime BY <1>2, <1>6, <1>9 DEF Signalled, InTime
<1>12. Recorded BY <1>7, <1>9 DEF Recorded, RecordsAreTrue
<1> QED BY <1>8, <1>10, <1>11, <1>12 DEF SenderInv

LEMMA StepKeeps ==
  ASSUME SenderInv, [Next]_vars
  PROVE  SenderInv'
<1>1. CASE MainStep
  BY <1>1, StartKeeps, LookKeeps, SpawnKeeps, ArmKeeps, CommunicateKeeps, DisarmKeeps, JudgeKeeps,
     ProgressKeeps, CloseKeeps, JoinKeeps, FinishKeeps
  DEF MainStep
<1>2. CASE WatchdogStep
  BY <1>2, WaitKeeps, ExpireKeeps, SignalKeeps, AbandonKeeps DEF WatchdogStep
<1>3. CASE StopRequested \/ DiskFills \/ ClockAdjusted \/ UNCHANGED vars
  <2>1. UNCHANGED <<now, m, w, item, lock, child, log>>
    BY <1>3 DEF StopRequested, DiskFills, ClockAdjusted, vars
  <2>2. skew' \in Int
    BY <1>3, SkewTyped, Typed DEF StopRequested, DiskFills, vars
  <2>3. stop' \in {"none", "signal", "file"}
    BY <1>3, Typed DEF StopRequested, DiskFills, ClockAdjusted, vars
  <2>4. disk' \in BOOLEAN
    BY <1>3, Typed, Zenon DEF StopRequested, DiskFills, ClockAdjusted, vars
  <2> QED BY <2>1, <2>2, <2>3, <2>4, OutsideKeeps
<1> QED BY <1>1, <1>2, <1>3, ExitsKeeps, TickKeeps DEF Next

-----------------------------------------------------------------------------
(***************************************************************************)
(* What the main thread and the watchdog know of the command, of each      *)
(* other and of the time left holds throughout the session (run_session,   *)
(* _watch_loop).                                                           *)
(***************************************************************************)
THEOREM SenderHolds == Spec => []SenderInv
  BY InitHolds, StepKeeps, PTL DEF Spec

(***************************************************************************)
(* The i-th success record is that of the i-th colour, and of a command    *)
(* that ended by itself, well, and unsignalled (successes.bin).            *)
(***************************************************************************)
THEOREM RecordsAlwaysTrue == Spec => []RecordsAreTrue
<1>1. SenderInv => RecordsAreTrue BY DEF SenderInv, Recorded
<1> QED BY <1>1, SenderHolds, PTL

(***************************************************************************)
(* No command is supervised at the UTC limit, for every timeout and grace  *)
(* and whatever happens to the wall clock: the time for all its stages was *)
(* left when it was started (stop_reason).                                 *)
(***************************************************************************)
THEOREM NeverPastDeadline == Spec => []EndsByDeadline
<1>1. ASSUME SenderInv, Alive, child.pc = "running" PROVE now < Deadline
  <2>1. CASE m.pc = "arm"
    <3>1. now + Timeout + 2 * Grace < Deadline BY <1>1, <2>1 DEF SenderInv, InTime
    <3> QED BY <1>1, <3>1, Ints, Numbers
  <2>2. CASE m.pc = "communicate"
    <3>1. /\ item.stage \in 0 .. 2 /\ now <= item.deadline
          /\ item.deadline + (2 - item.stage) * Grace < Deadline
      BY <1>1, <2>2 DEF SenderInv, Supervised, InTime
    <3> DEFINE room == (2 - item.stage) * Grace
    <3>2. room \in Nat
      <4>1. item.stage = 0 \/ item.stage = 1 \/ item.stage = 2 BY <3>1
      <4> QED BY <4>1, Numbers
    <3>3. now <= item.deadline /\ item.deadline + room < Deadline BY <3>1
    <3> HIDE DEF room
    <3>4. now \in Int /\ item.deadline \in Int /\ Deadline \in Int BY <1>1, Ints, Numbers
    <3> QED BY <3>2, <3>3, <3>4
  <2> QED BY <1>1, <2>1, <2>2 DEF SenderInv, Supervised
<1>2. SenderInv => EndsByDeadline BY <1>1 DEF EndsByDeadline
<1> QED BY <1>2, SenderHolds, PTL

(***************************************************************************)
(* A signal of the watchdog, or its kill when it cannot go on, reaches the *)
(* command it has found overdue and never its successor: the lock is held  *)
(* from the test to the signal (_watch_loop).                              *)
(***************************************************************************)
THEOREM OnlyTheOverdueSignalled == Spec => SignalsOnlyTheOverdue
<1>1. ASSUME SenderInv, [Next]_vars, child'.hit, ~child.hit
      PROVE  child.n = m.todo /\ now >= child.born + Timeout
  <2>1. CASE Signal
    <3>1. child.pc = "running" /\ Alive /\ w.pc = "signal"
      BY <1>1, <2>1, Typed DEF Signal, W, Command
    <3> QED BY <1>1, <3>1 DEF SenderInv, Supervised, W
  <2>2. CASE WatchdogFails
    <3>1. Overdue /\ child.pc = "running" BY <2>2 DEF WatchdogFails
    <3> QED BY <1>1, <3>1, OverdueKnown
  <2>3. CASE Spawn
    <3>1. child'.hit = child.hit \/ child'.hit = FALSE BY <2>3 DEF Spawn, NoChild
    <3> QED BY <1>1, <3>1
  <2>4. CASE Exits
    <3>1. child'.hit = child.hit BY <1>1, <2>4, Typed DEF Exits, Command
    <3> QED BY <1>1, <3>1
  <2>5. CASE UNCHANGED child BY <1>1, <2>5
  <2> QED
    BY <1>1, <2>1, <2>2, <2>3, <2>4, <2>5
    DEF Next, MainStep, Start, Look, Arm, Communicate, Disarm, Judge, Progress, Close, Join,
        Finish, WatchdogStep, Leave, Sleep, Nap, Expire, FatalHang, Wake, StopRequested,
        DiskFills, ClockAdjusted, Tick, vars
<1>2. SenderInv /\ [Next]_vars => [child'.hit /\ ~child.hit =>
                                      child.n = m.todo /\ now >= child.born + Timeout]_vars
  BY <1>1
<1> QED BY <1>2, SenderHolds, PTL DEF Spec, SignalsOnlyTheOverdue
===============================================================================
