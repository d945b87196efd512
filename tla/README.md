# Verification of the Deharrak LED driver

This directory holds TLA+ models of the driver in this repository: the PRU firmware that makes the
WS2812 waveform, the kernel helper that gives it a quiet bus, the commands `dld-init`, `dld-send` and
`dld-udp` around them, the script that hands a board over to them, and the tools that prepare a board,
exercise and load it, and judge what it sends. TLC checks the models on small
instances, and TLAPS proves the central theorems for every value of the constants.

To repeat the work, run in this directory, for every row of the table of runs below,
`tlc -config <cfg> <module>`, and `tlapm <module>` for every module whose name ends in `_proofs`.

## 1. The system

One frame is one colour on every LED. It travels

    client -> dld-udp / dld-send -> ioctl -> kernel helper <-> mailbox in PRU RAM <-> PRU firmware -> pins

| Component | Source | State it keeps | Operations |
|---|---|---|---|
| Mailbox | `include/dld_abi.h` | magic, status, detail, sequences, gate words, layout, colour | shared memory; every word has one writer at a time |
| PRU firmware | `pru/ws2812_uniform.p` | program counter, last sequence (r3), colour (r4), pins | boot, poll, accept, per bank announce/gate/stream/report, complete, fatal |
| Kernel helper | `kernel/dld_quiet_main.c`, `dld_admission.h`, `dld_quiet_spin.S` | the call in progress, CPSW command-idle bit, interrupt mask | `perform_send`: validate, publish, wait for the gate, admit, run a bank, final wait, failure cleanup |
| dld-init | `src/dld_init.c`, `src/dld_hw.c` | none of its own | stop cores, invalidate, configure pins, publish the block, start, wait for READY, clean up |
| Shared sender | `src/dld_sender.c`, `src/dld_send.c` | descriptors, mapping, `faulted` | open, send, close |
| Command lock | `src/dld_common.c` | an exclusive `flock` | taken without waiting by every command and every send |
| dld-udp | `src/dld_udp.c`, `src/dld_flash.c`, `src/dld_opc.c` | batch, flash, activity clock, ready flag | receive a batch, choose a frame, send, poll |
| Trial handover | `tools/trial-remote.py` | deployment lock, identities of running commands | stop receivers and LEDscape, swap the helper, init, start a receiver |
| Board preparation | `tools/bench_prepare.py` | the state file; CPU frequency policy and LED triggers in sysfs | apply, restore |
| Bench sender | `tools/bench_sender.py` | the running command, stop requests, journal and progress | a main thread that runs one command after another, a watchdog thread that stops those overdue |
| Soak supervisor | `tools/bench_soak.py` | the phase: its processes, captures, errors; status files | per phase: start a bench sender and perhaps a load over ssh, capture and analyse in chunks, stop and reap both, retrieve the journal |
| Paced tools | `tools/bench_udp_load.py`, `tools/bench_storage_load.py`, `tools/exercise_panels.py` | token bucket; ring offset and due time; due time and panels sent to | load the network, load the storage, send colours to several panels |
| Captured case | `tools/bench_matrix.py`, `tools/bench_capture.py` | a capture process and its stop and ready files | arm, send, stop, analyse, judge |
| Capture checker | `tools/analyze_capture.py` | none | a pure function of six channels and the arguments |
| Other tools | `tools/`, `kernel/audit_quiet.py` | files | build, audit, package |

### How the components interact, and what is hard

* Firmware and helper share words without a lock. The helper reads them one by one, in bursts with
  interrupts off, while the firmware goes on; each tests the other's words before it acts. Order of
  stores and torn reads are the hazards.
* The helper shares the interconnect with other bus masters. It can pause CPSW and mask interrupts, and
  can only look at the others. The window in which a bank is granted must be quiet from its last test
  until the firmware reports, and a failure inside must stop the firmware before the window ends.
* Commands share the block through the lock. Any of them can be signalled or killed at any point; a
  process killed inside the ioctl lives, with its lock, until the ioctl returns.
* A core that does not stop in time has an access pending that may land later.
* dld-udp must not sleep through a signal, must not be starved of sending by traffic, and chooses flash
  frames by a clock that runs while sends block.
* The handover kills nothing by force, so receivers stop late or never, and a supervisor may start new
  ones between any two of its looks at `/proc`. A receiver whose frame failed has lost the session before
  it ends, and looks ready until then.
* The preparation may be killed between two of its settings, and so may the restore.
* The bench sender's threads share the running command: it may end between the watchdog's look at it
  and the signal, a wake-up may be lost, and the disk may fill while a command hangs.
* The soak supervisor only sees the local end of what it runs on the board. Link, sender, load and disk
  fail between any two of its looks, and every one of its waits may run into its limit; all limits
  together must fit into the reserve before the deadline, which is on a clock that can be adjusted.
* The paced tools share their host with everything else and may be held up between any two steps; what
  was missed must not be made up for in a burst.
* A capture starts and ends anywhere in the stream. The checker must tell what the cut explains from
  what the driver did wrong. The handler that stops a capture after a failure may fail like the code
  it guards.

### What makes each component correct

* Firmware and helper: the waveform is generated only inside a protected window, the bank streamed is
  the awaited one of the request in progress, and success means every configured bank was sent.
* Helper: a failed frame leaves no session, and CPSW always runs again or its failure is reported.
* Commands: whoever works under the lock holds it; sessions change only between frames; each exit code
  keeps its promise about the session and the picture.
* dld-udp: the LEDs show the newest colour; flashes are whole, due and give way to clients.
* Handover: output is taken only from stopped receivers; "ready" means a serving receiver, which can have
  lost its session only by a failed frame of its own; the deployment lock is given back.
* Preparation: a restore always brings back the settings of before, however often either was cut short.
* Bench sender: only overdue commands are signalled, only successes are recorded as such, and the run
  ends before its wall-clock limit.
* Soak supervisor: it leaves nothing running that it has not asked to stop, reports a pass only for what
  ran, ended well and was analysed, and ends by the deadline.
* Paced tools: the rate, the rest and the frame interval hold on every host.
* Captured case and checker: a passed case was exact; no false alarm; no fault unnoticed.

## 2. Modules

| Module | Models | Correspondence |
|---|---|---|
| `DldMailbox` | `dld_abi.h` and the tests on a block | `Mailbox` is `struct dld_command`; `CheckMailbox`, `Validate`, `InitReady` are `dld_check_mailbox`, `validate` and the loop of `wait_ready` |
| `Ws2812Uniform` | the firmware | one action for each mailbox access between which the ARM side can act; labels are those of the assembler source |
| `DldQuiet` | the helper's ioctl and the bus | `k` is the call (`struct dld_quiet_send` and the locals), `hw` the bus masters; each read of `wait_gate` and each store of the publication is a step |
| `QuietFrame` | both, with `dld-init` as the maker of sessions and an environment of DMA, CPSW and clock | the composition; `Next` is firmware, helper, init or environment; `dld-init` may be killed after each of its steps, and `pru.taken` records that one has disabled the core since the firmware was last started |
| `FrameService` | what a frame promises a sender | abstract specification: begin, light a bank, succeed, fail, refuse, finish |
| `DldSession` | `dld-init`, `dld-send`, attached senders, lock, signals, SIGKILL | `p[x]` is a process; the helper's part of a call is `FrameService` |
| `DldUdp` | the receiver and its flashes | `u` holds the locals of `main`, `clock` the ages of its timestamps, in a unit finer than the milliseconds of `poll`, `past` is history for the properties |
| `DldTrial` | `trial-remote.py` | one action for each command `swap` runs and each poll of its waits; a receiver knows the session it attached to, and may lose it by a failed frame |
| `BenchPrepare` | `bench_prepare.py` | one action for each sysfs write of `apply` and `restore`, killed anywhere |
| `BenchSender` | `bench_sender.py` | `m` is the main thread in `run_session` and `CommandRunner.run`, `w` the watchdog in `_watch_loop`; a step is a stretch under the condition variable's lock or between two waits |
| `BenchSoak` | `bench_soak.py` | `s` is the supervisor with its `phase_state`, `p` the sender and the load, each with its local and its far end; one action for each worker, look and step of `stop_phase` |
| `BenchHost` | the host of the paced tools | clock, stop request, disk; changes between any two steps of a tool |
| `UdpLoad` | `bench_udp_load.py` | `udp` holds the locals of `run_load`; tokens are counted in ticks, so that they are integers |
| `StorageLoad` | `bench_storage_load.py` | `storage` holds the locals of `run_load`, one action for each write and fsync |
| `PanelExercise` | `exercise_panels.py` | `panel` holds the locals of `run_exercise`; sending to one panel is an action |
| `CaptureCheck` | `analyze_capture.py`, mode `dld` | operators: frames of a channel, violations of a channel and of the banks; a channel is a function of its bursts, so that no definition recurses |
| `BenchCapture` | `bench_matrix.run_case`, `bench_capture.py`, a driver that may go wrong once | `m` is `run_case`, `c` the capture process, `d` the driver; `d.sent` has a slot for each bank sent, with a burst for each pin; the verdict is that of `CaptureCheck` |
| `MC...` | constants for TLC | sets of layouts, symmetry |
| `QuietFrameInv` | the inductive invariants of the frame | used by its proofs |
| `..._proofs` | theorems | see section 5 |

`FrameService` joins the levels. `QuietFrame` implements it, which is checked (run `quiet_frame`, property
`ImplementsService`) and proved. `DldSession` is written on top of it: the helper's part of a call there is
its actions, and that commands change a session only between two calls is a property of the commands,
`FrameIsUninterrupted`. `DldUdp` in turn uses one send as one step that succeeds or fails, and `DldTrial`
uses a receiver as a process that binds, attaches, becomes ready, may lose its session by a failed frame,
and ends, and the preparation as a step that succeeds or fails; `BenchSender` uses `dld-send` as a child
process that may exit at any time, or never.
`BenchSoak` in turn uses the bench sender and the loads as processes that end well, end badly or never
end, and a capture and its analysis as workers with a limit; `BenchCapture` models those two.

## 3. What the runs check

| Run | Module, cfg | States | What it shows |
|---|---|---|---|
| `quiet_frame` | `MCQuietFrame`, `MCQuietFrame.cfg` | 545,000 | when the waveform may be generated; what success and failure mean; guards agree; refinement of `FrameService` |
| `quiet_live` | `MCQuietFrame`, `MCQuietLive.cfg` | 45,000 | every ioctl returns |
| `session` | `MCDldSession`, `MCDldSession.cfg` | 338,000 | lock, exit codes, sessions under signals and kills |
| `session_live` | `MCDldSession`, `MCSessionLive.cfg` | 8,600 | the lock is always given back |
| `udp` | `DldUdp`, `MCDldUdp.cfg` | 753,000 | newest colour, whole and due flashes, earned readiness, no busy polling; signals stop the receiver, colours are sent under continuous traffic, silence is noticed |
| `trial` | `MCDldTrial`, `MCDldTrial.cfg` | 1,084,000 | order of the takeover, meaning of "ready" |
| `trial_live` | `MCDldTrial`, `MCTrialLive.cfg` | 10,000 | a handover that fails leaves no receiver running, and every one gives the deployment lock back |
| `bench_sender` | `BenchSender`, `MCBenchSender.cfg` | 55,000 | who is signalled, what is recorded, that the run ends, and in time |
| `bench_prepare` | `BenchPrepare`, `MCBenchPrepare.cfg` | 75,000 | restore recovers from any interruption of apply and of itself |
| `bench_soak` | `BenchSoak`, `MCBenchSoak.cfg` | 990,000 | what the supervisor leaves behind and reports, that its cleanup fits into its reserves, and that it ends |
| `bench_tools` | `MCBenchTools`, `MCBenchTools.cfg` | 2,900,000 | no paced tool catches up in a burst, sends after it was stopped, or ends without its last duty |
| `bench_capture` | `MCBenchCapture`, `MCBenchCapture.cfg` | 1,375,000 | no passed case that was not exact, no false alarm, no fault unnoticed |

The runs found no disagreement between the code and its documents.

Every property has a mutant: a definition next to the one it replaces, marked `A mutant`, that changes
the model as a plausible bug would (a store in another order, a dropped test, a lock released early).
Under the mutant TLC finds the property violated; no specification uses these definitions.

### Bounds

* `SeqMod` 3 (2 for liveness): sequences modulo 2^32 in the code. Three values tell the previous, the
  current and the next frame apart and wrap within a few frames. `MaxTries` 2: one refused attempt and
  one more, of the 10,000 or 200 in the code; the last attempt and the one before it are all that the
  code distinguishes.
* Layouts `{}`, `{2}`, `{1,3}`, `{1,2,3}`: no bank, a single one, a gap, all three. Two colours, one of
  them black.
* One `dld-init` and two senders: a holder of the lock, a rival and a command that replaces the session
  between two frames. Clients are symmetric.
* `Half` 2 and `Idle` 5 ticks: a flash with a level between black and full on each side, and
  `2 * Half < Idle` as in the code. A millisecond is `Milli` 2 ticks, where the code's clock has a million
  in one, and `Cap` 1 ms: a time left of one tick is less than `poll` can wait for, so it matters which way
  `idle_wait_ms` rounds. Ages saturate one tick beyond the last value a test can tell apart.
  `Batch` 2 and `Room` 2 of 64 and a socket buffer: enough for a replaced colour and for a batch that
  ends with datagrams left.
* Two launchers and three receivers: an earlier receiver, a supervised one and the launcher's own.
* Bench sender: `Timeout` 2, `Grace` 1, `Deadline` 8 ticks, `Count` 2 commands, `Skew` 1: `dld-init` and
  two sends, of which the last may start in the tick before the reserve is used up and then be
  terminated, killed and given up; the wall clock is set forward and back in between.
* Preparation: three frequencies and two LEDs, so that a policy lies below the frequency applied,
  reaches it or is fixed at it, and one LED is changed while the other is not yet.

* Soak: a tick is 5 s, so `Overhead`, `Analysis`, `Io`, `Reap`, `Retrieve`, `Kill` and `Reserve` are the
  code's 90, 120, 20, 15, 60, 5 and 180 s. Two phases of 3 ticks with chunks of at most 2, and a deadline
  of 82 ticks: one phase with a late failure uses up what the second would need, one without leaves room.
* Paced tools: the clock runs to `Horizon` 12, in ticks: enough for two hold-ups of the UDP load with a
  full bucket each, for a ring of two blocks that wraps, and for three frames of two panels. Each tool
  runs alone, so `MCBenchTools` is the union of three models; the clock stands still before the tool
  first reads it and after its end.
* Capture: time is counted in pixels, with strings of one and two pixels, `Separator` 2, `MinReset` 3,
  `Settle` 4 and `BankGap` 2, at which one bank may be sent in place of another without two bursts of a
  pin becoming one. Four layouts: one bank with two pins, two banks with two lengths in one of them, three
  banks, and a panel whose strings are all disabled. Two commands in a case and three in a stream a chunk
  is cut out of: the one that goes wrong has one before and one after it. A cut lies at any pixel.

### Fairness

* Helper: the ioctl's steps are weakly fair, because none of them waits for anything else: every wait
  is a bounded loop. Firmware, clock and bus masters are not fair at all.
* Commands: a command that holds the lock is scheduled, and a call returns (`quiet_live`). Nobody has to
  start a command.
* Receiver: it is scheduled, sends return (`session_live`) and time passes. Datagrams and signals may
  never come, or come for ever.
* Handover: launchers run, so every command `swap` runs returns, as it expects of them; and a receiver that
  was sent SIGTERM, or whose frame failed, ends at last. Both are assumed in `trial_live` only: without
  them a launcher waits for its command, and reports receivers that do not stop.
* Bench sender: both threads are scheduled and time passes. Commands need not end of themselves.
* Soak supervisor: it is scheduled. Every wait of it has a limit, so nothing is assumed of its processes.
* Paced tools and captures: no liveness is claimed.

## 4. Assumptions

* `SettleOutlastsRead` (`QuietFrame`): the firmware holds the data lines low for at least 400 us after
  the last bank, longer than the masked burst of four reads in `wait_gate`. This is real time, which the
  model does not have, so it is a conjunct of the firmware's step. The theorems about the request rest on
  it: without it a status read before the hold could be paired with the completion written after it.
* The environment never starts DMA while the helper has CPSW paused, interrupts masked and the engines'
  clocks found idle: `other_dma_idle` says that no thread or callback can submit work in between. What is
  checked is the time up to there: a bus master may wake between any two tests of the helper until the
  test behind the mask.
* `UsableSessionIsWaiting`, a part of `SessionIsSound`, names the two exceptions: both need a `dld-init`
  that was killed. One killed after it disabled the cores and before it erased the old session leaves that
  session's READY or DONE; one killed between the first word of a new block and its status leaves what the
  old block had there. In both the core is disabled. design-decisions.md, item 5, accepts a stopped PRU with
  an apparently ready block: the next send finds no firmware at its gate, times out and withdraws the
  session.
* The PRUSS clock stays on in `DldSession`; `QuietFrame` lets it fail.
* After the refused unlock of a successful send the sender reports a prerequisite error although the
  frame was shown; the model has this outcome, as the code does.
* `DldTrial`: a signal sent right after the identity test reaches the process that was tested, and a
  launcher dies between two of its commands. A failed frame withdraws the session, or the receiver ends
  with the session standing, where the cleanup could not reach the mailbox.
* `BenchSender`: code takes no time against the timeouts, which are seconds: a tick passes only while the
  main thread waits for its command and the watchdog waits. A signalled command may live
  on, as an uninterruptible one does; the code's `fatal_hang` is there for those.
* `BenchSoak`: only waits take time; a worker takes the least or the most it can. A process that was
  killed is gone within the 5 s the code waits for it. One exception is stated by `NothingIsAbandoned`
  as the code has it: a load whose ssh is already gone is not asked to stop over a second ssh.
  `ReserveAssumption` says what the code's 180 s are for: `Reserve` covers two requests to stop (`Io`), two
  waits for an ssh to end (`Reap`), one retrieval and ten waits after a kill. The code's constants meet it
  with equality.
* `BenchHost`: the clock is monotonic, and a stop request stays.
* `BenchCapture`: the driver goes wrong at most once, in one of the ways of `Stray`. Without a cycle of
  colours or an expected count, a command that is lost, or repeated by an only bank, leaves a correct
  stream behind, and the property says so. Some ways are left out, because no capture could show them or
  they are another way by a different name: every command of a run with its banks in the same rotated
  order; the only string of the panel in a wrong colour where any colour is allowed; a string alone in its
  bank late (the bank's gap) or silent (the bank left out). A bank is replaced by another only where
  `BankGap` keeps the bursts of a pin at least `Separator` apart.
* `DriverAssumption` and `ResetAssumption`: the driver settles after a command for at least the reset the
  checker is told to expect, and `Separator` lies between a pixel and `MinReset`, outside of which the
  checker refuses its options. Layouts are any lengths of the six strings.
* `BenchPrepare`: one state file; cpufreq refuses a minimum above the maximum; an LED with a trigger has
  its brightness driven by it.

## 5. What is proved

| Theorem | Module | Statement |
|---|---|---|
| `GuardsAlwaysAgree`, `ReadyIsUsable`, `StaleCallerRefused`, `NextSeqIsNew` | `QuietFrame_proofs` | facts about the guards, for any block and any modulus |
| `TypeCorrect` | `QuietFrame_proofs` | types of the frame's state |
| `StreamsQuietly` | `QuietFrame_proofs` | the waveform is generated only in a quiet window |
| `FailuresWithdraw` | `QuietFrame_proofs` | a failed frame with a complete cleanup leaves no session and low pins |
| `CpswIsAccountedFor` | `QuietFrame_proofs` | CPSW runs again or the failure is reported |
| `SessionAlwaysSound` | `QuietFrame_proofs` | a session that looks usable is admitted, and its firmware waits, unless a killed `dld-init` has disabled it; no stale grant reaches it |
| `RequestFollowed` | `QuietFrame_proofs` | each bank is granted once, in order, to the firmware that awaits it for this request |
| `SuccessAlwaysSent` | `QuietFrame_proofs` | success means every bank was sent in the colour asked for |
| `FrameImplementsService` | `QuietFrame_proofs` | firmware, helper, `dld-init` and board implement `FrameService` |
| `SessionsLock`, `SessionTypeCorrect`, `LockIsExclusive` | `DldSession_proofs` | the lock protects whoever works under it |
| `FramesAreUninterrupted` | `DldSession_proofs` | no command changes a session while a frame uses it |
| `ExitsTellTheTruth` | `DldSession_proofs` | every exit code keeps its promise about the session and the picture |
| `SessionsOutliveSenders` | `DldSession_proofs` | a frame that succeeds after its sender was killed leaves a usable session |
| `NewestAlwaysShown` | `DldUdp_proofs` | the newest colour read is sent next or on the LEDs, unless a red flash has begun since |
| `PollAlwaysSleeps` | `DldUdp_proofs` | the receiver never polls with a timeout of zero, however little time is left |
| `FlashesAreWhole` | `DldUdp_proofs` | a flash is due, and shows black, the full colour and black over its whole time |
| `ReadyAlwaysEarned` | `DldUdp_proofs` | "ready" comes with the newest colour or the end of the start-up flash |
| `HandoversAreExclusive`, `TrialTypeCorrect` | `DldTrial_proofs` | the inductive invariant and types of the handover |
| `InitsFindPreparedBoard` | `DldTrial_proofs` | sessions are made on boards prepared by the same launcher |
| `OutputIsFreeWhenTaken` | `DldTrial_proofs` | output is taken only once all receivers found have stopped; a receiver takes only its own session, by a failed frame |
| `ReadyReceiversServe` | `DldTrial_proofs` | "ready" means a receiver of the launcher's own, on the launcher's own session, which stands unless a frame of that receiver has failed |
| `RestoreAlwaysRecovers` | `BenchTools_proofs` | a restore is never refused, and brings back every original setting |
| `OnlyTheOverdueSignalled` | `BenchSender_proofs` | the watchdog signals only the command it found overdue |
| `RecordsAlwaysTrue` | `BenchSender_proofs` | the i-th record is of the i-th command, which ended well and unsignalled |
| `NeverPastDeadline` | `BenchSender_proofs` | no command is supervised at the UTC limit |
| `NothingLeftBehind` | `BenchSoak_proofs` | the supervisor leaves nothing running it has not asked to stop |
| `PassesAreEarned` | `BenchSoak_proofs` | a phase is completed, or passed, only if all of it ended well and was analysed |
| `ReservesAlwaysSuffice` | `BenchSoak_proofs` | no worker lasts into the reserve, and the cleanup fits into it |
| `TrafficKeepsPace` | `BenchTools_proofs` | the UDP load keeps its rate and its bound on bursts, and stops after at most one more datagram |
| `StorageRests` | `BenchTools_proofs` | the storage rests between two blocks, and success leaves nothing that is not durable |
| `PanelsKeepPace` | `BenchTools_proofs` | every panel has its interval, and the exercise ends black |
| `CasesAreExact` | `BenchCapture_proofs` | a case that passed has ended its capture and sent exactly its commands, faultlessly, inside it; one that failed leaves its capture only if its handler failed too |
| `NoFalseAlarmHolds` | `BenchCapture_proofs` | no chunk of a correct stream, cut anywhere, has a violation but a lack of complete frames |
| `FaultsAreReportedHolds` | `BenchCapture_proofs` | a fault is reported by every capture that holds the commands around it |

The theorems hold for every value of the constants that satisfies the named assumptions: any modulus,
attempt cap, set of colours, set of layouts, any number of processes, launchers, receivers, panels, LEDs,
commands and phases, and any rate, interval, timeout, limit and length of a flash. Each module's
invariant is proved from `Init` and kept by every step; the properties of the runs follow from it.

### The frame

`StreamsOnlyInQuietWindow` is not inductive: that the firmware streams says nothing yet about where the
helper is. `QuietInv` (in `QuietFrameInv`) adds that a firmware past its gate has the helper inside the
bank window of that very bank, and that the grant is zero or belongs to that bank whenever the firmware
could see it. `CleanupInv` adds, for each label of the failure path, which of its writes have already
happened; from it `FailedFrameIsWithdrawn` and `CpswResumedOrReported` follow.

What a request means to both sides is `FrameInv`, which joins `QuietInv` with two more parts. `FirmwareInv`
is what holds at each place of the firmware's program, whatever the helper does: a block with its magic
belongs to firmware that runs or has halted itself, or a `dld-init` has disabled the core; registers and
block name one request; the gate words at each label; the banks sent so far are exactly those before the
one it is at. `CallInv` is what the helper may rely on: from validation to publication the session stays
the one validated; from publication on the block carries this request and no other, and the firmware has
either not taken it up, is at work on it or has finished it (`NotTaken`, `Finished`); until a grant the
firmware stays at its gate. A core that a killed `dld-init` disabled may still end the instruction it was
in, but takes no request up (`TakenTakesNothingUp`). `BurstIsCoherent` is where the helper's torn read is
dealt with: it reads four words one after another while the firmware goes on, and only `SettleOutlastsRead`
(section 4) keeps a status read before the hold from being paired with the completion written after it.

`FrameImplementsService` takes the refinement step by step: with `FrameInv`, every step maps to a step of
`FrameService` or changes nothing of it. Validation begins the frame, the firmware's bank steps light
banks, and the end of the call decides between success, failure and refusal.

### Commands, handover and receiver

For the commands, `LockInv` says that a process at a label between lock and unlock holds the lock, and
that a call in progress belongs to a process inside the ioctl. `Turn` describes what any step of any
process does to its label, the lock and the call, so the invariant is proved once for all of them. From
it, a process at any label where a session can be changed finds no call in progress; this gives
`FramesAreUninterrupted`. The exit codes need `SessionInv`: `Holding(x)` says what each
label under the lock knows of the block (untouched, being prepared, being cleaned), of the call and of
the exit code already chosen. Only the holder of the lock changes what it speaks of, so a step of one
process leaves the others' part alone; this includes a process killed inside the ioctl.

For the handover, `TrialInv` joins five parts. `Exclusive`: a launcher at work holds the deployment
lock. `Achieved`: what each command of the swap brought about still holds at the labels after it; the
lock keeps other launchers from undoing it. `Lived`: receivers found at work have been started, and one
that has gone does not come back, so those a launcher waited for stay gone although new ones may start.
`OnePort`: one receiver at a time has the port, so a receiver that loses a session leaves nobody else on
it. `Unharmed`: a receiver that has not attached has lost none. With these `Achieved` can follow the
launcher's receiver from its start (`OnOwnSession`): whatever session it is on is the launcher's own.

For the receiver, `Newest` and `InHand` say which colour and which flash each label of the loop has in
hand. `FlashSoFar` ties the receiver's flags to what the LEDs have shown: it counts the peak of a flash
only after its first black frame, so a flash that ends has shown all three. `SameTimes` says that the
receiver measures the same times as the history the properties speak of.

### The bench

* Preparation: the state file holds the original settings from before the first write until they are
  all back (`Recorded`), and wherever a command was killed the maximum is the recorded one or the highest
  there is, so a recorded minimum fits under it and cpufreq does not refuse it (`Acceptable`).
* Bench sender: `Supervised` says what the two threads know of the command and of each other. Its core
  is that the lock is held from the test that finds a command overdue to the signal. `InTime` keeps room
  for every stage that the command may still go through: timeout, termination and kill.
* Soak supervisor: `Truthful` says what the local end of a process tells of its far end. `Launched`,
  `Asked` and `Confirmed` say, for each label of `stop_phase`, who was started, asked to stop, reaped and
  confirmed. `Counted` and `Judged` tie the verdict to the chunks analysed. `InTime` bounds what the
  cleanup may still take (`TimeLeft`) from each of its labels.
* Paced tools: each invariant ties the next due time to what was done last. `StorageInv` says that the
  due time lies an interval after the last fsync, and that a block is begun no earlier than that.
  `PanelInv` says that it lies an interval after the last attempt at every panel, also of a frame that was
  left half sent. The `UdpInv` of `UdpLoad` needs thought: the bound on the datagrams `i .. j` is not
  inductive, because the bucket may be full when `j` is sent. `Banked` adds what the bucket holds: counted
  from any datagram, what was sent and what could be sent at once is at most one credit until the bucket
  is next refilled, and two credits plus the time since then afterwards.

### The capture checker

The three properties speak of what an analysis makes of a whole capture, so they need to know the whole
stream. `BenchInv` describes it slot by slot and pair by pair; nothing in it counts or recurses over the
stream but one cardinality, which is why no induction over data is needed.

* `StreamOrdered`: the slots sent, and the one that is due next, follow one another in time: bursts of one
  pin are at least `Separator` apart.
* `StreamRegular`: as long as nothing went wrong, every slot is `Plain` (all strings of its bank, whole
  and in one allowed colour), each slot's bank and colour follow from the one before, and the rests
  between them are those of the driver.
* `StreamCounted`: as long as nothing went wrong, every pin has had as many bursts as it was due.
* `Marked`: once something went wrong, its evidence stays. Either the slots of that command bear one of
  the `Marks` that show in any capture (a wrong length or colour, pins apart, banks that overlap, a reset
  too short), or together with the neighbouring commands they leave one of the `Traces` (banks out of
  order, banks of one command in two colours, a colour out of the cycle), and then, in a case, a pin has a
  wrong number of bursts. Each way of `Stray` has a lemma that says which evidence it leaves.
* `ProcessInv`: a capture that may count was stopped by its file, after a sender that had sent everything
  (`StopAwaited`, `SenderRests`); one is left behind only where the handler raised; a pass had a clean
  verdict (`Clean`), and a chunk's verdict is that of its cut (`Cut`).

`NoFalseAlarmHolds` then follows the checker through a regular stream: which frames a cut leaves of a
channel (`FramesOfRun`) and which of them are complete (`CompleteOfRun`), that they pass each test of a
channel (`QuietChannel`), that pins of a bank start together even where the cut takes the end of the
longer ones (`PinsAgree`), and that neighbouring events are neighbouring slots (`NextEvent`), so that they
pass each test of the banks (`QuietBanks`). `FaultsAreReportedHolds` goes the other way: a slot clear of
the cut is seen `Whole`, so its evidence is found (`EvidenceReported`, with a lemma for each kind).
`CasesAreExact` has no margin before and after the case, but it has a count: all bursts lie inside the
capture, a clean verdict leaves no mark (`NoMarks`), and as many complete frames as commands
(`CountIsExact`) leave no miscount.

### Only model-checked

* The liveness properties (`quiet_live`, `session_live`, `trial_live` and those of `udp`, `bench_sender`
  and `bench_soak`), as the proof system handles neither fairness nor ENABLED. Of `ReadyIsAnnounced` the
  safety half, `ReadyIsEarned`, is proved.
* Every invariant and every safety property of a step that a run checks is stated by a theorem.
* What recursive definitions over data compute is out of the provers' reach, as is a module with
  RECURSIVE operators; there are none.

## 6. Not modelled

* The firmware's test that a colour has no more than 24 bits: the helper refuses any other.
* Cycle counts of the waveform and of the spin loop: the models have order, not durations.
* `quiet_init` and `quiet_exit`: sequential, and the open device file pins the module.
* JSON parsing, option parsing, diagnostics and counters.
* The byte layout of OPC, colour order, bank table, time budget and the rounding of `scale_color`: pure
  functions, planned below.
* Of the capture checker: the widths of single bits, the skew of less than a pixel between pins, the
  phase of a fragment that is cut at both ends, the legacy mode and the capture's file format. They are
  numbers measured on a signal, below the resolution in which the model counts time.
* Of the bench: the list of cases of the matrix and its main loop, which stops at the first failed case;
  the arithmetic of the colours of scenes; `bench_load.c`, which only burns time and memory; the shell
  wrappers `endurance.sh` and `start-test.sh`; argument parsing and metrics.
* The build, audit and packaging scripts: sequential programs on files, nothing of which runs with the
  driver; and the third-party assembler.

## 7. Plan

Done, in this order: mailbox, firmware, helper and their composition; the abstract service; the commands;
the receiver; the handover; board preparation; the bench sender; the soak supervisor; the paced tools and
their theorems; the captured case, the capture checker and their theorems. Next:

1. Theorems: what `apply` of the preparation has achieved when it succeeds; that a handover which
   fails has stopped what it started, up to the fairness of `trial_live`.
2. Admission in detail: the order of the two passes of `other_dma_idle`, `dld_admission_wait` with its
   clock, and the cycle arithmetic of the bank budget.
3. Pure algorithms against reference definitions: colour order in userspace and kernel, bank table,
   budget, OPC decoding, `scale_color`, settling time.
