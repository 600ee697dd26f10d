# TLA+ models of CSOL-Utilities

CSOL-Utilities idles in a video game on behalf of its user. A C++ program (the
*controller*) watches the game's process and its window, recognises the scene
on the screen and publishes *commands* in a Lua file; a Lua script (the
*executor*) that runs in the mouse driver polls that file and presses keys and
mouse buttons. This directory holds TLA+ specifications of both, TLC
configurations that check them and TLAPS proofs about them. Paths below are
relative to `src/`.

## 1. The system

### 1.1 Components

| Component | State it keeps | Operations | Model |
|---|---|---|---|
| Module interface (`Controller/include/Module.hpp`) | none, an abstract class | `Boot`, `Resume`, `Suspend`, `Terminate` | `ModuleContract` (abstract) |
| Idle engine (`Controller/source/IdleEngine.cpp`) | process state and handle, game window, four flags and condition variables under `threads_state_lock_`, interface type, idle mode | the module operations, `SetIdleMode`, the watcher's loop (`Watch`), the discriminator's loop, the destructor | `IdleEngine`, `IdleEngineProofs` |
| Classifier engine (`ClassifierIdleEngine.cpp`) | interface type and its time point, session, counters of failures and errors, `in_game_state_` | `Discriminate` (one round), the two resets | `ClassifierIdleEngine`, `ClassifierIdleEngineProofs` |
| Command (`Command.cpp`) | id, type, flags, time points, `m_SpinLock` | `Set`, `Get` | `Command`, `CommandProofs` |
| Command dispatcher (`CommandDispatcher.cpp`) | two flags with condition variables, the file | the module operations, the worker's loop | `CommandDispatcher`, `CommandDispatcherProofs` |
| Driver and `wmain` (`Driver.cpp`, `Main.cpp`) | current mode, the closure that leaves it, thread id, message queue | `Boot` with the message loop, `HandleHotKey`, `Terminate`, `~Driver` | `Driver`, `DriverProofs` |
| Executor core (`Executor/core/*.lua`) | the command, its status, finished id, routine masks and stack, busy flags, pressed keys, frozen flags | the main loop, `sleep` with routines, interrupts, error handlers, every task | `Executor`, `ExecutorProofs` |
| OCR engine (`OCRIdleEngine.cpp`) | interface type and its time point, counters of errors | `Recognize`, `Analyze`, `Dispatch` (one round), the two resets | `OCRIdleEngine`, `OCRIdleEngineProofs` |
| Banner suppressor (`CSOBannerSuppressor.cpp`) | two uninitialised flags with condition variables | the module operations, a worker that looks every 5 s | `CSOBannerSuppressor`, `CSOBannerSuppressorProofs` |
| RPC server, scheduler, panel, calendar, recognition, configuration, Win32 wrappers, protocol, build | see section 7 | | not modelled |

### 1.2 How they interact

* **Driver → modules.** Two modules always, the suppressor if the command line asks
  for it. The main thread calls the module operations; they talk
  to the worker threads by a mutex, atomic flags and `notify_one`. The members
  are destroyed in the reverse order of their declaration, the dispatcher before
  the engine (`Driver.hpp:60-61`).
* **Watcher ↔ discriminator.** Two threads of the engine. The watcher lets the
  discriminator run when the game is there, and takes that back and waits for
  the end of the round when the game has exited. `WaitForSingleObjectEx` on the
  game's process has no time limit; an APC from the driver's thread ends it.
* **Engine, driver → Command → dispatcher.** Commands are set by the
  discriminator and by the main thread, read by the dispatcher, with a
  hand-written flag between them.
* **Dispatcher → executor.** A file, replaced once a second, polled every
  100 ms: commands can be skipped, read in part, read twice or found stale.
* **Executor.** One thread, but every `Runtime:sleep` of a task runs the due
  routines, which may throw the task away, freeze the devices or fail.
* **Console → driver.** Ctrl-C arrives on a thread of its own.

### 1.3 What is hard, and what makes each part correct

* *Idle engine*: flags, condition variables and waits of three threads; a round
  that ends its thread by an exception; a game that exits, fails to launch or
  exits while its window is being looked for. Correct when `Suspend` returns and
  leaves nobody in a round; when a round always has a process; when the reset
  after a reconnection is not overwritten by an older round; when an exited game
  is launched and watched again; when `Terminate` returns.
* *Command*: correct when a directive is one that was set, ids do not go back and
  no caller spins for ever.
* *Dispatcher*: correct when the current command reaches the file, a suspended
  dispatcher does not write, and NOP is the last thing written.
* *Classifier engine*: timers against resets, mode changes and reconnections in
  any order; counters over several sessions. Correct when a timer speaks of the
  interface it is used for, a load that hangs is ended where the setting says so, a
  stale room is left, and so is one in which three loads in a row failed.
* *OCR engine*: a round reads the clock before it looks at the screen and the
  interface after it; the game can exit in between. Correct when it ends no game
  but one that has been loading for too long, orders extended idling only by
  choice, and leaves every interface that lasts too long.
* *Banner suppressor*: flags that hold anything at first, a worker that dies of an
  exception, processes that start and end under its eyes. Correct when `Suspend`
  leaves no round under way and the game's own banner is asked to end.
* *Driver*: correct when it calls the modules only as they allow, modes exclude each
  other, the executor follows the mode, and Ctrl-C leaves it stopped.
* *Executor*: correct when the running task is that of the command, masks and
  busy flags survive errors and interrupts, no key stays pressed, a one-shot
  command runs once.

`PROJECT.json` lists the hazards one by one with the line at which each bites,
the properties that cover it, or why none does.

## 2. Modules

**`ModuleContract`** is what `Module.hpp` promises, told without locks: a phase
the owner has brought the module to, and the set of workers inside a round.
`Suspend` withdraws the permission to start rounds and returns when there is none
under way. `MayBoot`, `MayResume`, `MaySuspend` and `MayTerminate` are the owner's half:
when each call is allowed. `IdleEngine` and `CommandDispatcher` each define `phaseBar` and
`busyBar`, instantiate the contract with them and have `ContractSpec` as a
property; `Driver` uses two instances of the contract in place of the modules.

**`IdleEngine`**. Three threads, `watcher`, `discriminator` and `driver`, with a
program counter each, and one action per stretch of code between two points at
which another thread can be seen: a lock region, an atomic store, a notification,
a wait. `wait(lock, token, pred)` is three steps (test, go to sleep, wake up) since
`Terminate` notifies without the mutex. `sleeping` tells the condition variable on
which a thread sleeps; `pending_apc` is the queued APC. Discriminating is any change
of the interface, as the subclass is a model of its own.

**`ClassifierIdleEngine`**. One action for a whole round, split by what the label
and the window are; every transition, early return, counter and order of the
source. A time point is represented by its age in ticks, which stops growing at
`MaxAge`; `entered` is a history variable, the ticks since the interface was really
taken. Between rounds: the reset after a reconnection, leaving and entering an idle
mode, and the user's window. That those never overlap a round is what
`IdleEngine` shows (`ResetSurvivesOldRounds`, `SuspendedMeansQuiet`). Two history
variables count failed loads in the words of the comments, which differ from the
code's own count: `failures` of a session, `in_a_row` without another interface
between.

**`OCRIdleEngine`**. The three calls of a round are three actions, since time passes
and the game may exit between them. The screen is the number of keywords found of
each category; `AnalyzedInGameState` is the choice the code makes from them, and
`NextInterface` the state machine with its timeouts. Ages and `entered` are as in the
classifier's module; `started` is the time the round measured at its start.

**`CSOBannerSuppressor`**. Worker, driver and the processes called CSOBanner.exe, of
which one is the game's. Unlike the other two workers this one holds the mutex
through its round, and nothing sets its two flags before the first `Resume`: they
start with any value. `EnumerateProcesses` stops at the first match, which is any
of those that run; the process may end, and its path throw, before the next step.

**`Command`** (`MCCommand` for its instances). Every load and store of a field is a
step, in the order of the code where the flag orders it and in any order where
the fields are plain members that two threads may touch. `issued` remembers
what was set under which id; `overlapped` whether a `Set` ran alongside a `Get`.
`Get` reads the fields twice, to measure the text (`GetSize`) and to write it
(`GetFormat`); `garbled` tells that the two lengths differed, so that the text is cut
short or followed by something old. Of a text only its length is kept (`Size`).

**`CommandDispatcher`**. Worker and driver, as in the engine; the text buffer and
the file are one cell that a write replaces or leaves alone.

**`Driver`**. The main thread by program counter, from the start of `Boot` to the
end of `wmain`: hot keys, the hooks, the optional module, the loop, and the
destruction; the console's thread; the engine and the dispatcher through their
contract, the command as one cell (its own races are those of `Command`). Hot keys
pressed while the thread is busy wait in its queue, so it may find any when it is back
(`GetHotKey`). `Faults` is what may fail: registering a hot key or a hook, a write of
the command file (also the final one, and nothing repeats it), a round of the
dispatcher (whose worker is then over), the posting of WM_QUIT (the thread's id is
forgotten all the same). `NextMember` is the order of destruction.

**`Executor`**. One thread: `fetch` a task, make its `call`s, sleep, and in the sleep
run a burst of routines, each of which is one step because its own sleeps run no
routine. Any routine may raise an error, and a reset may raise one half-way
(`ResetRaises`). A task is a sequence of calls (`Task`), each with what it presses,
masks or sleeps; the controller is present as `Publish`, `PublishRest`, `Renew` and
`Expire`. A file that is published may at first be any mixture of the fields of the
new command and the one before (`Mixtures`, which is what `Command_torn` shows `Get` to
return); `mixed` remembers the ids of both.

Each `XProofs` module EXTENDS `X` and holds its theorems.

## 3. Runs

A passing run finishes with no error; a violation run checks one property that a
comment of the repository states and the code does not keep.

| Run | States | What it shows |
|---|---|---|
| `IdleEngine_all` | 137 k | With every fault (a round or `Watch` throws, a launch fails, the game exits early), spurious wakeups and calls of the driver in any legal order: `SuspendedMeansQuiet`, `DiscriminatesAProcess`, `OneSleeperPerCondition` (so that `notify_one` is enough), `ResetSurvivesOldRounds`, `ContractSpec`; `SuspendReturns`, also while the watcher waits for the game without a limit; `Reconnects`; `TerminateReturnsOrLostWakeup`: `Terminate` can hang only by the lost notification of the next run. |
| `IdleEngine_terminate` | violation | `TerminateReturns`: `Terminate` requests the stop and notifies without the mutex (`IdleEngine.cpp:123-125`); a worker between its test and its sleep misses both and the join never ends. |
| `Command_all` | 901 k | `QuietGetIsExact`: without a `Set` alongside, a directive is one command and fills its string, although the flag keeps nobody out; `CallsReturn`: nobody spins for ever on it either. |
| `Command_torn` | violation | `DirectiveWasSet`: a directive mixes two commands, or is not of the length measured for it, as the flag called a spin lock does not exclude. |
| `CommandDispatcher_all` | 1.6 k | `EndsWithNop`, `ContractSpec` (so that a suspended dispatcher does not write), `CommandReachesFile`, `RunningModuleTerminates`, with failing writes and a round that throws. |
| `Driver_all` | 126 k | `ModesExclude`, `ExtendedOnlyInExtendedMode`, `CallsAreAllowed` (every call of the driver finds its module where the contract allows it), `NopIsLast`, `FileFollowsMode`, `CtrlCStopsExecutor`, with every fault, with the optional module, and an engine whose `Terminate` may never return. What is said of the file excepts a dispatcher whose worker has died, writes that fail for ever or at the very end, and a WM_QUIT that could not be posted. |
| `ClassifierIdleEngine_all` | 515 k | `TimerIsOfThisInterface`, `EndsOnlyOverdueGames`, `ExtendedOnlyByChoice`, `FailuresLeaveRoom` (three failures in a row leave the room, none before the third of a session does), `HungLoadIsEnded` (with the setting on), `StaleRoomIsLeft`, with any labels, failing and undecodable screenshots, a window the user plays with, mode switches and reconnections. |
| `OCRIdleEngine_all` | 94 k | `TimerIsOfThisInterface`, `EndsOnlyOverdueLoads`, `ExtendedOnlyByChoice`, `StaleInterfaceIsLeft`, with any scores, both settings of each switch, screens without text, failing and undecodable screenshots, a game that exits at any point, mode switches and reconnections. |
| `CSOBannerSuppressor_all` | 1.9 k | `SuspendedMeansQuiet` whatever the flags held; `OwnBannerIsEnded`; `RunningModuleTerminates`, with paths that throw, banners that ignore the messages and spurious wakeups. |
| `CSOBannerSuppressor_foreign` | violation | `OwnBannerIsEndedAmongOthers`: the comment wants all processes gone through, the callback ends the enumeration at the first one of the name, and a foreign one hides the game's for ever. |
| `Executor_all` | 787 k | `TaskIsOfCommand`, `FlagsAreRestored`, `NothingLeftDown`, `AntiShockBelongsToAttack`, `OneShotRunsOnce` (but for ids that a file mixed), `RepeatableIsRun`, with failed reads, files that mix two commands, errors in tasks, routines and resets, takeovers and expiring commands. |
| `Executor_frozen` | violation | `NoClickWhileFrozen`: a call that clicks several times tests the frozen flag once. |

Every property has a mutant, an operator `X_Something` beside the definition `X`
it alters as a plausible bug would, under which TLC refutes the property with the
run's own configuration.

### Bounds

* `IdleEngine`: no counter. Three interface values: one for each reset and one
  that only a round stores. The reconnection option is TRUE, so that the branch that
  changes the mode is taken; the proofs hold for both values.
* `ClassifierIdleEngine`: the thresholds are one to three ticks in the order of the
  real ones; `MaxAge` is at the largest threshold, and past it no comparison
  changes. `CaptureErrorLimit` is 1 and `DecodeErrorLimit` 0 in place of
  9: an error below the limit that a success sets back, and one that ends the thread.
  `RestartGameOnLoadingTimeout` is TRUE, as `Controller.ps1:18` and `Settings.json:14`
  have it; it is FALSE in `Global.cpp:26`, and then a hung load is warned of and left.
  `MaxInGameTime` is small so that the branch is reached; as no option sets it, it is
  never reached in a program started as it is today (`Global.cpp:24`).
* `OCRIdleEngine`: likewise; `MaxScore` = 1 keyword of each category gives every
  winner and every tie. The settings are any subset of the two switches.
* `CSOBannerSuppressor`: the processes are the game's banner and a foreign one; no
  other bound.
* `Command`: two orders that use all three modes, one of each path of `Set`;
  `MaxId` = 2 and `MaxClock` = 3 from `Epoch` = 2. A mixture needs two commands; the
  cool-down and the renewal need one tick. The last id stands for one with a digit
  more, so that the lengths of two texts can differ by the id as well as by the type.
* `CommandDispatcher`: the NOP and one other text.
* `Driver`: one mode of each kind, so that every kind is left for every other. No other
  bound.
* `Executor`: a command of each kind (NOP; idle, whose purchase masks the routines; and
  one-shot) and `MaxId` = 2 ids: a command and its successor of the same or another
  type. `MaxMixed` = 2 ids in a mixture, that is, one mixed file in each behaviour,
  between any two commands; the proofs hold for any number.

### Fairness

* `IdleEngine`, `CommandDispatcher`: strong fairness for the steps of each thread.
  A thread that can run, or can get the mutex, again and again, does; the
  scheduler and `std::mutex` on Windows give no thread up. A launched game shows
  its window (only for `Reconnects`). The driver need not call, the game need not
  exit, no wait need end spuriously, and no fault need happen.
* `Command`: weak fairness for a thread inside a call.
* `ClassifierIdleEngine`, `OCRIdleEngine`: rounds are made and time passes (the
  discriminator sleeps 3.5 s between rounds). `StaleInterfaceIsLeft` in addition
  assumes that screens with text come again and again: a round that sees none looks
  at no timeout.
* `CSOBannerSuppressor`: strong fairness for both threads; processes start and end as
  they like.
* `Driver`: weak fairness for the main thread and the rounds of the modules,
  strong fairness for taking WM_QUIT, since the queue hands messages out again
  and again. *Nothing* is assumed of the engine's `Terminate`, which can hang;
  `CtrlCStopsExecutor` holds without it.
* `Executor`: the script goes on; a sleep ends, and a read succeeds, in the end.

Deadlock is checked in every run. `IdleEngine`, `Driver` and `Executor` have an
explicit step for an ended thread or script, which is where the program stops.


## 4. Proofs

### `IdleEngineProofs`

For every set of interfaces, every set of faults and both values of the option
(the three assumptions of `IdleEngine`):

* `TypeCorrect`, `SuspendIsQuiet`, `DiscriminatorHasProcess`, `AssertionsHold`,
  `NotifyOneSuffices`: the safety invariants of `IdleEngine_all` (and two assertions of
  the source that no run needs to repeat);
* `ResetSurvives`: its action property; `SuspendedEngineIsDrivers`: the workers leave the
  state of a suspended engine to the driver, which resets it (no run repeats it, as it
  follows from `SuspendIsQuiet` and the shape of the actions);
* `ImplementsContract`: `Spec => ContractSpec`, by the refinement mapping;
* `WakeupsAreNotLost`, `WaitersAreOwedNotify`, `NoCircularWait`: what safety can say of
  the liveness runs. A worker asleep although it may run has a `notify_one` before it;
  whoever waits for the end of a round waits for a worker that has yet to report it;
  and the waits form no circle (driver, watcher, discriminator, in that order only).
  The stop request is not among the flags this speaks of: `Terminate` makes it without
  the mutex, which is the finding of `IdleEngine_terminate`;
* `WatcherDoesNotRace`: what `Discriminate` reads without a lock is written by the
  watcher only between two of its rounds.

None of the invariants is inductive. `IInv` adds four parts. `FlagInv`: a worker's
`has_..._finished_` flag is down exactly from the start of a round until its end is
reported (this is what `Suspend` looks at). `SleepInv`: which condition a thread sleeps
on at each place, from which `notify_one` follows. `DriverInv`: what the call of the
driver that is under way has achieved; without it `finished` would say nothing about
the time after `Suspend` has returned. `ProcessInv`: the process state and the handle
at each place of the watcher, and that a discriminator that may run has a process.
`Invariance` proves `TypeOK /\ IInv`, action by action. The wake-ups need one part
more, `LockInv` (in `WakeInv`): the mutex is held exactly between a predicate found
false and the sleep, and the predicate stays false meanwhile, because every flag is
raised with the mutex held. The rest follow from the two.

### `DriverProofs`

For every set of modes (`ModesAssumption`), both values of each option and every set of
faults:

* `TypeCorrect`: `TypeOK`, by itself inductive;
* `EveryCallIsAllowed` (`CallsAreAllowed`): wherever the main thread is about to call a
  module, the contract allows the call. That each step is one of the contract's would
  say nothing, as the actions of the driver are built from those of the contract, whose
  guards would only disable a forbidden call; this is a statement about the driver's own
  state, which the closure, the mode and the place of the main thread have to imply. It
  follows from `EngineInv` and `ClosureInv` below, from `DispatcherInv`, and from
  `StopInv`: an engine about to be destroyed is as the loop or the boot left it;
* `ModesExcludeEachOther` (`ModesExclude`) and `ExtendedIsChosen`
  (`ExtendedOnlyInExtendedMode`), from the inductive `ModeInv`. `ModesExclude` speaks
  of one place of the loop only, and says nothing of the rounds that are under way:
  `EngineInv` gives the phase of the engine at every place and that a suspended
  engine has no decision left to dispatch, `ClosureInv` ties the closure to the mode,
  `ExtendedInv` bounds what an engine that has not been suspended yet may have
  decided, `CommandInv` follows the command from the NOP of the mode that is left to
  the order of the next;
* `FinalNopStays` (`NopIsLast`), from `DispatcherInv`: the phase of the dispatcher at
  each place, and that its worker is in no round before it runs or after the join.

The modules take part by their contract only, which `ImplementsContract` proves
for the engine and for the dispatcher: the three proofs together are about the
composed program, as far as the contract tells of it.

### `CommandDispatcherProofs`

For any set of directives with a NOP and any faults: `TypeCorrect`, `FileEndsWithNop`
(`EndsWithNop`) and `ImplementsContract` (`ContractSpec`). The inductive invariant has
the shape of the engine's: a `has_worker_finished_` that is down exactly in a round,
what the call of the driver has achieved, and where the last write stands after the
join. `WakeupsAreNotLost`, `WaitersAreOwedNotify` and `StoppedWorkerIsAwake` (from
`WakeInv`) are the same account of notifications as in the engine, with two
differences: a driver may wait for ever after an exception in `Run`, which leaves the
flag down, and the worker of a *running* dispatcher is awake when it is told to end, so
the engine's lost wake-up cannot happen as the driver uses it.

### `CommandProofs`

For any orders, cool-downs and bounds: `TypeCorrect` and `QuietGetsAreExact`
(`QuietGetIsExact`). The flag of `Set` and `Get` contributes nothing to the argument.
`Alone`: a `Get` that knows of no overlap has no `Set` alongside. `Sound`: before the
first and after the fourth store of a `Set` the object is what was asked for under its
id, and in between what is known of each field. `Seen` and `Read`: what has been measured,
and what has been formatted, is what the object holds, so that the two lengths agree.

`NoFieldMadeUp` and `IdsAreMonotonic` bound what the missing lock can do
(`Command_torn` shows that it does something): a directive whose text has the length that
was measured is a mixture of commands that were set and its time is not ahead of the
clock; of any directive, the id is never older than that of the one before. Of the rest
of a text of another length nothing is claimed. `FieldInv` carries this through the object,
the text and the directive; it rests on `IssueKeeps`, that what was set is not forgotten.

### `ClassifierIdleEngineProofs`, `OCRIdleEngineProofs`

For all time limits, error limits, labels or scores, settings and disturbances:

* `TypeCorrect`. Not inductive by itself: `Endured` adds that a thread that still
  runs has counted no more errors than the limits, without which the counters could
  leave their range;
* `TimerBelongs` (`TimerIsOfThisInterface`): outside LOGIN and UNKNOWN, which the
  resets store without renewing it, the time point is that of the interface;
* `OnlyOverdueGamesEnd`, `OnlyOverdueLoadsEnd` and, in both, `ExtendedIsChosen`. The
  OCR engine's also need `StartedInv` (the time measured at the start of the round is
  not later than the present one); the classifier's need `KeptInv`: it may keep the
  command of the round before, which is safe because a suspended engine is in UNKNOWN
  and so no game is taken to run across a change of the mode;
* `FailuresAreCounted` (`FailuresLeaveRoom`, classifier only), from `CountInv`: the
  code's count, where it is current, lies between the failures in a row and those of
  the session, as the comments define both, and the third leaves it at two. The code
  is not shown to count either of them, and does not (section 5).

### `CSOBannerSuppressorProofs`

`TypeCorrect` and `SuspendQuiesces` (`SuspendedMeansQuiet`) for any faults and both
initial values of each flag: `QuietInv` adds that a round that began has taken
`has_worker_finished_` down, and that none begins unless `is_worker_runnable_` holds.
`WakeupsAreNotLost` and `StoppedWorkerIsAwake` as in the dispatcher, from `WakeInv`.

The suppressor does not implement the module contract: with the flags left as they
are, a booted module may already run, and its first `Suspend` wait for ever.
`ImplementsContractIfInitialized` shows that nothing else is missing: in the behaviours
whose flags start as those of the other modules (`FlagsInitialized`) each step is one
of the contract's or a stutter. `StartInv` is what the initial values give: a suspended
module's idle driver has seen the end of the last round.

### `ExecutorProofs`

For any set of commands, any number of ids and any disturbances:

* `TaskFollowsCommand` (`TaskIsOfCommand`), from `TaskInv`: an exception is pending
  only at the end of a routine, and unless one is, the task is NOP or that of the
  command received last;
* `OneShotNotRepeated` (`OneShotRunsOnce`), from `OnceInv`: what has been run is not
  younger than what was read, which is not younger than the file, which is not younger
  than what was ordered. Under an id that no file mixed, the file and the command read
  are whole: they are one order, repeatable exactly if its type is, so that one run to
  its end is finished and stays so. Of mixed ids nothing of the kind holds, and such a
  command may be run again (section 5);
* `FlagsRestored` (`FlagsAreRestored`), `NothingStaysDown` (`NothingLeftDown`),
  `AntiShockInAttack` (`AntiShockBelongsToAttack`) and `TypeCorrect`, from `IInv`.

The last four depend on the calls of the fourteen tasks, which `Executor` builds by
concatenation. Lemma `TasksAreBracketed` does away with them: for each task (`PlayIs`
and `PlayLayout` spell out the longest), what a call masks, presses or takes in hand a
later call undoes, so that `MaskedAt`, `HeldAt` and `WieldedAt` tell of each step what
the task has in force there, and nothing after the last; `MaskStep`, `HeldStep` and
`WieldStep` say how they change from a step to the next. The invariant then has one
part per hazard:

* `PlaceInv`: where a sleep returns to, which is what a routine in the middle of a call
  must not disturb; a command is fetched only with nothing to do; only a call that
  clicks repeatedly is left half done; the fatal handlers are not left except to die;
* `FlagInv`: outside a routine the stack of mask flags is `<<FALSE>>` while the task has
  masked the routines and empty otherwise, as `MaskedAt` tells; in a routine it holds
  that flag too, so that the pop comes back to the flag of the task whether or not the
  routine threw;
* `DeviceInv`: the tables of pressed keys and buttons are within `HeldAt`, the weapon
  in hand within `WieldedAt`. An error of a routine throws a fatal handler away in the
  sleep after its first release; nothing is left behind all the same, because no task
  holds two keys or two buttons at a time (`OneKey`), so that the one released was all
  its device held. Were a task to hold two, the second would stay down.

### Only model-checked

The liveness properties (`SuspendReturns`, `Reconnects`, `TerminateReturnsOrLostWakeup`,
`CallsReturn`, `CommandReachesFile`, `RunningModuleTerminates`, `OwnBannerIsEnded`,
`RepeatableIsRun` and the like), as fairness and ENABLED are beyond the prover; the
wake-up theorems above are their safety part. The violations, which are finite
behaviours or loops. Every invariant and every action property of a passing run is
stated by a theorem.

## 5. Where code and comments disagree

Shown by the violation runs: the lost notification in `Terminate`, the spin lock that
does not exclude, the foreign banner that hides the game's, the clicks after a
takeover (`PROJECT.json`, "findings").

Met while reading, and not the subject of a run:

* `IdleEngine.cpp:136`: only `~IdleEngine` terminates and joins the workers, when the
  members of the subclass are already gone. The model has the step
  (`DestroySubclass`) and rounds after it.
* `ClassifierIdleEngine.cpp`, `OCRIdleEngine.cpp`: the two resets leave the time point
  alone, so that a LOGIN after a reconnection can time out in its first round; the
  properties about time points leave out LOGIN and UNKNOWN.
* `ClassifierIdleEngine.cpp:87-91`: the comment keeps LOBBY too when a screen says
  nothing, but the condition tests the wrong variable, so it never does.
* `ClassifierIdleEngine.cpp:289, 370`, `OCRIdleEngine.cpp:260-283`: the process is
  opened without PROCESS_TERMINATE, so a game that ignores the messages stays.
* `OCRIdleEngine.cpp:183-224`: the branch for two known interfaces comes before the
  illegal transitions and leaves them nothing. A timeout overrides a verdict just
  read, and a screen without text is never timed (68-71).
* `CSOBannerSuppressor.cpp`: the handle of a foreign process is not closed, and the first
  `Suspend` may read flags that nothing has set (it quiesces all the same,
  `SuspendQuiesces`, but it may wait for ever, and `Boot` may leave the module running,
  where `Module.hpp:8` has it suspended).
* `IdleEngine.cpp:228-232`: after a failed launch the state still becomes
  BEING_CREATED; the engine then only looks for a window.
* `Command.cpp:16-19`: `Get` may renew a command other than the one it tested, so
  that a timestamp 0 is lost.
* `ClassifierIdleEngine.cpp:259`: the comment has three failures in a row; the
  counter counts those of a session, in a row or not. `:450`: an UNKNOWN screen between
  two rooms begins a session, while the comment at 95-97 knows LOGIN, LOBBY and RESULTS
  only. A third failure so may or may not leave the room: `FailuresLeaveRoom` says what
  holds on both readings: three in a row do, and none before the third does.
* `Global.cpp:26`: `RestartGameOnLoadingTimeout` is off unless the command line sets it
  (the scripts do), and then a load that hangs is never ended; `:24`: no option sets
  `MaxInGameTime`, so that no game is ended for its length.
* `Command.cpp:23-28`: the text is measured and written in two passes over fields that
  may change between them. Beyond the mixture of `Command_torn` it may be cut short,
  keep a tail, or be written past the end of the string.
* `Command.cpp:23-28` with `Executor/core/Command.lua:79-82, 116-123`: a mixture of an
  old id with the type of a new one-shot command, or of that with the old `repeatable`,
  makes the executor run the one-shot command a second time.
* `Driver.cpp:115` writes without the lock that `Driver.hpp:56` names; `:20-21` forgets the
  thread whether or not WM_QUIT was posted, so that a second Ctrl-C does nothing.
* `CommandDispatcher.cpp:131-134`: a failed write is reported and not repeated, also that
  of the final NOP, after which the executor goes on; `:64-73`: a worker that has thrown
  is not started again.
* `Executor/core/Command.lua:74-77`: a failed read leaves the status of the read
  before it.
* `Executor/core/Player.lua:287`: the index of a special weapon is stored in the
  field of another list, while the comment at 262 has them used in order.
* `Panel/src/scripts/LuaASTUtil.ts:319-333` prints no parentheses, and `:305` passes
  the index of `map` as an indent.

## 6. Plan

Order of work, the most important behaviour first; items 1 to 11 are done.

1. `ModuleContract` and `IdleEngine`, its refinement of the contract, its proofs.
2. `Command`. 3. `CommandDispatcher`, refining the contract.
4. `ClassifierIdleEngine`. 5. `Executor`.
6. `Driver`, composing two contracts, the command and the file, and its proofs.
7. `CSOBannerSuppressor`. 8. `OCRIdleEngine`.
9. Proofs for 2 to 5, 7 and 8.
10. Proofs of the three invariants of `Executor` about flags and devices, from lemmas
    about each task (that masks and presses are paired).
11. Proofs that no notification is lost, in the three modules with workers.
12. The choice of weapons, and the position a purchase remembers, in `Executor`.

## 7. What is not modelled, and why

* The RPC server (`Server.cpp`): a status word around a gRPC server that only its own
  test starts. Its hazard (`Start` and `Stop` at the same time) is in the list.
* The scheduler (Go): every handler is one query or a stub; what it could get wrong is
  the database's transaction. The panel (TypeScript): user interface and a code
  generator over syntax trees, that is, induction over data.
* `DateTime.lua`: calendar arithmetic; in `Executor` a command is fresh or becomes old at
  any moment, which is more than any calendar would do.
* Recognition (`Classifier`, `OCR*`, `ModelUtilities`): numeric code; the engines see it
  as an arbitrary label, which is the weakest assumption about it.
* `Configuration`, the command line and the registry: read once, before any thread.
* `Utilities`, `Console`: one Win32 call each. What `HotKey` and `LowLevelKeyboardHook` do
  at the start and the end of the program is part of `Driver`. How
  Windows treats hot keys, APCs and condition variables is modelled in the
  callers and marked external in the map.
* `Protocol`, `Database`: declarations without an implementation.
* The Panel's interface, build files, installers and the manual.
* A controller that is started again, with ids from 0, while the executor runs: the
  executor compares ids for equality only, and takes the new ones up unless they meet
  one that it has finished.
* In the parts that are modelled: the texts that are formatted (of a directive the
  length is kept; what a longer second pass writes past the end of the string is
  undefined), a `wait` of Windows that fails (WAIT_FAILED), coordinates and
  delays, the sequential and the random routine mode of `Runtime.lua` (never
  selected), and process handles as a resource.
