----------------------------- MODULE IdleEngine -----------------------------
(***************************************************************************)
(* Controller/source/IdleEngine.cpp: the process watcher and the scene     *)
(* discriminator, two threads that work in rounds, and the driver's thread *)
(* that boots, resumes, suspends and destroys the engine.                  *)
(*                                                                         *)
(* A critical section that does not block is one step.  Between a false    *)
(* predicate and the moment the thread sleeps on its "runnable" condition  *)
(* variable there is a state of its own ("Gap"): the mutex is held there,  *)
(* so only a notifier that does not take the mutex can fall into it.       *)
(***************************************************************************)
EXTENDS Naturals, FiniteSets

CONSTANTS
  Interfaces,                   (* values of GAME_INTERFACE_TYPE in use     *)
  DefaultIdleAfterReconnection, (* Global::DefaultIdleAfterReconnection     *)
  Faults                        (* which failures the environment may cause *)

ASSUME InterfacesAssumption == {"LOGIN", "UNKNOWN"} \subseteq Interfaces

ASSUME ReconnectionAssumption == DefaultIdleAfterReconnection \in BOOLEAN

ASSUME FaultsAssumption ==
  Faults \subseteq {"watch", "discriminate", "launch", "earlyExit"}

Workers == {"watcher", "discriminator"}
Threads == Workers \cup {"driver"}

(* The condition variables; NoCV marks a thread that sleeps on none.       *)
ConditionVariables ==
  {"process_watcher_runnable", "process_watcher_finished",
   "scene_discriminator_runnable", "scene_discriminator_finished"}
NoCV == "none"
Nobody == "nobody"

ProcessStates == {"BEING_CREATED", "RUNNING", "EXITED", "UNKNOWN"}
IdleModes == {"DEFAULT", "EXTENDED"}

VARIABLES
  pc,                                (* where each thread is               *)
  sleeping,                          (* the CV each thread is blocked on   *)
  threads_state_lock_,               (* its holder, or Nobody              *)
  apc,                               (* an APC is queued to the worker     *)
  stop_requested,                    (* state of stop_source_              *)
  is_process_watcher_runnable_,
  is_scene_discriminator_runnable_,
  finished,                          (* has_..._finished_, by worker       *)
  panicked,                          (* workers whose round threw          *)
  process_state_,
  handle,                            (* process of game_process_info_      *)
  interface_type_,                   (* state machine of the subclass      *)
  idle_mode_,
  subclass_alive,                    (* members of the subclass exist      *)
  window,                            (* a game window is there to be found *)
  launching                          (* a launched game has yet to show up *)

threadVars == <<pc, sleeping, threads_state_lock_, apc>>
flagVars == <<stop_requested, is_process_watcher_runnable_,
              is_scene_discriminator_runnable_, finished, panicked>>
gameVars == <<process_state_, handle, interface_type_, idle_mode_>>
envVars == <<window, launching>>
worldVars == <<gameVars, subclass_alive, envVars>>
dataVars == <<flagVars, worldVars>>
vars == <<threadVars, dataVars>>

(* Program points.  A worker is inside Watch() or Discriminate() exactly   *)
(* at the points of RoundPcs.                                              *)
RoundPcs == {"Round", "ExitLock", "AwaitDiscriminator", "Startup", "Enable",
             "EnableNotify"}
WorkerPcs == {"NotStarted", "Check", "Gap", "Finish", "Notify", "Sleep",
              "Done"} \cup RoundPcs
DriverPcs == {"NotBooted", "Idle", "ResumeNotifyW", "ResumeNotifyD",
              "SuspendW", "SuspendD", "Stop", "StopNotifyW", "StopNotifyD",
              "StopApc", "JoinW", "JoinD", "Terminated"}

TypeOK ==
  /\ pc \in [Threads -> WorkerPcs \cup DriverPcs]
  /\ pc["driver"] \in DriverPcs
  /\ \A w \in Workers : pc[w] \in WorkerPcs
  /\ sleeping \in [Threads -> ConditionVariables \cup {NoCV}]
  /\ threads_state_lock_ \in Workers \cup {Nobody}
  /\ apc \in [Workers -> BOOLEAN]
  /\ stop_requested \in BOOLEAN
  /\ is_process_watcher_runnable_ \in BOOLEAN
  /\ is_scene_discriminator_runnable_ \in BOOLEAN
  /\ finished \in [Workers -> BOOLEAN]
  /\ panicked \in SUBSET Workers
  /\ process_state_ \in ProcessStates
  /\ handle \in {"none", "live", "dead"}
  /\ interface_type_ \in Interfaces
  /\ idle_mode_ \in IdleModes
  /\ subclass_alive \in BOOLEAN
  /\ window \in BOOLEAN
  /\ launching \in BOOLEAN

Init ==
  /\ pc = [t \in Threads |-> IF t = "driver" THEN "NotBooted"
                                             ELSE "NotStarted"]
  /\ sleeping = [t \in Threads |-> NoCV]
  /\ threads_state_lock_ = Nobody
  /\ apc = [w \in Workers |-> FALSE]
  /\ stop_requested = FALSE
  /\ is_process_watcher_runnable_ = FALSE
  /\ is_scene_discriminator_runnable_ = FALSE
  /\ finished = [w \in Workers |-> TRUE]
  /\ panicked = {}
  /\ process_state_ = "UNKNOWN"
  /\ handle = "none"
  /\ interface_type_ = "UNKNOWN"
  /\ idle_mode_ \in IdleModes
  /\ subclass_alive = TRUE
  /\ window \in BOOLEAN
  /\ launching = FALSE

-----------------------------------------------------------------------------
(* Helpers: program counters, mutex and condition variables.               *)

At(t, p) == pc[t] = p /\ sleeping[t] = NoCV

Goto(t, p) == pc' = [pc EXCEPT ![t] = p]

LockFree == threads_state_lock_ = Nobody

SleepOn(t, cv) == sleeping' = [sleeping EXCEPT ![t] = cv]

(* Mutant: the notification is forgotten.                                  *)
NotifyOne_Never(cv) == UNCHANGED sleeping

(* condition_variable::notify_one: any one of the sleepers, if there is one *)
NotifyOne(cv) ==
  LET sleepers == {t \in Threads : sleeping[t] = cv}
  IN  IF sleepers = {}
      THEN UNCHANGED sleeping
      ELSE \E t \in sleepers : sleeping' = [sleeping EXCEPT ![t] = NoCV]

(* Mutant: the discriminator looks only at its own flag.                   *)
Runnable_OwnFlagOnly(w) ==
  IF w = "watcher" THEN is_process_watcher_runnable_
                   ELSE is_scene_discriminator_runnable_

Runnable(w) ==
  /\ is_process_watcher_runnable_
  /\ w = "discriminator" => is_scene_discriminator_runnable_

RunnableCV(w) == IF w = "watcher" THEN "process_watcher_runnable"
                                  ELSE "scene_discriminator_runnable"

FinishedCV(w) == IF w = "watcher" THEN "process_watcher_finished"
                                  ELSE "scene_discriminator_finished"

(* Mutant: nobody queues an APC.                                           *)
QueueApc_Never(ws) == UNCHANGED apc

(* QueueUserAPC has no effect on a thread that has ended.                  *)
QueueApc(ws) ==
  apc' = [w \in Workers |-> apc[w] \/ (w \in ws /\ pc[w] # "Done")]

-----------------------------------------------------------------------------
(* The loop both workers run: test the predicate of the runnable condition *)
(* variable, do a round, report the end of the round, sleep.               *)

CheckRunnable(w) ==
  /\ At(w, "Check")
  /\ LockFree
  /\ IF stop_requested
     THEN /\ Goto(w, "Done")
          /\ UNCHANGED <<threads_state_lock_, finished>>
     ELSE IF Runnable(w)
     THEN /\ Goto(w, "Round")
          /\ finished' = [finished EXCEPT ![w] = FALSE]
          /\ UNCHANGED threads_state_lock_
     ELSE /\ Goto(w, "Gap")
          /\ threads_state_lock_' = w
          /\ UNCHANGED finished
  /\ UNCHANGED <<sleeping, apc, stop_requested, is_process_watcher_runnable_,
                 is_scene_discriminator_runnable_, panicked, worldVars>>

BlockOnRunnable(w) ==
  /\ At(w, "Gap")
  /\ SleepOn(w, RunnableCV(w))
  /\ Goto(w, "Check")
  /\ threads_state_lock_' = Nobody
  /\ UNCHANGED <<apc, dataVars>>

(* Mutant: the exception leaves the thread function.                       *)
Throw_Escapes(w) ==
  /\ panicked' = panicked \cup {w}
  /\ Goto(w, "Terminated")

(* A round that throws is reported and ends the thread after its notify.   *)
Throw(w) ==
  /\ panicked' = panicked \cup {w}
  /\ Goto(w, "Finish")

FinishRound(w) ==
  /\ At(w, "Finish")
  /\ LockFree
  /\ finished' = [finished EXCEPT ![w] = TRUE]
  /\ Goto(w, "Notify")
  /\ UNCHANGED <<sleeping, threads_state_lock_, apc, stop_requested,
                 is_process_watcher_runnable_,
                 is_scene_discriminator_runnable_, panicked, worldVars>>

NotifyFinished(w) ==
  /\ At(w, "Notify")
  /\ NotifyOne(FinishedCV(w))
  /\ Goto(w, IF w \in panicked THEN "Done" ELSE "Sleep")
  /\ UNCHANGED <<threads_state_lock_, apc, dataVars>>

(* SleepEx(interval, alertable): ends by timeout or by an APC.             *)
SleepBetweenRounds(w) ==
  /\ At(w, "Sleep")
  /\ apc' = [apc EXCEPT ![w] = FALSE]
  /\ Goto(w, "Check")
  /\ UNCHANGED <<sleeping, threads_state_lock_, dataVars>>

-----------------------------------------------------------------------------
(* Watch(), by process_state_.                                             *)

(* WaitForSingleObjectEx returns for the exit of the process ...           *)
WatchSeesExit ==
  /\ At("watcher", "Round")
  /\ process_state_ = "RUNNING"
  /\ handle = "dead"
  /\ Goto("watcher", "ExitLock")
  /\ UNCHANGED <<sleeping, threads_state_lock_, apc, dataVars>>

(* ... or for an APC.                                                      *)
WatchInterrupted ==
  /\ At("watcher", "Round")
  /\ process_state_ = "RUNNING"
  /\ apc["watcher"]
  /\ apc' = [apc EXCEPT !["watcher"] = FALSE]
  /\ Goto("watcher", "Finish")
  /\ UNCHANGED <<sleeping, threads_state_lock_, dataVars>>

(* Mutant: the information is cleared without waiting for the round.       *)
ClearWhenDiscriminatorFinished_NoWait ==
  /\ handle' = "none"
  /\ process_state_' = "EXITED"
  /\ Goto("watcher", "Finish")
  /\ UNCHANGED sleeping

(* scene_discriminator_finished_.wait, then the process information is     *)
(* cleared; the predicate is tested under the lock.                        *)
ClearWhenDiscriminatorFinished ==
  IF finished["discriminator"]
  THEN /\ handle' = "none"
       /\ process_state_' = "EXITED"
       /\ Goto("watcher", "Finish")
       /\ UNCHANGED sleeping
  ELSE /\ SleepOn("watcher", "scene_discriminator_finished")
       /\ Goto("watcher", "AwaitDiscriminator")
       /\ UNCHANGED <<handle, process_state_>>

StopDiscriminator ==
  /\ At("watcher", "ExitLock")
  /\ LockFree
  /\ is_scene_discriminator_runnable_' = FALSE
  /\ ClearWhenDiscriminatorFinished
  /\ UNCHANGED <<threads_state_lock_, apc, stop_requested,
                 is_process_watcher_runnable_, finished, panicked,
                 interface_type_, idle_mode_, subclass_alive, envVars>>

AwaitDiscriminator ==
  /\ At("watcher", "AwaitDiscriminator")
  /\ LockFree
  /\ ClearWhenDiscriminatorFinished
  /\ UNCHANGED <<threads_state_lock_, apc, flagVars, interface_type_,
                 idle_mode_, subclass_alive, envVars>>

(* SearchGameWindow: the handles become those of the window, or 0.         *)
SearchGameWindow == handle' = IF window THEN "live" ELSE "none"

SearchThrows ==
  /\ At("watcher", "Round")
  /\ process_state_ \in {"BEING_CREATED", "UNKNOWN"}
  /\ "watch" \in Faults
  /\ window
  /\ Throw("watcher")
  /\ UNCHANGED <<sleeping, threads_state_lock_, apc, stop_requested,
                 is_process_watcher_runnable_,
                 is_scene_discriminator_runnable_, finished, worldVars>>

WatchBeingCreated ==
  /\ At("watcher", "Round")
  /\ process_state_ = "BEING_CREATED"
  /\ SearchGameWindow
  /\ Goto("watcher", IF window THEN "Startup" ELSE "Finish")
  /\ UNCHANGED <<sleeping, threads_state_lock_, apc, flagVars, process_state_,
                 interface_type_, idle_mode_, subclass_alive, envVars>>

(* SleepEx(10000, TRUE) is over, by timeout or by an APC; the state        *)
(* machine is reset and the extended mode is given up.                     *)
StartupDone ==
  /\ At("watcher", "Startup")
  /\ apc' = [apc EXCEPT !["watcher"] = FALSE]
  /\ interface_type_' = "LOGIN"                 \* ResetAfterReconnection()
  /\ idle_mode_' = IF DefaultIdleAfterReconnection THEN "DEFAULT"
                                                   ELSE idle_mode_
  /\ Goto("watcher", "Enable")
  /\ UNCHANGED <<sleeping, threads_state_lock_, flagVars, process_state_,
                 handle, subclass_alive, envVars>>

EnableDiscriminator ==
  /\ At("watcher", "Enable")
  /\ LockFree
  /\ is_scene_discriminator_runnable_' = TRUE
  /\ Goto("watcher", "EnableNotify")
  /\ UNCHANGED <<sleeping, threads_state_lock_, apc, stop_requested,
                 is_process_watcher_runnable_, finished, panicked,
                 worldVars>>

WakeDiscriminator ==
  /\ At("watcher", "EnableNotify")
  /\ NotifyOne("scene_discriminator_runnable")
  /\ process_state_' = "RUNNING"
  /\ Goto("watcher", "Finish")
  /\ UNCHANGED <<threads_state_lock_, apc, flagVars, handle, interface_type_,
                 idle_mode_, subclass_alive, envVars>>

(* CreateProcessW; its failure is only reported.                           *)
LaunchGame ==
  \/ launching' = TRUE
  \/ "launch" \in Faults /\ UNCHANGED launching

WatchExited ==
  /\ At("watcher", "Round")
  /\ process_state_ = "EXITED"
  /\ LaunchGame
  /\ process_state_' = "BEING_CREATED"
  /\ Goto("watcher", "Finish")
  /\ UNCHANGED <<sleeping, threads_state_lock_, apc, flagVars, handle,
                 interface_type_, idle_mode_, subclass_alive, window>>

WatchUnknown ==
  /\ At("watcher", "Round")
  /\ process_state_ = "UNKNOWN"
  /\ SearchGameWindow
  /\ process_state_' = IF window THEN "RUNNING" ELSE "EXITED"
  /\ Goto("watcher", IF window THEN "Enable" ELSE "Finish")
  /\ UNCHANGED <<sleeping, threads_state_lock_, apc, flagVars,
                 interface_type_, idle_mode_, subclass_alive, envVars>>

-----------------------------------------------------------------------------
(* Discriminate() of a subclass: it looks at the window, moves the state   *)
(* machine, and may end the game (SafeTerminateProcess).                   *)

Discriminate ==
  /\ At("discriminator", "Round")
  /\ interface_type_' \in Interfaces
  /\ \/ UNCHANGED <<handle, window>>
     \/ handle = "live" /\ handle' = "dead" /\ window' = FALSE
  /\ Goto("discriminator", "Finish")
  /\ UNCHANGED <<sleeping, threads_state_lock_, apc, flagVars, process_state_,
                 idle_mode_, subclass_alive, launching>>

DiscriminateThrows ==
  /\ At("discriminator", "Round")
  /\ "discriminate" \in Faults
  /\ Throw("discriminator")
  /\ UNCHANGED <<sleeping, threads_state_lock_, apc, stop_requested,
                 is_process_watcher_runnable_,
                 is_scene_discriminator_runnable_, finished, worldVars>>

-----------------------------------------------------------------------------
(* The driver's thread.                                                    *)

Boot ==
  /\ At("driver", "NotBooted")
  /\ pc' = [t \in Threads |-> IF t = "driver" THEN "Idle" ELSE "Check"]
  /\ UNCHANGED <<sleeping, threads_state_lock_, apc, dataVars>>

(* The driver chooses the mode of a suspended engine before it resumes it. *)
SetIdleMode(mode) ==
  /\ At("driver", "Idle")
  /\ ~is_process_watcher_runnable_
  /\ idle_mode_' = mode
  /\ UNCHANGED <<threadVars, flagVars, process_state_, handle,
                 interface_type_, subclass_alive, envVars>>

(* ... and resets the state machine of an engine it has suspended.         *)
ResetAfterSwitchMode ==
  /\ At("driver", "Idle")
  /\ ~is_process_watcher_runnable_
  /\ interface_type_' = "UNKNOWN"
  /\ UNCHANGED <<threadVars, flagVars, process_state_, handle, idle_mode_,
                 subclass_alive, envVars>>

Resume ==
  /\ At("driver", "Idle")
  /\ LockFree
  /\ is_process_watcher_runnable_' = TRUE
  /\ Goto("driver", "ResumeNotifyW")
  /\ UNCHANGED <<sleeping, threads_state_lock_, apc, stop_requested,
                 is_scene_discriminator_runnable_, finished, panicked,
                 worldVars>>

NotifyStep(from, cv, to) ==
  /\ At("driver", from)
  /\ NotifyOne(cv)
  /\ Goto("driver", to)
  /\ UNCHANGED <<threads_state_lock_, apc, dataVars>>

ResumeNotifyWatcher ==
  NotifyStep("ResumeNotifyW", "process_watcher_runnable", "ResumeNotifyD")

ResumeNotifyDiscriminator ==
  NotifyStep("ResumeNotifyD", "scene_discriminator_runnable", "Idle")

(* Mutant: Suspend() waits for the watcher only.                           *)
SuspendWait_WatcherOnly ==
  IF ~finished["watcher"]
  THEN SleepOn("driver", "process_watcher_finished")
       /\ Goto("driver", "SuspendW")
  ELSE Goto("driver", "Idle") /\ UNCHANGED sleeping

(* Mutant: the two waits in the other order.                               *)
SuspendWait_DiscriminatorFirst ==
  IF ~finished["discriminator"]
  THEN SleepOn("driver", "scene_discriminator_finished")
       /\ Goto("driver", "SuspendD")
  ELSE IF ~finished["watcher"]
  THEN SleepOn("driver", "process_watcher_finished")
       /\ Goto("driver", "SuspendW")
  ELSE Goto("driver", "Idle") /\ UNCHANGED sleeping

(* The two waits at the end of Suspend(), each under the lock: on the      *)
(* watcher first, then on the discriminator.                               *)
SuspendWait ==
  IF ~finished["watcher"]
  THEN SleepOn("driver", "process_watcher_finished")
       /\ Goto("driver", "SuspendW")
  ELSE IF ~finished["discriminator"]
  THEN SleepOn("driver", "scene_discriminator_finished")
       /\ Goto("driver", "SuspendD")
  ELSE Goto("driver", "Idle") /\ UNCHANGED sleeping

Suspend ==
  /\ At("driver", "Idle")
  /\ LockFree
  /\ is_process_watcher_runnable_' = FALSE
  /\ SuspendWait
  /\ IF \A w \in Workers : finished[w] THEN UNCHANGED apc
                                       ELSE QueueApc({"watcher"})
  /\ UNCHANGED <<threads_state_lock_, stop_requested,
                 is_scene_discriminator_runnable_, finished, panicked,
                 worldVars>>

SuspendResumesWaiting ==
  /\ \/ At("driver", "SuspendW")
     \/ At("driver", "SuspendD")
  /\ LockFree
  /\ SuspendWait
  /\ UNCHANGED <<threads_state_lock_, apc, dataVars>>

(* The engine is destroyed: the members of the subclass first, then        *)
(* ~IdleEngine, which calls Terminate().                                   *)
DestroySubclass ==
  /\ At("driver", "Idle")
  /\ subclass_alive' = FALSE
  /\ Goto("driver", "Stop")
  /\ UNCHANGED <<sleeping, threads_state_lock_, apc, flagVars, gameVars,
                 envVars>>

RequestStop ==
  /\ At("driver", "Stop")
  /\ stop_requested' = TRUE
  /\ Goto("driver", "StopNotifyW")
  /\ UNCHANGED <<sleeping, threads_state_lock_, apc,
                 is_process_watcher_runnable_,
                 is_scene_discriminator_runnable_, finished, panicked,
                 worldVars>>

StopNotifyWatcher ==
  NotifyStep("StopNotifyW", "process_watcher_runnable", "StopNotifyD")

StopNotifyDiscriminator ==
  NotifyStep("StopNotifyD", "scene_discriminator_runnable", "StopApc")

StopApc ==
  /\ At("driver", "StopApc")
  /\ QueueApc(Workers)
  /\ Goto("driver", "JoinW")
  /\ UNCHANGED <<sleeping, threads_state_lock_, dataVars>>

Join(from, w, to) ==
  /\ At("driver", from)
  /\ pc[w] = "Done"
  /\ Goto("driver", to)
  /\ UNCHANGED <<sleeping, threads_state_lock_, apc, dataVars>>

JoinWatcher == Join("JoinW", "watcher", "JoinD")

JoinDiscriminator == Join("JoinD", "discriminator", "Terminated")

-----------------------------------------------------------------------------
(* The environment: the game and the operating system.                     *)

GameAppears ==
  /\ launching
  /\ window' = TRUE
  /\ launching' = FALSE
  /\ UNCHANGED <<threadVars, flagVars, gameVars, subclass_alive>>

UserStartsGame ==
  /\ ~window
  /\ window' = TRUE
  /\ UNCHANGED <<threadVars, flagVars, gameVars, subclass_alive, launching>>

GameExits ==
  /\ window
  /\ handle = "live" \/ "earlyExit" \in Faults
  /\ window' = FALSE
  /\ handle' = IF handle = "live" THEN "dead" ELSE handle
  /\ UNCHANGED <<threadVars, flagVars, process_state_, interface_type_,
                 idle_mode_, subclass_alive, launching>>

(* Any wait on a condition variable may return without a notification.     *)
SpuriousWakeup(t) ==
  /\ sleeping[t] # NoCV
  /\ sleeping' = [sleeping EXCEPT ![t] = NoCV]
  /\ UNCHANGED <<pc, threads_state_lock_, apc, dataVars>>

-----------------------------------------------------------------------------
Loop(w) ==
  \/ CheckRunnable(w)
  \/ BlockOnRunnable(w)
  \/ FinishRound(w)
  \/ NotifyFinished(w)
  \/ SleepBetweenRounds(w)

Watch ==
  \/ WatchSeesExit
  \/ WatchInterrupted
  \/ StopDiscriminator
  \/ AwaitDiscriminator
  \/ SearchThrows
  \/ WatchBeingCreated
  \/ StartupDone
  \/ EnableDiscriminator
  \/ WakeDiscriminator
  \/ WatchExited
  \/ WatchUnknown

WatcherStep == Loop("watcher") \/ Watch

DiscriminatorStep ==
  Loop("discriminator") \/ Discriminate \/ DiscriminateThrows

(* What the driver does on its own account, when a hot key or the end of   *)
(* the program tells it to ...                                             *)
DriverCall ==
  \/ Boot
  \/ \E mode \in IdleModes : SetIdleMode(mode)
  \/ ResetAfterSwitchMode
  \/ Resume
  \/ Suspend
  \/ DestroySubclass

(* ... and the rest of a call it has begun.                                *)
DriverStep ==
  \/ ResumeNotifyWatcher
  \/ ResumeNotifyDiscriminator
  \/ SuspendResumesWaiting
  \/ RequestStop
  \/ StopNotifyWatcher
  \/ StopNotifyDiscriminator
  \/ StopApc
  \/ JoinWatcher
  \/ JoinDiscriminator

Environment ==
  \/ GameAppears
  \/ UserStartsGame
  \/ GameExits
  \/ \E t \in Threads : SpuriousWakeup(t)

(* The program has ended; nothing is left to do.                           *)
Ended ==
  /\ pc["driver"] = "Terminated"
  /\ UNCHANGED vars

Next == WatcherStep \/ DiscriminatorStep \/ DriverCall \/ DriverStep
        \/ Environment \/ Ended

Spec == Init /\ [][Next]_vars

(* A thread that can run, or can get the mutex, again and again does so in *)
(* the end; a launched game shows its window.  Nothing forces the driver   *)
(* to call, the user or the game to act, or a wait to end spuriously.      *)
Fairness ==
  /\ SF_vars(WatcherStep)
  /\ SF_vars(DiscriminatorStep)
  /\ SF_vars(DriverStep)
  /\ WF_vars(GameAppears)

FairSpec == Spec /\ Fairness

-----------------------------------------------------------------------------
(* Properties.                                                             *)

InRound(w) == pc[w] \in RoundPcs

(* Suspend() (IdleEngine.cpp:151-170) returns only when neither worker is  *)
(* in a round, and no round begins until Resume(): while the driver is     *)
(* idle and the engine is not runnable, nobody is in Watch() or            *)
(* Discriminate().                                                         *)
SuspendedMeansQuiet ==
  (pc["driver"] = "Idle" /\ ~is_process_watcher_runnable_)
    => \A w \in Workers : ~InRound(w)

(* The process information is cleared at IdleEngine.cpp:185 and set by     *)
(* SearchGameWindow only between rounds of the discriminator: a round of   *)
(* Discriminate() always has a process to look at.                         *)
DiscriminatesAProcess == InRound("discriminator") => handle # "none"

(* The assertions at IdleEngine.cpp:192 and 237: a search for the game     *)
(* begins with no process handle left from before.                         *)
SearchBeginsWithoutHandle ==
  (pc["watcher"] = "Round" /\ process_state_ \in {"BEING_CREATED", "UNKNOWN"})
    => handle = "none"

(* Suspend() and Watch() both wait on scene_discriminator_finished_, which *)
(* the discriminator signals with notify_one (IdleEngine.cpp:101): two     *)
(* sleepers at once would leave one asleep.                                *)
OneSleeperPerCondition ==
  \A t, u \in Threads :
    (sleeping[t] = sleeping[u] /\ sleeping[t] # NoCV) => t = u

(* The reset to LOGIN after a reconnection (IdleEngine.cpp:196) is not     *)
(* overwritten by a round that began before the game exited: from the exit *)
(* until the discriminator is enabled again the state machine changes only *)
(* by the two resets.                                                      *)
ResetSurvivesOldRounds ==
  [][(process_state_ \in {"EXITED", "BEING_CREATED"}
        /\ ~is_scene_discriminator_runnable_
        /\ interface_type_' # interface_type_)
       => interface_type_' \in {"LOGIN", "UNKNOWN"}]_vars

(* While the engine is suspended, what the driver writes into it (the mode *)
(* and the reset of the state machine, Driver.cpp:56-62) stays: no worker  *)
(* changes the state machine, the mode or the process state.               *)
DriverOwnsSuspendedEngine ==
  [][(pc["driver"] = "Idle" /\ ~is_process_watcher_runnable_
        /\ (WatcherStep \/ DiscriminatorStep)) =>
       UNCHANGED <<process_state_, handle, interface_type_, idle_mode_>>]_vars

(* Suspend() wakes a watcher that waits for the process with an APC        *)
(* (IdleEngine.cpp:165) and always returns.                                *)
SuspendReturns ==
  (pc["driver"] \in {"SuspendW", "SuspendD"}) ~> (pc["driver"] = "Idle")

(* The launch failed, or the game was gone again before its window was     *)
(* found: only a search for the window follows and the launch is not       *)
(* repeated (IdleEngine.cpp:227-233).                                      *)
Stranded == process_state_ = "BEING_CREATED" /\ ~launching /\ ~window

(* A game that exits while the engine runs is started again and watched    *)
(* again, unless the watcher is stranded or has died of an exception, or   *)
(* the driver suspends or destroys the engine.                             *)
Reconnects ==
  (process_state_ = "EXITED")
    ~> \/ process_state_ = "RUNNING" \/ Stranded
       \/ ~is_process_watcher_runnable_ \/ stop_requested
       \/ pc["watcher"] = "Done"

(* Module.hpp:11: Terminate() ends the module and releases its threads, so *)
(* it returns.                                                             *)
TerminateReturns == (pc["driver"] = "Stop") ~> (pc["driver"] = "Terminated")

(* A worker sleeps although both notifications of Terminate() are past.    *)
LostWakeup ==
  /\ pc["driver"] \in {"JoinW", "JoinD"}
  /\ \E w \in Workers : sleeping[w] = RunnableCV(w)

(* Terminate() returns unless its notification is lost.                    *)
TerminateReturnsOrLostWakeup ==
  (pc["driver"] = "Stop") ~> (pc["driver"] = "Terminated" \/ LostWakeup)

-----------------------------------------------------------------------------
(* The engine is a Module (Module.hpp).                                    *)

phaseBar ==
  IF pc["driver"] = "NotBooted" THEN "down"
  ELSE IF pc["driver"] = "Terminated" THEN "terminated"
  ELSE IF stop_requested THEN "terminating"
  ELSE IF pc["driver"] \in {"SuspendW", "SuspendD"} THEN "suspending"
  ELSE IF is_process_watcher_runnable_ THEN "running"
  ELSE "suspended"

busyBar == {w \in Workers : InRound(w)}

Contract == INSTANCE ModuleContract WITH phase <- phaseBar, busy <- busyBar

ContractSpec == Contract!Spec
=============================================================================
