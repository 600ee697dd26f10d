-------------------------- MODULE IdleEngineProofs --------------------------
(***************************************************************************)
(* Proofs about IdleEngine for every set of interface types, every fault   *)
(* set and both reconnection settings.                                     *)
(***************************************************************************)
EXTENDS IdleEngine, TLAPS

(* The inductive invariant, in parts.                                      *)

(* A worker's has_..._finished_ flag is down from the start of a round     *)
(* until the worker has reported its end; only the watcher runs Watch().   *)
FlagInv ==
  /\ \A w \in Workers : finished[w] <=> pc[w] \notin RoundPcs \cup {"Finish"}
  /\ pc["discriminator"] \notin RoundPcs \ {"Round"}
  /\ pc["driver"] = "NotBooted" => \A w \in Workers : pc[w] = "NotStarted"

(* Each thread sleeps only on the conditions of the place it is at.        *)
SleepInv ==
  /\ sleeping["watcher"] # NoCV =>
       \/ sleeping["watcher"] = "process_watcher_runnable"
          /\ pc["watcher"] = "Check"
       \/ sleeping["watcher"] = "scene_discriminator_finished"
          /\ pc["watcher"] = "AwaitDiscriminator"
  /\ sleeping["discriminator"] # NoCV =>
       /\ sleeping["discriminator"] = "scene_discriminator_runnable"
       /\ pc["discriminator"] = "Check"
  /\ sleeping["driver"] # NoCV =>
       \/ sleeping["driver"] = "process_watcher_finished"
          /\ pc["driver"] = "SuspendW"
       \/ sleeping["driver"] = "scene_discriminator_finished"
          /\ pc["driver"] = "SuspendD"

(* What the driver has reached so far.                                     *)
DriverInv ==
  /\ pc["driver"] \in {"NotBooted", "SuspendW", "SuspendD"}
       => ~is_process_watcher_runnable_
  /\ pc["driver"] \in {"ResumeNotifyW", "ResumeNotifyD"}
       => is_process_watcher_runnable_
  /\ pc["driver"] = "SuspendD" => finished["watcher"]
  /\ (pc["driver"] = "Idle" /\ ~is_process_watcher_runnable_)
       => \A w \in Workers : finished[w]
  /\ stop_requested <=> pc["driver"] \in {"StopNotifyW", "StopNotifyD",
                          "StopApc", "JoinW", "JoinD", "Terminated"}
  /\ pc["driver"] \in {"JoinD", "Terminated"} => pc["watcher"] = "Done"
  /\ pc["driver"] = "Terminated" => pc["discriminator"] = "Done"

(* The process information and the discriminator.                          *)
ProcessInv ==
  /\ pc["watcher"] = "Startup" => process_state_ = "BEING_CREATED"
  /\ pc["watcher"] \in {"Enable", "EnableNotify"}
       => process_state_ \in {"BEING_CREATED", "RUNNING"}
  /\ pc["watcher"] \in {"ExitLock", "AwaitDiscriminator"}
       => process_state_ = "RUNNING"
  /\ pc["watcher"] = "EnableNotify" => is_scene_discriminator_runnable_
  /\ handle # "none" <=>
       \/ process_state_ = "RUNNING"
       \/ pc["watcher"] \in {"Startup", "Enable", "EnableNotify"}
  /\ (is_scene_discriminator_runnable_ \/ ~finished["discriminator"]) =>
       \/ process_state_ = "RUNNING"
       \/ pc["watcher"] = "EnableNotify"
  /\ pc["watcher"] = "AwaitDiscriminator" => ~is_scene_discriminator_runnable_

IInv == FlagInv /\ SleepInv /\ DriverInv /\ ProcessInv

-----------------------------------------------------------------------------
(* Every step keeps every variable of IdleEngine in its type.              *)
LEMMA TypingStep == TypeOK /\ [Next]_vars => TypeOK'
<1>. SUFFICES ASSUME TypeOK, [Next]_vars PROVE TypeOK'
  OBVIOUS
<1>. USE DEF TypeOK, Workers, Threads, threadVars, flagVars, gameVars,
             envVars, dataVars, worldVars,
             ConditionVariables, NoCV, Nobody, ProcessStates, IdleModes,
             RoundPcs, WorkerPcs, DriverPcs
<1>1. ASSUME NEW w \in Workers, CheckRunnable(w) PROVE TypeOK'
  <2>1. /\ pc' \in [Threads -> WorkerPcs \cup DriverPcs]
        /\ pc'["driver"] = pc["driver"]
        /\ \A v \in Workers : pc'[v] \in WorkerPcs
    BY <1>1 DEF CheckRunnable, Goto
  <2>2. threads_state_lock_' \in Workers \cup {Nobody}
    BY <1>1 DEF CheckRunnable
  <2>3. finished' \in [Workers -> BOOLEAN]
    BY <1>1 DEF CheckRunnable
  <2>4. UNCHANGED <<sleeping, apc, stop_requested,
               is_process_watcher_runnable_,
               is_scene_discriminator_runnable_, panicked, gameVars,
               subclass_alive, envVars>>
    BY <1>1 DEF CheckRunnable
  <2>. QED
    BY <2>1, <2>2, <2>3, <2>4
<1>2. ASSUME NEW w \in Workers, BlockOnRunnable(w) PROVE TypeOK'
  BY <1>2 DEF BlockOnRunnable, At, SleepOn, RunnableCV, Goto
<1>3. ASSUME NEW w \in Workers, FinishRound(w) PROVE TypeOK'
  BY <1>3 DEF FinishRound, At, LockFree, Goto
<1>4. ASSUME NEW w \in Workers, NotifyFinished(w) PROVE TypeOK'
  BY <1>4 DEF NotifyFinished, At, NotifyOne, FinishedCV, Goto
<1>5. ASSUME NEW w \in Workers, SleepBetweenRounds(w) PROVE TypeOK'
  BY <1>5 DEF SleepBetweenRounds, At, Goto
<1>6. CASE WatchSeesExit
  BY <1>6 DEF WatchSeesExit, At, Goto
<1>7. CASE WatchInterrupted
  BY <1>7 DEF WatchInterrupted, At, Goto
<1>8. CASE StopDiscriminator
  <2>1. is_scene_discriminator_runnable_' \in BOOLEAN
    BY <1>8 DEF StopDiscriminator
  <2>2. /\ handle' \in {"none", "live", "dead"}
        /\ process_state_' \in ProcessStates
        /\ sleeping' \in [Threads -> ConditionVariables \cup {NoCV}]
        /\ pc' \in [Threads -> WorkerPcs \cup DriverPcs]
        /\ pc'["driver"] = pc["driver"]
        /\ \A v \in Workers : pc'[v] \in WorkerPcs
    BY <1>8
    DEF StopDiscriminator, ClearWhenDiscriminatorFinished, SleepOn, Goto
  <2>3. UNCHANGED <<threads_state_lock_, apc, stop_requested,
               is_process_watcher_runnable_, finished, panicked,
               interface_type_, idle_mode_, subclass_alive, envVars>>
    BY <1>8 DEF StopDiscriminator
  <2>. QED
    BY <2>1, <2>2, <2>3
<1>9. CASE AwaitDiscriminator
  BY <1>9
  DEF AwaitDiscriminator, At, LockFree, ClearWhenDiscriminatorFinished,
      SleepOn, Goto
<1>10. CASE SearchThrows
  BY <1>10 DEF SearchThrows, At, Throw, Goto
<1>11. CASE WatchBeingCreated
  BY <1>11 DEF WatchBeingCreated, At, SearchGameWindow, Goto
<1>12. CASE StartupDone
  BY <1>12, InterfacesAssumption DEF StartupDone, At, Goto
<1>13. CASE EnableDiscriminator
  BY <1>13 DEF EnableDiscriminator, At, LockFree, Goto
<1>14. CASE WakeDiscriminator
  BY <1>14 DEF WakeDiscriminator, At, NotifyOne, Goto
<1>15. CASE WatchExited
  <2>1. launching' \in BOOLEAN
    BY <1>15 DEF WatchExited, LaunchGame
  <2>2. /\ pc' \in [Threads -> WorkerPcs \cup DriverPcs]
        /\ pc'["driver"] = pc["driver"]
        /\ \A w \in Workers : pc'[w] \in WorkerPcs
    BY <1>15 DEF WatchExited, Goto
  <2>3. process_state_' \in ProcessStates
    BY <1>15 DEF WatchExited
  <2>4. UNCHANGED <<sleeping, threads_state_lock_, apc, flagVars, handle,
               interface_type_, idle_mode_, subclass_alive, window>>
    BY <1>15 DEF WatchExited
  <2>. QED
    BY <2>1, <2>2, <2>3, <2>4
<1>16. CASE WatchUnknown
  BY <1>16 DEF WatchUnknown, At, SearchGameWindow, Goto
<1>17. CASE Discriminate
  <2>1. CASE UNCHANGED <<handle, window>>
    BY <1>17, <2>1 DEF Discriminate, At, Goto
  <2>2. CASE handle' = "dead" /\ window' = FALSE
    BY <1>17, <2>2 DEF Discriminate, At, Goto
  <2>. QED
    BY <1>17, <2>1, <2>2 DEF Discriminate
<1>18. CASE DiscriminateThrows
  BY <1>18 DEF DiscriminateThrows, At, Throw, Goto
<1>19. CASE Boot
  BY <1>19 DEF Boot, At
<1>20. ASSUME NEW mode \in IdleModes, SetIdleMode(mode) PROVE TypeOK'
  BY <1>20 DEF SetIdleMode, At
<1>21. CASE ResetAfterSwitchMode
  BY <1>21, InterfacesAssumption DEF ResetAfterSwitchMode, At
<1>22. CASE Resume
  BY <1>22 DEF Resume, At, LockFree, Goto
<1>23. CASE Suspend
  <2>1. apc' \in [Workers -> BOOLEAN]
    BY <1>23 DEF Suspend, QueueApc
  <2>2. /\ sleeping' \in [Threads -> ConditionVariables \cup {NoCV}]
        /\ pc' \in [Threads -> WorkerPcs \cup DriverPcs]
        /\ pc'["driver"] \in DriverPcs
        /\ \A w \in Workers : pc'[w] = pc[w]
    BY <1>23 DEF Suspend, SuspendWait, SleepOn, Goto
  <2>3. is_process_watcher_runnable_' \in BOOLEAN
    BY <1>23 DEF Suspend
  <2>4. UNCHANGED <<threads_state_lock_, stop_requested,
               is_scene_discriminator_runnable_, finished, panicked,
               gameVars, subclass_alive, envVars>>
    BY <1>23 DEF Suspend
  <2>. QED
    BY <2>1, <2>2, <2>3, <2>4
<1>24. CASE DestroySubclass
  <2>1. /\ pc' \in [Threads -> WorkerPcs \cup DriverPcs]
        /\ pc'["driver"] \in DriverPcs
        /\ \A w \in Workers : pc'[w] = pc[w]
    BY <1>24 DEF DestroySubclass, Goto
  <2>2. subclass_alive' \in BOOLEAN
    BY <1>24 DEF DestroySubclass
  <2>3. UNCHANGED <<sleeping, threads_state_lock_, apc, flagVars, gameVars,
               envVars>>
    BY <1>24 DEF DestroySubclass
  <2>. QED
    BY <2>1, <2>2, <2>3
<1>25. CASE ResumeNotifyWatcher
  BY <1>25 DEF ResumeNotifyWatcher, NotifyStep, At, NotifyOne, Goto
<1>26. CASE ResumeNotifyDiscriminator
  BY <1>26 DEF ResumeNotifyDiscriminator, NotifyStep, At, NotifyOne, Goto
<1>27. CASE SuspendResumesWaiting
  BY <1>27 DEF SuspendResumesWaiting, At, LockFree, SuspendWait, SleepOn, Goto
<1>28. CASE RequestStop
  BY <1>28 DEF RequestStop, At, Goto
<1>29. CASE StopNotifyWatcher
  BY <1>29 DEF StopNotifyWatcher, NotifyStep, At, NotifyOne, Goto
<1>30. CASE StopNotifyDiscriminator
  BY <1>30 DEF StopNotifyDiscriminator, NotifyStep, At, NotifyOne, Goto
<1>31. CASE StopApc
  BY <1>31 DEF StopApc, At, QueueApc, Goto
<1>32. CASE JoinWatcher
  BY <1>32 DEF JoinWatcher, Join, At, Goto
<1>33. CASE JoinDiscriminator
  BY <1>33 DEF JoinDiscriminator, Join, At, Goto
<1>34. CASE GameAppears
  <2>1. window' \in BOOLEAN /\ launching' \in BOOLEAN
    BY <1>34 DEF GameAppears
  <2>2. UNCHANGED <<threadVars, flagVars, gameVars, subclass_alive>>
    BY <1>34 DEF GameAppears
  <2>. QED
    BY <2>1, <2>2
<1>35. CASE UserStartsGame
  BY <1>35 DEF UserStartsGame
<1>36. CASE GameExits
  <2>1. window' \in BOOLEAN
    BY <1>36 DEF GameExits
  <2>2. handle' \in {"none", "live", "dead"}
    BY <1>36 DEF GameExits
  <2>3. UNCHANGED <<threadVars, flagVars, process_state_, interface_type_,
                    idle_mode_, subclass_alive, launching>>
    BY <1>36 DEF GameExits
  <2>. QED
    BY <2>1, <2>2, <2>3
<1>37. ASSUME NEW t \in Threads, SpuriousWakeup(t) PROVE TypeOK'
  BY <1>37 DEF SpuriousWakeup
<1>38. CASE UNCHANGED vars
  BY <1>38 DEF vars
<1>. QED
  BY <1>1, <1>2, <1>3, <1>4, <1>5, <1>6, <1>7, <1>8, <1>9, <1>10, <1>11, <1>12,
     <1>13, <1>14, <1>15, <1>16, <1>17, <1>18, <1>19, <1>20, <1>21, <1>22,
     <1>23, <1>24, <1>25, <1>26, <1>27, <1>28, <1>29, <1>30, <1>31, <1>32,
     <1>33, <1>34, <1>35, <1>36, <1>37, <1>38

  DEF Next, WatcherStep, DiscriminatorStep, Loop, Watch, DriverCall,
      DriverStep,
      Environment, Ended, Workers, Threads

(* Every step keeps the inductive invariant.                               *)
LEMMA IInvStep == TypeOK /\ IInv /\ [Next]_vars => IInv'
<1>. SUFFICES ASSUME TypeOK, IInv, [Next]_vars PROVE IInv'
  OBVIOUS
<1>. USE DEF TypeOK, Workers, Threads, threadVars, flagVars, gameVars,
             envVars, dataVars, worldVars,
             ConditionVariables, NoCV, Nobody, ProcessStates, IdleModes,
             RoundPcs, WorkerPcs, DriverPcs, IInv, FlagInv, SleepInv,
             DriverInv, ProcessInv
<1>1. ASSUME NEW w \in Workers, CheckRunnable(w) PROVE IInv'
  BY <1>1 DEF CheckRunnable, At, LockFree, Goto, Runnable
<1>2. ASSUME NEW w \in Workers, BlockOnRunnable(w) PROVE IInv'
  BY <1>2 DEF BlockOnRunnable, At, SleepOn, RunnableCV, Goto
<1>3. ASSUME NEW w \in Workers, FinishRound(w) PROVE IInv'
  BY <1>3 DEF FinishRound, At, LockFree, Goto
<1>4. ASSUME NEW w \in Workers, NotifyFinished(w) PROVE IInv'
  BY <1>4 DEF NotifyFinished, At, NotifyOne, FinishedCV, Goto
<1>5. ASSUME NEW w \in Workers, SleepBetweenRounds(w) PROVE IInv'
  BY <1>5 DEF SleepBetweenRounds, At, Goto
<1>6. CASE WatchSeesExit
  BY <1>6 DEF WatchSeesExit, At, Goto
<1>7. CASE WatchInterrupted
  BY <1>7 DEF WatchInterrupted, At, Goto
<1>8. CASE StopDiscriminator
  BY <1>8
  DEF StopDiscriminator, At, LockFree, ClearWhenDiscriminatorFinished,
      SleepOn, Goto
<1>9. CASE AwaitDiscriminator
  BY <1>9
  DEF AwaitDiscriminator, At, LockFree, ClearWhenDiscriminatorFinished,
      SleepOn, Goto
<1>10. CASE SearchThrows
  BY <1>10 DEF SearchThrows, At, Throw, Goto
<1>11. CASE WatchBeingCreated
  BY <1>11 DEF WatchBeingCreated, At, SearchGameWindow, Goto
<1>12. CASE StartupDone
  BY <1>12 DEF StartupDone, At, Goto
<1>13. CASE EnableDiscriminator
  BY <1>13 DEF EnableDiscriminator, At, LockFree, Goto
<1>14. CASE WakeDiscriminator
  BY <1>14 DEF WakeDiscriminator, At, NotifyOne, Goto
<1>15. CASE WatchExited
  BY <1>15, SMTT(30) DEF WatchExited, LaunchGame, At, Goto
<1>16. CASE WatchUnknown
  BY <1>16 DEF WatchUnknown, At, SearchGameWindow, Goto
<1>17. CASE Discriminate
  BY <1>17 DEF Discriminate, At, Goto
<1>18. CASE DiscriminateThrows
  BY <1>18 DEF DiscriminateThrows, At, Throw, Goto
<1>19. CASE Boot
  BY <1>19 DEF Boot, At
<1>20. ASSUME NEW mode \in IdleModes, SetIdleMode(mode) PROVE IInv'
  BY <1>20 DEF SetIdleMode, At
<1>21. CASE ResetAfterSwitchMode
  BY <1>21 DEF ResetAfterSwitchMode, At
<1>22. CASE Resume
  BY <1>22 DEF Resume, At, LockFree, Goto
<1>23. CASE Suspend
  BY <1>23 DEF Suspend, At, LockFree, SuspendWait, QueueApc, SleepOn, Goto
<1>24. CASE DestroySubclass
  BY <1>24, SMTT(30) DEF DestroySubclass, At, Goto
<1>25. CASE ResumeNotifyWatcher
  BY <1>25 DEF ResumeNotifyWatcher, NotifyStep, At, NotifyOne, Goto
<1>26. CASE ResumeNotifyDiscriminator
  BY <1>26 DEF ResumeNotifyDiscriminator, NotifyStep, At, NotifyOne, Goto
<1>27. CASE SuspendResumesWaiting
  BY <1>27 DEF SuspendResumesWaiting, At, LockFree, SuspendWait, SleepOn, Goto
<1>28. CASE RequestStop
  BY <1>28 DEF RequestStop, At, Goto
<1>29. CASE StopNotifyWatcher
  BY <1>29 DEF StopNotifyWatcher, NotifyStep, At, NotifyOne, Goto
<1>30. CASE StopNotifyDiscriminator
  BY <1>30 DEF StopNotifyDiscriminator, NotifyStep, At, NotifyOne, Goto
<1>31. CASE StopApc
  BY <1>31 DEF StopApc, At, QueueApc, Goto
<1>32. CASE JoinWatcher
  BY <1>32 DEF JoinWatcher, Join, At, Goto
<1>33. CASE JoinDiscriminator
  BY <1>33 DEF JoinDiscriminator, Join, At, Goto
<1>34. CASE GameAppears
  BY <1>34 DEF GameAppears
<1>35. CASE UserStartsGame
  BY <1>35 DEF UserStartsGame
<1>36. CASE GameExits
  BY <1>36 DEF GameExits
<1>37. ASSUME NEW t \in Threads, SpuriousWakeup(t) PROVE IInv'
  BY <1>37 DEF SpuriousWakeup
<1>38. CASE UNCHANGED vars
  BY <1>38 DEF vars
<1>. QED
  BY <1>1, <1>2, <1>3, <1>4, <1>5, <1>6, <1>7, <1>8, <1>9, <1>10, <1>11, <1>12,
     <1>13, <1>14, <1>15, <1>16, <1>17, <1>18, <1>19, <1>20, <1>21, <1>22,
     <1>23, <1>24, <1>25, <1>26, <1>27, <1>28, <1>29, <1>30, <1>31, <1>32,
     <1>33, <1>34, <1>35, <1>36, <1>37, <1>38

  DEF Next, WatcherStep, DiscriminatorStep, Loop, Watch, DriverCall,
      DriverStep,
      Environment, Ended, Workers, Threads

(* The invariants of the engine hold in every reachable state: the type    *)
(* invariant and the four parts of IInv.                                   *)
THEOREM Invariance == Spec => [](TypeOK /\ IInv)
<1>1. Init => TypeOK /\ IInv
  BY InterfacesAssumption
  DEF Init, TypeOK, IInv, FlagInv, SleepInv, DriverInv, ProcessInv, Workers,
      Threads, ConditionVariables, NoCV, Nobody, ProcessStates, IdleModes,
      RoundPcs, WorkerPcs, DriverPcs
<1>2. TypeOK /\ IInv /\ [Next]_vars => (TypeOK /\ IInv)'
  BY TypingStep, IInvStep
<1>. QED
  BY <1>1, <1>2, PTL DEF Spec

(* The type invariant of IdleEngine.                                       *)
THEOREM TypeCorrect == Spec => []TypeOK
  BY Invariance, PTL

(* While the driver is idle and the engine is not runnable, no worker is   *)
(* inside Watch() or Discriminate() (IdleEngine.cpp:151-170).              *)
THEOREM SuspendIsQuiet == Spec => []SuspendedMeansQuiet
<1>1. TypeOK /\ IInv => SuspendedMeansQuiet
  BY DEF IInv, FlagInv, DriverInv, SuspendedMeansQuiet, InRound
<1>. QED
  BY <1>1, Invariance, PTL

(* A round of Discriminate() always has a process to look at: clear() at   *)
(* IdleEngine.cpp:185 never pulls the handle from under it.                *)
THEOREM DiscriminatorHasProcess == Spec => []DiscriminatesAProcess
<1>1. TypeOK /\ IInv => DiscriminatesAProcess
  BY DEF IInv, FlagInv, ProcessInv, DiscriminatesAProcess, InRound, Workers,
         RoundPcs
<1>. QED
  BY <1>1, Invariance, PTL

(* The assertions at IdleEngine.cpp:192 and 237 never fail.                *)
THEOREM AssertionsHold == Spec => []SearchBeginsWithoutHandle
<1>1. TypeOK /\ IInv => SearchBeginsWithoutHandle
  BY DEF IInv, ProcessInv, SearchBeginsWithoutHandle
<1>. QED
  BY <1>1, Invariance, PTL

(* No condition variable ever has two sleepers, so notify_one is enough    *)
(* everywhere in IdleEngine.cpp.                                           *)
THEOREM NotifyOneSuffices == Spec => []OneSleeperPerCondition
<1>1. TypeOK /\ IInv => OneSleeperPerCondition
  BY DEF TypeOK, IInv, FlagInv, SleepInv, DriverInv, OneSleeperPerCondition,
         Workers, Threads, RoundPcs, NoCV
<1>. QED
  BY <1>1, Invariance, PTL

(* The reset to LOGIN after a reconnection is not overwritten by a round   *)
(* that began before the game exited.                                      *)
THEOREM ResetSurvives == Spec => ResetSurvivesOldRounds
<1>1. ASSUME TypeOK, IInv, [Next]_vars,
             process_state_ \in {"EXITED", "BEING_CREATED"},
             ~is_scene_discriminator_runnable_,
             interface_type_' # interface_type_
      PROVE  interface_type_' \in {"LOGIN", "UNKNOWN"}
  <2>1. pc["discriminator"] # "Round"
    BY <1>1 DEF IInv, FlagInv, ProcessInv, Workers, RoundPcs
  <2>2. StartupDone \/ ResetAfterSwitchMode
    BY <1>1, <2>1
    DEF Next, WatcherStep, DiscriminatorStep, Loop, Watch, DriverCall,
        DriverStep, Environment, Ended, vars, dataVars, worldVars, gameVars,
        CheckRunnable,
        BlockOnRunnable, FinishRound, NotifyFinished, SleepBetweenRounds,
        WatchSeesExit, WatchInterrupted, StopDiscriminator,
        AwaitDiscriminator, SearchThrows, WatchBeingCreated,
        EnableDiscriminator, WakeDiscriminator, WatchExited, WatchUnknown,
        Discriminate, DiscriminateThrows, At, Boot, SetIdleMode, Resume,
        Suspend, DestroySubclass, ResumeNotifyWatcher,
        ResumeNotifyDiscriminator, NotifyStep, SuspendResumesWaiting,
        RequestStop, StopNotifyWatcher, StopNotifyDiscriminator, StopApc,
        JoinWatcher, JoinDiscriminator, Join, GameAppears, UserStartsGame,
        GameExits, SpuriousWakeup
  <2>. QED
    BY <2>2 DEF StartupDone, ResetAfterSwitchMode
<1>. QED
  BY <1>1, Invariance, PTL DEF Spec, ResetSurvivesOldRounds

(* No worker changes the state machine, the mode or the process state of a *)
(* suspended engine, so what the driver writes there stays.                *)
THEOREM SuspendedEngineIsDrivers == Spec => DriverOwnsSuspendedEngine
<1>1. ASSUME TypeOK, IInv,
             pc["driver"] = "Idle", ~is_process_watcher_runnable_,
             WatcherStep \/ DiscriminatorStep
      PROVE  UNCHANGED <<process_state_, handle, interface_type_, idle_mode_>>
  <2>1. \A w \in Workers : pc[w] \notin RoundPcs
    BY <1>1 DEF IInv, FlagInv, DriverInv
  <2>2. ~Watch /\ ~Discriminate /\ ~DiscriminateThrows
    BY <2>1
    DEF Watch, WatchSeesExit, WatchInterrupted, StopDiscriminator,
        AwaitDiscriminator, SearchThrows, WatchBeingCreated, StartupDone,
        EnableDiscriminator, WakeDiscriminator, WatchExited, WatchUnknown,
        Discriminate, DiscriminateThrows, At, Workers, RoundPcs
  <2>3. \E w \in Workers : Loop(w)
    BY <1>1, <2>2 DEF WatcherStep, DiscriminatorStep, Workers
  <2>. QED
    BY <2>3 DEF Loop, CheckRunnable, BlockOnRunnable, FinishRound,
                NotifyFinished, SleepBetweenRounds, dataVars, worldVars,
                gameVars
<1>. QED
  BY <1>1, Invariance, PTL DEF Spec, DriverOwnsSuspendedEngine

-----------------------------------------------------------------------------
(* Notifications.  The mutex is held exactly between a false predicate and *)
(* the sleep that follows it, and the predicate stays false meanwhile.     *)
LockInv ==
  \A w \in Workers :
    /\ pc[w] = "Gap" <=> threads_state_lock_ = w
    /\ pc[w] = "Gap" => ~Runnable(w)

(* A worker that sleeps although it may run is about to be notified.       *)
NoLostWakeup ==
  /\ (sleeping["watcher"] = "process_watcher_runnable"
        /\ Runnable("watcher"))
       => pc["driver"] = "ResumeNotifyW"
  /\ (sleeping["discriminator"] = "scene_discriminator_runnable"
        /\ Runnable("discriminator"))
       => \/ pc["driver"] \in {"ResumeNotifyW", "ResumeNotifyD"}
          \/ pc["watcher"] = "EnableNotify"

(* A thread that waits for the end of a round of w waits for a round under *)
(* way, or for one whose end w is about to report.                         *)
WaiterIsOwedNotify ==
  \A w \in Workers, t \in Threads :
    sleeping[t] = FinishedCV(w)
      => pc[w] \in RoundPcs \cup {"Finish", "Notify"}

WakeInv == LockInv /\ NoLostWakeup /\ WaiterIsOwedNotify

(* Every step keeps the account of locks and notifications.  A flag can    *)
(* only be raised with the mutex free, so never between the test of a      *)
(* predicate and the sleep.                                                *)
LEMMA WakeInvStep == TypeOK /\ IInv /\ WakeInv /\ [Next]_vars => WakeInv'
<1>. SUFFICES ASSUME TypeOK, IInv, WakeInv, [Next]_vars PROVE WakeInv'
  OBVIOUS
<1>. USE DEF TypeOK, Workers, Threads, threadVars, flagVars, gameVars,
             envVars, dataVars, worldVars,
             ConditionVariables, NoCV, Nobody,
             RoundPcs, WorkerPcs, DriverPcs, IInv, FlagInv, SleepInv,
             DriverInv, WakeInv, LockInv, NoLostWakeup, WaiterIsOwedNotify,
             Runnable, FinishedCV
<1>1. ASSUME NEW w \in Workers, CheckRunnable(w) PROVE WakeInv'
  BY <1>1 DEF CheckRunnable, At, LockFree, Goto, Runnable
<1>2. ASSUME NEW w \in Workers, BlockOnRunnable(w) PROVE WakeInv'
  BY <1>2 DEF BlockOnRunnable, At, SleepOn, RunnableCV, Goto
<1>3. ASSUME NEW w \in Workers, FinishRound(w) PROVE WakeInv'
  BY <1>3 DEF FinishRound, At, LockFree, Goto
<1>4. ASSUME NEW w \in Workers, NotifyFinished(w) PROVE WakeInv'
  BY <1>4 DEF NotifyFinished, At, NotifyOne, FinishedCV, Goto
<1>5. ASSUME NEW w \in Workers, SleepBetweenRounds(w) PROVE WakeInv'
  BY <1>5 DEF SleepBetweenRounds, At, Goto
<1>6. CASE WatchSeesExit
  BY <1>6 DEF WatchSeesExit, At, Goto
<1>7. CASE WatchInterrupted
  BY <1>7 DEF WatchInterrupted, At, Goto
<1>8. CASE StopDiscriminator
  BY <1>8
  DEF StopDiscriminator, At, LockFree, ClearWhenDiscriminatorFinished,
      SleepOn, Goto
<1>9. CASE AwaitDiscriminator
  BY <1>9
  DEF AwaitDiscriminator, At, LockFree, ClearWhenDiscriminatorFinished,
      SleepOn, Goto
<1>10. CASE SearchThrows
  BY <1>10 DEF SearchThrows, At, Throw, Goto
<1>11. CASE WatchBeingCreated
  BY <1>11 DEF WatchBeingCreated, At, SearchGameWindow, Goto
<1>12. CASE StartupDone
  BY <1>12 DEF StartupDone, At, Goto
<1>13. CASE EnableDiscriminator
  BY <1>13 DEF EnableDiscriminator, At, LockFree, Goto
<1>14. CASE WakeDiscriminator
  BY <1>14 DEF WakeDiscriminator, At, NotifyOne, Goto
<1>15. CASE WatchExited
  BY <1>15, SMTT(30) DEF WatchExited, LaunchGame, At, Goto
<1>16. CASE WatchUnknown
  BY <1>16 DEF WatchUnknown, At, SearchGameWindow, Goto
<1>17. CASE Discriminate
  BY <1>17 DEF Discriminate, At, Goto
<1>18. CASE DiscriminateThrows
  BY <1>18 DEF DiscriminateThrows, At, Throw, Goto
<1>19. CASE Boot
  BY <1>19 DEF Boot, At
<1>20. ASSUME NEW mode \in IdleModes, SetIdleMode(mode) PROVE WakeInv'
  BY <1>20 DEF SetIdleMode, At
<1>21. CASE ResetAfterSwitchMode
  BY <1>21 DEF ResetAfterSwitchMode, At
<1>22. CASE Resume
  BY <1>22 DEF Resume, At, LockFree, Goto
<1>23. CASE Suspend
  BY <1>23 DEF Suspend, At, LockFree, SuspendWait, QueueApc, SleepOn, Goto
<1>24. CASE DestroySubclass
  BY <1>24, SMTT(30) DEF DestroySubclass, At, Goto
<1>25. CASE ResumeNotifyWatcher
  BY <1>25 DEF ResumeNotifyWatcher, NotifyStep, At, NotifyOne, Goto
<1>26. CASE ResumeNotifyDiscriminator
  BY <1>26 DEF ResumeNotifyDiscriminator, NotifyStep, At, NotifyOne, Goto
<1>27. CASE SuspendResumesWaiting
  BY <1>27 DEF SuspendResumesWaiting, At, LockFree, SuspendWait, SleepOn, Goto
<1>28. CASE RequestStop
  BY <1>28 DEF RequestStop, At, Goto
<1>29. CASE StopNotifyWatcher
  BY <1>29 DEF StopNotifyWatcher, NotifyStep, At, NotifyOne, Goto
<1>30. CASE StopNotifyDiscriminator
  BY <1>30 DEF StopNotifyDiscriminator, NotifyStep, At, NotifyOne, Goto
<1>31. CASE StopApc
  BY <1>31 DEF StopApc, At, QueueApc, Goto
<1>32. CASE JoinWatcher
  BY <1>32 DEF JoinWatcher, Join, At, Goto
<1>33. CASE JoinDiscriminator
  BY <1>33 DEF JoinDiscriminator, Join, At, Goto
<1>34. CASE GameAppears
  BY <1>34 DEF GameAppears
<1>35. CASE UserStartsGame
  BY <1>35 DEF UserStartsGame
<1>36. CASE GameExits
  BY <1>36 DEF GameExits
<1>37. ASSUME NEW t \in Threads, SpuriousWakeup(t) PROVE WakeInv'
  BY <1>37 DEF SpuriousWakeup
<1>38. CASE UNCHANGED vars
  BY <1>38 DEF vars
<1>. QED
  BY <1>1, <1>2, <1>3, <1>4, <1>5, <1>6, <1>7, <1>8, <1>9, <1>10, <1>11, <1>12,
     <1>13, <1>14, <1>15, <1>16, <1>17, <1>18, <1>19, <1>20, <1>21, <1>22,
     <1>23, <1>24, <1>25, <1>26, <1>27, <1>28, <1>29, <1>30, <1>31, <1>32,
     <1>33, <1>34, <1>35, <1>36, <1>37, <1>38
  DEF Next, WatcherStep, DiscriminatorStep, Loop, Watch, DriverCall,
      DriverStep,
      Environment, Ended, Workers, Threads

(* The account of locks and notifications is right in every state.         *)
LEMMA WakeInvariance == Spec => []WakeInv
<1>1. Init => WakeInv
  BY DEF Init, WakeInv, LockInv, NoLostWakeup, WaiterIsOwedNotify, Workers,
         Threads, FinishedCV, NoCV, Nobody
<1>. QED
  BY <1>1, WakeInvStep, Invariance, PTL DEF Spec

(* No notification of Resume() or Watch() is lost (IdleEngine.cpp:143-148, *)
(* 206-210 and 243-247 against the waits at 32 and 77): a worker that      *)
(* sleeps although it may run has its notify_one still before it.  Only    *)
(* the stop request (123), made without the mutex, has no such guarantee.  *)
THEOREM WakeupsAreNotLost == Spec => []NoLostWakeup
<1>1. WakeInv => NoLostWakeup
  BY DEF WakeInv
<1>. QED
  BY <1>1, WakeInvariance, PTL

(* Nobody waits for the end of a round that has been reported already:     *)
(* Suspend() and Watch() wait only for a worker that has yet to call       *)
(* notify_one (IdleEngine.cpp:50-54 and 97-101 against 168-169 and 183).   *)
THEOREM WaitersAreOwedNotify == Spec => []WaiterIsOwedNotify
<1>1. WakeInv => WaiterIsOwedNotify
  BY DEF WakeInv
<1>. QED
  BY <1>1, WakeInvariance, PTL

(* A worker somebody waits for is awake, unless it is the watcher, which   *)
(* waits in its turn for the discriminator, which is awake.                *)
WaitsAreAcyclic ==
  \A w \in Workers, t \in Threads :
    sleeping[t] = FinishedCV(w) =>
      \/ sleeping[w] = NoCV
      \/ /\ w = "watcher"
         /\ sleeping[w] = FinishedCV("discriminator")
         /\ sleeping["discriminator"] = NoCV

(* The threads of the engine never wait for each other in a circle: the    *)
(* driver in Suspend() for the watcher, the watcher in Watch() for the     *)
(* discriminator, and the discriminator for nobody.                        *)
THEOREM NoCircularWait == Spec => []WaitsAreAcyclic
<1>1. TypeOK /\ IInv /\ WaiterIsOwedNotify => WaitsAreAcyclic
  BY DEF TypeOK, IInv, FlagInv, SleepInv, WaiterIsOwedNotify, WaitsAreAcyclic,
         FinishedCV, Workers, Threads, RoundPcs, NoCV
<1>. QED
  BY <1>1, Invariance, WaitersAreOwedNotify, PTL

(* What Discriminate() reads without a lock, the process information, the  *)
(* state machine and the mode, is written by the watcher only between two  *)
(* rounds of the discriminator.                                            *)
WatcherWritesAlone ==
  [][(WatcherStep /\ ~UNCHANGED <<handle, interface_type_, idle_mode_>>)
       => ~InRound("discriminator")]_vars

(* The watcher and the discriminator share their data without a race:      *)
(* clear() (IdleEngine.cpp:185), SearchGameWindow() (193, 238) and the     *)
(* reset after a reconnection (196) find no round of Discriminate() under  *)
(* way.                                                                    *)
THEOREM WatcherDoesNotRace == Spec => WatcherWritesAlone
<1>1. ASSUME TypeOK, IInv, [Next]_vars, WatcherStep,
             ~UNCHANGED <<handle, interface_type_, idle_mode_>>
      PROVE  ~InRound("discriminator")
  <2>1. \/ StopDiscriminator \/ AwaitDiscriminator
        \/ WatchBeingCreated \/ StartupDone \/ WatchUnknown
    BY <1>1
    DEF WatcherStep, Loop, Watch, CheckRunnable, BlockOnRunnable, FinishRound,
        NotifyFinished, SleepBetweenRounds, WatchSeesExit, WatchInterrupted,
        SearchThrows, EnableDiscriminator, WakeDiscriminator, WatchExited,
        dataVars, worldVars, gameVars
  <2>2. CASE StopDiscriminator \/ AwaitDiscriminator
    BY <1>1, <2>2
    DEF StopDiscriminator, AwaitDiscriminator, ClearWhenDiscriminatorFinished,
        IInv, FlagInv, InRound, Workers
  <2>3. CASE WatchBeingCreated \/ StartupDone \/ WatchUnknown
    BY <1>1, <2>3
    DEF WatchBeingCreated, StartupDone, WatchUnknown, At, IInv, FlagInv,
        ProcessInv, InRound, Workers, RoundPcs
  <2>. QED
    BY <2>1, <2>2, <2>3
<1>. QED
  BY <1>1, Invariance, PTL DEF Spec, WatcherWritesAlone

-----------------------------------------------------------------------------
(* Every step of the engine is a step of the module contract, or none.     *)
LEMMA ContractStep ==
  TypeOK /\ IInv /\ [Next]_vars => [Contract!Next]_(Contract!vars)
<1>. SUFFICES ASSUME TypeOK, IInv, [Next]_vars
              PROVE  [Contract!Next]_(Contract!vars)
  OBVIOUS
<1>. USE DEF TypeOK, Workers, Threads, threadVars, flagVars, gameVars,
             envVars, dataVars, worldVars,
             RoundPcs, WorkerPcs, DriverPcs, NoCV, IInv, FlagInv, SleepInv,
             DriverInv, phaseBar, busyBar, InRound, Contract!vars,
             Contract!Next, Contract!Boot, Contract!Resume,
             Contract!Suspend, Contract!SuspendReturns,
             Contract!Terminate, Contract!TerminateReturns,
             Contract!StartRound, Contract!FinishRound, Contract!MayBoot,
             Contract!MayResume, Contract!MaySuspend, Contract!MayTerminate
<1>1. ASSUME NEW w \in Workers, CheckRunnable(w)
      PROVE  [Contract!Next]_(Contract!vars)
  BY <1>1 DEF CheckRunnable, At, LockFree, Goto, Runnable
<1>2. ASSUME NEW w \in Workers, BlockOnRunnable(w)
      PROVE  [Contract!Next]_(Contract!vars)
  BY <1>2 DEF BlockOnRunnable, At, SleepOn, RunnableCV, Goto
<1>3. ASSUME NEW w \in Workers, FinishRound(w)
      PROVE  [Contract!Next]_(Contract!vars)
  BY <1>3 DEF FinishRound, At, LockFree, Goto
<1>4. ASSUME NEW w \in Workers, NotifyFinished(w)
      PROVE  [Contract!Next]_(Contract!vars)
  BY <1>4 DEF NotifyFinished, At, NotifyOne, FinishedCV, Goto
<1>5. ASSUME NEW w \in Workers, SleepBetweenRounds(w)
      PROVE  [Contract!Next]_(Contract!vars)
  BY <1>5 DEF SleepBetweenRounds, At, Goto
<1>6. CASE WatchSeesExit
  BY <1>6 DEF WatchSeesExit, At, Goto
<1>7. CASE WatchInterrupted
  BY <1>7 DEF WatchInterrupted, At, Goto
<1>8. CASE StopDiscriminator
  BY <1>8
  DEF StopDiscriminator, At, LockFree, ClearWhenDiscriminatorFinished,
      SleepOn, Goto
<1>9. CASE AwaitDiscriminator
  BY <1>9
  DEF AwaitDiscriminator, At, LockFree, ClearWhenDiscriminatorFinished,
      SleepOn, Goto
<1>10. CASE SearchThrows
  BY <1>10 DEF SearchThrows, At, Throw, Goto
<1>11. CASE WatchBeingCreated
  BY <1>11 DEF WatchBeingCreated, At, SearchGameWindow, Goto
<1>12. CASE StartupDone
  BY <1>12 DEF StartupDone, At, Goto
<1>13. CASE EnableDiscriminator
  BY <1>13 DEF EnableDiscriminator, At, LockFree, Goto
<1>14. CASE WakeDiscriminator
  BY <1>14 DEF WakeDiscriminator, At, NotifyOne, Goto
<1>15. CASE WatchExited
  BY <1>15, SMTT(30) DEF WatchExited, LaunchGame, At, Goto
<1>16. CASE WatchUnknown
  BY <1>16 DEF WatchUnknown, At, SearchGameWindow, Goto
<1>17. CASE Discriminate
  BY <1>17 DEF Discriminate, At, Goto
<1>18. CASE DiscriminateThrows
  BY <1>18 DEF DiscriminateThrows, At, Throw, Goto
<1>19. CASE Boot
  BY <1>19 DEF Boot, At
<1>20. ASSUME NEW mode \in IdleModes, SetIdleMode(mode)
       PROVE  [Contract!Next]_(Contract!vars)
  BY <1>20 DEF SetIdleMode, At
<1>21. CASE ResetAfterSwitchMode
  BY <1>21 DEF ResetAfterSwitchMode, At
<1>22. CASE Resume
  BY <1>22 DEF Resume, At, LockFree, Goto
<1>23. CASE Suspend
  BY <1>23 DEF Suspend, At, LockFree, SuspendWait, QueueApc, SleepOn, Goto
<1>24. CASE DestroySubclass
  BY <1>24, SMTT(30) DEF DestroySubclass, At, Goto
<1>25. CASE ResumeNotifyWatcher
  BY <1>25 DEF ResumeNotifyWatcher, NotifyStep, At, NotifyOne, Goto
<1>26. CASE ResumeNotifyDiscriminator
  BY <1>26 DEF ResumeNotifyDiscriminator, NotifyStep, At, NotifyOne, Goto
<1>27. CASE SuspendResumesWaiting
  BY <1>27 DEF SuspendResumesWaiting, At, LockFree, SuspendWait, SleepOn, Goto
<1>28. CASE RequestStop
  BY <1>28 DEF RequestStop, At, Goto
<1>29. CASE StopNotifyWatcher
  BY <1>29 DEF StopNotifyWatcher, NotifyStep, At, NotifyOne, Goto
<1>30. CASE StopNotifyDiscriminator
  BY <1>30 DEF StopNotifyDiscriminator, NotifyStep, At, NotifyOne, Goto
<1>31. CASE StopApc
  BY <1>31 DEF StopApc, At, QueueApc, Goto
<1>32. CASE JoinWatcher
  BY <1>32 DEF JoinWatcher, Join, At, Goto
<1>33. CASE JoinDiscriminator
  BY <1>33 DEF JoinDiscriminator, Join, At, Goto
<1>34. CASE GameAppears
  BY <1>34 DEF GameAppears
<1>35. CASE UserStartsGame
  BY <1>35 DEF UserStartsGame
<1>36. CASE GameExits
  BY <1>36 DEF GameExits
<1>37. ASSUME NEW t \in Threads, SpuriousWakeup(t)
       PROVE  [Contract!Next]_(Contract!vars)
  BY <1>37 DEF SpuriousWakeup
<1>38. CASE UNCHANGED vars
  BY <1>38 DEF vars
<1>. QED
  BY <1>1, <1>2, <1>3, <1>4, <1>5, <1>6, <1>7, <1>8, <1>9, <1>10, <1>11, <1>12,
     <1>13, <1>14, <1>15, <1>16, <1>17, <1>18, <1>19, <1>20, <1>21, <1>22,
     <1>23, <1>24, <1>25, <1>26, <1>27, <1>28, <1>29, <1>30, <1>31, <1>32,
     <1>33, <1>34, <1>35, <1>36, <1>37, <1>38

  DEF Next, WatcherStep, DiscriminatorStep, Loop, Watch, DriverCall,
      DriverStep,
      Environment, Ended, Workers, Threads

(* The idle engine does what Module.hpp promises: IdleEngine implements    *)
(* ModuleContract under phaseBar and busyBar.                              *)
THEOREM ImplementsContract == Spec => ContractSpec
<1>1. Init => Contract!Init
  BY DEF Init, Contract!Init, phaseBar, busyBar, InRound, Workers, Threads,
         RoundPcs
<1>2. TypeOK /\ IInv /\ [Next]_vars => [Contract!Next]_(Contract!vars)
  BY ContractStep
<1>. QED
  BY <1>1, <1>2, Invariance, PTL DEF Spec, ContractSpec, Contract!Spec
=============================================================================
