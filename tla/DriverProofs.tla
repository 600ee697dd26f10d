---------------------------- MODULE DriverProofs ----------------------------
(***************************************************************************)
(* Proofs about the driver, for every set of modes, with the option on or  *)
(* off and with any of the faults.  The modules the driver owns take part  *)
(* with their contract only.                                               *)
(***************************************************************************)
EXTENDS Driver, TLAPS

BothWorkers == {"process_watcher", "scene_discriminator"}

(* What a round of the engine may order is a command.                      *)
LEMMA OrdersAreCommands ==
  \A m \in IdleModes : EngineCommands(m) \subseteq Commands
  BY DEF Commands, EngineCommands

LEMMA ModesAreCommands ==
  /\ NOP \in Commands
  /\ CommandModes \subseteq Commands
  BY DEF Commands, EngineCommands

Places == BootPcs \cup ModulePcs \cup LoopPcs \cup ExitPcs

(* The main thread only goes from place to place.                          *)
LEMMA StaysInPlaces ==
  ASSUME pc \in Places, [Next]_vars PROVE pc' \in Places
<1> USE DEF Places, BootPcs, ModulePcs, LoopPcs, ExitPcs
<1>1. CASE RecordThread \/ RegisterHotKeys \/ InstallHooks \/ BootDispatcher
  BY <1>1 DEF RecordThread, RegisterHotKeys, InstallHooks, BootDispatcher, Step
<1>2. CASE \/ BootEngine \/ BootOptionalModules \/ GetQuit
           \/ \E k \in Modes : GetHotKey(k)
  BY <1>2 DEF BootEngine, BootOptionalModules, GetQuit, GetHotKey, Step
<1>3. CASE DisableCurrentMode
  BY <1>3 DEF DisableCurrentMode, AfterSuspend
<1>4. CASE EngineSuspended \/ DisableNop \/ EnableMode \/ Destroy
  BY <1>4 DEF EngineSuspended, DisableNop, EnableMode, Destroy, Step,
              NextMember
<1>5. CASE StopDispatcher \/ JoinDispatcher \/ WriteNop
  BY <1>5 DEF StopDispatcher, JoinDispatcher, WriteNop, Step, NextMember
<1>6. CASE StopEngine \/ JoinEngine \/ StopOptionalModules
  BY <1>6 DEF StopEngine, JoinEngine, StopOptionalModules, Step, NextMember
<1>7. CASE UNCHANGED pc
  BY <1>7
<1> QED
  BY <1>1, <1>2, <1>3, <1>4, <1>5, <1>6, <1>7
  DEF Next, MainStep, EngineStep, EngineRoundFinishes, DispatcherStep, Exited,
      Terminate, EngineRoundStarts, GameReconnects, Discriminate,
      Dispatch, EngineRoundEnds, GetCommand, WriteCommandFile, RunThrows, vars

(* The driver and the threads move each module by the steps of its         *)
(* contract only.                                                          *)
LEMMA EngineKeepsContract ==
  [Next]_vars => [Engine!Next]_<<engine_phase, engine_busy>>
<1> SUFFICES ASSUME [Next]_vars
             PROVE  [Engine!Next]_<<engine_phase, engine_busy>>
  OBVIOUS
<1> USE DEF Engine!Next, BothWorkers
<1>1. CASE BootEngine
  BY <1>1 DEF BootEngine
<1>2. CASE DisableCurrentMode
  BY <1>2 DEF DisableCurrentMode
<1>3. CASE EngineSuspended
  BY <1>3 DEF EngineSuspended
<1>4. CASE EnableMode
  BY <1>4 DEF EnableMode, engineVars
<1>5. CASE StopEngine \/ JoinEngine
  BY <1>5 DEF StopEngine, JoinEngine
<1>6. CASE EngineStep
  BY <1>6 DEF EngineStep, EngineRoundStarts, GameReconnects, Discriminate
<1>7. CASE EngineRoundFinishes
  BY <1>7 DEF EngineRoundFinishes, Dispatch, EngineRoundEnds
<1>8. CASE UNCHANGED engineVars
  BY <1>8 DEF engineVars
<1> QED
  BY <1>1, <1>2, <1>3, <1>4, <1>5, <1>6, <1>7, <1>8
  DEF Next, MainStep, DispatcherStep, Exited, RecordThread, RegisterHotKeys,
      InstallHooks, BootDispatcher, BootOptionalModules, GetQuit, GetHotKey,
      DisableNop, Destroy, StopDispatcher, JoinDispatcher, WriteNop,
      StopOptionalModules, Terminate, GetCommand,
      WriteCommandFile, RunThrows, dispatcherVars, vars

LEMMA DispatcherKeepsContract ==
  [Next]_vars => [Dispatcher!Next]_<<dispatcher_phase, dispatcher_busy>>
<1> SUFFICES ASSUME [Next]_vars
             PROVE  [Dispatcher!Next]_<<dispatcher_phase, dispatcher_busy>>
  OBVIOUS
<1> USE DEF Dispatcher!Next
<1>1. CASE BootDispatcher
  BY <1>1 DEF BootDispatcher
<1>2. CASE StopDispatcher \/ JoinDispatcher
  BY <1>2 DEF StopDispatcher, JoinDispatcher, JoinWorker
<1>3. CASE DispatcherStep \/ RunThrows
  BY <1>3 DEF DispatcherStep, GetCommand, WriteCommandFile, RunThrows
<1>4. CASE UNCHANGED <<dispatcher_phase, dispatcher_busy>>
  BY <1>4
<1> QED
  BY <1>1, <1>2, <1>3, <1>4
  DEF Next, MainStep, EngineStep, EngineRoundFinishes, Exited, RecordThread,
      RegisterHotKeys, InstallHooks, BootEngine, BootOptionalModules, GetQuit,
      GetHotKey, DisableCurrentMode, EngineSuspended, DisableNop, EnableMode,
      Destroy, WriteNop, StopEngine, JoinEngine, StopOptionalModules,
      Terminate, EngineRoundStarts, GameReconnects, Discriminate,
      Dispatch, EngineRoundEnds, dispatcherVars, vars

LEMMA ContractsAreTyped ==
  ASSUME Engine!TypeOK, Dispatcher!TypeOK, [Next]_vars
  PROVE  Engine!TypeOK' /\ Dispatcher!TypeOK'
<1>1. Engine!TypeOK'
  BY EngineKeepsContract
  DEF Engine!TypeOK, Engine!Phases, Engine!Next, Engine!Boot, Engine!Resume,
      Engine!Suspend, Engine!SuspendReturns, Engine!Terminate,
      Engine!TerminateReturns, Engine!StartRound, Engine!FinishRound,
      Engine!MayBoot, Engine!MayResume, Engine!MaySuspend,
      Engine!MayTerminate
<1>2. Dispatcher!TypeOK'
  BY DispatcherKeepsContract
  DEF Dispatcher!TypeOK, Dispatcher!Phases, Dispatcher!Next, Dispatcher!Boot,
      Dispatcher!Resume, Dispatcher!Suspend, Dispatcher!SuspendReturns,
      Dispatcher!Terminate, Dispatcher!TerminateReturns,
      Dispatcher!StartRound, Dispatcher!FinishRound, Dispatcher!MayBoot,
      Dispatcher!MayResume, Dispatcher!MaySuspend, Dispatcher!MayTerminate
<1> QED
  BY <1>1, <1>2

(* The variables of the main thread and of the optional module.            *)
LEMMA MainIsTyped ==
  ASSUME TypeOK, [Next]_vars
  PROVE  /\ win32_thread_id_' \in BOOLEAN
         /\ quit' \in BOOLEAN
         /\ post_failed' \in BOOLEAN
         /\ current_mode_id_' \in Modes
         /\ disable_current_mode' \in {"nothing", "command", "idle"}
         /\ id' \in Modes
         /\ optional_module' \in {"down", "booted", "running", "terminated"}
<1> USE DEF TypeOK, modeVars, queueVars
<1>1. CASE RecordThread \/ Destroy
  BY <1>1 DEF RecordThread, Destroy
<1>2. CASE \E k \in Modes : GetHotKey(k)
  BY <1>2 DEF GetHotKey
<1>3. CASE EnableMode
  BY <1>3 DEF EnableMode, Closure
<1>4. CASE BootOptionalModules \/ StopOptionalModules
  BY <1>4 DEF BootOptionalModules, StopOptionalModules
<1>5. CASE Terminate
  <2>1. /\ win32_thread_id_' \in BOOLEAN
        /\ quit' \in BOOLEAN
        /\ post_failed' \in BOOLEAN
    <3>1. CASE win32_thread_id_
      <4>1. PostQuit /\ win32_thread_id_' = FALSE
        BY <1>5, <3>1, Zenon DEF Terminate
      <4>2. quit' \in BOOLEAN /\ post_failed' \in BOOLEAN
        BY <4>1, Zenon DEF PostQuit
      <4> QED
        BY <4>1, <4>2, Zenon
    <3>2. CASE ~win32_thread_id_
      BY <1>5, <3>2, Zenon DEF Terminate
    <3> QED
      BY <3>1, <3>2
  <2> QED
    BY <1>5, <2>1 DEF Terminate
<1>6. CASE UNCHANGED <<win32_thread_id_, queueVars, modeVars, optional_module>>
  BY <1>6
<1> QED
  BY <1>1, <1>2, <1>3, <1>4, <1>5, <1>6
  DEF Next, MainStep, EngineStep, EngineRoundFinishes, DispatcherStep, Exited,
      RegisterHotKeys, InstallHooks, BootDispatcher, BootEngine, GetQuit,
      DisableCurrentMode, EngineSuspended, DisableNop, StopDispatcher,
      JoinDispatcher, WriteNop, StopEngine, JoinEngine, EngineRoundStarts,
      GameReconnects, Discriminate, Dispatch, EngineRoundEnds, GetCommand,
      WriteCommandFile, RunThrows, vars

(* The commands, on their way from the engine or the driver to the file.   *)
LEMMA CommandsAreTyped ==
  ASSUME TypeOK, [Next]_vars
  PROVE  /\ idle_mode_' \in IdleModes
         /\ decided' \in Commands \cup {"none"}
         /\ command' \in Commands
         /\ this_cmd' \in Commands
         /\ file' \in Commands \cup {Empty}
         /\ write_failed' \in BOOLEAN
         /\ worker_ended' \in BOOLEAN
<1> USE ModesAreCommands DEF TypeOK
<1>1. CASE DisableNop
  BY <1>1 DEF DisableNop, ClearCommand, engineVars, dispatcherVars, fileVars
<1>2. CASE EnableMode
  BY <1>2 DEF EnableMode, SetIdleMode, engineVars, dispatcherVars, fileVars
<1>3. CASE WriteNop
  BY <1>3 DEF WriteNop, WriteFile, engineVars
<1>4. CASE GameReconnects
  BY <1>4 DEF GameReconnects, IdleModes, dispatcherVars, fileVars
<1>5. CASE Discriminate
  BY <1>5, OrdersAreCommands DEF Discriminate, dispatcherVars, fileVars
<1>6. CASE Dispatch
  BY <1>6 DEF Dispatch, dispatcherVars, fileVars
<1>7. CASE DispatcherStep \/ RunThrows
  BY <1>7 DEF DispatcherStep, GetCommand, WriteCommandFile, WriteFile,
              RunThrows, engineVars
<1>8. CASE UNCHANGED <<idle_mode_, decided, command, fileVars>>
  BY <1>8 DEF fileVars
<1> QED
  BY <1>1, <1>2, <1>3, <1>4, <1>5, <1>6, <1>7, <1>8
  DEF Next, MainStep, EngineStep, EngineRoundFinishes, Exited, RecordThread,
      RegisterHotKeys, InstallHooks, BootDispatcher, BootEngine,
      BootOptionalModules, GetQuit, GetHotKey, DisableCurrentMode,
      EngineSuspended, Destroy, StopDispatcher, JoinDispatcher, StopEngine,
      JoinEngine, StopOptionalModules, Terminate,
      EngineRoundStarts, EngineRoundEnds, engineVars, dispatcherVars, vars

(* Every reachable state is well typed, the two contracts included         *)
(* (TypeOK, Driver.cpp and its modules).                                   *)
THEOREM TypeCorrect == Spec => []TypeOK
<1>1. Init => TypeOK
  BY ModesAssumption, ModesAreCommands
  DEF Init, TypeOK, NullMode, IdleModes, BootPcs, ModulePcs, Engine!Init,
      Engine!TypeOK, Engine!Phases, Dispatcher!Init, Dispatcher!TypeOK,
      Dispatcher!Phases
<1>2. TypeOK /\ [Next]_vars => TypeOK'
  <2> SUFFICES ASSUME TypeOK, [Next]_vars PROVE TypeOK'
    OBVIOUS
  <2>1. Engine!TypeOK' /\ Dispatcher!TypeOK'
    BY ContractsAreTyped DEF TypeOK
  <2>2. pc' \in Places
    BY StaysInPlaces DEF TypeOK, Places
  <2> QED
    BY <2>1, <2>2, MainIsTyped, CommandsAreTyped DEF TypeOK, Places
<1> QED
  BY <1>1, <1>2, PTL DEF Spec

(* What the proofs need of the types.                                      *)
TypeInv ==
  /\ current_mode_id_ \in Modes
  /\ id \in Modes
  /\ idle_mode_ \in IdleModes
  /\ decided \in EngineCommands("EXTENDED") \cup {"none"}
  /\ engine_busy \subseteq BothWorkers
  /\ pc \in BootPcs \cup ModulePcs \cup LoopPcs \cup ExitPcs

(* The phase the driver has brought the engine to, place by place; an      *)
(* engine that is down or suspended has no round under way, so none of its *)
(* decisions is still to be dispatched.                                    *)
EngineInv ==
  /\ pc \in BootPcs => engine_phase = "down" /\ current_mode_id_ = NullMode
  /\ pc \in ModulePcs =>
       engine_phase = "suspended" /\ current_mode_id_ = NullMode
  /\ pc \in {"GetMessage", "Disable"} =>
       engine_phase = IF current_mode_id_ \in IdleModes THEN "running"
                                                        ELSE "suspended"
  /\ pc = "Suspending" =>
       engine_phase = "suspending" /\ current_mode_id_ \in IdleModes
  /\ pc \in {"DisableNop", "Enable"} => engine_phase = "suspended"
  /\ engine_phase \in {"down", "suspended"} => engine_busy = {}
  /\ decided # "none" => "scene_discriminator" \in engine_busy

(* The closure in disable_current_mode belongs to the mode.                *)
ClosureInv ==
  pc \in BootPcs \cup ModulePcs \cup LoopPcs =>
    disable_current_mode =
      IF current_mode_id_ \in IdleModes THEN "idle"
      ELSE IF current_mode_id_ \in CommandModes THEN "command"
      ELSE "nothing"

(* The extended mode is known to the engine, and in its decisions, only    *)
(* while the driver is in it.                                              *)
ExtendedInv ==
  /\ pc \in {"GetMessage", "Disable", "Suspending"} =>
       /\ (engine_phase # "suspended" /\ idle_mode_ = "EXTENDED")
            => current_mode_id_ = "EXTENDED"
       /\ decided = "CMD_EXTENDED_IDLE_2" => current_mode_id_ = "EXTENDED"

CommandInv ==
  /\ pc \in BootPcs \cup ModulePcs \cup {"Enable"} => command = NOP
  /\ pc \in {"GetMessage", "Disable"} =>
       command \in CommandsOf(current_mode_id_)

ModeInv == TypeInv /\ EngineInv /\ ClosureInv /\ ExtendedInv /\ CommandInv

USE DEF NOP, NullMode, IdleModes, CommandModes, EngineCommands, CommandsOf,
        BootPcs, ModulePcs, LoopPcs, ExitPcs, BothWorkers

LEMMA ModeInvInit == Init => ModeInv
  BY ModesAssumption
  DEF Init, ModeInv, TypeInv, EngineInv, ClosureInv, ExtendedInv, CommandInv,
      Engine!Init

LEMMA ModeInvNext == ModeInv /\ [Next]_vars => ModeInv'
<1> SUFFICES ASSUME ModeInv, [Next]_vars PROVE ModeInv'
  OBVIOUS
<1> USE ModesAssumption
    DEF ModeInv, TypeInv, EngineInv, ClosureInv, ExtendedInv, CommandInv
<1>1. CASE RecordThread
  BY <1>1 DEF RecordThread, Step, modeVars, queueVars, engineVars
<1>2. CASE RegisterHotKeys
  BY <1>2 DEF RegisterHotKeys, Step, modeVars, queueVars, engineVars
<1>3. CASE BootDispatcher
  BY <1>3 DEF BootDispatcher, Step, modeVars, queueVars, engineVars
<1>4. CASE BootEngine
  BY <1>4 DEF BootEngine, Step, modeVars, queueVars, Engine!Boot
<1>5. CASE GetQuit
  BY <1>5 DEF GetQuit, Step, modeVars, queueVars, engineVars
<1>6. CASE \E k \in Modes : GetHotKey(k)
  BY <1>6 DEF GetHotKey, engineVars
<1>7. CASE DisableCurrentMode
  BY <1>7 DEF DisableCurrentMode, AfterSuspend, Engine!Suspend, modeVars,
              queueVars
<1>8. CASE EngineSuspended
  BY <1>8 DEF EngineSuspended, Step, Engine!SuspendReturns, modeVars, queueVars
<1>9. CASE DisableNop
  BY <1>9 DEF DisableNop, ClearCommand, Step, modeVars, queueVars, engineVars
<1>10. CASE EnableMode
  BY <1>10 DEF EnableMode, Closure, SetIdleMode, Step, Engine!Resume,
               queueVars, engineVars
<1>11. CASE Destroy
  BY <1>11 DEF Destroy, NextMember, Step, modeVars, queueVars, engineVars
<1>12. CASE StopDispatcher
  BY <1>12 DEF StopDispatcher, NextMember, modeVars, queueVars, engineVars
<1>13. CASE JoinDispatcher
  BY <1>13 DEF JoinDispatcher, Step, modeVars, queueVars, engineVars
<1>14. CASE WriteNop
  BY <1>14 DEF WriteNop, NextMember, Step, modeVars, queueVars, engineVars
<1>15. CASE StopEngine
  BY <1>15 DEF StopEngine, NextMember, Engine!Terminate, modeVars, queueVars
<1>16. CASE JoinEngine
  BY <1>16 DEF JoinEngine, NextMember, Step, Engine!TerminateReturns, modeVars,
               queueVars
<1>17. CASE RunThrows
  BY <1>17 DEF RunThrows, modeVars, queueVars, engineVars
<1>18. CASE Terminate
  BY <1>18 DEF Terminate, modeVars, engineVars
<1>19. ASSUME NEW w \in BothWorkers, EngineRoundStarts(w) PROVE ModeInv'
  BY <1>19 DEF EngineRoundStarts, Engine!StartRound, modeVars, queueVars
<1>20. CASE GameReconnects
  BY <1>20 DEF GameReconnects, modeVars, queueVars
<1>21. CASE Discriminate
  BY <1>21 DEF Discriminate, modeVars, queueVars
<1>22. CASE Dispatch
  BY <1>22 DEF Dispatch, Engine!FinishRound, modeVars, queueVars
<1>23. ASSUME NEW w \in BothWorkers, EngineRoundEnds(w) PROVE ModeInv'
  BY <1>23 DEF EngineRoundEnds, Engine!FinishRound, modeVars, queueVars
<1>24. CASE GetCommand
  BY <1>24 DEF GetCommand, modeVars, queueVars, engineVars
<1>25. CASE WriteCommandFile
  BY <1>25 DEF WriteCommandFile, modeVars, queueVars, engineVars
<1>26. CASE UNCHANGED vars
  BY <1>26 DEF vars, modeVars, queueVars, engineVars
<1>27. CASE InstallHooks
  BY <1>27 DEF InstallHooks, Step, modeVars, queueVars, engineVars
<1>28. CASE BootOptionalModules
  BY <1>28 DEF BootOptionalModules, Step, modeVars, queueVars, engineVars
<1>29. CASE StopOptionalModules
  BY <1>29 DEF StopOptionalModules, NextMember, Step, modeVars, queueVars,
               engineVars
<1> QED
  BY <1>1, <1>2, <1>3, <1>4, <1>5, <1>6, <1>7, <1>8, <1>9, <1>10, <1>11,
     <1>12, <1>13, <1>14, <1>15, <1>16, <1>17, <1>18, <1>19, <1>20, <1>21,
     <1>22, <1>23, <1>24, <1>25, <1>26, <1>27, <1>28, <1>29
  DEF Next, MainStep, EngineStep, EngineRoundFinishes, DispatcherStep, Exited

(* The modes exclude each other: while the driver waits for a hot key the  *)
(* command is one its mode may order and the engine runs exactly in the    *)
(* idle modes, for every set of modes (ModesExclude, Driver.cpp:35-95).    *)
THEOREM ModesExcludeEachOther == Spec => []ModesExclude
<1>1. ModeInv => ModesExclude
  BY DEF ModeInv, EngineInv, CommandInv, ModesExclude
<1> QED
  BY <1>1, ModeInvInit, ModeInvNext, PTL DEF Spec

(* The engine idles in extended mode only while the driver is in it        *)
(* (ExtendedOnlyInExtendedMode, Driver.cpp:64-75).                         *)
THEOREM ExtendedIsChosen == Spec => []ExtendedOnlyInExtendedMode
<1>1. ModeInv => ExtendedOnlyInExtendedMode
  BY DEF ModeInv, ExtendedInv, ExtendedOnlyInExtendedMode
<1> QED
  BY <1>1, ModeInvInit, ModeInvNext, PTL DEF Spec

-----------------------------------------------------------------------------
(* The dispatcher, place by place; once it has written its NOP its worker  *)
(* is gone and the file stays as it is.                                    *)
DispatcherInv ==
  /\ pc \in {"Boot", "Register", "Install", "BootDispatcher"} =>
       dispatcher_phase = "down"
  /\ pc = "ResumeDispatcher" => dispatcher_phase = "suspended"
  /\ pc \in LoopPcs \cup ModulePcs \cup {"BootEngine"} =>
       dispatcher_phase = "running"
  /\ pc \in {"Destroy", "StopDispatcher"} =>
       dispatcher_phase \in {"down", "running"}
  /\ pc = "JoinDispatcher" => dispatcher_phase = "terminating"
  /\ pc = "WriteNop" => dispatcher_phase = "terminated"
  /\ pc \in {"StopEngine", "JoinEngine", "StopModules", "JoinModules",
             "Exited"} =>
       \/ dispatcher_phase = "down"
       \/ dispatcher_phase = "terminated" /\ (file = NOP \/ write_failed)
  /\ dispatcher_phase \in {"down", "suspended", "terminated"} =>
       dispatcher_busy = {}
  /\ pc \in BootPcs \cup ModulePcs \cup LoopPcs \cup ExitPcs

LEMMA DispatcherInvInit == Init => DispatcherInv
  BY DEF Init, DispatcherInv, Dispatcher!Init

LEMMA DispatcherInvNext == DispatcherInv /\ [Next]_vars => DispatcherInv'
<1> SUFFICES ASSUME DispatcherInv, [Next]_vars PROVE DispatcherInv'
  OBVIOUS
<1> USE DEF DispatcherInv, fileVars
<1>1. CASE RecordThread \/ RegisterHotKeys \/ InstallHooks \/ BootEngine
  BY <1>1 DEF RecordThread, RegisterHotKeys, InstallHooks, BootEngine, Step,
              dispatcherVars
<1>2. CASE BootDispatcher
  BY <1>2 DEF BootDispatcher, Step, Dispatcher!Boot, Dispatcher!Resume
<1>3. CASE GetQuit \/ (\E k \in Modes : GetHotKey(k))
  BY <1>3 DEF GetQuit, GetHotKey, Step, dispatcherVars
<1>4. CASE DisableCurrentMode
  BY <1>4 DEF DisableCurrentMode, AfterSuspend, dispatcherVars
<1>5. CASE EngineSuspended \/ DisableNop \/ EnableMode
  BY <1>5 DEF EngineSuspended, DisableNop, EnableMode, Step, dispatcherVars
<1>6. CASE Destroy
  BY <1>6 DEF Destroy, NextMember, Step, dispatcherVars
<1>7. CASE StopDispatcher
  BY <1>7 DEF StopDispatcher, NextMember, Dispatcher!Terminate
<1>8. CASE JoinDispatcher
  BY <1>8 DEF JoinDispatcher, JoinWorker, Dispatcher!TerminateReturns, Step
<1>9. CASE WriteNop
  BY <1>9 DEF WriteNop, WriteFile, NextMember, Step
<1>10. CASE StopEngine \/ JoinEngine
  BY <1>10 DEF StopEngine, JoinEngine, NextMember, Step, dispatcherVars
<1>11. CASE Terminate
  BY <1>11 DEF Terminate, dispatcherVars
<1>12. CASE EngineStep \/ EngineRoundFinishes
  BY <1>12 DEF EngineStep, EngineRoundFinishes, EngineRoundStarts,
               GameReconnects, Discriminate, Dispatch, EngineRoundEnds,
               dispatcherVars
<1>13. CASE GetCommand
  BY <1>13 DEF GetCommand, Dispatcher!StartRound
<1>14. CASE WriteCommandFile \/ RunThrows
  BY <1>14 DEF WriteCommandFile, RunThrows, Dispatcher!FinishRound
<1>15. CASE UNCHANGED vars
  BY <1>15 DEF vars, dispatcherVars
<1>16. CASE BootOptionalModules \/ StopOptionalModules
  BY <1>16 DEF BootOptionalModules, StopOptionalModules, NextMember, Step,
               dispatcherVars
<1> QED
  BY <1>1, <1>2, <1>3, <1>4, <1>5, <1>6, <1>7, <1>8, <1>9, <1>10, <1>11,
     <1>12, <1>13, <1>14, <1>15, <1>16
  DEF Next, MainStep, DispatcherStep, Exited

(* The engine is never being suspended or terminated when its turn comes   *)
(* to be destroyed.                                                        *)
StopInv ==
  pc \in {"Destroy", "StopDispatcher", "JoinDispatcher", "WriteNop",
         "StopEngine"} => engine_phase \in {"down", "suspended", "running"}

LEMMA StopInvNext == ModeInv /\ StopInv /\ [Next]_vars => StopInv'
<1> SUFFICES ASSUME ModeInv, StopInv, [Next]_vars PROVE StopInv'
  OBVIOUS
<1> USE DEF StopInv
<1>1. CASE RegisterHotKeys \/ InstallHooks
  BY <1>1 DEF RegisterHotKeys, InstallHooks, Step, engineVars, ModeInv,
              EngineInv
<1>2. CASE GetQuit
  BY <1>2 DEF GetQuit, Step, engineVars, ModeInv, EngineInv
<1>3. CASE RecordThread \/ BootDispatcher \/ BootEngine
  BY <1>3 DEF RecordThread, BootDispatcher, BootEngine, Step
<1>4. CASE BootOptionalModules \/ (\E k \in Modes : GetHotKey(k))
  BY <1>4 DEF BootOptionalModules, GetHotKey, Step
<1>5. CASE DisableCurrentMode
  BY <1>5 DEF DisableCurrentMode, AfterSuspend
<1>6. CASE EngineSuspended \/ DisableNop \/ EnableMode
  BY <1>6 DEF EngineSuspended, DisableNop, EnableMode, Step
<1>7. CASE Destroy \/ StopDispatcher \/ JoinDispatcher \/ WriteNop
  BY <1>7 DEF Destroy, StopDispatcher, JoinDispatcher, WriteNop, Step,
              NextMember, engineVars
<1>8. CASE StopEngine \/ JoinEngine \/ StopOptionalModules
  BY <1>8 DEF StopEngine, JoinEngine, StopOptionalModules, Step, NextMember
<1>9. CASE EngineStep
  BY <1>9 DEF EngineStep, EngineRoundStarts, Engine!StartRound,
              GameReconnects, Discriminate
<1>10. CASE EngineRoundFinishes
  BY <1>10 DEF EngineRoundFinishes, Dispatch, EngineRoundEnds,
               Engine!FinishRound
<1>11. CASE UNCHANGED <<pc, engine_phase>>
  BY <1>11
<1> QED
  BY <1>1, <1>2, <1>3, <1>4, <1>5, <1>6, <1>7, <1>8, <1>9, <1>10, <1>11
  DEF Next, MainStep, DispatcherStep, Exited, Terminate, GetCommand,
      WriteCommandFile, RunThrows, engineVars, vars

(* Every call the main thread is about to make on the engine or on the     *)
(* dispatcher is one their contract allows, for every set of modes and     *)
(* faults (CallsAreAllowed, Driver.cpp:35-163 against Module.hpp:8-11):    *)
(* the guards of the contract never stand in the driver's way.             *)
THEOREM EveryCallIsAllowed == Spec => []CallsAreAllowed
<1>1. Init => StopInv
  BY DEF Init, StopInv
<1>2. ModeInv /\ StopInv /\ DispatcherInv => CallsAreAllowed
  BY DEF ModeInv, TypeInv, EngineInv, ClosureInv, StopInv, DispatcherInv,
         CallsAreAllowed, Engine!MayBoot, Engine!MayResume,
         Engine!MaySuspend, Engine!MayTerminate, Dispatcher!MayBoot,
         Dispatcher!MayResume, Dispatcher!MayTerminate
<1> QED
  BY <1>1, <1>2, ModeInvInit, ModeInvNext, StopInvNext, DispatcherInvInit,
     DispatcherInvNext, PTL DEF Spec

(* Nothing is written after the final NOP, although the engine still runs  *)
(* then, so the file ends with it unless that write failed (NopIsLast,     *)
(* Driver.hpp:60-61 and CommandDispatcher.cpp:100-135).                    *)
THEOREM FinalNopStays == Spec => []NopIsLast
<1>1. DispatcherInv => NopIsLast
  BY DEF DispatcherInv, NopIsLast
<1> QED
  BY <1>1, DispatcherInvInit, DispatcherInvNext, PTL DEF Spec
=============================================================================
