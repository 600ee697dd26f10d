------------------------------- MODULE Driver -------------------------------
(***************************************************************************)
(* Controller/source/Driver.cpp and what Main.cpp does with it: the main   *)
(* thread boots the modules, handles the hot keys that choose a mode and   *)
(* is destroyed when Ctrl-C has posted WM_QUIT.  The idle engine and the   *)
(* command dispatcher are used through the contract of ModuleContract,     *)
(* which both are shown to implement; the command they share is one cell   *)
(* (its own races are those of Command.tla).  The optional module, the     *)
(* banner suppressor, shares nothing with them: only its phase is kept.    *)
(***************************************************************************)
CONSTANTS
  Modes,                           (* the modes whose hot keys are pressed *)
  DefaultIdleAfterReconnection,    (* Global.cpp                           *)
  SuppressCSOBanner,               (* Global.cpp: the optional module      *)
  Faults             (* what may fail: "hotkey", RegisterHotKey; "hook",    *)
                     (* SetWindowsHookEx; "run", a round of the dispatcher; *)
                     (* "write", WriteFile; "post", PostThreadMessageW      *)

CommandModes == {"CMD_BATCH_COMBINE_PARTS", "CMD_BATCH_PURCHASE_ITEM",
                 "CMD_LOCATE_CURSOR"}      \* named by the command they set
IdleModes == {"DEFAULT", "EXTENDED"}
NullMode == "NULL"

ASSUME ModesAssumption ==
  /\ NullMode \in Modes
  /\ Modes \subseteq CommandModes \cup IdleModes \cup {NullMode}

ASSUME OptionAssumption ==
  DefaultIdleAfterReconnection \in BOOLEAN /\ SuppressCSOBanner \in BOOLEAN

ASSUME FaultsAssumption ==
  Faults \subseteq {"hotkey", "hook", "run", "write", "post"}

NOP == "CMD_NOP"
Empty == "empty"                   (* the command file before any write    *)

(* What a round of the engine may order in an idle mode (all the commands  *)
(* both modes share are one).                                              *)
EngineCommands(mode) ==
  {NOP, "CMD_DEFAULT_IDLE_2"}
    \cup (IF mode = "EXTENDED" THEN {"CMD_EXTENDED_IDLE_2"} ELSE {})

Commands == EngineCommands("EXTENDED") \cup CommandModes

VARIABLES
  pc,                              (* of the main thread                   *)
  win32_thread_id_,                (* recorded, or 0                       *)
  quit,                            (* WM_QUIT in its queue                 *)
  current_mode_id_,
  disable_current_mode,            (* which closure it holds               *)
  id,                              (* the hot key being handled            *)
  idle_mode_,
  engine_phase, engine_busy,
  decided,                         (* by the round under way               *)
  command,
  dispatcher_phase, dispatcher_busy,
  this_cmd, file,
  write_failed,                    (* history: the last WriteFile failed   *)
  worker_ended,                    (* the worker, by an exception of Run() *)
  post_failed,                     (* history: WM_QUIT could not be posted *)
  optional_module                  (* phase of what optional_modules_ holds *)

engineVars == <<idle_mode_, engine_phase, engine_busy, decided>>
fileVars == <<this_cmd, file, write_failed, worker_ended>>
dispatcherVars == <<dispatcher_phase, dispatcher_busy, fileVars>>
queueVars == <<quit, post_failed>>
modeVars == <<current_mode_id_, disable_current_mode, id>>
vars == <<pc, win32_thread_id_, queueVars, modeVars, engineVars, command,
          dispatcherVars, optional_module>>

Engine == INSTANCE ModuleContract
            WITH Workers <- {"process_watcher", "scene_discriminator"},
                 phase <- engine_phase, busy <- engine_busy

Dispatcher == INSTANCE ModuleContract
                WITH Workers <- {"worker"},
                     phase <- dispatcher_phase, busy <- dispatcher_busy

BootPcs == {"Boot", "Register", "Install", "BootDispatcher",
            "ResumeDispatcher", "BootEngine"}
ModulePcs == {"BootModules", "ResumeModules"}
LoopPcs == {"GetMessage", "Disable", "Suspending", "DisableNop", "Enable"}
ExitPcs == {"Destroy", "StopDispatcher", "JoinDispatcher", "WriteNop",
            "StopEngine", "JoinEngine", "StopModules", "JoinModules",
            "Exited"}

TypeOK ==
  /\ pc \in BootPcs \cup ModulePcs \cup LoopPcs \cup ExitPcs
  /\ win32_thread_id_ \in BOOLEAN
  /\ quit \in BOOLEAN
  /\ current_mode_id_ \in Modes
  /\ disable_current_mode \in {"nothing", "command", "idle"}
  /\ id \in Modes
  /\ idle_mode_ \in IdleModes
  /\ Engine!TypeOK
  /\ decided \in Commands \cup {"none"}
  /\ command \in Commands
  /\ Dispatcher!TypeOK
  /\ this_cmd \in Commands
  /\ file \in Commands \cup {Empty}
  /\ write_failed \in BOOLEAN
  /\ worker_ended \in BOOLEAN
  /\ post_failed \in BOOLEAN
  /\ optional_module \in {"down", "booted", "running", "terminated"}

Init ==
  /\ pc = "Boot"
  /\ win32_thread_id_ = FALSE
  /\ quit = FALSE
  /\ current_mode_id_ = NullMode
  /\ disable_current_mode = "nothing"
  /\ id = NullMode
  /\ idle_mode_ = "DEFAULT"
  /\ Engine!Init
  /\ decided = "none"
  /\ command = NOP
  /\ Dispatcher!Init
  /\ this_cmd = NOP
  /\ file = Empty
  /\ write_failed = FALSE
  /\ worker_ended = FALSE
  /\ post_failed = FALSE
  /\ optional_module = "down"

-----------------------------------------------------------------------------
(* Driver::Boot                                                            *)

Step(from, to) == pc = from /\ pc' = to

(* Written without lock_: a Ctrl-C before it finds no thread to tell.      *)
RecordThread ==
  /\ Step("Boot", "Register")
  /\ win32_thread_id_' = TRUE
  /\ UNCHANGED <<queueVars, modeVars, engineVars, command, dispatcherVars,
                 optional_module>>

(* Register() throws when another program owns the hot key; the exception  *)
(* ends Boot() and the main function destroys the driver.                  *)
RegisterHotKeys ==
  /\ \/ Step("Register", "Install")
     \/ "hotkey" \in Faults /\ Step("Register", "Destroy")
  /\ UNCHANGED <<win32_thread_id_, queueVars, modeVars, engineVars, command,
                 dispatcherVars, optional_module>>

(* So does Install() when there is a hook and it cannot be set.            *)
InstallHooks ==
  /\ \/ Step("Install", "BootDispatcher")
     \/ "hook" \in Faults /\ Step("Install", "Destroy")
  /\ UNCHANGED <<win32_thread_id_, queueVars, modeVars, engineVars, command,
                 dispatcherVars, optional_module>>

BootDispatcher ==
  /\ \/ Step("BootDispatcher", "ResumeDispatcher") /\ Dispatcher!Boot
     \/ Step("ResumeDispatcher", "BootEngine") /\ Dispatcher!Resume
  /\ UNCHANGED <<win32_thread_id_, queueVars, modeVars, engineVars, command,
                 fileVars, optional_module>>

BootEngine ==
  /\ Step("BootEngine", "BootModules")
  /\ Engine!Boot
  /\ UNCHANGED <<win32_thread_id_, queueVars, modeVars, idle_mode_, decided,
                 command, dispatcherVars, optional_module>>

(* Booted and resumed at once, and never suspended.                        *)
BootOptionalModules ==
  /\ \/ /\ pc = "BootModules"
        /\ IF SuppressCSOBanner
           THEN pc' = "ResumeModules" /\ optional_module' = "booted"
           ELSE pc' = "GetMessage" /\ UNCHANGED optional_module
     \/ Step("ResumeModules", "GetMessage") /\ optional_module' = "running"
  /\ UNCHANGED <<win32_thread_id_, queueVars, modeVars, engineVars, command,
                 dispatcherVars>>

-----------------------------------------------------------------------------
(* The message loop and HandleHotKey.                                      *)

GetQuit ==
  /\ quit
  /\ Step("GetMessage", "Destroy")
  /\ UNCHANGED <<win32_thread_id_, queueVars, modeVars, engineVars, command,
                 dispatcherVars, optional_module>>

(* A hot key pressed while the thread is busy waits in its queue: the      *)
(* thread may take any when it is back.  That of the current mode is       *)
(* ignored.                                                                *)
GetHotKey(k) ==
  /\ pc = "GetMessage"
  /\ IF k = current_mode_id_ THEN UNCHANGED <<pc, id>>
                             ELSE pc' = "Disable" /\ id' = k
  /\ UNCHANGED <<win32_thread_id_, queueVars, current_mode_id_,
                 disable_current_mode, engineVars, command, dispatcherVars,
                 optional_module>>

(* Mutant: the driver goes on before Suspend() has returned.               *)
AfterSuspend_NoWait == "DisableNop"

AfterSuspend ==
  IF engine_phase' = "suspended" THEN "DisableNop" ELSE "Suspending"

DisableCurrentMode ==
  /\ pc = "Disable"
  /\ CASE disable_current_mode = "idle" ->
            Engine!Suspend /\ pc' = AfterSuspend
       [] disable_current_mode = "command" ->
            pc' = "DisableNop" /\ UNCHANGED <<engine_phase, engine_busy>>
       [] OTHER -> pc' = "Enable" /\ UNCHANGED <<engine_phase, engine_busy>>
  /\ UNCHANGED <<win32_thread_id_, queueVars, modeVars, idle_mode_, decided,
                 command, dispatcherVars, optional_module>>

EngineSuspended ==
  /\ Step("Suspending", "DisableNop")
  /\ Engine!SuspendReturns
  /\ UNCHANGED <<win32_thread_id_, queueVars, modeVars, idle_mode_, decided,
                 command, dispatcherVars, optional_module>>

(* Mutant: the command of the mode is left as it is.                       *)
ClearCommand_Not == UNCHANGED command

(* Command::Set(CMD_NOP, CMD_ZERO_TIMESTAMP)                               *)
ClearCommand == command' = NOP

(* The reset of the state machine that follows is part of IdleEngine: what *)
(* the engine orders is any command of its mode here.                      *)
DisableNop ==
  /\ Step("DisableNop", "Enable")
  /\ ClearCommand
  /\ UNCHANGED <<win32_thread_id_, queueVars, modeVars, engineVars,
                 dispatcherVars, optional_module>>

(* Mutant: the extended mode is never given up.                            *)
SetIdleMode_KeepExtended(mode) ==
  idle_mode_' = IF idle_mode_ = "EXTENDED" THEN idle_mode_ ELSE mode

SetIdleMode(mode) == idle_mode_' = mode

(* Mutant: the null mode keeps the closure of the mode before it.          *)
Closure_NullKeeps(mode) ==
  IF mode \in IdleModes THEN "idle"
  ELSE IF mode \in CommandModes THEN "command" ELSE disable_current_mode

Closure(mode) ==
  IF mode \in IdleModes THEN "idle"
  ELSE IF mode \in CommandModes THEN "command" ELSE "nothing"

EnableMode ==
  /\ Step("Enable", "GetMessage")
  /\ current_mode_id_' = id
  /\ disable_current_mode' = Closure(id)
  /\ \/ id = NullMode /\ UNCHANGED <<engineVars, command>>
     \/ /\ id \in IdleModes
        /\ SetIdleMode(id)
        /\ Engine!Resume
        /\ UNCHANGED <<decided, command>>
     \/ id \in CommandModes /\ command' = id /\ UNCHANGED engineVars
  /\ UNCHANGED <<win32_thread_id_, queueVars, id, dispatcherVars,
                 optional_module>>

-----------------------------------------------------------------------------
(* ~Driver: Terminate(), then the members in the reverse order of their    *)
(* declaration, the dispatcher before the engine and the optional modules  *)
(* last.  Terminate() of a module that was not booted does nothing.        *)

(* Mutant: the members are declared in the other order.                    *)
NextMember_EngineFirst ==
  [Driver |-> "StopEngine", engine |-> "StopDispatcher",
   dispatcher |-> "StopModules", modules |-> "Exited"]

NextMember ==
  [Driver |-> "StopDispatcher", dispatcher |-> "StopEngine",
   engine |-> "StopModules", modules |-> "Exited"]

Destroy ==
  /\ Step("Destroy", NextMember["Driver"])
  /\ win32_thread_id_' = FALSE
  /\ UNCHANGED <<queueVars, modeVars, engineVars, command, dispatcherVars,
                 optional_module>>

StopDispatcher ==
  /\ pc = "StopDispatcher"
  /\ IF dispatcher_phase = "down"
     THEN /\ pc' = NextMember["dispatcher"]
          /\ UNCHANGED <<dispatcher_phase, dispatcher_busy>>
     ELSE pc' = "JoinDispatcher" /\ Dispatcher!Terminate
  /\ UNCHANGED <<win32_thread_id_, queueVars, modeVars, engineVars, command,
                 fileVars, optional_module>>

(* Mutant: the worker is not joined.                                       *)
JoinWorker_Not == UNCHANGED <<dispatcher_phase, dispatcher_busy>>

JoinWorker == Dispatcher!TerminateReturns

JoinDispatcher ==
  /\ Step("JoinDispatcher", "WriteNop")
  /\ JoinWorker
  /\ UNCHANGED <<win32_thread_id_, queueVars, modeVars, engineVars, command,
                 fileVars, optional_module>>

(* CommandDispatcher::WriteCommandFile: a failed WriteFile is reported and *)
(* not repeated.                                                           *)
WriteFile(cmd) ==
  \/ file' = cmd /\ write_failed' = FALSE
  \/ "write" \in Faults /\ write_failed' = TRUE /\ UNCHANGED file

WriteNop ==
  /\ Step("WriteNop", NextMember["dispatcher"])
  /\ WriteFile(NOP)
  /\ UNCHANGED <<win32_thread_id_, queueVars, modeVars, engineVars, command,
                 dispatcher_phase, dispatcher_busy, this_cmd, worker_ended,
                 optional_module>>

StopEngine ==
  /\ pc = "StopEngine"
  /\ IF engine_phase = "down"
     THEN /\ pc' = NextMember["engine"]
          /\ UNCHANGED <<engine_phase, engine_busy>>
     ELSE pc' = "JoinEngine" /\ Engine!Terminate
  /\ UNCHANGED <<win32_thread_id_, queueVars, modeVars, idle_mode_, decided,
                 command, dispatcherVars, optional_module>>

JoinEngine ==
  /\ Step("JoinEngine", NextMember["engine"])
  /\ Engine!TerminateReturns
  /\ UNCHANGED <<win32_thread_id_, queueVars, modeVars, idle_mode_, decided,
                 command, dispatcherVars, optional_module>>

StopOptionalModules ==
  /\ \/ /\ pc = "StopModules"
        /\ pc' = IF optional_module = "down" THEN NextMember["modules"]
                                             ELSE "JoinModules"
        /\ UNCHANGED optional_module
     \/ /\ Step("JoinModules", NextMember["modules"])
        /\ optional_module' = "terminated"
  /\ UNCHANGED <<win32_thread_id_, queueVars, modeVars, engineVars, command,
                 dispatcherVars>>

Exited == pc = "Exited" /\ UNCHANGED vars

-----------------------------------------------------------------------------
(* The other threads.                                                      *)

(* What PostThreadMessageW returns is not looked at.                       *)
PostQuit ==
  \/ quit' = TRUE /\ UNCHANGED post_failed
  \/ "post" \in Faults /\ post_failed' = TRUE /\ UNCHANGED quit

(* The console's handler thread calls Driver::Terminate.  The thread is    *)
(* forgotten even if it was not told: the next Ctrl-C does nothing.        *)
Terminate ==
  /\ pc # "Exited"
  /\ IF win32_thread_id_
     THEN win32_thread_id_' = FALSE /\ PostQuit
     ELSE UNCHANGED <<win32_thread_id_, quit, post_failed>>
  /\ UNCHANGED <<pc, modeVars, engineVars, command, dispatcherVars,
                 optional_module>>

EngineRoundStarts(w) ==
  /\ w \notin engine_busy
  /\ Engine!StartRound(w)
  /\ UNCHANGED <<pc, win32_thread_id_, queueVars, modeVars, idle_mode_,
                 decided, command, dispatcherVars, optional_module>>

(* Watch() finds the game again.                                           *)
GameReconnects ==
  /\ "process_watcher" \in engine_busy
  /\ DefaultIdleAfterReconnection
  /\ idle_mode_' = "DEFAULT"
  /\ UNCHANGED <<pc, win32_thread_id_, queueVars, modeVars, engine_phase,
                 engine_busy, decided, command, dispatcherVars,
                 optional_module>>

Discriminate ==
  /\ "scene_discriminator" \in engine_busy
  /\ decided = "none"
  /\ decided' \in EngineCommands(idle_mode_)
  /\ UNCHANGED <<pc, win32_thread_id_, queueVars, modeVars, idle_mode_,
                 engine_phase, engine_busy, command, dispatcherVars,
                 optional_module>>

Dispatch ==
  /\ decided # "none"
  /\ command' = decided
  /\ decided' = "none"
  /\ Engine!FinishRound("scene_discriminator")
  /\ UNCHANGED <<pc, win32_thread_id_, queueVars, modeVars, idle_mode_,
                 dispatcherVars, optional_module>>

(* A round of the watcher, or one that has nothing to order.               *)
EngineRoundEnds(w) ==
  /\ w = "scene_discriminator" => decided = "none"
  /\ Engine!FinishRound(w)
  /\ UNCHANGED <<pc, win32_thread_id_, queueVars, modeVars, idle_mode_,
                 decided, command, dispatcherVars, optional_module>>

GetCommand ==
  /\ dispatcher_busy = {}
  /\ ~worker_ended
  /\ Dispatcher!StartRound("worker")
  /\ this_cmd' = command
  /\ UNCHANGED <<pc, win32_thread_id_, queueVars, modeVars, engineVars,
                 command, file, write_failed, worker_ended, optional_module>>

(* The text is dead until the next Get().                                  *)
WriteCommandFile ==
  /\ Dispatcher!FinishRound("worker")
  /\ WriteFile(this_cmd)
  /\ this_cmd' = NOP
  /\ UNCHANGED <<pc, win32_thread_id_, queueVars, modeVars, engineVars,
                 command, worker_ended, optional_module>>

(* An exception leaves Run(); it is reported and nobody starts the worker  *)
(* again.                                                                  *)
RunThrows ==
  /\ "run" \in Faults
  /\ Dispatcher!FinishRound("worker")
  /\ worker_ended' = TRUE
  /\ this_cmd' = NOP
  /\ UNCHANGED <<pc, win32_thread_id_, queueVars, modeVars, engineVars,
                 command, file, write_failed, optional_module>>

-----------------------------------------------------------------------------
MainStep ==
  \/ RecordThread
  \/ RegisterHotKeys
  \/ InstallHooks
  \/ BootDispatcher
  \/ BootEngine
  \/ BootOptionalModules
  \/ DisableCurrentMode
  \/ EngineSuspended
  \/ DisableNop
  \/ EnableMode
  \/ Destroy
  \/ StopDispatcher
  \/ JoinDispatcher
  \/ WriteNop
  \/ StopEngine
  \/ StopOptionalModules

EngineStep ==
  \/ \E w \in {"process_watcher", "scene_discriminator"} : EngineRoundStarts(w)
  \/ GameReconnects
  \/ Discriminate

EngineRoundFinishes ==
  \/ Dispatch
  \/ \E w \in {"process_watcher", "scene_discriminator"} : EngineRoundEnds(w)

DispatcherStep == GetCommand \/ WriteCommandFile

Next ==
  \/ MainStep
  \/ GetQuit
  \/ JoinEngine
  \/ Exited
  \/ \E k \in Modes : GetHotKey(k)
  \/ Terminate
  \/ EngineStep
  \/ EngineRoundFinishes
  \/ DispatcherStep
  \/ RunThrows

Spec == Init /\ [][Next]_vars

(* The main thread runs, and finds WM_QUIT when it returns to its queue    *)
(* again and again; the rounds of both modules end and the dispatcher's    *)
(* worker runs.  That the engine's Terminate() returns is not assumed: its *)
(* notification can be lost (IdleEngine).                                  *)
FairSpec ==
  /\ Spec
  /\ WF_vars(MainStep)
  /\ SF_vars(GetQuit)
  /\ WF_vars(Dispatch)
  /\ WF_vars(EngineRoundEnds("process_watcher"))
  /\ WF_vars(EngineRoundEnds("scene_discriminator"))
  /\ WF_vars(DispatcherStep)

-----------------------------------------------------------------------------
(* Properties.                                                             *)

CommandsOf(mode) ==
  CASE mode = NullMode -> {NOP}
    [] mode \in IdleModes -> EngineCommands(mode)
    [] OTHER -> {mode}

(* The modes exclude each other (Driver.cpp:47-93): while the driver waits *)
(* for the next hot key the command is one its mode may order, whichever   *)
(* round of the engine was under way when the mode was left, and the       *)
(* engine runs exactly in the idle modes.                                  *)
ModesExclude ==
  pc = "GetMessage" =>
    /\ command \in CommandsOf(current_mode_id_)
    /\ engine_phase =
         IF current_mode_id_ \in IdleModes THEN "running" ELSE "suspended"

(* The engine idles in extended mode only while the driver is in it (the   *)
(* watcher may fall back to the default mode, IdleEngine.cpp:199-203).     *)
ExtendedOnlyInExtendedMode ==
  (pc = "GetMessage" /\ engine_phase = "running" /\ idle_mode_ = "EXTENDED")
    => current_mode_id_ = "EXTENDED"

(* Every call finds its module where the contract allows it (Driver.cpp:   *)
(* 58-74, 132-135 against Module.hpp:8-11): wherever the main thread is    *)
(* about to call Boot, Resume, Suspend or Terminate, no contract forbids   *)
(* the call, whichever hot keys, failures and Ctrl-C came before.  A second *)
(* Resume, or a Suspend of an engine that does not run, would be one.      *)
CallsAreAllowed ==
  /\ pc = "BootDispatcher" => Dispatcher!MayBoot
  /\ pc = "ResumeDispatcher" => Dispatcher!MayResume
  /\ pc = "BootEngine" => Engine!MayBoot
  /\ (pc = "Disable" /\ disable_current_mode = "idle") => Engine!MaySuspend
  /\ (pc = "Enable" /\ id \in IdleModes) => Engine!MayResume
  /\ pc = "StopDispatcher" =>
       dispatcher_phase = "down" \/ Dispatcher!MayTerminate
  /\ pc = "StopEngine" => engine_phase = "down" \/ Engine!MayTerminate

(* When the driver has had the final NOP written (CommandDispatcher.cpp:   *)
(* 111) nothing else is, although the engine still runs and orders         *)
(* commands until it is destroyed in its turn; the NOP is what the file    *)
(* holds unless that last write failed.                                    *)
NopIsLast ==
  pc \in {"StopEngine", "JoinEngine", "StopModules", "JoinModules",
         "Exited"} =>
    (file = NOP \/ write_failed \/ dispatcher_phase = "down")

(* What a mode orders reaches the executor, unless the mode is left or the *)
(* end comes first or the worker has died (CommandDispatcher.cpp:64-73);   *)
(* in the null mode that is NOP, which stops it.  A failed write           *)
(* (CommandDispatcher.cpp:131-134) is made good by a later round, if not   *)
(* every write fails from some time on.                                    *)
FileFollowsMode ==
  []<>~write_failed =>
    \A m \in Modes \ IdleModes :
      (pc = "GetMessage" /\ current_mode_id_ = m)
        ~> file \in CommandsOf(m) \/ pc # "GetMessage" \/ quit \/ worker_ended

(* Ctrl-C in a booted driver stops the executor for good, also when the    *)
(* engine never ends or the worker has died: once Driver::Terminate() has  *)
(* given the thread's id up (Driver.cpp:15-23) the file comes to hold NOP  *)
(* or nothing and stays so.  It does not if WM_QUIT could not be posted,   *)
(* which no later Ctrl-C repairs, nor if the final WriteFile fails, which  *)
(* nothing repeats.                                                        *)
CtrlCStopsExecutor ==
  (pc # "Boot" /\ ~win32_thread_id_)
    ~> (post_failed \/ [](file \in {NOP, Empty} \/ write_failed))
=============================================================================
