------------------------- MODULE CommandDispatcher -------------------------
(***************************************************************************)
(* Controller/source/CommandDispatcher.cpp: one worker copies the current  *)
(* command into the file the executor reads, once a second; the driver's   *)
(* thread boots, resumes, suspends and destroys the module.  The command   *)
(* itself (Command.cpp) is changed by others and read in one step here.    *)
(***************************************************************************)
EXTENDS Naturals

CONSTANTS
  Directives,        (* texts Command::Get() can return                     *)
  NOP,               (* the text of Command::NOP()                          *)
  Faults             (* "write": WriteFile may fail, "run": Run() may throw *)

ASSUME DirectivesAssumption == NOP \in Directives

ASSUME FaultsAssumption == Faults \subseteq {"write", "run"}

Threads == {"worker", "driver"}
Runnable_ == "worker_runnable_cond"
Finished_ == "worker_finished_cond"
NoCV == "none"
Empty == "empty"     (* CREATE_ALWAYS: the file before the first write      *)

VARIABLES
  pc,
  sleeping,                 (* the condition variable a thread is blocked on *)
  worker_state_lock_held,   (* by a worker about to sleep                    *)
  apc,
  stop_requested,
  is_worker_runnable_,
  has_worker_finished_,
  command,                  (* what Command::Get() returns now               *)
  this_cmd,
  file,
  write_failed              (* history: the last WriteFile failed            *)

flagVars == <<stop_requested, is_worker_runnable_, has_worker_finished_>>
fileVars == <<file, write_failed>>
textVars == <<command, this_cmd, fileVars>>
vars == <<pc, sleeping, worker_state_lock_held, apc, flagVars, textVars>>

RoundPcs == {"Get", "Write"}
WorkerPcs == {"NotStarted", "Check", "Gap", "Finish", "Notify", "Sleep",
              "Done"} \cup RoundPcs
DriverPcs == {"NotBooted", "Idle", "ResumeNotify", "Suspend", "StopNotify",
              "StopApc", "Join", "WriteNop", "Terminated"}

TypeOK ==
  /\ pc \in [Threads -> WorkerPcs \cup DriverPcs]
  /\ pc["worker"] \in WorkerPcs
  /\ pc["driver"] \in DriverPcs
  /\ sleeping \in [Threads -> {Runnable_, Finished_, NoCV}]
  /\ worker_state_lock_held \in BOOLEAN
  /\ apc \in BOOLEAN
  /\ stop_requested \in BOOLEAN
  /\ is_worker_runnable_ \in BOOLEAN
  /\ has_worker_finished_ \in BOOLEAN
  /\ command \in Directives
  /\ this_cmd \in Directives
  /\ file \in Directives \cup {Empty}
  /\ write_failed \in BOOLEAN

Init ==
  /\ pc = [t \in Threads |-> IF t = "driver" THEN "NotBooted"
                                             ELSE "NotStarted"]
  /\ sleeping = [t \in Threads |-> NoCV]
  /\ worker_state_lock_held = FALSE
  /\ apc = FALSE
  /\ stop_requested = FALSE
  /\ is_worker_runnable_ = FALSE
  /\ has_worker_finished_ = TRUE
  /\ command \in Directives
  /\ this_cmd = NOP
  /\ file = Empty
  /\ write_failed = FALSE

-----------------------------------------------------------------------------
At(t, p) == pc[t] = p /\ sleeping[t] = NoCV

Goto(t, p) == pc' = [pc EXCEPT ![t] = p]

LockFree == ~worker_state_lock_held

SleepOn(t, cv) == sleeping' = [sleeping EXCEPT ![t] = cv]

(* Mutant: nobody calls notify_one.                                        *)
NotifyOne_Never(cv) == UNCHANGED sleeping

(* Each condition variable has one possible sleeper.                       *)
NotifyOne(cv) ==
  sleeping' = [t \in Threads |-> IF sleeping[t] = cv THEN NoCV
                                                     ELSE sleeping[t]]

MayRun == is_worker_runnable_

(* WriteCommandFile: a failed WriteFile is only reported.                  *)
WriteCommandFile(text) ==
  \/ file' = text /\ write_failed' = FALSE
  \/ "write" \in Faults /\ write_failed' = TRUE /\ UNCHANGED file

-----------------------------------------------------------------------------
(* Run(st)                                                                 *)

CheckRunnable ==
  /\ At("worker", "Check")
  /\ LockFree
  /\ IF stop_requested
     THEN /\ Goto("worker", "Done")
          /\ UNCHANGED <<worker_state_lock_held, has_worker_finished_>>
     ELSE IF MayRun
     THEN /\ Goto("worker", "Get")
          /\ has_worker_finished_' = FALSE
          /\ UNCHANGED worker_state_lock_held
     ELSE /\ Goto("worker", "Gap")
          /\ worker_state_lock_held' = TRUE
          /\ UNCHANGED has_worker_finished_
  /\ UNCHANGED <<sleeping, apc, stop_requested, is_worker_runnable_, textVars>>

BlockOnRunnable ==
  /\ At("worker", "Gap")
  /\ SleepOn("worker", Runnable_)
  /\ Goto("worker", "Check")
  /\ worker_state_lock_held' = FALSE
  /\ UNCHANGED <<apc, flagVars, textVars>>

(* Mutant: the round copies what the file already says.                    *)
Get_FromFile == this_cmd' = file

(* Command::Get(this_cmd)                                                  *)
Get == this_cmd' = command

GetCommand ==
  /\ At("worker", "Get")
  /\ Get
  /\ Goto("worker", "Write")
  /\ UNCHANGED <<sleeping, worker_state_lock_held, apc, flagVars, command,
                 fileVars>>

WriteCommand ==
  /\ At("worker", "Write")
  /\ WriteCommandFile(this_cmd)
  /\ Goto("worker", "Finish")
  /\ UNCHANGED <<sleeping, worker_state_lock_held, apc, flagVars, command,
                 this_cmd>>

(* An exception leaves Run() and is reported by the thread function; the   *)
(* flag has_worker_finished_ stays down.                                   *)
RunThrows ==
  /\ At("worker", "Get")
  /\ "run" \in Faults
  /\ Goto("worker", "Done")
  /\ UNCHANGED <<sleeping, worker_state_lock_held, apc, flagVars, textVars>>

FinishRound ==
  /\ At("worker", "Finish")
  /\ LockFree
  /\ has_worker_finished_' = TRUE
  /\ Goto("worker", "Notify")
  /\ UNCHANGED <<sleeping, worker_state_lock_held, apc, stop_requested,
                 is_worker_runnable_, textVars>>

NotifyFinished ==
  /\ At("worker", "Notify")
  /\ NotifyOne(Finished_)
  /\ Goto("worker", "Sleep")
  /\ UNCHANGED <<worker_state_lock_held, apc, flagVars, textVars>>

(* SleepEx(1000, true)                                                     *)
SleepBetweenRounds ==
  /\ At("worker", "Sleep")
  /\ apc' = FALSE
  /\ Goto("worker", "Check")
  /\ UNCHANGED <<sleeping, worker_state_lock_held, flagVars, textVars>>

-----------------------------------------------------------------------------
(* The driver's thread.                                                    *)

Boot ==
  /\ At("driver", "NotBooted")
  /\ pc' = [worker |-> "Check", driver |-> "Idle"]
  /\ UNCHANGED <<sleeping, worker_state_lock_held, apc, flagVars, textVars>>

Resume ==
  /\ At("driver", "Idle")
  /\ LockFree
  /\ is_worker_runnable_' = TRUE
  /\ Goto("driver", "ResumeNotify")
  /\ UNCHANGED <<sleeping, worker_state_lock_held, apc, stop_requested,
                 has_worker_finished_, textVars>>

ResumeNotify ==
  /\ At("driver", "ResumeNotify")
  /\ NotifyOne(Runnable_)
  /\ Goto("driver", "Idle")
  /\ UNCHANGED <<worker_state_lock_held, apc, flagVars, textVars>>

(* Mutant: Suspend() does not wait.                                        *)
AwaitFinished_NoWait ==
  Goto("driver", "Idle") /\ UNCHANGED sleeping

(* worker_finished_cond_.wait(lk, has_worker_finished_), a turn of it.     *)
AwaitFinished ==
  IF has_worker_finished_
  THEN Goto("driver", "Idle") /\ UNCHANGED sleeping
  ELSE Goto("driver", "Suspend") /\ SleepOn("driver", Finished_)

Suspend ==
  /\ At("driver", "Idle")
  /\ LockFree
  /\ is_worker_runnable_' = FALSE
  /\ AwaitFinished
  /\ UNCHANGED <<worker_state_lock_held, apc, stop_requested,
                 has_worker_finished_, textVars>>

SuspendResumesWaiting ==
  /\ At("driver", "Suspend")
  /\ LockFree
  /\ AwaitFinished
  /\ UNCHANGED <<worker_state_lock_held, apc, flagVars, textVars>>

RequestStop ==
  /\ At("driver", "Idle")
  /\ stop_requested' = TRUE
  /\ Goto("driver", "StopNotify")
  /\ UNCHANGED <<sleeping, worker_state_lock_held, apc, is_worker_runnable_,
                 has_worker_finished_, textVars>>

StopNotify ==
  /\ At("driver", "StopNotify")
  /\ NotifyOne(Runnable_)
  /\ Goto("driver", "StopApc")
  /\ UNCHANGED <<worker_state_lock_held, apc, flagVars, textVars>>

StopApc ==
  /\ At("driver", "StopApc")
  /\ apc' = (pc["worker"] # "Done")
  /\ Goto("driver", "Join")
  /\ UNCHANGED <<sleeping, worker_state_lock_held, flagVars, textVars>>

(* Mutant: the final NOP is written without waiting for the worker.        *)
WorkerJoined_Never == TRUE

WorkerJoined == pc["worker"] = "Done"

Join ==
  /\ At("driver", "Join")
  /\ WorkerJoined
  /\ Goto("driver", "WriteNop")
  /\ UNCHANGED <<sleeping, worker_state_lock_held, apc, flagVars, textVars>>

WriteNop ==
  /\ At("driver", "WriteNop")
  /\ WriteCommandFile(NOP)
  /\ Goto("driver", "Terminated")
  /\ UNCHANGED <<sleeping, worker_state_lock_held, apc, flagVars, command,
                 this_cmd>>

-----------------------------------------------------------------------------
(* Command::Set() by the idle engine or the driver.                        *)
SetCommand ==
  /\ command' \in Directives
  /\ UNCHANGED <<pc, sleeping, worker_state_lock_held, apc, flagVars,
                 this_cmd, fileVars>>

SpuriousWakeup(t) ==
  /\ sleeping[t] # NoCV
  /\ sleeping' = [sleeping EXCEPT ![t] = NoCV]
  /\ UNCHANGED <<pc, worker_state_lock_held, apc, flagVars, textVars>>

Run ==
  \/ CheckRunnable
  \/ BlockOnRunnable
  \/ GetCommand
  \/ WriteCommand
  \/ RunThrows
  \/ FinishRound
  \/ NotifyFinished
  \/ SleepBetweenRounds

DriverCall == Boot \/ Resume \/ Suspend \/ RequestStop

DriverStep ==
  \/ ResumeNotify
  \/ SuspendResumesWaiting
  \/ StopNotify
  \/ StopApc
  \/ Join
  \/ WriteNop

Next == Run \/ DriverCall \/ DriverStep \/ SetCommand
        \/ \E t \in Threads : SpuriousWakeup(t)

Spec == Init /\ [][Next]_vars

(* Each thread is scheduled and gets the mutex in the end.                 *)
FairSpec == Spec /\ SF_vars(Run) /\ SF_vars(DriverStep)

-----------------------------------------------------------------------------
(* Properties.                                                             *)

(* Terminate() leaves a NOP behind (CommandDispatcher.cpp:108-111): once   *)
(* it has returned the executor finds NOP in the file, whatever command    *)
(* was being written when the program was told to end, unless WriteFile     *)
(* failed on it.                                                           *)
EndsWithNop ==
  pc["driver"] = "Terminated" => (file = NOP \/ write_failed)

(* A command that stays current reaches the file while the module runs     *)
(* and no round or write fails.                                            *)
CommandReachesFile ==
  \A d \in Directives :
    (command = d /\ is_worker_runnable_)
      ~> \/ file = d \/ command # d \/ ~is_worker_runnable_
         \/ write_failed \/ pc["worker"] = "Done"

(* Terminate() of a running module returns.  That is how the driver uses   *)
(* it (Driver.cpp:132-133: resumed when booted, never suspended); the      *)
(* notification of a suspended one can be lost, as in the idle engine.     *)
RunningModuleTerminates ==
  (pc["driver"] = "StopNotify" /\ is_worker_runnable_)
    ~> pc["driver"] = "Terminated"

(* The dispatcher is a Module.                                             *)
phaseBar ==
  IF pc["driver"] = "NotBooted" THEN "down"
  ELSE IF pc["driver"] \in {"WriteNop", "Terminated"} THEN "terminated"
  ELSE IF stop_requested THEN "terminating"
  ELSE IF pc["driver"] = "Suspend" THEN "suspending"
  ELSE IF is_worker_runnable_ THEN "running"
  ELSE "suspended"

busyBar == IF pc["worker"] \in RoundPcs THEN {"worker"} ELSE {}

Contract == INSTANCE ModuleContract
              WITH Workers <- {"worker"}, phase <- phaseBar, busy <- busyBar

ContractSpec == Contract!Spec
=============================================================================
