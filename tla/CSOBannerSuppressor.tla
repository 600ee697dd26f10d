------------------------- MODULE CSOBannerSuppressor -------------------------
(***************************************************************************)
(* Controller/source/CSOBannerSuppressor.cpp: an optional module whose     *)
(* worker looks every five seconds for the banner process the game starts  *)
(* and ends it.  Unlike the command dispatcher it works under its mutex    *)
(* and never initializes its two flags.  Of the processes of the system    *)
(* only those named CSOBanner.exe matter: the game's own, and a foreign    *)
(* one with the same name and another path.                                *)
(***************************************************************************)

CONSTANT Faults      (* "path": GetProcessImagePath may throw for a process *)
                     (* that is just ending; "stubborn": a banner may       *)
                     (* ignore the messages that ask it to end              *)

ASSUME FaultsAssumption == Faults \subseteq {"path", "stubborn"}

Banners == {"own", "foreign"}
NoBanner == "none"

VARIABLES
  worker,                (* where Run() is                                  *)
  driver,                (* where the driver's thread is                    *)
  worker_state_lock_,    (* held by the worker                              *)
  apc,                   (* queued to the worker                            *)
  stop_requested,
  is_worker_runnable_,
  has_worker_finished_,
  banners,               (* the processes that run now                      *)
  found,                 (* the round's: the process the snapshot led to    *)
  told                   (* history: the own banner was asked to end        *)

flagVars == <<stop_requested, is_worker_runnable_, has_worker_finished_>>
processVars == <<banners, found, told>>
vars == <<worker, driver, worker_state_lock_, apc, flagVars, processVars>>

RoundPcs == {"Enumerate", "Look", "End"}

TypeOK ==
  /\ worker \in {"NotStarted", "Check", "Gap", "Asleep", "Notify", "Sleep",
                 "Done"} \cup RoundPcs
  /\ driver \in {"NotBooted", "Idle", "ResumeNotify", "SuspendCheck",
                 "SuspendAsleep", "StopNotify", "StopApc", "Join",
                 "Terminated"}
  /\ worker_state_lock_ \in BOOLEAN
  /\ apc \in BOOLEAN
  /\ stop_requested \in BOOLEAN
  /\ is_worker_runnable_ \in BOOLEAN
  /\ has_worker_finished_ \in BOOLEAN
  /\ banners \in SUBSET Banners
  /\ found \in Banners \cup {NoBanner}
  /\ told \in BOOLEAN

(* The constructor leaves the two flags indeterminate.                     *)
Init ==
  /\ worker = "NotStarted"
  /\ driver = "NotBooted"
  /\ worker_state_lock_ = FALSE
  /\ apc = FALSE
  /\ stop_requested = FALSE
  /\ is_worker_runnable_ \in BOOLEAN
  /\ has_worker_finished_ \in BOOLEAN
  /\ banners \in SUBSET Banners
  /\ found = NoBanner
  /\ told = FALSE

-----------------------------------------------------------------------------
(* Run(st)                                                                 *)

Wake == IF worker = "Asleep" THEN "Check" ELSE worker

(* The wait, a turn of it: the predicate is tested and, if it is false,    *)
(* the thread is about to sleep with the mutex still held.                 *)
CheckRunnable ==
  /\ worker = "Check" /\ ~worker_state_lock_
  /\ IF stop_requested
     THEN /\ worker' = "Done"
          /\ UNCHANGED <<worker_state_lock_, has_worker_finished_>>
     ELSE IF is_worker_runnable_
     THEN /\ worker' = "Enumerate"
          /\ has_worker_finished_' = FALSE
          /\ UNCHANGED worker_state_lock_
     ELSE /\ worker' = "Gap"
          /\ worker_state_lock_' = TRUE
          /\ UNCHANGED has_worker_finished_
  /\ UNCHANGED <<driver, apc, stop_requested, is_worker_runnable_,
                 processVars>>

FallAsleep ==
  /\ worker = "Gap"
  /\ worker' = "Asleep"
  /\ worker_state_lock_' = FALSE
  /\ UNCHANGED <<driver, apc, flagVars, processVars>>

(* EnumerateProcesses: the callback ends the enumeration at the first      *)
(* CSOBanner.exe, which of them that is the snapshot decides.              *)
Enumerate ==
  /\ worker = "Enumerate" /\ ~worker_state_lock_
  /\ worker_state_lock_' = TRUE
  /\ IF banners = {} THEN found' = NoBanner ELSE found' \in banners
  /\ worker' = "Look"
  /\ UNCHANGED <<driver, apc, flagVars, banners, told>>

FinishRound ==
  /\ worker' = "Notify"
  /\ worker_state_lock_' = FALSE
  /\ has_worker_finished_' = TRUE

(* A foreign banner, or one that has ended meanwhile, is left alone.  A    *)
(* process that runs can be opened for SYNCHRONIZE and its path be read.   *)
LeaveAlone ==
  /\ worker = "Look"
  /\ found # "own" \/ "own" \notin banners
  /\ FinishRound
  /\ UNCHANGED <<driver, apc, stop_requested, is_worker_runnable_,
                 processVars>>

FindOwn ==
  /\ worker = "Look"
  /\ found = "own" /\ "own" \in banners
  /\ worker' = "End"
  /\ UNCHANGED <<driver, worker_state_lock_, apc, flagVars, processVars>>

(* The process ended after it was opened: the exception leaves Run() and   *)
(* releases the mutex; has_worker_finished_ stays down.                    *)
PathThrows ==
  /\ worker = "Look"
  /\ found # NoBanner /\ "path" \in Faults
  /\ banners' = banners \ {found}
  /\ worker' = "Done"
  /\ worker_state_lock_' = FALSE
  /\ UNCHANGED <<driver, apc, flagVars, found, told>>

(* SafeTerminateProcess posts WM_CLOSE to its windows and WM_QUIT to its   *)
(* threads, each time waiting for the end; nothing else is tried.          *)
SafeTerminateProcess ==
  /\ worker = "End"
  /\ \/ banners' = banners \ {"own"}
     \/ "stubborn" \in Faults /\ UNCHANGED banners
  /\ told' = TRUE
  /\ FinishRound
  /\ UNCHANGED <<driver, apc, stop_requested, is_worker_runnable_, found>>

NotifyFinished ==
  /\ worker = "Notify"
  /\ driver' = IF driver = "SuspendAsleep" THEN "SuspendCheck" ELSE driver
  /\ worker' = "Sleep"
  /\ UNCHANGED <<worker_state_lock_, apc, flagVars, processVars>>

(* SleepEx(5000, true)                                                     *)
SleepBetweenRounds ==
  /\ worker = "Sleep"
  /\ apc' = FALSE
  /\ worker' = "Check"
  /\ UNCHANGED <<driver, worker_state_lock_, flagVars, processVars>>

-----------------------------------------------------------------------------
(* The driver's thread.                                                    *)

Boot ==
  /\ driver = "NotBooted"
  /\ driver' = "Idle"
  /\ worker' = "Check"
  /\ UNCHANGED <<worker_state_lock_, apc, flagVars, processVars>>

Resume ==
  /\ driver = "Idle" /\ ~worker_state_lock_
  /\ is_worker_runnable_' = TRUE
  /\ driver' = "ResumeNotify"
  /\ UNCHANGED <<worker, worker_state_lock_, apc, stop_requested,
                 has_worker_finished_, processVars>>

(* Mutant: Resume() only sets the flag.                                    *)
NotifyRunnable_Never == UNCHANGED worker

NotifyRunnable == worker' = Wake

ResumeNotify ==
  /\ driver = "ResumeNotify"
  /\ NotifyRunnable
  /\ driver' = "Idle"
  /\ UNCHANGED <<worker_state_lock_, apc, flagVars, processVars>>

(* Mutant: Suspend() does not wait.                                        *)
AwaitFinished_NoWait == driver' = "Idle"

AwaitFinished ==
  driver' = IF has_worker_finished_ THEN "Idle" ELSE "SuspendAsleep"

Suspend ==
  /\ driver = "Idle" /\ ~worker_state_lock_
  /\ is_worker_runnable_' = FALSE
  /\ AwaitFinished
  /\ UNCHANGED <<worker, worker_state_lock_, apc, stop_requested,
                 has_worker_finished_, processVars>>

SuspendResumesWaiting ==
  /\ driver = "SuspendCheck" /\ ~worker_state_lock_
  /\ AwaitFinished
  /\ UNCHANGED <<worker, worker_state_lock_, apc, flagVars, processVars>>

RequestStop ==
  /\ driver = "Idle"
  /\ stop_requested' = TRUE
  /\ driver' = "StopNotify"
  /\ UNCHANGED <<worker, worker_state_lock_, apc, is_worker_runnable_,
                 has_worker_finished_, processVars>>

StopNotify ==
  /\ driver = "StopNotify"
  /\ NotifyRunnable
  /\ driver' = "StopApc"
  /\ UNCHANGED <<worker_state_lock_, apc, flagVars, processVars>>

StopApc ==
  /\ driver = "StopApc"
  /\ apc' = (worker # "Done")
  /\ driver' = "Join"
  /\ UNCHANGED <<worker, worker_state_lock_, flagVars, processVars>>

Join ==
  /\ driver = "Join"
  /\ worker = "Done"
  /\ driver' = "Terminated"
  /\ UNCHANGED <<worker, worker_state_lock_, apc, flagVars, processVars>>

-----------------------------------------------------------------------------
(* The environment.                                                        *)

BannerStarts(b) ==
  /\ b \notin banners
  /\ banners' = banners \cup {b}
  /\ told' = (told /\ b # "own")
  /\ UNCHANGED <<worker, driver, worker_state_lock_, apc, flagVars, found>>

BannerEnds(b) ==
  /\ b \in banners
  /\ banners' = banners \ {b}
  /\ UNCHANGED <<worker, driver, worker_state_lock_, apc, flagVars, found,
                 told>>

SpuriousWakeup ==
  /\ worker = "Asleep" \/ driver = "SuspendAsleep"
  /\ worker' = Wake
  /\ driver' = IF driver = "SuspendAsleep" THEN "SuspendCheck" ELSE driver
  /\ UNCHANGED <<worker_state_lock_, apc, flagVars, processVars>>

Run ==
  \/ CheckRunnable
  \/ FallAsleep
  \/ Enumerate
  \/ LeaveAlone
  \/ FindOwn
  \/ PathThrows
  \/ SafeTerminateProcess
  \/ NotifyFinished
  \/ SleepBetweenRounds

DriverCall == Boot \/ Resume \/ Suspend \/ RequestStop

DriverStep ==
  ResumeNotify \/ SuspendResumesWaiting \/ StopNotify \/ StopApc \/ Join

Next ==
  \/ Run
  \/ DriverCall
  \/ DriverStep
  \/ \E b \in Banners : BannerStarts(b) \/ BannerEnds(b)
  \/ SpuriousWakeup

Spec == Init /\ [][Next]_vars

(* Each thread is scheduled and gets the mutex in the end.                 *)
FairSpec == Spec /\ SF_vars(Run) /\ SF_vars(DriverStep)

-----------------------------------------------------------------------------
(* Properties.                                                             *)

(* Suspend() (cpp:50-59) quiesces the worker whatever the two flags held   *)
(* before: while the driver is idle and the module is not runnable, no     *)
(* round is under way, so no process is asked to end.                      *)
SuspendedMeansQuiet ==
  (driver = "Idle" /\ ~is_worker_runnable_) => worker \notin RoundPcs

(* The banner of the game is asked to end (cpp:87-94) while the module     *)
(* runs, unless a foreign banner stands before it in the snapshot or the   *)
(* worker has died of an exception.                                        *)
OwnBannerIsEnded ==
  ("own" \in banners /\ is_worker_runnable_ /\ driver # "NotBooted")
    ~> \/ "own" \notin banners \/ told
       \/ "foreign" \in banners
       \/ ~is_worker_runnable_ \/ stop_requested \/ worker = "Done"

(* cpp:96 "CSOBanner may have several instances, so go through all         *)
(* processes": a foreign one does not keep the own one alive.              *)
OwnBannerIsEndedAmongOthers ==
  ("own" \in banners /\ is_worker_runnable_ /\ driver # "NotBooted")
    ~> \/ "own" \notin banners \/ told
       \/ ~is_worker_runnable_ \/ stop_requested \/ worker = "Done"

(* Terminate() of a running module returns: the driver resumes the module  *)
(* when it boots it and suspends it never (Driver.cpp:137-142).            *)
RunningModuleTerminates ==
  (driver = "StopNotify" /\ is_worker_runnable_) ~> driver = "Terminated"
=============================================================================
