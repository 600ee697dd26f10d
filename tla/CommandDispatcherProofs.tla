----------------------- MODULE CommandDispatcherProofs -----------------------
(***************************************************************************)
(* Proofs about the command dispatcher, for every set of directives, with  *)
(* rounds that throw or not and writes that fail or not.                   *)
(***************************************************************************)
EXTENDS CommandDispatcher, TLAPS

USE DEF Threads, RoundPcs, WorkerPcs, DriverPcs, Runnable_, Finished_, NoCV

StopPcs == {"StopNotify", "StopApc", "Join", "WriteNop", "Terminated"}

(* Where the two threads are, and what the flags mean there.               *)
LifeInv ==
  /\ pc \in [Threads -> WorkerPcs \cup DriverPcs]
  /\ pc["worker"] \in WorkerPcs
  /\ pc["driver"] \in DriverPcs
  /\ pc["driver"] = "NotBooted" =>
       pc["worker"] = "NotStarted" /\ ~is_worker_runnable_
  /\ stop_requested <=> pc["driver"] \in StopPcs
  /\ pc["driver"] = "ResumeNotify" => is_worker_runnable_
  /\ pc["driver"] = "Suspend" => ~is_worker_runnable_
  /\ pc["driver"] \in {"WriteNop", "Terminated"} => pc["worker"] = "Done"

(* A round under way is recorded, and a driver that goes on with a         *)
(* suspended dispatcher has seen the end of the last one.                  *)
RoundInv ==
  /\ pc["worker"] \in RoundPcs => ~has_worker_finished_
  /\ (pc["driver"] \in {"NotBooted", "Idle"} /\ ~is_worker_runnable_)
       => has_worker_finished_

FileInv == pc["driver"] = "Terminated" => (file = NOP \/ write_failed)

LEMMA InvInit == Init => LifeInv /\ RoundInv /\ FileInv
  BY DEF Init, LifeInv, RoundInv, FileInv, StopPcs

LEMMA LifeInvNext == LifeInv /\ [Next]_vars => LifeInv'
<1> SUFFICES ASSUME LifeInv, [Next]_vars PROVE LifeInv'
  OBVIOUS
<1> USE DEF LifeInv, StopPcs, At, Goto, flagVars
<1>1. CASE CheckRunnable
  BY <1>1 DEF CheckRunnable
<1>2. CASE BlockOnRunnable \/ GetCommand \/ WriteCommand \/ RunThrows
  BY <1>2 DEF BlockOnRunnable, GetCommand, WriteCommand, RunThrows
<1>3. CASE FinishRound \/ NotifyFinished \/ SleepBetweenRounds
  BY <1>3 DEF FinishRound, NotifyFinished, SleepBetweenRounds
<1>4. CASE Boot
  BY <1>4 DEF Boot
<1>5. CASE Resume \/ ResumeNotify
  BY <1>5 DEF Resume, ResumeNotify
<1>6. CASE Suspend \/ SuspendResumesWaiting
  BY <1>6 DEF Suspend, SuspendResumesWaiting, AwaitFinished
<1>7. CASE RequestStop \/ StopNotify \/ StopApc
  BY <1>7 DEF RequestStop, StopNotify, StopApc
<1>8. CASE Join \/ WriteNop
  BY <1>8 DEF Join, WorkerJoined, WriteNop
<1>9. CASE SetCommand \/ (\E t \in Threads : SpuriousWakeup(t))
  BY <1>9 DEF SetCommand, SpuriousWakeup
<1>10. CASE UNCHANGED vars
  BY <1>10 DEF vars
<1> QED
  BY <1>1, <1>2, <1>3, <1>4, <1>5, <1>6, <1>7, <1>8, <1>9, <1>10
  DEF Next, Run, DriverCall, DriverStep

(* Every reachable state is well typed (TypeOK, CommandDispatcher.hpp).    *)
THEOREM TypeCorrect == Spec => []TypeOK
<1>1. Init => TypeOK
  BY DirectivesAssumption DEF Init, TypeOK
<1>2. LifeInv /\ TypeOK /\ [Next]_vars => TypeOK'
  <2> SUFFICES ASSUME LifeInv', TypeOK, [Next]_vars PROVE TypeOK'
    BY LifeInvNext
  <2>0. /\ pc' \in [Threads -> WorkerPcs \cup DriverPcs]
        /\ pc'["worker"] \in WorkerPcs
        /\ pc'["driver"] \in DriverPcs
    BY DEF LifeInv
  <2> USE <2>0, DirectivesAssumption DEF TypeOK, flagVars, fileVars, textVars
  <2> HIDE DEF RoundPcs, WorkerPcs, DriverPcs
  <2>1. CASE CheckRunnable \/ BlockOnRunnable
    BY <2>1 DEF CheckRunnable, BlockOnRunnable, SleepOn
  <2>2. CASE GetCommand \/ WriteCommand \/ RunThrows
    BY <2>2 DEF GetCommand, Get, WriteCommand, WriteCommandFile, RunThrows
  <2>3. CASE FinishRound \/ NotifyFinished \/ SleepBetweenRounds
    BY <2>3 DEF FinishRound, NotifyFinished, NotifyOne, SleepBetweenRounds
  <2>4. CASE Boot \/ Resume \/ ResumeNotify
    BY <2>4 DEF Boot, Resume, ResumeNotify, NotifyOne
  <2>5. CASE Suspend \/ SuspendResumesWaiting
    BY <2>5 DEF Suspend, SuspendResumesWaiting, AwaitFinished, SleepOn
  <2>6. CASE RequestStop \/ StopNotify \/ StopApc \/ Join
    BY <2>6 DEF RequestStop, StopNotify, NotifyOne, StopApc, Join
  <2>7. CASE WriteNop \/ SetCommand
    BY <2>7 DEF WriteNop, WriteCommandFile, SetCommand
  <2>8. CASE \E t \in Threads : SpuriousWakeup(t)
    BY <2>8 DEF SpuriousWakeup
  <2>9. CASE UNCHANGED vars
    BY <2>9 DEF vars
  <2> QED
    BY <2>1, <2>2, <2>3, <2>4, <2>5, <2>6, <2>7, <2>8, <2>9
    DEF Next, Run, DriverCall, DriverStep
<1> QED
  BY <1>1, <1>2, InvInit, LifeInvNext, PTL DEF Spec

LEMMA RoundInvNext == LifeInv /\ RoundInv /\ [Next]_vars => RoundInv'
<1> SUFFICES ASSUME LifeInv, RoundInv, [Next]_vars PROVE RoundInv'
  OBVIOUS
<1> USE DEF LifeInv, RoundInv, At, Goto, flagVars
<1>1. CASE CheckRunnable
  BY <1>1 DEF CheckRunnable, MayRun
<1>2. CASE BlockOnRunnable \/ GetCommand \/ WriteCommand \/ RunThrows
  BY <1>2 DEF BlockOnRunnable, GetCommand, WriteCommand, RunThrows
<1>3. CASE FinishRound \/ NotifyFinished \/ SleepBetweenRounds
  BY <1>3 DEF FinishRound, NotifyFinished, SleepBetweenRounds
<1>4. CASE Boot
  BY <1>4 DEF Boot
<1>5. CASE Resume \/ ResumeNotify
  BY <1>5 DEF Resume, ResumeNotify
<1>6. CASE Suspend \/ SuspendResumesWaiting
  BY <1>6 DEF Suspend, SuspendResumesWaiting, AwaitFinished
<1>7. CASE RequestStop \/ StopNotify \/ StopApc \/ Join \/ WriteNop
  BY <1>7 DEF RequestStop, StopNotify, StopApc, Join, WriteNop
<1>8. CASE SetCommand \/ (\E t \in Threads : SpuriousWakeup(t))
  BY <1>8 DEF SetCommand, SpuriousWakeup
<1>9. CASE UNCHANGED vars
  BY <1>9 DEF vars
<1> QED
  BY <1>1, <1>2, <1>3, <1>4, <1>5, <1>6, <1>7, <1>8, <1>9
  DEF Next, Run, DriverCall, DriverStep

(* The worker is gone when the driver writes, so nothing overtakes the NOP.*)
LEMMA FileInvNext == LifeInv /\ FileInv /\ [Next]_vars => FileInv'
<1> SUFFICES ASSUME LifeInv, FileInv, [Next]_vars PROVE FileInv'
  OBVIOUS
<1> USE DEF LifeInv, FileInv, At, Goto, textVars, fileVars
<1>1. CASE WriteNop
  BY <1>1 DEF WriteNop, WriteCommandFile
<1>2. CASE WriteCommand
  BY <1>2 DEF WriteCommand
<1>3. CASE CheckRunnable \/ BlockOnRunnable \/ GetCommand \/ RunThrows
  BY <1>3 DEF CheckRunnable, BlockOnRunnable, GetCommand, RunThrows
<1>4. CASE FinishRound \/ NotifyFinished \/ SleepBetweenRounds
  BY <1>4 DEF FinishRound, NotifyFinished, SleepBetweenRounds
<1>5. CASE DriverCall
  BY <1>5 DEF DriverCall, Boot, Resume, Suspend, AwaitFinished, RequestStop
<1>6. CASE ResumeNotify \/ SuspendResumesWaiting \/ StopNotify \/ StopApc
           \/ Join
  BY <1>6 DEF ResumeNotify, SuspendResumesWaiting, AwaitFinished, StopNotify,
              StopApc, Join
<1>7. CASE SetCommand \/ (\E t \in Threads : SpuriousWakeup(t))
  BY <1>7 DEF SetCommand, SpuriousWakeup
<1>8. CASE UNCHANGED vars
  BY <1>8 DEF vars
<1> QED
  BY <1>1, <1>2, <1>3, <1>4, <1>5, <1>6, <1>7, <1>8 DEF Next, Run, DriverStep

(* Once Terminate() has returned the executor finds NOP in the file unless *)
(* the last write failed (EndsWithNop, CommandDispatcher.cpp:100-112).     *)
THEOREM FileEndsWithNop == Spec => []EndsWithNop
<1>1. FileInv => EndsWithNop
  BY DEF FileInv, EndsWithNop
<1> QED
  BY <1>1, InvInit, LifeInvNext, FileInvNext, PTL DEF Spec

-----------------------------------------------------------------------------
(* Locks, sleeps and notifications: the mutex is held exactly between a    *)
(* false predicate and the sleep that follows; each thread sleeps at one   *)
(* place only.                                                             *)
SleepInv ==
  /\ worker_state_lock_held <=> pc["worker"] = "Gap"
  /\ pc["worker"] = "Gap" => ~is_worker_runnable_
  /\ pc["worker"] = "Finish" => ~has_worker_finished_
  /\ pc["worker"] = "NotStarted" => pc["driver"] = "NotBooted"
  /\ sleeping \in [Threads -> {Runnable_, Finished_, NoCV}]
  /\ sleeping["worker"] # NoCV =>
       sleeping["worker"] = Runnable_ /\ pc["worker"] = "Check"
  /\ sleeping["driver"] # NoCV =>
       sleeping["driver"] = Finished_ /\ pc["driver"] = "Suspend"
  /\ has_worker_finished_ \/ pc["worker"] \in RoundPcs \cup {"Finish"}
       \/ (pc["worker"] = "Done" /\ "run" \in Faults)

(* A worker that sleeps although it may run is about to be notified.       *)
NoLostWakeup ==
  (sleeping["worker"] # NoCV /\ is_worker_runnable_)
    => pc["driver"] = "ResumeNotify"

(* A driver asleep in Suspend() waits for a round under way, or for one    *)
(* whose end the worker is about to report, unless Run() was left by an    *)
(* exception.                                                              *)
WaiterIsOwedNotify ==
  sleeping["driver"] # NoCV =>
    \/ pc["worker"] \in RoundPcs \cup {"Finish", "Notify"}
    \/ pc["worker"] = "Done" /\ "run" \in Faults

WakeInv == SleepInv /\ NoLostWakeup /\ WaiterIsOwedNotify

LEMMA WakeInvNext == LifeInv /\ RoundInv /\ WakeInv /\ [Next]_vars => WakeInv'
<1> SUFFICES ASSUME LifeInv, RoundInv, WakeInv, [Next]_vars PROVE WakeInv'
  OBVIOUS
<1> USE DEF LifeInv, RoundInv, WakeInv, SleepInv, NoLostWakeup,
            WaiterIsOwedNotify, At, Goto, LockFree, SleepOn, flagVars
<1>1. CASE CheckRunnable
  BY <1>1 DEF CheckRunnable, MayRun
<1>2. CASE BlockOnRunnable
  BY <1>2 DEF BlockOnRunnable
<1>3. CASE GetCommand \/ WriteCommand \/ RunThrows
  BY <1>3 DEF GetCommand, WriteCommand, RunThrows
<1>4. CASE FinishRound \/ SleepBetweenRounds
  BY <1>4 DEF FinishRound, SleepBetweenRounds
<1>5. CASE NotifyFinished
  BY <1>5 DEF NotifyFinished, NotifyOne
<1>6. CASE Boot \/ RequestStop \/ StopApc \/ Join \/ WriteNop
  BY <1>6 DEF Boot, RequestStop, StopApc, Join, WriteNop
<1>7. CASE Resume
  BY <1>7 DEF Resume
<1>8. CASE ResumeNotify \/ StopNotify
  BY <1>8 DEF ResumeNotify, StopNotify, NotifyOne
<1>9. CASE Suspend \/ SuspendResumesWaiting
  BY <1>9 DEF Suspend, SuspendResumesWaiting, AwaitFinished
<1>10. CASE SetCommand
  BY <1>10 DEF SetCommand
<1>11. CASE \E t \in Threads : SpuriousWakeup(t)
  BY <1>11 DEF SpuriousWakeup
<1>12. CASE UNCHANGED vars
  BY <1>12 DEF vars
<1> QED
  BY <1>1, <1>2, <1>3, <1>4, <1>5, <1>6, <1>7, <1>8, <1>9, <1>10, <1>11,
     <1>12
  DEF Next, Run, DriverCall, DriverStep

LEMMA WakeInvariance == Spec => [](LifeInv /\ WakeInv)
<1>1. Init => WakeInv
  BY DEF Init, WakeInv, SleepInv, NoLostWakeup, WaiterIsOwedNotify
<1> QED
  BY <1>1, InvInit, LifeInvNext, RoundInvNext, WakeInvNext, PTL DEF Spec

(* The notification of Resume() is not lost (CommandDispatcher.cpp:80-87): *)
(* a worker that sleeps although it may run has notify_one before it.      *)
THEOREM WakeupsAreNotLost == Spec => []NoLostWakeup
<1>1. WakeInv => NoLostWakeup
  BY DEF WakeInv
<1> QED
  BY <1>1, WakeInvariance, PTL

(* Suspend() (CommandDispatcher.cpp:89-98) sleeps only while the worker    *)
(* has a notify_one before it, or for ever after an exception in Run().    *)
THEOREM WaitersAreOwedNotify == Spec => []WaiterIsOwedNotify
<1>1. WakeInv => WaiterIsOwedNotify
  BY DEF WakeInv
<1> QED
  BY <1>1, WakeInvariance, PTL

(* Terminate() takes no mutex when it requests the stop, but of a running  *)
(* dispatcher the worker never sleeps then: there is no wake-up to lose.   *)
AwakeWhenStopped ==
  (stop_requested /\ is_worker_runnable_)
    => sleeping["worker"] = NoCV /\ ~worker_state_lock_held

(* The worker of a running dispatcher that is told to end does not sleep,  *)
(* nor is it about to (CommandDispatcher.cpp:100-106); the driver never    *)
(* suspends the dispatcher, so this is the case that occurs.               *)
THEOREM StoppedWorkerIsAwake == Spec => []AwakeWhenStopped
<1>1. LifeInv /\ WakeInv => AwakeWhenStopped
  BY DEF LifeInv, WakeInv, SleepInv, NoLostWakeup, AwakeWhenStopped, StopPcs
<1> QED
  BY <1>1, WakeInvariance, PTL

-----------------------------------------------------------------------------
(* Each step of the dispatcher is one of the contract's, or none.          *)

LEMMA ContractInit == Init => Contract!Init
  BY DEF Init, Contract!Init, phaseBar, busyBar

LEMMA ContractNext ==
  LifeInv /\ RoundInv /\ [Next]_vars => [Contract!Next]_Contract!vars
<1> SUFFICES ASSUME LifeInv, RoundInv, [Next]_vars
             PROVE  [Contract!Next]_Contract!vars
  OBVIOUS
<1> USE DEF LifeInv, RoundInv, StopPcs, At, Goto, flagVars, phaseBar, busyBar,
            Contract!vars
<1>1. CASE CheckRunnable
  BY <1>1 DEF CheckRunnable, MayRun, Contract!Next, Contract!StartRound
<1>2. CASE WriteCommand \/ RunThrows
  BY <1>2 DEF WriteCommand, RunThrows, Contract!Next, Contract!FinishRound
<1>3. CASE BlockOnRunnable \/ GetCommand \/ FinishRound \/ NotifyFinished
           \/ SleepBetweenRounds
  BY <1>3 DEF BlockOnRunnable, GetCommand, FinishRound, NotifyFinished,
              SleepBetweenRounds
<1>4. CASE Boot
  BY <1>4 DEF Boot, Contract!Next, Contract!Boot,
              Contract!MayBoot
<1>5. CASE Resume
  BY <1>5 DEF Resume, Contract!Next, Contract!Resume,
              Contract!MayResume
<1>6. CASE Suspend
  BY <1>6 DEF Suspend, AwaitFinished, Contract!Next, Contract!Suspend,
              Contract!MaySuspend
<1>7. CASE SuspendResumesWaiting
  BY <1>7 DEF SuspendResumesWaiting, AwaitFinished, Contract!Next,
              Contract!SuspendReturns
<1>8. CASE RequestStop
  BY <1>8 DEF RequestStop, Contract!Next, Contract!Terminate,
              Contract!MayTerminate
<1>9. CASE Join
  BY <1>9 DEF Join, WorkerJoined, Contract!Next, Contract!TerminateReturns
<1>10. CASE ResumeNotify \/ StopNotify \/ StopApc \/ WriteNop
  BY <1>10 DEF ResumeNotify, StopNotify, StopApc, WriteNop
<1>11. CASE SetCommand \/ (\E t \in Threads : SpuriousWakeup(t))
  BY <1>11 DEF SetCommand, SpuriousWakeup
<1>12. CASE UNCHANGED vars
  BY <1>12 DEF vars
<1> QED
  BY <1>1, <1>2, <1>3, <1>4, <1>5, <1>6, <1>7, <1>8, <1>9, <1>10, <1>11,
     <1>12
  DEF Next, Run, DriverCall, DriverStep

(* The dispatcher implements the module contract: a suspended one is in no *)
(* round, so it neither reads the command nor writes the file              *)
(* (ContractSpec, Module.hpp:8-11).                                        *)
THEOREM ImplementsContract == Spec => ContractSpec
<1> QED
  BY InvInit, LifeInvNext, RoundInvNext, ContractInit, ContractNext, PTL
  DEF Spec, ContractSpec, Contract!Spec
=============================================================================
