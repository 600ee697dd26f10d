---------------------- MODULE CSOBannerSuppressorProofs ----------------------
(***************************************************************************)
(* Proofs about the banner suppressor, whatever its two uninitialized      *)
(* flags hold at first and whichever faults there are.                     *)
(***************************************************************************)
EXTENDS CSOBannerSuppressor, TLAPS

LEMMA TypeInit == Init => TypeOK
  BY DEF Init, TypeOK, Banners

LEMMA TypeNext == TypeOK /\ [Next]_vars => TypeOK'
<1> SUFFICES ASSUME TypeOK, [Next]_vars PROVE TypeOK'
  OBVIOUS
<1> USE DEF TypeOK, RoundPcs, flagVars, processVars
<1>1. CASE CheckRunnable \/ FallAsleep
  BY <1>1 DEF CheckRunnable, FallAsleep
<1>2. CASE Enumerate \/ FindOwn
  BY <1>2 DEF Enumerate, FindOwn
<1>3. CASE LeaveAlone \/ SafeTerminateProcess
  BY <1>3 DEF LeaveAlone, SafeTerminateProcess, FinishRound
<1>4. CASE PathThrows
  BY <1>4 DEF PathThrows
<1>5. CASE NotifyFinished \/ SleepBetweenRounds
  BY <1>5 DEF NotifyFinished, SleepBetweenRounds
<1>6. CASE Boot \/ Resume \/ RequestStop
  BY <1>6 DEF Boot, Resume, RequestStop
<1>7. CASE Suspend \/ SuspendResumesWaiting
  BY <1>7 DEF Suspend, SuspendResumesWaiting, AwaitFinished
<1>8. CASE ResumeNotify \/ StopNotify
  BY <1>8 DEF ResumeNotify, StopNotify, NotifyRunnable, Wake
<1>9. CASE StopApc \/ Join
  <2>1. apc' \in BOOLEAN
    BY <1>9 DEF StopApc, Join
  <2> QED
    BY <1>9, <2>1 DEF StopApc, Join
<1>10. ASSUME NEW b \in Banners, BannerStarts(b) \/ BannerEnds(b)
       PROVE  TypeOK'
  <2>1. told' \in BOOLEAN
    BY <1>10 DEF BannerStarts, BannerEnds
  <2> QED
    BY <1>10, <2>1 DEF BannerStarts, BannerEnds
<1>11. CASE SpuriousWakeup
  BY <1>11 DEF SpuriousWakeup, Wake
<1>12. CASE UNCHANGED vars
  BY <1>12 DEF vars
<1> QED
  BY <1>1, <1>2, <1>3, <1>4, <1>5, <1>6, <1>7, <1>8, <1>9, <1>10, <1>11,
     <1>12
  DEF Next, Run, DriverCall, DriverStep

(* Every reachable state is well typed (TypeOK, CSOBannerSuppressor.hpp).  *)
THEOREM TypeCorrect == Spec => []TypeOK
  BY TypeInit, TypeNext, PTL DEF Spec

-----------------------------------------------------------------------------
(* A round that began has taken has_worker_finished_ down, so that         *)
(* Suspend() waits for it; it began under is_worker_runnable_, so that     *)
(* none begins after the flag was taken down.                              *)
QuietInv ==
  /\ worker \in RoundPcs => ~has_worker_finished_
  /\ driver = "ResumeNotify" => is_worker_runnable_
  /\ driver = "NotBooted" => worker = "NotStarted"
  /\ SuspendedMeansQuiet

LEMMA QuietInit == Init => QuietInv
  BY DEF Init, QuietInv, SuspendedMeansQuiet, RoundPcs

LEMMA QuietNext == QuietInv /\ [Next]_vars => QuietInv'
<1> SUFFICES ASSUME QuietInv, [Next]_vars PROVE QuietInv'
  OBVIOUS
<1> USE DEF QuietInv, SuspendedMeansQuiet, RoundPcs, flagVars, processVars
<1>1. CASE CheckRunnable \/ FallAsleep
  BY <1>1 DEF CheckRunnable, FallAsleep
<1>2. CASE Enumerate \/ FindOwn
  BY <1>2 DEF Enumerate, FindOwn
<1>3. CASE LeaveAlone \/ SafeTerminateProcess
  BY <1>3 DEF LeaveAlone, SafeTerminateProcess, FinishRound
<1>4. CASE PathThrows
  BY <1>4 DEF PathThrows
<1>5. CASE NotifyFinished \/ SleepBetweenRounds
  BY <1>5 DEF NotifyFinished, SleepBetweenRounds
<1>6. CASE Boot \/ Resume \/ RequestStop
  BY <1>6 DEF Boot, Resume, RequestStop
<1>7. CASE Suspend \/ SuspendResumesWaiting
  BY <1>7 DEF Suspend, SuspendResumesWaiting, AwaitFinished
<1>8. CASE ResumeNotify \/ StopNotify
  BY <1>8 DEF ResumeNotify, StopNotify, NotifyRunnable, Wake
<1>9. CASE StopApc \/ Join
  BY <1>9 DEF StopApc, Join
<1>10. CASE \E b \in Banners : BannerStarts(b) \/ BannerEnds(b)
  BY <1>10 DEF BannerStarts, BannerEnds
<1>11. CASE SpuriousWakeup
  BY <1>11 DEF SpuriousWakeup, Wake
<1>12. CASE UNCHANGED vars
  BY <1>12 DEF vars
<1> QED
  BY <1>1, <1>2, <1>3, <1>4, <1>5, <1>6, <1>7, <1>8, <1>9, <1>10, <1>11,
     <1>12
  DEF Next, Run, DriverCall, DriverStep

(* After Suspend() no process is asked to end, although the flags it reads *)
(* are indeterminate until the first Resume() and the first round          *)
(* (SuspendedMeansQuiet, CSOBannerSuppressor.cpp:50-59).                   *)
THEOREM SuspendQuiesces == Spec => []SuspendedMeansQuiet
<1>1. QuietInv => SuspendedMeansQuiet
  BY DEF QuietInv
<1> QED
  BY <1>1, QuietInit, QuietNext, PTL DEF Spec

-----------------------------------------------------------------------------
(* The mutex is held between a false predicate and the sleep that follows  *)
(* it, and while the processes are enumerated.                             *)
LockInv ==
  /\ worker_state_lock_ <=> worker \in {"Gap", "Look", "End"}
  /\ worker = "Gap" => ~is_worker_runnable_
  /\ worker = "NotStarted" <=> driver = "NotBooted"
  /\ stop_requested <=>
       driver \in {"StopNotify", "StopApc", "Join", "Terminated"}

(* A worker that sleeps although it may run is about to be notified.       *)
NoLostWakeup ==
  (worker = "Asleep" /\ is_worker_runnable_) => driver = "ResumeNotify"

WakeInv == LockInv /\ NoLostWakeup

LEMMA WakeInit == Init => WakeInv
  BY DEF Init, WakeInv, LockInv, NoLostWakeup

LEMMA WakeNext == QuietInv /\ WakeInv /\ [Next]_vars => WakeInv'
<1> SUFFICES ASSUME QuietInv, WakeInv, [Next]_vars PROVE WakeInv'
  OBVIOUS
<1> USE DEF QuietInv, WakeInv, LockInv, NoLostWakeup, RoundPcs, flagVars,
            processVars
<1>1. CASE CheckRunnable \/ FallAsleep
  BY <1>1 DEF CheckRunnable, FallAsleep
<1>2. CASE Enumerate \/ FindOwn
  BY <1>2 DEF Enumerate, FindOwn
<1>3. CASE LeaveAlone \/ SafeTerminateProcess
  BY <1>3 DEF LeaveAlone, SafeTerminateProcess, FinishRound
<1>4. CASE PathThrows
  BY <1>4 DEF PathThrows
<1>5. CASE NotifyFinished \/ SleepBetweenRounds
  BY <1>5 DEF NotifyFinished, SleepBetweenRounds
<1>6. CASE Boot \/ Resume \/ RequestStop
  BY <1>6 DEF Boot, Resume, RequestStop
<1>7. CASE Suspend \/ SuspendResumesWaiting
  BY <1>7 DEF Suspend, SuspendResumesWaiting, AwaitFinished
<1>8. CASE ResumeNotify \/ StopNotify
  BY <1>8 DEF ResumeNotify, StopNotify, NotifyRunnable, Wake
<1>9. CASE StopApc \/ Join
  BY <1>9 DEF StopApc, Join
<1>10. CASE \E b \in Banners : BannerStarts(b) \/ BannerEnds(b)
  BY <1>10 DEF BannerStarts, BannerEnds
<1>11. CASE SpuriousWakeup
  BY <1>11 DEF SpuriousWakeup, Wake
<1>12. CASE UNCHANGED vars
  BY <1>12 DEF vars
<1> QED
  BY <1>1, <1>2, <1>3, <1>4, <1>5, <1>6, <1>7, <1>8, <1>9, <1>10, <1>11,
     <1>12
  DEF Next, Run, DriverCall, DriverStep

(* The notification of Resume() is not lost (CSOBannerSuppressor.cpp:41-48 *)
(* against the wait at 102), whatever the flag held before.                *)
THEOREM WakeupsAreNotLost == Spec => []NoLostWakeup
<1>1. WakeInv => NoLostWakeup
  BY DEF WakeInv
<1> QED
  BY <1>1, QuietInit, QuietNext, WakeInit, WakeNext, PTL DEF Spec

(* The stop request takes no mutex, but of a running module the worker     *)
(* never sleeps then, nor is it about to.                                  *)
AwakeWhenStopped ==
  (stop_requested /\ is_worker_runnable_) => worker \notin {"Gap", "Asleep"}

(* Terminate() of a running module (CSOBannerSuppressor.cpp:61-72) has no  *)
(* wake-up to lose.                                                        *)
THEOREM StoppedWorkerIsAwake == Spec => []AwakeWhenStopped
<1>1. WakeInv => AwakeWhenStopped
  BY DEF WakeInv, LockInv, NoLostWakeup, AwakeWhenStopped
<1> QED
  BY <1>1, QuietInit, QuietNext, WakeInit, WakeNext, PTL DEF Spec

-----------------------------------------------------------------------------
(* The banner suppressor as a Module.  Two initializers are missing in its *)
(* header: with any other contents of the flags a booted module may already*)
(* run, or its first Suspend() wait for a round that never was.            *)
FlagsInitialized == ~is_worker_runnable_ /\ has_worker_finished_

phaseBar ==
  IF driver = "NotBooted" THEN "down"
  ELSE IF driver = "Terminated" THEN "terminated"
  ELSE IF stop_requested THEN "terminating"
  ELSE IF driver \in {"SuspendCheck", "SuspendAsleep"} THEN "suspending"
  ELSE IF is_worker_runnable_ THEN "running"
  ELSE "suspended"

busyBar == IF worker \in RoundPcs THEN {"worker"} ELSE {}

Contract == INSTANCE ModuleContract
              WITH Workers <- {"worker"}, phase <- phaseBar, busy <- busyBar

(* What the initializers give: nothing is pending before Boot(), and an    *)
(* idle driver of a suspended module has seen the last round reported.     *)
StartInv ==
  /\ driver = "NotBooted" => ~is_worker_runnable_
  /\ (driver \in {"NotBooted", "Idle"} /\ ~is_worker_runnable_)
       => has_worker_finished_
  /\ driver \in {"SuspendCheck", "SuspendAsleep"} => ~is_worker_runnable_
  /\ driver = "Terminated" => worker = "Done"

LEMMA StartInit == Init /\ FlagsInitialized => StartInv
  BY DEF Init, FlagsInitialized, StartInv

LEMMA StartNext == QuietInv /\ StartInv /\ [Next]_vars => StartInv'
<1> SUFFICES ASSUME QuietInv, StartInv, [Next]_vars PROVE StartInv'
  OBVIOUS
<1> USE DEF QuietInv, StartInv, RoundPcs, flagVars, processVars
<1>1. CASE CheckRunnable \/ FallAsleep
  BY <1>1 DEF CheckRunnable, FallAsleep
<1>2. CASE Enumerate \/ FindOwn
  BY <1>2 DEF Enumerate, FindOwn
<1>3. CASE LeaveAlone \/ SafeTerminateProcess
  BY <1>3 DEF LeaveAlone, SafeTerminateProcess, FinishRound
<1>4. CASE PathThrows
  BY <1>4 DEF PathThrows
<1>5. CASE NotifyFinished \/ SleepBetweenRounds
  BY <1>5 DEF NotifyFinished, SleepBetweenRounds
<1>6. CASE Boot \/ Resume \/ RequestStop
  BY <1>6 DEF Boot, Resume, RequestStop
<1>7. CASE Suspend \/ SuspendResumesWaiting
  BY <1>7 DEF Suspend, SuspendResumesWaiting, AwaitFinished
<1>8. CASE ResumeNotify \/ StopNotify
  BY <1>8 DEF ResumeNotify, StopNotify, NotifyRunnable, Wake
<1>9. CASE StopApc \/ Join
  BY <1>9 DEF StopApc, Join
<1>10. CASE \E b \in Banners : BannerStarts(b) \/ BannerEnds(b)
  BY <1>10 DEF BannerStarts, BannerEnds
<1>11. CASE SpuriousWakeup
  BY <1>11 DEF SpuriousWakeup, Wake
<1>12. CASE UNCHANGED vars
  BY <1>12 DEF vars
<1> QED
  BY <1>1, <1>2, <1>3, <1>4, <1>5, <1>6, <1>7, <1>8, <1>9, <1>10, <1>11,
     <1>12
  DEF Next, Run, DriverCall, DriverStep

LEMMA ContractInit == Init /\ FlagsInitialized => Contract!Init
  BY DEF Init, FlagsInitialized, Contract!Init, phaseBar, busyBar, RoundPcs

LEMMA ContractNext ==
  QuietInv /\ WakeInv /\ StartInv /\ [Next]_vars
    => [Contract!Next]_Contract!vars
<1> SUFFICES ASSUME QuietInv, WakeInv, StartInv, [Next]_vars
             PROVE  [Contract!Next]_Contract!vars
  OBVIOUS
<1> USE DEF QuietInv, SuspendedMeansQuiet, WakeInv, LockInv, StartInv,
            RoundPcs, flagVars, processVars, phaseBar, busyBar, Contract!vars
<1>1. CASE CheckRunnable
  BY <1>1 DEF CheckRunnable, Contract!Next, Contract!StartRound
<1>2. CASE LeaveAlone \/ SafeTerminateProcess
  BY <1>2 DEF LeaveAlone, SafeTerminateProcess, FinishRound, Contract!Next,
              Contract!FinishRound
<1>3. CASE PathThrows
  BY <1>3 DEF PathThrows, Contract!Next, Contract!FinishRound
<1>4. CASE FallAsleep \/ Enumerate \/ FindOwn
  BY <1>4 DEF FallAsleep, Enumerate, FindOwn
<1>5. CASE NotifyFinished \/ SleepBetweenRounds
  BY <1>5 DEF NotifyFinished, SleepBetweenRounds
<1>6. CASE Boot
  BY <1>6 DEF Boot, Contract!Next, Contract!Boot,
              Contract!MayBoot
<1>7. CASE Resume
  BY <1>7 DEF Resume, Contract!Next, Contract!Resume,
              Contract!MayResume
<1>8. CASE Suspend
  BY <1>8 DEF Suspend, AwaitFinished, Contract!Next, Contract!Suspend,
              Contract!MaySuspend
<1>9. CASE SuspendResumesWaiting
  BY <1>9 DEF SuspendResumesWaiting, AwaitFinished, Contract!Next,
              Contract!SuspendReturns
<1>10. CASE RequestStop
  BY <1>10 DEF RequestStop, Contract!Next, Contract!Terminate,
              Contract!MayTerminate
<1>11. CASE Join
  BY <1>11 DEF Join, Contract!Next, Contract!TerminateReturns
<1>12. CASE ResumeNotify \/ StopNotify \/ StopApc
  BY <1>12 DEF ResumeNotify, StopNotify, StopApc, NotifyRunnable, Wake
<1>13. CASE \E b \in Banners : BannerStarts(b) \/ BannerEnds(b)
  BY <1>13 DEF BannerStarts, BannerEnds
<1>14. CASE SpuriousWakeup
  BY <1>14 DEF SpuriousWakeup, Wake
<1>15. CASE UNCHANGED vars
  BY <1>15 DEF vars
<1> QED
  BY <1>1, <1>2, <1>3, <1>4, <1>5, <1>6, <1>7, <1>8, <1>9, <1>10, <1>11,
     <1>12, <1>13, <1>14, <1>15
  DEF Next, Run, DriverCall, DriverStep

(* The two missing initializers (CSOBannerSuppressor.hpp:25-26) are all    *)
(* that separates the banner suppressor from what Module.hpp:8-11 promises:*)
(* with them it implements ModuleContract.                                 *)
THEOREM ImplementsContractIfInitialized ==
  Spec /\ FlagsInitialized => Contract!Spec
<1> QED
  BY QuietInit, QuietNext, WakeInit, WakeNext, StartInit, StartNext,
     ContractInit, ContractNext, PTL
  DEF Spec, Contract!Spec
=============================================================================
