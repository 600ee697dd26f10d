--------------------------- MODULE ModuleContract ---------------------------
(***************************************************************************)
(* What Controller/include/Module.hpp promises of every module the driver  *)
(* owns (idle engine, command dispatcher, banner suppressor), told without *)
(* locks, condition variables or flags: Boot creates the workers suspended,*)
(* Resume lets them work, Suspend returns once no worker is in a round and *)
(* none starts one before the next Resume, Terminate releases them.        *)
(***************************************************************************)

CONSTANT Workers        (* the threads the module creates in Boot *)

VARIABLES
  phase,                (* where the owner of the module has brought it    *)
  busy                  (* the workers that are inside a round of work     *)

vars == <<phase, busy>>

Phases ==
  {"down", "suspended", "running", "suspending", "terminating", "terminated"}

TypeOK ==
  /\ phase \in Phases
  /\ busy \in SUBSET Workers

Init ==
  /\ phase = "down"
  /\ busy = {}

(* When the owner may make each call: the other half of the contract.      *)
MayBoot == phase = "down"
MayResume == phase = "suspended"
MaySuspend == phase = "running"
MayTerminate == phase \in {"suspended", "running"}

Boot ==
  /\ MayBoot
  /\ phase' = "suspended"
  /\ UNCHANGED busy

Resume ==
  /\ MayResume
  /\ phase' = "running"
  /\ UNCHANGED busy

(* The call withdraws the permission to start rounds; it may return at     *)
(* once when nobody works.                                                 *)
Suspend ==
  /\ MaySuspend
  /\ \/ phase' = "suspending"
     \/ busy = {} /\ phase' = "suspended"
  /\ UNCHANGED busy

SuspendReturns ==
  /\ phase = "suspending"
  /\ busy = {}
  /\ phase' = "suspended"
  /\ UNCHANGED busy

Terminate ==
  /\ MayTerminate
  /\ phase' = "terminating"
  /\ UNCHANGED busy

TerminateReturns ==
  /\ phase = "terminating"
  /\ busy = {}
  /\ phase' = "terminated"
  /\ UNCHANGED busy

StartRound(w) ==
  /\ phase = "running"
  /\ busy' = busy \cup {w}
  /\ UNCHANGED phase

FinishRound(w) ==
  /\ w \in busy
  /\ busy' = busy \ {w}
  /\ UNCHANGED phase

Next ==
  \/ Boot
  \/ Resume
  \/ Suspend
  \/ SuspendReturns
  \/ Terminate
  \/ TerminateReturns
  \/ \E w \in Workers : StartRound(w) \/ FinishRound(w)

Spec == Init /\ [][Next]_vars
=============================================================================
