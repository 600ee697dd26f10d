------------------------------ MODULE Command ------------------------------
(***************************************************************************)
(* Controller/source/Command.cpp: the one Command object.  Set() is called *)
(* by one thread at a time (the discriminator, or the driver's thread once *)
(* the engine is suspended), Get() by the dispatcher's thread.  Every load *)
(* and store of a field is a step of its own, because the flag both sides  *)
(* call a spin lock does not keep them apart.  Get() reads the fields      *)
(* twice: to size its string, then to format them into it.                 *)
(***************************************************************************)
EXTENDS Naturals

CONSTANTS
  Orders,            (* the <<type, modes>> pairs callers pass to Set()      *)
  CoolDown,          (* type -> QueryCommandCoolDownTime, in ticks           *)
  Digits,            (* id -> digits it is formatted with                    *)
  Letters,           (* type -> length of QueryCommandString                 *)
  RenewAfter,        (* the 4000 ms of Get(), in ticks                       *)
  Epoch,             (* the clock reading at start, far from timestamp 0     *)
  MaxClock,          (* bound: the last clock reading                        *)
  MaxId              (* bound: ids drawn                                     *)

Types == {"CMD_NOP"} \cup {o[1] : o \in Orders}
Modes == {"REPEATABLE", "AUTO_REFRESH", "ZERO_TIMESTAMP"}

ASSUME OrdersAssumption == \A o \in Orders : o[2] \subseteq Modes

ASSUME ClockAssumption ==
  /\ RenewAfter \in Nat /\ Epoch \in Nat /\ MaxClock \in Nat /\ MaxId \in Nat
  /\ Epoch <= MaxClock
  /\ CoolDown \in [Types -> Nat]
  /\ \A t \in Types : CoolDown[t] < Epoch
  /\ RenewAfter < Epoch

ASSUME WidthAssumption ==
  Digits \in [0..MaxId -> Nat] /\ Letters \in [Types -> Nat]

Fields == {"id_", "type_", "timepoint_", "repeatable_", "auto_renew_"}
Callers == {"setter", "getter"}

VARIABLES
  self,              (* the fields of the Command object                    *)
  m_SpinLock,
  pc,                (* where Set() and Get() are                           *)
  expected,          (* the local `expected` of each                        *)
  order,             (* the arguments of the Set() in progress              *)
  tp,                (* the local `tp` of Get()                             *)
  unread,            (* fields this pass of Get() has yet to read           *)
  sized,             (* the directive the first pass sizes                  *)
  new_size,
  text,              (* the directive Get() formats                         *)
  directive,         (* the last directive Get() returned                   *)
  garbled,           (* it is cut short, or followed by something old       *)
  now,               (* system_clock                                        *)
  issued,            (* history: what Set() meant, by id                    *)
  overlapped         (* history: a Set() ran during this Get()              *)

setVars == <<order, issued>>
getVars == <<tp, unread, sized, new_size, text, directive, garbled>>
vars == <<self, m_SpinLock, pc, expected, setVars, getVars, now, overlapped>>

(* Set() writes the fields in this order.                                  *)
StoreOrder == [id_ |-> "type_", type_ |-> "timepoint_",
               timepoint_ |-> "repeatable_", repeatable_ |-> "auto_renew_",
               auto_renew_ |-> "unlock"]

Formatted == Fields \ {"auto_renew_"}

(* How long a directive is, without what all have in common: 10 digits of  *)
(* a time, "true" or "false".                                              *)
Size(d) ==
  Digits[d.id_] + Letters[d.type_] + (IF d.timepoint_ = 0 THEN 1 ELSE 10)
    + (IF d.repeatable_ THEN 4 ELSE 5)

NoOrder == <<"CMD_NOP", {}>>

Command0 == [id_ |-> 0, type_ |-> "CMD_NOP", timepoint_ |-> 0,
             repeatable_ |-> FALSE, auto_renew_ |-> FALSE]

Commands == [id_ : 0..MaxId, type_ : Types, timepoint_ : 0..MaxClock,
             repeatable_ : BOOLEAN, auto_renew_ : BOOLEAN]

TypeOK ==
  /\ self \in Commands
  /\ m_SpinLock \in BOOLEAN
  /\ pc["setter"] \in {"idle", "spin", "test", "unlock"} \cup Fields
  /\ pc["getter"] \in {"idle", "spin", "renew", "age", "store", "size",
                       "format", "unlock"}
  /\ expected \in [Callers -> BOOLEAN]
  /\ order \in Orders \cup {NoOrder}
  /\ tp \in 0..MaxClock
  /\ unread \subseteq Formatted
  /\ sized \in Commands
  /\ new_size \in Nat
  /\ text \in Commands
  /\ directive \in Commands
  /\ garbled \in BOOLEAN
  /\ now \in Epoch..MaxClock
  /\ DOMAIN issued \subseteq 0..MaxId
  /\ overlapped \in BOOLEAN

Init ==
  /\ self = Command0
  /\ m_SpinLock = FALSE
  /\ pc = [c \in Callers |-> "idle"]
  /\ expected = [c \in Callers |-> FALSE]
  /\ order = NoOrder
  /\ tp = 0
  /\ unread = {}
  /\ sized = Command0
  /\ new_size = 0
  /\ text = Command0
  /\ directive = Command0
  /\ garbled = FALSE
  /\ now = Epoch
  /\ issued = [i \in {0} |-> Command0]
  /\ overlapped = FALSE

-----------------------------------------------------------------------------
Goto(c, p) == pc' = [pc EXCEPT ![c] = p]

(* Mutant: a retry that starts from expected = false, as a spin lock does. *)
Retry_Afresh(c) == FALSE

(* compare_exchange_strong leaves the value it found in `expected`, and    *)
(* the loop tries again with that.                                         *)
Retry(c) == m_SpinLock

(* One turn of `while (!compare_exchange_strong(expected, true)) {}`.      *)
CompareExchange(c, next) ==
  /\ pc[c] = "spin"
  /\ IF m_SpinLock = expected[c]
     THEN m_SpinLock' = TRUE /\ Goto(c, next) /\ UNCHANGED expected
     ELSE /\ expected' = [expected EXCEPT ![c] = Retry(c)]
          /\ UNCHANGED <<m_SpinLock, pc>>

-----------------------------------------------------------------------------
(* Set(cmd_type, mode)                                                     *)

SetBegin(o) ==
  /\ pc["setter"] = "idle"
  /\ self.id_ < MaxId
  /\ order' = o
  /\ expected' = [expected EXCEPT !["setter"] = FALSE]
  /\ Goto("setter", "spin")
  /\ overlapped' = (pc["getter"] # "idle")
  /\ UNCHANGED <<self, m_SpinLock, getVars, now, issued>>

SetLock ==
  /\ CompareExchange("setter", "test")
  /\ UNCHANGED <<self, setVars, getVars, now, overlapped>>

(* The same command again, before its cool-down is over, is dropped: the   *)
(* early return leaves the flag as it is.                                  *)
CoolingDown ==
  /\ self.type_ = order[1]
  /\ now - self.timepoint_ < CoolDown[order[1]]

SetTest ==
  /\ pc["setter"] = "test"
  /\ Goto("setter", IF CoolingDown THEN "idle" ELSE "id_")
  /\ order' = IF CoolingDown THEN NoOrder ELSE order
  /\ UNCHANGED <<self, m_SpinLock, expected, issued, getVars, now, overlapped>>

(* The command the caller asks for.                                        *)
Ordered ==
  [id_ |-> self.id_ + 1,
   type_ |-> order[1],
   timepoint_ |-> IF "ZERO_TIMESTAMP" \in order[2] THEN 0 ELSE now,
   repeatable_ |-> "REPEATABLE" \in order[2],
   auto_renew_ |-> "AUTO_REFRESH" \in order[2]]

(* Mutant: `repeatable_` is only ever raised.                              *)
NewValue_KeepsRepeatable(f) ==
  IF f = "repeatable_" THEN self[f] \/ Ordered[f] ELSE Ordered[f]

(* What Set() writes into a field.                                         *)
NewValue(f) == Ordered[f]

(* The history of what was asked for, by id; no property asks for its time.*)
Meant == [Ordered EXCEPT !.timepoint_ = 0]

Issue ==
  issued' = [i \in DOMAIN issued \cup {self.id_ + 1} |->
               IF i = self.id_ + 1 THEN Meant ELSE issued[i]]

SetStore(f) ==
  /\ pc["setter"] = f
  /\ self' = [self EXCEPT ![f] = NewValue(f)]
  /\ IF f = "id_" THEN Issue ELSE UNCHANGED issued
  /\ Goto("setter", StoreOrder[f])
  /\ UNCHANGED <<m_SpinLock, expected, order, getVars, now, overlapped>>

SetUnlock ==
  /\ pc["setter"] = "unlock"
  /\ m_SpinLock' = FALSE
  /\ order' = NoOrder
  /\ Goto("setter", "idle")
  /\ UNCHANGED <<self, expected, issued, getVars, now, overlapped>>

-----------------------------------------------------------------------------
(* Get(s)                                                                  *)

GetBegin ==
  /\ pc["getter"] = "idle"
  /\ expected' = [expected EXCEPT !["getter"] = FALSE]
  /\ unread' = Formatted
  /\ Goto("getter", "spin")
  /\ overlapped' = (pc["setter"] # "idle")
  /\ UNCHANGED <<self, m_SpinLock, setVars, tp, sized, new_size, text,
                 directive, garbled, now>>

GetLock ==
  /\ CompareExchange("getter", "renew")
  /\ UNCHANGED <<self, setVars, getVars, now, overlapped>>

GetRenewTest ==
  /\ pc["getter"] = "renew"
  /\ Goto("getter", IF self.auto_renew_ THEN "age" ELSE "size")
  /\ UNCHANGED <<self, m_SpinLock, expected, setVars, getVars, now,
                 overlapped>>

(* timepoint_ is read here and written later.                              *)
GetAge ==
  /\ pc["getter"] = "age"
  /\ IF now - self.timepoint_ > RenewAfter
     THEN tp' = now /\ Goto("getter", "store")
     ELSE tp' = tp /\ Goto("getter", "size")
  /\ UNCHANGED <<self, m_SpinLock, expected, setVars, unread, sized, new_size,
                 text, directive, garbled, now, overlapped>>

GetRenewStore ==
  /\ pc["getter"] = "store"
  /\ self' = [self EXCEPT !.timepoint_ = tp]
  /\ tp' = 0
  /\ Goto("getter", "size")
  /\ UNCHANGED <<m_SpinLock, expected, setVars, unread, sized, new_size, text,
                 directive, garbled, now, overlapped>>

(* The arguments of formatted_size and format_to are evaluated in an order *)
(* C++ leaves open.                                                        *)
GetSize(f) ==
  /\ pc["getter"] = "size"
  /\ f \in unread
  /\ LET seen == [sized EXCEPT ![f] = self[f]]
     IN  IF unread = {f}
         THEN /\ new_size' = Size(seen) /\ sized' = Command0
              /\ unread' = Formatted /\ Goto("getter", "format")
         ELSE /\ sized' = seen /\ unread' = unread \ {f}
              /\ UNCHANGED <<new_size, pc>>
  /\ UNCHANGED <<self, m_SpinLock, expected, setVars, tp, text, directive,
                 garbled, now, overlapped>>

GetFormat(f) ==
  /\ pc["getter"] = "format"
  /\ f \in unread
  /\ text' = [text EXCEPT ![f] = self[f]]
  /\ unread' = unread \ {f}
  /\ Goto("getter", IF unread = {f} THEN "unlock" ELSE "format")
  /\ UNCHANGED <<self, m_SpinLock, expected, setVars, tp, sized, new_size,
                 directive, garbled, now, overlapped>>

(* The flag is set, not cleared, when Get() is done.  The string keeps the *)
(* length of the first pass whatever the second has written.               *)
GetUnlock ==
  /\ pc["getter"] = "unlock"
  /\ m_SpinLock' = TRUE
  /\ directive' = text
  /\ garbled' = (Size(text) # new_size)
  /\ new_size' = 0 /\ text' = Command0 /\ overlapped' = FALSE  \* locals end
  /\ Goto("getter", "idle")
  /\ UNCHANGED <<self, expected, setVars, tp, unread, sized, now>>

Tick ==
  /\ now < MaxClock
  /\ now' = now + 1
  /\ UNCHANGED <<self, m_SpinLock, pc, expected, setVars, getVars, overlapped>>

-----------------------------------------------------------------------------
Set == SetLock \/ SetTest \/ SetUnlock \/ \E f \in Fields : SetStore(f)

Get == GetLock \/ GetRenewTest \/ GetAge \/ GetRenewStore \/ GetUnlock
       \/ \E f \in Fields : GetSize(f) \/ GetFormat(f)

Next == Set \/ Get \/ GetBegin \/ Tick \/ \E o \in Orders : SetBegin(o)

Spec == Init /\ [][Next]_vars

(* A thread inside a call is scheduled again and again.                    *)
FairSpec == Spec /\ WF_vars(Set) /\ WF_vars(Get)

-----------------------------------------------------------------------------
(* Properties.                                                             *)

(* A call of Set() or Get() returns: the early return of Set() and the     *)
(* store of Get() both leave m_SpinLock set, yet nobody spins for ever,    *)
(* because the failed exchange rewrites `expected` (Command.cpp:8-12).     *)
CallsReturn == \A c \in Callers : pc[c] # "idle" ~> pc[c] = "idle"

SameCommand(d, e) ==
  d.id_ = e.id_ /\ d.type_ = e.type_ /\ d.repeatable_ = e.repeatable_

(* What Get() formats without a Set() alongside fills its string and is    *)
(* the command that was set under that id; only the timestamp may be       *)
(* another, by a renewal (Command.cpp:14-28).                              *)
QuietGetIsExact ==
  (pc["getter"] = "unlock" /\ ~overlapped)
    => new_size = Size(text) /\ SameCommand(text, issued[text.id_])

(* Command.cpp:46 and 64 call the flag a spin lock that Set() releases:    *)
(* under a lock every directive Get() returns is one that was set.         *)
DirectiveWasSet == ~garbled /\ SameCommand(directive, issued[directive.id_])
=============================================================================
