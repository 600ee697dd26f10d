------------------------------ MODULE Executor ------------------------------
(***************************************************************************)
(* Executor/core: the Lua script in the mouse driver.  It is one thread    *)
(* that fetches the command of the file, runs its task and, inside every   *)
(* Runtime:sleep() the task makes, a burst of routines: manual takeover,   *)
(* receiving commands (which may throw the task away), and others that     *)
(* only click.  A routine's own sleeps run no routine, so a handler is one *)
(* step; everything between two sleeps of a task is one step too.          *)
(***************************************************************************)
EXTENDS Naturals, Sequences, FiniteSets

CONSTANTS
  Types,             (* the commands the controller publishes               *)
  MaxId,             (* bound: ids drawn by the controller                  *)
  MaxMixed,          (* bound: ids of orders that a file mixes              *)
  Disturbances       (* what goes wrong: see DisturbancesAssumption         *)

Repeatable == {"CMD_START_GAME_ROOM", "CMD_CHOOSE_CHARACTER",
               "CMD_DEFAULT_IDLE", "CMD_EXTENDED_IDLE",
               "CMD_DEFAULT_IDLE_2", "CMD_EXTENDED_IDLE_2",
               "CMD_BATCH_COMBINE_PARTS", "CMD_BATCH_PURCHASE_ITEM",
               "CMD_LOCATE_CURSOR", "CMD_WAIT_FOR_LOADING"}
OneShot == {"CMD_NOP", "CMD_CONFIRM_RESULTS", "CMD_CREATE_GAME_ROOM",
            "CMD_CLEAR_POPUPS"}
IdleCommands == {"CMD_DEFAULT_IDLE", "CMD_EXTENDED_IDLE",
                 "CMD_DEFAULT_IDLE_2", "CMD_EXTENDED_IDLE_2"}

ASSUME TypesAssumption ==
  Types \subseteq Repeatable \cup OneShot /\ "CMD_NOP" \in Types

ASSUME BoundAssumption == MaxId \in Nat /\ MaxMixed \in Nat

ASSUME DisturbancesAssumption ==
  Disturbances \subseteq {"read",      (* Include() of the file fails       *)
                          "torn",      (* a file mixes two orders           *)
                          "error",     (* a task or a routine raises one    *)
                          "takeover",  (* the user takes over and returns   *)
                          "expire"}    (* a command grows too old           *)

Players == {"default", "extended"}
Keys == {"ENTER", "W"}
Buttons == {"ATTACK"}
Pressable == Keys \cup Buttons

-----------------------------------------------------------------------------
(* The tasks, as the calls they make; a run of equal calls is written once.*)

Click == <<"click">>                    (* Keyboard:click, Mouse:click      *)
Clicks == <<"clicks">>                  (* Keyboard:click_several_times ... *)
ClickOn == <<"click_on">>               (* Mouse:click_on and its like      *)
Press(k) == <<"press", k>>
Release(k) == <<"release", k>>
Sleep == <<"sleep">>

(* Weapon:purchase and Weapon:attack of the weapons of a player.           *)
Purchase == <<<<"mask">>, Click, <<"unmask">>, ClickOn>>

Attack(p) == <<<<"wield", p>>, Press("ATTACK"), Release("ATTACK"),
               <<"unwield", p>>>>

Play(p) == <<<<"activate", p>>>> \o Purchase \o <<Press("W")>> \o Attack(p)
             \o <<Release("W")>> \o Attack(p) \o <<<<"deactivate">>>>

ConfirmResults == <<Clicks, ClickOn, Clicks, ClickOn>>

Task ==
  [CMD_NOP |-> <<>>,
   CMD_START_GAME_ROOM |-> <<Clicks, ClickOn>>,
   CMD_CHOOSE_CHARACTER |-> <<ClickOn, Click>>,
   CMD_DEFAULT_IDLE |-> ConfirmResults \o Play("default"),
   CMD_EXTENDED_IDLE |-> ConfirmResults \o Play("extended"),
   CMD_DEFAULT_IDLE_2 |-> Play("default"),
   CMD_EXTENDED_IDLE_2 |-> Play("extended"),
   CMD_CONFIRM_RESULTS |-> ConfirmResults,
   CMD_CREATE_GAME_ROOM |-> <<Clicks, ClickOn, Clicks, ClickOn>>,
   CMD_BATCH_COMBINE_PARTS |->
     <<Sleep, Press("ENTER"), ClickOn, Release("ENTER")>>,
   CMD_BATCH_PURCHASE_ITEM |-> <<ClickOn, Clicks>>,
   CMD_LOCATE_CURSOR |-> <<Sleep>>,
   CMD_CLEAR_POPUPS |-> <<ClickOn, Click>>,
   CMD_WAIT_FOR_LOADING |-> <<ClickOn>>]

-----------------------------------------------------------------------------
Routines == 1..5     (* in the order they are registered in Automation.lua *)
Takeover == 1
ResetRound == 2
ReceiveCommand == 3
Potion == 4
AntiShock == 5

VARIABLES
  file,                    (* what Directives.lua holds                     *)
  ordered,                 (* what the controller last set                  *)
  mixed,                   (* history: ids of orders that a file mixed      *)
  cmd,                     (* Command.id, .type, .timepoint, .repeatable    *)
  finished,                (* Command.finished                              *)
  type_changed,            (* Command.status has TYPE_CHANGED               *)
  pc,
  after,                   (* where the sleep under way returns to          *)
  task, step,              (* the task under way and its next call          *)
  routine,                 (* the routine of the burst under way            *)
  exception,
  routine_mask_flag, routine_busy_flag, routine_mask_flag_stack,
  fatal_handler,           (* which of the two fatal handlers runs          *)
  frozen,                  (* keyboard and mouse; also Runtime.manual_flag  *)
  unreleased,              (* the tables of Keyboard and Mouse              *)
  down,                    (* what the system holds pressed                 *)
  active_player,
  wielded,                 (* players with a current_weapon                 *)
  done                     (* history: one-shot ids whose task was run      *)

commandVars == <<cmd, finished, type_changed>>
maskVars == <<routine_mask_flag, routine_mask_flag_stack>>
flagVars == <<maskVars, routine_busy_flag>>
flowVars == <<after, task, step>>
burstVars == <<routine, exception, fatal_handler>>
deviceVars == <<frozen, unreleased, down>>
playerVars == <<active_player, wielded>>
fileVars == <<file, ordered, mixed>>
vars == <<fileVars, commandVars, pc, flowVars, burstVars, flagVars, deviceVars,
          playerVars, done>>

Directives ==
  [id : 0..MaxId, type : Types, fresh : BOOLEAN, repeatable : BOOLEAN]

Points == {"fetch", "call", "inner", "routine", "handle", "restore",
           "slept", "fatal", "dead"}

TypeOK ==
  /\ file \in Directives
  /\ ordered \in Directives
  /\ mixed \subseteq 0..MaxId
  /\ cmd \in Directives
  /\ finished \in BOOLEAN
  /\ type_changed \in BOOLEAN
  /\ pc \in Points
  /\ after \in {"fetch", "call", "inner", "fatal"}
  /\ task \in Types
  /\ step \in 1..(Len(Task[task]) + 1)
  /\ routine \in Routines
  /\ exception \in {"none", "__ERROR_COMMAND_CHANGED__", "other"}
  /\ routine_mask_flag \in BOOLEAN
  /\ routine_busy_flag \in BOOLEAN
  /\ routine_mask_flag_stack \in UNION {[1..n -> BOOLEAN] : n \in 0..2}
  /\ fatal_handler \in 0..2
  /\ frozen \in BOOLEAN
  /\ unreleased \subseteq Pressable
  /\ down \subseteq Pressable
  /\ active_player \in Players \cup {"nil"}
  /\ wielded \subseteq Players
  /\ done \subseteq 0..MaxId

(* The NOP of the controller; the script's own is repeatable at first.     *)
NOP ==
  [id |-> 0, type |-> "CMD_NOP", fresh |-> FALSE, repeatable |-> FALSE]

Init ==
  /\ file = NOP
  /\ ordered = NOP
  /\ mixed = {}
  /\ cmd = [NOP EXCEPT !.repeatable = TRUE]
  /\ finished = FALSE
  /\ type_changed = FALSE
  /\ pc = "fetch"
  /\ after = "fetch"
  /\ task = "CMD_NOP"
  /\ step = 1
  /\ routine = 1
  /\ exception = "none"
  /\ routine_mask_flag = FALSE
  /\ routine_busy_flag = FALSE
  /\ routine_mask_flag_stack = <<>>
  /\ fatal_handler = 0
  /\ frozen = FALSE
  /\ unreleased = {}
  /\ down = {}
  /\ active_player = "nil"
  /\ wielded = {}
  /\ done = {}

-----------------------------------------------------------------------------
(* Control flow.                                                           *)

(* Runtime:sleep() begins with a burst of routines.                        *)
SleepThen(point) ==
  /\ pc' = "routine"
  /\ routine' = 1
  /\ after' = point

NextRoutine ==
  IF routine = AntiShock THEN pc' = "slept" /\ routine' = 1
                         ELSE pc' = "routine" /\ routine' = routine + 1

push_routine_mask_flag ==
  routine_mask_flag_stack' =
    Append(routine_mask_flag_stack, routine_mask_flag)

pop_routine_mask_flag ==
  LET stack == routine_mask_flag_stack
  IN  IF stack = <<>>
      THEN UNCHANGED maskVars
      ELSE /\ routine_mask_flag' = stack[Len(stack)]
           /\ routine_mask_flag_stack' = SubSeq(stack, 1, Len(stack) - 1)

NextFatalHandler ==
  IF fatal_handler = 2 THEN pc' = "dead" /\ UNCHANGED fatal_handler
                       ELSE pc' = "fatal" /\ fatal_handler' = fatal_handler + 1

(* An error leaves a fatal handler (pcall), or the task: StartUp goes on   *)
(* after a change of command, any other error is fatal.                    *)
Unwind(e) ==
  /\ exception' = "none"
  /\ task' = "CMD_NOP"
  /\ step' = 1
  /\ IF fatal_handler # 0 THEN NextFatalHandler
     ELSE IF e = "__ERROR_COMMAND_CHANGED__"
     THEN pc' = "fetch" /\ UNCHANGED fatal_handler
     ELSE pc' = "fatal" /\ fatal_handler' = 1

(* Command:fetch                                                           *)
Fetched == IF cmd.fresh /\ ~finished THEN cmd.type ELSE "CMD_NOP"

-----------------------------------------------------------------------------
(* StartUp and interpret.                                                  *)

FetchTask ==
  /\ pc = "fetch"
  /\ task' = Fetched
  /\ step' = 1
  /\ pc' = "call"
  /\ UNCHANGED <<fileVars, commandVars, after, burstVars, flagVars, deviceVars,
                 playerVars, done>>

(* Command:finish; it marks the command received last, not the one fetched.*)
Finish == ~cmd.repeatable

FinishTask ==
  /\ pc = "call"
  /\ step > Len(Task[task])
  /\ finished' = Finish
  /\ done' = IF task \in OneShot \ {"CMD_NOP"}
             THEN done \cup {cmd.id} ELSE done
  /\ task' = "CMD_NOP"
  /\ step' = 1
  /\ SleepThen("fetch")
  /\ UNCHANGED <<fileVars, cmd, type_changed, exception, fatal_handler,
                 flagVars, deviceVars, playerVars>>

-----------------------------------------------------------------------------
(* The calls of a task.  A frozen device ignores the call, which only      *)
(* sleeps then.                                                            *)

Calls(op) == pc = "call" /\ step <= Len(Task[task]) /\ Task[task][step][1] = op

Argument == Task[task][step][2]

CallSleep ==
  /\ Calls("sleep") \/ Calls("click")
  /\ SleepThen("call")
  /\ step' = step + 1
  /\ UNCHANGED <<fileVars, commandVars, task, exception, fatal_handler,
                 flagVars, deviceVars, playerVars, done>>

MayPress == ~frozen

CallPress ==
  /\ Calls("press")
  /\ IF MayPress
     THEN /\ unreleased' = unreleased \cup {Argument}
          /\ down' = down \cup {Argument}
     ELSE UNCHANGED <<unreleased, down>>
  /\ SleepThen("call")
  /\ step' = step + 1
  /\ UNCHANGED <<fileVars, commandVars, task, exception, fatal_handler,
                 flagVars, frozen, playerVars, done>>

CallRelease ==
  /\ Calls("release")
  /\ IF frozen
     THEN UNCHANGED <<unreleased, down>>
     ELSE /\ unreleased' = unreleased \ {Argument}
          /\ down' = down \ {Argument}
  /\ SleepThen("call")
  /\ step' = step + 1
  /\ UNCHANGED <<fileVars, commandVars, task, exception, fatal_handler,
                 flagVars, frozen, playerVars, done>>

(* click_on moves, sleeps and clicks; the calls that click several times   *)
(* click, sleep and click again (twice stands for the several).  The flag  *)
(* is tested once, before the sleep.                                       *)
CallMany ==
  /\ Calls("clicks") \/ Calls("click_on")
  /\ IF frozen THEN SleepThen("call") /\ step' = step + 1
               ELSE SleepThen("inner") /\ UNCHANGED step
  /\ UNCHANGED <<fileVars, commandVars, task, exception, fatal_handler,
                 flagVars, deviceVars, playerVars, done>>

LaterClick ==
  /\ pc = "inner"
  /\ SleepThen("call")
  /\ step' = step + 1
  /\ UNCHANGED <<fileVars, commandVars, task, exception, fatal_handler,
                 flagVars, deviceVars, playerVars, done>>

CallMask ==
  /\ pc = "call"
  /\ \/ Calls("mask") /\ push_routine_mask_flag /\ routine_mask_flag' = TRUE
     \/ Calls("unmask") /\ pop_routine_mask_flag
  /\ step' = step + 1
  /\ UNCHANGED <<fileVars, commandVars, pc, after, task, burstVars,
                 routine_busy_flag, deviceVars, playerVars, done>>

CallPlayer ==
  /\ pc = "call"
  /\ \/ /\ Calls("activate")
        /\ active_player' = Argument /\ UNCHANGED wielded
     \/ /\ Calls("deactivate")
        /\ active_player' = "nil" /\ UNCHANGED wielded
     \/ /\ Calls("wield")
        /\ wielded' = wielded \cup {Argument} /\ UNCHANGED active_player
     \/ /\ Calls("unwield")
        /\ wielded' = wielded \ {Argument} /\ UNCHANGED active_player
  /\ step' = step + 1
  /\ UNCHANGED <<fileVars, commandVars, pc, after, task, burstVars, flagVars,
                 deviceVars, done>>

CallRaises ==
  /\ pc = "call"
  /\ step <= Len(Task[task])
  /\ "error" \in Disturbances
  /\ Unwind("other")
  /\ UNCHANGED <<fileVars, commandVars, after, routine, flagVars, deviceVars,
                 playerVars, done>>

-----------------------------------------------------------------------------
(* The burst of routines.                                                  *)

Maskable(r) == r # Takeover

BeginRoutine ==
  /\ pc = "routine"
  /\ IF routine_busy_flag
     THEN /\ pc' = "slept" /\ routine' = 1
          /\ UNCHANGED flagVars
     ELSE IF Maskable(routine) /\ routine_mask_flag
     THEN /\ NextRoutine
          /\ UNCHANGED flagVars
     ELSE /\ push_routine_mask_flag
          /\ routine_mask_flag' = TRUE
          /\ routine_busy_flag' = TRUE
          /\ pc' = "handle"
          /\ UNCHANGED routine
  /\ UNCHANGED <<fileVars, commandVars, flowVars, exception, fatal_handler,
                 deviceVars, playerVars, done>>

(* Mutant: an error skips the clean-up of the routine.                     *)
RestoreFlags_Unless(e) ==
  IF e = "none" THEN routine_busy_flag' = FALSE /\ pop_routine_mask_flag
                ELSE UNCHANGED flagVars

(* The flags are restored whether the handler threw or not ...             *)
RestoreFlags(e) == routine_busy_flag' = FALSE /\ pop_routine_mask_flag

(* ... and then its error is thrown on.                                    *)
EndRoutine ==
  /\ pc = "restore"
  /\ RestoreFlags(exception)
  /\ IF exception = "none"
     THEN NextRoutine /\ UNCHANGED <<exception, task, step, fatal_handler>>
     ELSE Unwind(exception) /\ UNCHANGED routine
  /\ UNCHANGED <<fileVars, commandVars, after, deviceVars, playerVars, done>>

Handling(r) == pc = "handle" /\ routine = r

(* Keyboard:reset and Mouse:reset                                          *)
ReleaseAll == unreleased' = {} /\ down' = down \ unreleased

(* A reset that raises an error has released some keys, and forgotten some *)
(* of these.                                                               *)
ResetRaises ==
  /\ "error" \in Disturbances
  /\ exception' = "other"
  /\ \E released \in SUBSET unreleased : \E forgotten \in SUBSET released :
       /\ down' = down \ released
       /\ unreleased' = unreleased \ forgotten

ManualTakeover ==
  /\ Handling(Takeover)
  /\ pc' = "restore"
  /\ \/ UNCHANGED <<deviceVars, exception>>
     \/ /\ "takeover" \in Disturbances
        /\ ReleaseAll /\ frozen' = TRUE /\ UNCHANGED exception
     \/ /\ "takeover" \in Disturbances
        /\ ResetRaises /\ UNCHANGED frozen
     \/ /\ "takeover" \in Disturbances
        /\ frozen' = FALSE /\ UNCHANGED <<unreleased, down, exception>>
  /\ UNCHANGED <<fileVars, commandVars, flowVars, routine, fatal_handler,
                 flagVars, playerVars, done>>

(* Mutant: every successful read makes the command unfinished.             *)
StillFinished_Never == FALSE

(* A new id is a new command.                                              *)
StillFinished == finished /\ file.id = cmd.id

(* Mutant: the players keep what they wielded.                             *)
ResetPlayers_Never == UNCHANGED wielded

ResetPlayers == wielded' = {}

(* Mutant: the change is noted and the task goes on.                       *)
Interrupt_NoThrow == ReleaseAll /\ ResetPlayers /\ UNCHANGED exception

(* Command:receive has reported a change of type: give the task up.        *)
Interrupt ==
  /\ ReleaseAll
  /\ ResetPlayers
  /\ exception' = "__ERROR_COMMAND_CHANGED__"

AfterReceive(changed) ==
  IF changed THEN Interrupt \/ (ResetRaises /\ UNCHANGED wielded)
             ELSE UNCHANGED <<unreleased, down, wielded, exception>>

ReadFile ==
  /\ Handling(ReceiveCommand)
  /\ cmd' = file
  /\ finished' = StillFinished
  /\ type_changed' = (file.type # cmd.type)
  /\ AfterReceive(type_changed')
  /\ pc' = "restore"
  /\ UNCHANGED <<fileVars, flowVars, routine, fatal_handler, flagVars, frozen,
                 active_player, done>>

(* A failed read leaves the command, and the status of the last good read. *)
ReadFails ==
  /\ Handling(ReceiveCommand)
  /\ "read" \in Disturbances
  /\ AfterReceive(type_changed)
  /\ pc' = "restore"
  /\ UNCHANGED <<fileVars, commandVars, flowVars, routine, fatal_handler,
                 flagVars, frozen, active_player, done>>

(* Less than 100 ms after the last read, and the three routines that only  *)
(* click.                                                                  *)
OtherRoutine ==
  /\ pc = "handle" /\ routine # Takeover
  /\ pc' = "restore"
  /\ UNCHANGED <<fileVars, commandVars, flowVars, burstVars, flagVars,
                 deviceVars, playerVars, done>>

(* Any handler may raise an error that is not a change of command.         *)
RoutineRaises ==
  /\ pc = "handle"
  /\ "error" \in Disturbances
  /\ exception' = "other"
  /\ pc' = "restore"
  /\ UNCHANGED <<fileVars, commandVars, flowVars, routine, fatal_handler,
                 flagVars, deviceVars, playerVars, done>>

(* The anti-shock routine presses the key of the weapon in use.            *)
AntiShockClicks ==
  /\ Handling(AntiShock)
  /\ Fetched \in IdleCommands
  /\ active_player \in wielded

-----------------------------------------------------------------------------
(* The end of a sleep, and of the program.                                 *)

SleepOn ==
  /\ pc = "slept"
  /\ SleepThen(after)
  /\ UNCHANGED <<fileVars, commandVars, task, step, exception, fatal_handler,
                 flagVars, deviceVars, playerVars, done>>

(* In a fatal handler what was released before the sleep leaves the table  *)
(* after it.                                                               *)
SleepReturns ==
  /\ pc = "slept"
  /\ pc' = after
  /\ unreleased' = IF after = "fatal" THEN unreleased \cap down ELSE unreleased
  /\ UNCHANGED <<fileVars, commandVars, flowVars, burstVars, flagVars, frozen,
                 down, playerVars, done>>

(* The keyboard's handler is registered first.                             *)
DeviceOf(handler) == IF handler = 1 THEN Keys ELSE Buttons

(* Mutant: the handlers are left out.                                      *)
HeldBy_Nobody(handler) == {}

HeldBy(handler) == unreleased \cap DeviceOf(handler)

FatalRelease ==
  /\ pc = "fatal"
  /\ \E k \in HeldBy(fatal_handler) : down' = down \ {k}
  /\ SleepThen("fatal")
  /\ UNCHANGED <<fileVars, commandVars, task, step, exception, fatal_handler,
                 flagVars, frozen, unreleased, playerVars, done>>

FatalHandlerDone ==
  /\ pc = "fatal"
  /\ HeldBy(fatal_handler) = {}
  /\ NextFatalHandler
  /\ UNCHANGED <<fileVars, commandVars, flowVars, routine, exception, flagVars,
                 deviceVars, playerVars, done>>

Dead == pc = "dead" /\ UNCHANGED vars

-----------------------------------------------------------------------------
(* The controller.                                                         *)

executorVars == <<commandVars, pc, flowVars, burstVars, flagVars, deviceVars,
                  playerVars, done>>

Order(i, t) == [id |-> i, type |-> t, fresh |-> t # "CMD_NOP",
                repeatable |-> t \in Repeatable]

(* Get formats each field as it finds it.                                  *)
Mixtures(old, new) ==
  {[id |-> a.id, type |-> b.type, fresh |-> c.fresh,
    repeatable |-> d.repeatable] : a, b, c, d \in {old, new}}
    \ {old, new}

(* A command is set and written; without a lock between the two threads of *)
(* the controller the file may first mix it with the one before.           *)
Publish(t) ==
  /\ ordered.id < MaxId
  /\ ordered' = Order(ordered.id + 1, t)
  /\ \/ file' = ordered' /\ UNCHANGED mixed
     \/ /\ "torn" \in Disturbances
        /\ Cardinality(mixed) < MaxMixed
        /\ file' \in Mixtures(ordered, ordered')
        /\ mixed' = mixed \cup {ordered.id, ordered'.id}
  /\ UNCHANGED executorVars

PublishRest ==
  /\ file # ordered
  /\ file' = ordered
  /\ UNCHANGED <<ordered, mixed, executorVars>>

(* The controller stops renewing, and renews again.                        *)
Expire ==
  /\ "expire" \in Disturbances
  /\ file.fresh
  /\ file' = [file EXCEPT !.fresh = FALSE]
  /\ ordered' = [ordered EXCEPT !.fresh = FALSE]
  /\ cmd' = [cmd EXCEPT !.fresh = FALSE]
  /\ UNCHANGED <<mixed, finished, type_changed, pc, flowVars, burstVars,
                 flagVars, deviceVars, playerVars, done>>

Renew ==
  /\ ordered.repeatable
  /\ ~ordered.fresh
  /\ ordered' = [ordered EXCEPT !.fresh = TRUE]
  /\ file' = ordered'
  /\ UNCHANGED <<mixed, executorVars>>

-----------------------------------------------------------------------------
Call == CallSleep \/ CallPress \/ CallRelease \/ CallMany \/ LaterClick
        \/ CallMask \/ CallPlayer \/ CallRaises

Burst == BeginRoutine \/ EndRoutine \/ ManualTakeover \/ ReadFile
         \/ ReadFails \/ OtherRoutine \/ RoutineRaises

Fatal == FatalRelease \/ FatalHandlerDone

StartUp == FetchTask \/ FinishTask \/ Call \/ Burst \/ SleepOn
           \/ SleepReturns \/ Fatal

Controller == PublishRest \/ Expire \/ Renew \/ \E t \in Types : Publish(t)

Next == StartUp \/ Controller \/ Dead

Spec == Init /\ [][Next]_vars

(* The script goes on; a sleep ends; the file is read every 100 ms and in  *)
(* the end a read succeeds; a task that is tried for ever does not always  *)
(* raise an error, since an error ends the script.                         *)
FairSpec ==
  Spec /\ WF_vars(StartUp) /\ SF_vars(SleepReturns) /\ SF_vars(ReadFile)

-----------------------------------------------------------------------------
(* Properties.                                                             *)

InTask == pc \in {"call", "inner", "routine", "slept"} /\ task # "CMD_NOP"

(* "When the type of the command changes the running task is stopped at    *)
(* once" (Automation.lua:184-199): between two routines the task under way *)
(* is the one the last received command names, whatever was read when.     *)
TaskIsOfCommand == InTask => task = cmd.type

Purchasing == \E i \in 1..(step - 1) :
                 /\ Task[task][i] = <<"mask">>
                 /\ \A j \in (i + 1)..(step - 1) : Task[task][j] # <<"unmask">>

(* The routine flags survive errors and nested sleeps (Runtime.lua:143-166 *)
(* stores the error to restore them first): outside a routine no routine   *)
(* is marked busy, and they are masked only in Weapon:purchase.            *)
FlagsAreRestored ==
  pc \in {"fetch", "call", "inner", "slept"} /\ fatal_handler = 0 =>
    /\ ~routine_busy_flag
    /\ routine_mask_flag = Purchasing
    /\ Len(routine_mask_flag_stack) = IF Purchasing THEN 1 ELSE 0

(* What the executor holds pressed is in its tables, and it holds nothing  *)
(* when a task begins, while the user has taken over, and when it is dead: *)
(* neither an interrupt nor a takeover nor an error in the middle of a     *)
(* call, or of a reset, leaves a key behind.                               *)
NothingLeftDown ==
  /\ down \subseteq unreleased
  /\ (pc \in {"fetch", "dead"} \/ frozen) => down = {}

(* The anti-shock routine switches weapons only in the middle of an attack *)
(* of the task under way; active_player alone would not tell, since an     *)
(* interrupt leaves it set (Automation.lua:543-545).  (The sleeps of the   *)
(* fatal handlers still run it after an error.)                            *)
AntiShockBelongsToAttack ==
  (AntiShockClicks /\ fatal_handler = 0) =>
    \E i \in 1..(step - 1) :
      /\ Task[task][i] = <<"wield", active_player>>
      /\ \A j \in (i + 1)..(step - 1) : Task[task][j][1] # "unwield"

(* A command that is not repeatable is run at most once to its end, when   *)
(* its file is read again or late (Command.lua:79-82, 116-123): unless a   *)
(* file mixed it with the order before or after it.  One that was mixed    *)
(* may run under both ids, or again while the file calls it repeatable.    *)
OneShotRunsOnce ==
  [][(FetchTask /\ task' \in OneShot \ {"CMD_NOP"} /\ cmd.id \notin mixed)
       => cmd.id \notin done]_vars

(* A repeatable command that stays current and fresh is run.               *)
RepeatableIsRun ==
  \A t \in Types \cap Repeatable :
    (file.type = t /\ file.repeatable /\ file.fresh)
      ~> \/ task = t \/ pc = "dead"
         \/ file.type # t \/ ~file.repeatable \/ ~file.fresh

(* Mouse.lua:187 and Keyboard.lua:362 (the frozen test is at Mouse.lua:    *)
(* 262-276): "when frozen ... the function returns at once and does        *)
(* nothing".                                                               *)
NoClickWhileFrozen == [][LaterClick => ~frozen]_vars
=============================================================================
