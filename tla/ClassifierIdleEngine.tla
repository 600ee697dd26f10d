------------------------ MODULE ClassifierIdleEngine ------------------------
(***************************************************************************)
(* Controller/source/ClassifierIdleEngine.cpp: what one round of the scene *)
(* discriminator does with the label the image classifier returns, and the *)
(* resets that the watcher and the driver's thread make between rounds     *)
(* (IdleEngine shows that they never overlap a round).                     *)
(*                                                                         *)
(* Time is counted in ticks coarse enough to keep the order of the code's  *)
(* thresholds; what the code keeps is a time point, the model its age.     *)
(***************************************************************************)
EXTENDS Naturals

CONSTANTS
  Labels,                       (* what the classifier can return           *)
  ChooseCharacterTime,          (* 7 s                                      *)
  LoginTimeout,                 (* 120 s                                    *)
  LoadingTimeout,               (* 120 s                                    *)
  DefaultIdleTime,              (* 120 + 7 s                                *)
  StartGameRoomTimeout,         (* Global::StartGameRoomTimeout             *)
  MaxInGameTime,                (* Global::MaxInGameTime                    *)
  RestartGameOnLoadingTimeout,  (* Global::RestartGameOnLoadingTimeout      *)
  DefaultIdleAfterReconnection, (* Global::DefaultIdleAfterReconnection     *)
  CaptureErrorLimit,            (* 9 failed captures in a row are endured   *)
  DecodeErrorLimit,             (* and 9 undecodable screenshots in all     *)
  MaxAge,                       (* bound: ages stop growing here            *)
  Disturbances                  (* what the environment may do              *)

Interfaces ==
  {"LOGIN", "LOBBY", "ROOM", "LOADING", "IN_GAME", "RESULTS", "UNKNOWN"}

ASSUME LabelsAssumption == Labels \subseteq Interfaces

ASSUME TimesAssumption ==
  /\ MaxAge \in Nat
  /\ CaptureErrorLimit \in Nat /\ DecodeErrorLimit \in Nat
  /\ ChooseCharacterTime \in Nat /\ DefaultIdleTime \in Nat
  /\ 0 < ChooseCharacterTime /\ ChooseCharacterTime < DefaultIdleTime
  /\ {LoginTimeout, LoadingTimeout, StartGameRoomTimeout}
       \subseteq 0..(MaxAge - 1)
  /\ MaxInGameTime \in 1..MaxAge

ASSUME SwitchesAssumption ==
  /\ RestartGameOnLoadingTimeout \in BOOLEAN
  /\ DefaultIdleAfterReconnection \in BOOLEAN
  /\ Disturbances \subseteq {"capture", "decode", "window", "driver"}

Commands == {"CMD_NOP", "CMD_CREATE_GAME_ROOM", "CMD_START_GAME_ROOM",
             "CMD_WAIT_FOR_LOADING", "CMD_CHOOSE_CHARACTER",
             "CMD_DEFAULT_IDLE_2", "CMD_EXTENDED_IDLE_2",
             "CMD_CONFIRM_RESULTS", "CMD_CLEAR_POPUPS"}
CommandModes == {"CMD_DEFAULT", "CMD_REPEATABLE", "CMD_ZERO_TIMESTAMP"}
IdleModes == {"DEFAULT", "EXTENDED"}

(* From these interfaces the game should not fall back into the room.      *)
Abnormal == {"LOADING", "IN_GAME"}

VARIABLES
  interface_type_,
  age,                   (* of interface_timepoint_                         *)
  command_type_,
  order,                 (* what Command::Set was last called with          *)
  count,                 (* the local `count` of each abnormal return       *)
  current,               (* returns whose last_session_identifier is ours   *)
  capture_error_count,
  decode_error_count,
  panicked,              (* Discriminate() threw: the thread is over        *)
  idle_mode_,
  suspended,             (* by the driver                                   *)
  window,
  entered,               (* history: time since the interface was taken     *)
  failures,              (* history: abnormal returns of the session, to 3  *)
  in_a_row,              (* history: those in a row, to 3                   *)
  told                   (* history: the last look told the game to end     *)

sessionVars == <<count, current>>
errorVars == <<capture_error_count, decode_error_count, panicked>>
historyVars == <<failures, in_a_row>>
ownerVars == <<idle_mode_, suspended>>
stateVars == <<interface_type_, age, entered>>
vars == <<stateVars, command_type_, order, sessionVars, errorVars, ownerVars,
          window, historyVars, told>>

TypeOK ==
  /\ interface_type_ \in Interfaces
  /\ age \in 0..MaxAge
  /\ command_type_ \in Commands
  /\ order \in Commands \X CommandModes
  /\ count \in [Abnormal -> 0..2]
  /\ current \subseteq Abnormal
  /\ capture_error_count \in 0..CaptureErrorLimit
  /\ decode_error_count \in 0..DecodeErrorLimit
  /\ panicked \in BOOLEAN
  /\ idle_mode_ \in IdleModes
  /\ suspended \in BOOLEAN
  /\ window \in {"gone", "iconic", "background", "foreground"}
  /\ entered \in 0..MaxAge
  /\ failures \in [Abnormal -> 0..3]
  /\ in_a_row \in [Abnormal -> 0..3]
  /\ told \in BOOLEAN

(* interface_timepoint_ starts at the epoch of the clock.                  *)
Init ==
  /\ interface_type_ = "UNKNOWN"
  /\ age = MaxAge
  /\ command_type_ = "CMD_NOP"
  /\ order = <<"CMD_NOP", "CMD_ZERO_TIMESTAMP">>
  /\ count = [a \in Abnormal |-> 0]
  /\ current = Abnormal
  /\ capture_error_count = 0
  /\ decode_error_count = 0
  /\ panicked = FALSE
  /\ idle_mode_ \in IdleModes
  /\ suspended = TRUE
  /\ window = "foreground"
  /\ entered = 0
  /\ failures = [a \in Abnormal |-> 0]
  /\ in_a_row = [a \in Abnormal |-> 0]
  /\ told = FALSE

Capped(n, bound) == IF n < bound THEN n ELSE bound

-----------------------------------------------------------------------------
(* One round of Discriminate().                                            *)

InRound == ~panicked /\ ~suspended

(* The label is UNKNOWN but the old interface is kept: the third disjunct  *)
(* of the test names the label, which is not LOBBY here.                   *)
Kept == {"IN_GAME", "LOGIN"}

Seen(label) ==
  IF label = "UNKNOWN" /\ interface_type_ \in Kept THEN interface_type_
                                                   ELSE label

(* LOGIN is reached by a reset only.                                       *)
Unexpected(seen) == seen = "LOGIN" /\ interface_type_ # "LOGIN"

LoginIsOverdue(seen) ==
  interface_type_ = "LOGIN" /\ seen = "LOGIN" /\ age > LoginTimeout

LoadingIsOverdue(seen) ==
  interface_type_ = "LOADING" /\ seen = "LOADING" /\ age > LoadingTimeout

GameIsOverdue(seen) ==
  /\ interface_type_ = "IN_GAME" /\ seen = "IN_GAME"
  /\ age >= MaxInGameTime /\ age >= DefaultIdleTime

EndsGame(seen) ==
  \/ GameIsOverdue(seen)
  \/ RestartGameOnLoadingTimeout /\ LoadingIsOverdue(seen)

(* Mutant: any way into the room starts a session.                         *)
NewSession_Always(seen) == seen = "ROOM"

(* session_identifier++                                                    *)
NewSession(seen) ==
  seen = "ROOM" /\ interface_type_ \in {"LOGIN", "LOBBY", "RESULTS", "UNKNOWN"}

AbnormalReturn(seen) == seen = "ROOM" /\ interface_type_ \in Abnormal

CountNow(a) == IF a \in current THEN count[a] ELSE 0

TooManyReturns(a) == CountNow(a) + 1 = 3

(* Mutant: the phases of a game are not kept apart by mode.                *)
InGameCommand_AnyMode ==
  IF age < ChooseCharacterTime THEN "CMD_CHOOSE_CHARACTER"
  ELSE "CMD_EXTENDED_IDLE_2"

InGameCommand ==
  IF age < ChooseCharacterTime THEN "CMD_CHOOSE_CHARACTER"
  ELSE IF age < DefaultIdleTime THEN "CMD_DEFAULT_IDLE_2"
  ELSE IF age < MaxInGameTime
  THEN IF idle_mode_ = "EXTENDED" THEN "CMD_EXTENDED_IDLE_2"
                                  ELSE "CMD_DEFAULT_IDLE_2"
  ELSE command_type_

RoomCommand ==
  IF \/ interface_type_ = "ROOM" /\ age > StartGameRoomTimeout
     \/ interface_type_ \in Abnormal /\ TooManyReturns(interface_type_)
  THEN "CMD_CREATE_GAME_ROOM"
  ELSE "CMD_START_GAME_ROOM"

(* The command each transition of the state machine asks for.              *)
CommandFor(seen) ==
  CASE seen = "LOGIN" -> "CMD_NOP"
    [] seen = "LOBBY" -> "CMD_CREATE_GAME_ROOM"
    [] seen = "ROOM" -> RoomCommand
    [] seen = "LOADING" -> "CMD_WAIT_FOR_LOADING"
    [] seen = "RESULTS" -> "CMD_CONFIRM_RESULTS"
    [] seen = "UNKNOWN" -> "CMD_CLEAR_POPUPS"
    [] seen = "IN_GAME" ->
         IF interface_type_ = "IN_GAME" THEN InGameCommand
         ELSE IF interface_type_ \in {"ROOM", "LOADING", "UNKNOWN"}
         THEN "CMD_CHOOSE_CHARACTER"
         ELSE "CMD_DEFAULT_IDLE_2"

(* The dispatch at the end of the round.                                   *)
ModeOf(command) ==
  CASE command = "CMD_NOP" -> "CMD_ZERO_TIMESTAMP"
    [] command \in {"CMD_CONFIRM_RESULTS", "CMD_CREATE_GAME_ROOM",
                    "CMD_CLEAR_POPUPS"} -> "CMD_DEFAULT"
    [] OTHER -> "CMD_REPEATABLE"

(* Mutant: the time point is renewed in every round.                       *)
MoveTo_RenewTimer(next) ==
  /\ interface_type_' = next
  /\ age' = 0
  /\ entered' = IF next = interface_type_ THEN entered ELSE 0

(* Mutant: the time point is left as it was.                               *)
MoveTo_KeepTimer(next) ==
  /\ interface_type_' = next
  /\ age' = age
  /\ entered' = IF next = interface_type_ THEN entered ELSE 0

(* A change of interface, and only a change, renews the time point.        *)
MoveTo(next) ==
  /\ interface_type_' = next
  /\ IF next = interface_type_ THEN UNCHANGED <<age, entered>>
                               ELSE age' = 0 /\ entered' = 0

(* The count of a session that is over is not read again.                  *)
CountReturns(seen) ==
  IF NewSession(seen) THEN current' = {} /\ count' = [a \in Abnormal |-> 0]
  ELSE IF AbnormalReturn(seen)
  THEN LET a == interface_type_
       IN  /\ count' = [count EXCEPT ![a] =
                           IF TooManyReturns(a) THEN CountNow(a)
                                                ELSE CountNow(a) + 1]
           /\ current' = current \cup {a}
  ELSE UNCHANGED sessionVars

(* The history, in the words of the comments.  A session begins where the  *)
(* room is entered from LOGIN, LOBBY or RESULTS; returns are in a row while *)
(* nothing but the interface left and the room is seen.                    *)
RecordReturns(seen) ==
  failures' =
    IF seen = "ROOM" /\ interface_type_ \in {"LOGIN", "LOBBY", "RESULTS"}
    THEN [a \in Abnormal |-> 0]
    ELSE IF AbnormalReturn(seen)
    THEN [failures EXCEPT ![interface_type_] = Capped(@ + 1, 3)]
    ELSE failures

RecordRow(next) ==
  in_a_row' =
    [a \in Abnormal |->
       IF next \notin {a, "ROOM"} THEN 0
       ELSE IF next = "ROOM" /\ interface_type_ = a
       THEN Capped(in_a_row[a] + 1, 3)
       ELSE in_a_row[a]]

(* An exception ends the thread, and its thread_local counts with it.      *)
ThreadEnds ==
  /\ panicked' = TRUE
  /\ capture_error_count' = 0
  /\ decode_error_count' = 0
  /\ count' = [a \in Abnormal |-> 0]
  /\ current' = Abnormal
  /\ failures' = [a \in Abnormal |-> 0]
  /\ in_a_row' = [a \in Abnormal |-> 0]

(* A game told to end may ignore it: its handle was opened without the     *)
(* right to terminate the process.                                         *)
Discriminate(label) ==
  /\ InRound
  /\ window = "foreground"
  /\ UNCHANGED ownerVars
  /\ LET seen == Seen(label)
     IN  IF Unexpected(seen)
         THEN /\ ThreadEnds
              /\ told' = FALSE
              /\ UNCHANGED <<stateVars, command_type_, order, window>>
         ELSE /\ command_type_' = CommandFor(seen)
              /\ order' = <<command_type_', ModeOf(command_type_')>>
              /\ MoveTo(IF LoginIsOverdue(seen) THEN "UNKNOWN" ELSE seen)
              /\ CountReturns(seen)
              /\ RecordReturns(seen)
              /\ RecordRow(interface_type_')
              /\ told' = EndsGame(seen)
              /\ window' \in IF told' THEN {"gone", window} ELSE {window}
              /\ capture_error_count' = 0
              /\ UNCHANGED <<decode_error_count, panicked>>

(* The screenshot fails; the count of such failures in a row is kept.      *)
CaptureFails ==
  /\ InRound
  /\ window = "foreground"
  /\ "capture" \in Disturbances
  /\ IF capture_error_count < CaptureErrorLimit
     THEN /\ capture_error_count' = capture_error_count + 1
          /\ UNCHANGED <<decode_error_count, panicked, sessionVars,
                         historyVars>>
     ELSE ThreadEnds
  /\ UNCHANGED <<stateVars, command_type_, order, ownerVars, window, told>>

(* The screenshot cannot be decoded; this count is never set back.         *)
DecodeFails ==
  /\ InRound
  /\ window = "foreground"
  /\ "decode" \in Disturbances
  /\ IF decode_error_count < DecodeErrorLimit
     THEN /\ decode_error_count' = decode_error_count + 1
          /\ capture_error_count' = 0
          /\ UNCHANGED <<panicked, sessionVars, historyVars>>
     ELSE ThreadEnds
  /\ UNCHANGED <<stateVars, command_type_, order, ownerVars, window, told>>

(* The window is restored, or raised, and looked at in the next round; a   *)
(* round without a window does nothing at all.                             *)
RestoreWindow ==
  /\ InRound
  /\ window \in {"iconic", "background"}
  /\ window' \in {"background", "foreground"}
  /\ UNCHANGED <<stateVars, command_type_, order, sessionVars, errorVars,
                 ownerVars, historyVars, told>>

-----------------------------------------------------------------------------
(* Between rounds.                                                         *)

(* ResetAfterSwitchMode and ResetAfterReconnection store the interface and *)
(* leave interface_timepoint_ alone.                                       *)
Reset(type) ==
  /\ interface_type_' = type
  /\ entered' = 0
  /\ RecordRow(type)

(* The watcher has found the game it launched again.                       *)
Reconnect ==
  /\ ~suspended
  /\ window = "gone"
  /\ window' = "foreground"
  /\ Reset("LOGIN")
  /\ idle_mode_' = IF DefaultIdleAfterReconnection THEN "DEFAULT"
                                                   ELSE idle_mode_
  /\ UNCHANGED <<age, command_type_, order, sessionVars, errorVars,
                 suspended, failures, told>>

(* The driver leaves an idle mode: Suspend(), Set(NOP), reset ...          *)
DisableIdleMode ==
  /\ ~suspended
  /\ "driver" \in Disturbances
  /\ suspended' = TRUE
  /\ order' = <<"CMD_NOP", "CMD_ZERO_TIMESTAMP">>
  /\ Reset("UNKNOWN")
  /\ UNCHANGED <<age, command_type_, sessionVars, errorVars, idle_mode_,
                 window, failures, told>>

(* ... and enters one.                                                     *)
EnableIdleMode(mode) ==
  /\ suspended
  /\ suspended' = FALSE
  /\ idle_mode_' = mode
  /\ UNCHANGED <<stateVars, command_type_, order, sessionVars, errorVars,
                 window, historyVars, told>>

-----------------------------------------------------------------------------
(* The environment.                                                        *)

Tick ==
  /\ age < MaxAge \/ entered < MaxAge
  /\ age' = Capped(age + 1, MaxAge)
  /\ entered' = Capped(entered + 1, MaxAge)
  /\ UNCHANGED <<interface_type_, command_type_, order, sessionVars,
                 errorVars, ownerVars, window, historyVars, told>>

(* The game exits, or the user minimizes or covers its window.             *)
WindowChanges ==
  /\ "window" \in Disturbances
  /\ window = "foreground"
  /\ window' \in {"gone", "iconic", "background"}
  /\ UNCHANGED <<stateVars, command_type_, order, sessionVars, errorVars,
                 ownerVars, historyVars, told>>

Look == \E label \in Labels : Discriminate(label)

Round ==
  \/ Look
  \/ CaptureFails
  \/ DecodeFails
  \/ RestoreWindow

Next ==
  \/ Round
  \/ Reconnect
  \/ DisableIdleMode
  \/ \E mode \in IdleModes : EnableIdleMode(mode)
  \/ Tick
  \/ WindowChanges

Spec == Init /\ [][Next]_vars

(* The discriminator runs a round every 3.5 s and the clock goes on.       *)
FairSpec == Spec /\ WF_vars(Round) /\ WF_vars(Tick)
-----------------------------------------------------------------------------
(* Properties.                                                             *)

(* Outside the two interfaces the resets store, interface_timepoint_ tells *)
(* when the present interface was taken (ClassifierIdleEngine.cpp:474-478).*)
TimerIsOfThisInterface ==
  interface_type_ \notin {"LOGIN", "UNKNOWN"} => age = entered

(* The discriminator tells a game to end only after it has really been     *)
(* loading, or playing, for longer than the limit (cpp:275-289 and         *)
(* 368-381): a time point left from before a reset or from another         *)
(* interface never counts.                                                 *)
EndsOnlyOverdueGames ==
  [][(Look /\ told') =>
       \/ /\ interface_type_ = "IN_GAME"
          /\ entered >= MaxInGameTime /\ entered >= DefaultIdleTime
       \/ /\ interface_type_ = "LOADING"
          /\ RestartGameOnLoadingTimeout /\ entered > LoadingTimeout]_vars

(* Extended idling is ordered only in the extended mode and only after the *)
(* game was seen for the whole default phase (cpp:351-381), whatever the   *)
(* driver and the watcher did to mode and state machine in between.        *)
ExtendedOnlyByChoice ==
  [][(Look /\ ~panicked' /\ order'[1] = "CMD_EXTENDED_IDLE_2") =>
       /\ idle_mode_ = "EXTENDED"
       /\ interface_type_ = "IN_GAME"
       /\ entered >= DefaultIdleTime]_vars

(* Three failed loads (or falls out of the game) in a row make the engine  *)
(* leave the room, as the comment at 259 asks, and no failure before the   *)
(* third of a session does, counted from the last LOGIN, LOBBY or RESULTS  *)
(* as 96-97 say (248-270 and 325-346).  In between the code has its own    *)
(* way: failures of a session count that are not in a row, and a misjudged *)
(* screenshot (450) begins the count anew.                                 *)
FailuresLeaveRoom ==
  [][\A a \in Abnormal :
       (interface_type_ = a /\ interface_type_' = "ROOM") =>
         /\ in_a_row'[a] = 3 => order'[1] = "CMD_CREATE_GAME_ROOM"
         /\ order'[1] = "CMD_CREATE_GAME_ROOM" => failures'[a] = 3]_vars

(* With RestartGameOnLoadingTimeout on, a game that hangs while it loads   *)
(* is told to end (cpp:271-291), or seen to go on, unless the user takes   *)
(* the window away, the engine is suspended or its thread is over.  The    *)
(* setting is off in Global.cpp:26 and on in Controller.ps1:18 and         *)
(* Settings.json:14; where it is off a hung load is only warned of.        *)
HungLoadIsEnded ==
  RestartGameOnLoadingTimeout =>
    ((interface_type_ = "LOADING")
       ~> \/ interface_type_ # "LOADING" \/ told
          \/ window # "foreground" \/ suspended \/ panicked)

(* A room that does not start is given up (cpp:199-209), with the same     *)
(* exceptions.                                                             *)
StaleRoomIsLeft ==
  (interface_type_ = "ROOM")
    ~> \/ interface_type_ # "ROOM" \/ order[1] = "CMD_CREATE_GAME_ROOM"
       \/ window # "foreground" \/ suspended \/ panicked

=============================================================================
