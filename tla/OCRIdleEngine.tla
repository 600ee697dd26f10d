---------------------------- MODULE OCRIdleEngine ----------------------------
(***************************************************************************)
(* Controller/source/OCRIdleEngine.cpp: the idle engine that reads the     *)
(* game's screen as text.  A round recognizes the screen, analyzes the     *)
(* text and dispatches a command; time passes, and the game may exit,      *)
(* between these three steps.  The watcher and the driver's thread reset   *)
(* the state machine between rounds (IdleEngine shows that no reset        *)
(* overlaps a round).  Time is counted in ticks that keep the order of the *)
(* thresholds; for the time point the code keeps the model has its age.    *)
(***************************************************************************)
EXTENDS Naturals

CONSTANTS
  ChooseCharacterTime,          (* 7 s                                      *)
  ExtendedIdleDelay,            (* 60 s                                     *)
  StartGameRoomTimeout,         (* Global::StartGameRoomTimeout             *)
  LoginTimeout,                 (* Global::LoginTimeout                     *)
  LoadMapTimeout,               (* Global::LoadMapTimeout                   *)
  CaptureErrorLimit,            (* 9 failed captures in a row are endured   *)
  DecodeErrorLimit,             (* and 9 undecodable screenshots in all     *)
  MaxScore,                     (* bound: keywords found of one category    *)
  MaxAge,                       (* bound: ages stop growing here            *)
  Disturbances                  (* what the environment may do              *)

ASSUME TimesAssumption ==
  /\ MaxAge \in Nat /\ MaxScore \in Nat
  /\ CaptureErrorLimit \in Nat /\ DecodeErrorLimit \in Nat
  /\ {ChooseCharacterTime, ExtendedIdleDelay, StartGameRoomTimeout,
      LoginTimeout, LoadMapTimeout} \subseteq 0..(MaxAge - 1)

ASSUME DisturbancesAssumption ==
  Disturbances \subseteq {"capture", "decode", "exit", "driver"}

(* The categories of keywords, in the order of the array of scores.        *)
Scenarios == {"LOBBY", "ROOM", "LOADING", "IN_GAME"}
Interfaces == Scenarios \cup {"LOGIN", "UNKNOWN"}
NoText == "no text"
Commands == {"CMD_NOP", "CMD_CREATE_GAME_ROOM", "CMD_START_GAME_ROOM",
             "CMD_CHOOSE_CHARACTER", "CMD_DEFAULT_IDLE", "CMD_EXTENDED_IDLE",
             "CMD_CLEAR_POPUPS"}
CommandModes == {"CMD_DEFAULT", "CMD_REPEATABLE", "CMD_ZERO_TIMESTAMP"}
IdleModes == {"DEFAULT", "EXTENDED"}
Switches == {"RestartGameOnLoadingTimeout", "DefaultIdleAfterReconnection"}

VARIABLES
  pc,                    (* where the round is                              *)
  game_interface_type_,
  age,                   (* of timepoint_                                   *)
  order,                 (* what Command::Set was last called with          *)
  verdict,               (* the round's: what the text says, or NoText      *)
  started,               (* the round's: age at recognize_start             *)
  Global,                (* the settings, read once when the program starts *)
  capture_error_count,
  decode_error_count,
  panicked,              (* Discriminate() threw: the thread is over        *)
  idle_mode_,
  suspended,             (* by the driver                                   *)
  window,                (* the game's window exists                        *)
  entered,               (* history: time since the interface was taken     *)
  told                   (* history: the last analysis told the game to end *)

stateVars == <<game_interface_type_, age, entered>>
roundVars == <<verdict, started>>
errorVars == <<capture_error_count, decode_error_count, panicked>>
ownerVars == <<idle_mode_, suspended, Global>>
vars == <<pc, stateVars, order, roundVars, errorVars, ownerVars, window, told>>

TypeOK ==
  /\ pc \in {"Idle", "Recognized", "Analyzed"}
  /\ game_interface_type_ \in Interfaces
  /\ age \in 0..MaxAge
  /\ order \in Commands \X CommandModes
  /\ verdict \in (Interfaces \ {"LOGIN"}) \cup {NoText}
  /\ started \in 0..MaxAge
  /\ capture_error_count \in 0..(CaptureErrorLimit + 1)
  /\ decode_error_count \in 0..(DecodeErrorLimit + 1)
  /\ panicked \in BOOLEAN
  /\ idle_mode_ \in IdleModes
  /\ suspended \in BOOLEAN
  /\ Global \in SUBSET Switches
  /\ window \in BOOLEAN
  /\ entered \in 0..MaxAge
  /\ told \in BOOLEAN

(* timepoint_ starts at the epoch of the clock.                            *)
Init ==
  /\ pc = "Idle"
  /\ game_interface_type_ = "UNKNOWN"
  /\ age = MaxAge
  /\ order = <<"CMD_NOP", "CMD_ZERO_TIMESTAMP">>
  /\ verdict = NoText
  /\ started = 0
  /\ capture_error_count = 0
  /\ decode_error_count = 0
  /\ panicked = FALSE
  /\ idle_mode_ \in IdleModes
  /\ suspended = TRUE
  /\ Global \in SUBSET Switches
  /\ window = TRUE
  /\ entered = 0
  /\ told = FALSE

Capped(n, bound) == IF n < bound THEN n ELSE bound

-----------------------------------------------------------------------------
(* Recognize().                                                            *)

(* The scenario of the highest score; a tie goes to the game, otherwise to *)
(* the first of the array.                                                 *)
AnalyzedInGameState(scores) ==
  LET top == {s \in Scenarios : \A t \in Scenarios : scores[t] <= scores[s]}
  IN  IF \A s \in Scenarios : scores[s] = 0 THEN "UNKNOWN"
      ELSE IF "IN_GAME" \in top THEN "IN_GAME"
      ELSE IF "LOBBY" \in top THEN "LOBBY"
      ELSE IF "ROOM" \in top THEN "ROOM"
      ELSE "LOADING"

BeginRound ==
  /\ pc = "Idle" /\ ~panicked /\ ~suspended
  /\ started' = age
  /\ pc' = "Recognized"
  /\ UNCHANGED <<stateVars, order, ownerVars, window, told>>

(* The screenshot is taken, decoded and read.                              *)
RecognizeText ==
  /\ BeginRound
  /\ window
  /\ \E scores \in [Scenarios -> 0..MaxScore] :
       verdict' = AnalyzedInGameState(scores)
  /\ capture_error_count' = 0
  /\ UNCHANGED <<decode_error_count, panicked>>

(* The screen has no text, or there is no window to look at.               *)
RecognizeNothing ==
  /\ BeginRound
  /\ verdict' = NoText
  /\ capture_error_count' = IF window THEN 0 ELSE capture_error_count
  /\ UNCHANGED <<decode_error_count, panicked>>

(* An endured error leaves the results empty, one too many throws.         *)
RecognizeFails(count, limit) ==
  /\ window
  /\ IF count + 1 > limit
     THEN /\ pc = "Idle" /\ ~panicked /\ ~suspended
          /\ panicked' = TRUE
          /\ UNCHANGED <<pc, stateVars, order, roundVars, ownerVars, window,
                         told>>
     ELSE /\ BeginRound
          /\ verdict' = NoText
          /\ UNCHANGED panicked

CaptureFails ==
  /\ "capture" \in Disturbances
  /\ RecognizeFails(capture_error_count, CaptureErrorLimit)
  /\ capture_error_count' = capture_error_count + 1
  /\ UNCHANGED decode_error_count

(* This count is never set back.                                           *)
DecodeFails ==
  /\ "decode" \in Disturbances
  /\ RecognizeFails(decode_error_count, DecodeErrorLimit)
  /\ decode_error_count' = decode_error_count + 1
  /\ capture_error_count' = 0

Recognize ==
  RecognizeText \/ RecognizeNothing \/ CaptureFails \/ DecodeFails

-----------------------------------------------------------------------------
(* Analyze().                                                              *)

(* The state machine: every transition is taken as it is seen but one,     *)
(* from a game that runs or loads to a screen that says nothing.  The test *)
(* for two known interfaces comes before the three illegal transitions and *)
(* leaves them nothing (lines 183-224).                                    *)
Transition ==
  IF verdict = "UNKNOWN" /\ game_interface_type_ \in {"IN_GAME", "LOADING"}
  THEN game_interface_type_
  ELSE verdict

(* The timeouts look at the interface before the transition.               *)
Overdue(type, limit) == game_interface_type_ = type /\ started > limit

EndsGame ==
  /\ Overdue("LOADING", LoadMapTimeout)
  /\ "RestartGameOnLoadingTimeout" \in Global

NextInterface ==
  IF Overdue("ROOM", StartGameRoomTimeout) THEN "LOBBY"
  ELSE IF Overdue("LOGIN", LoginTimeout) THEN "UNKNOWN"
  ELSE IF Overdue("LOADING", LoadMapTimeout)
  THEN IF "RestartGameOnLoadingTimeout" \in Global THEN "UNKNOWN"
       ELSE "IN_GAME"
  ELSE Transition

(* Mutant: the time point is left as it was.                               *)
SetInGameState_KeepTimer(next) ==
  /\ game_interface_type_' = next
  /\ age' = age
  /\ entered' = IF next = game_interface_type_ THEN entered ELSE 0

(* Mutant: the time point is renewed in every round.                       *)
SetInGameState_RenewTimer(next) ==
  /\ game_interface_type_' = next
  /\ age' = 0
  /\ entered' = IF next = game_interface_type_ THEN entered ELSE 0

(* A change of interface, and only a change, renews timepoint_.            *)
SetInGameState(next) ==
  /\ game_interface_type_' = next
  /\ IF next = game_interface_type_ THEN UNCHANGED <<age, entered>>
                                    ELSE age' = 0 /\ entered' = 0

(* No text: the round keeps the interface and looks at no timeout.         *)
AnalyzeNothing ==
  /\ pc = "Recognized"
  /\ verdict = NoText
  /\ pc' = "Analyzed"
  /\ told' = FALSE
  /\ UNCHANGED <<stateVars, order, roundVars, errorVars, ownerVars, window>>

(* A game told to end may ignore it: the handle has no right to terminate  *)
(* the process.  A window that is gone is told nothing.                    *)
AnalyzeText ==
  /\ pc = "Recognized"
  /\ verdict # NoText
  /\ pc' = "Analyzed"
  /\ SetInGameState(NextInterface)
  /\ told' = (EndsGame /\ window)
  /\ IF told' THEN window' \in BOOLEAN ELSE UNCHANGED window
  /\ UNCHANGED <<order, roundVars, errorVars, ownerVars>>

-----------------------------------------------------------------------------
(* Dispatch(), also after a round that saw nothing.                        *)

(* Mutant: the mode is not asked for.                                      *)
InGameCommand_AnyMode ==
  IF age > ExtendedIdleDelay THEN "CMD_EXTENDED_IDLE"
  ELSE IF age > ChooseCharacterTime THEN "CMD_DEFAULT_IDLE"
  ELSE "CMD_CHOOSE_CHARACTER"

InGameCommand ==
  IF age > ExtendedIdleDelay /\ idle_mode_ = "EXTENDED"
  THEN "CMD_EXTENDED_IDLE"
  ELSE IF age > ChooseCharacterTime THEN "CMD_DEFAULT_IDLE"
  ELSE "CMD_CHOOSE_CHARACTER"

CommandFor(type) ==
  CASE type = "UNKNOWN" -> "CMD_CLEAR_POPUPS"
    [] type \in {"LOGIN", "LOADING"} -> "CMD_NOP"
    [] type = "LOBBY" -> "CMD_CREATE_GAME_ROOM"
    [] type = "ROOM" -> "CMD_START_GAME_ROOM"
    [] type = "IN_GAME" -> InGameCommand

ModeOf(command) ==
  CASE command = "CMD_NOP" -> "CMD_ZERO_TIMESTAMP"
    [] command \in {"CMD_CREATE_GAME_ROOM", "CMD_CLEAR_POPUPS"}
         -> "CMD_DEFAULT"
    [] OTHER -> "CMD_REPEATABLE"

Dispatch ==
  /\ pc = "Analyzed"
  /\ pc' = "Idle"
  /\ LET command == CommandFor(game_interface_type_)
     IN  order' = <<command, ModeOf(command)>>
  /\ UNCHANGED <<stateVars, roundVars, errorVars, ownerVars, window, told>>

-----------------------------------------------------------------------------
(* Between rounds.                                                         *)

(* The resets store the interface and leave timepoint_ alone.              *)
Reset(type) ==
  /\ game_interface_type_' = type
  /\ entered' = 0

(* The watcher has found the game it launched again.                       *)
Reconnect ==
  /\ pc = "Idle" /\ ~suspended
  /\ ~window
  /\ window' = TRUE
  /\ Reset("LOGIN")
  /\ idle_mode_' = IF "DefaultIdleAfterReconnection" \in Global
                   THEN "DEFAULT" ELSE idle_mode_
  /\ UNCHANGED <<pc, age, order, roundVars, errorVars, suspended, Global,
                 told>>

(* The driver leaves an idle mode: Suspend(), Set(NOP), reset ...          *)
DisableIdleMode ==
  /\ "driver" \in Disturbances
  /\ pc = "Idle" /\ ~suspended
  /\ suspended' = TRUE
  /\ order' = <<"CMD_NOP", "CMD_ZERO_TIMESTAMP">>
  /\ Reset("UNKNOWN")
  /\ UNCHANGED <<pc, age, roundVars, errorVars, idle_mode_, Global, window,
                 told>>

(* ... and enters one.                                                     *)
EnableIdleMode(mode) ==
  /\ suspended
  /\ suspended' = FALSE
  /\ idle_mode_' = mode
  /\ UNCHANGED <<pc, stateVars, order, roundVars, errorVars, Global, window,
                 told>>

-----------------------------------------------------------------------------
(* The environment.                                                        *)

Tick ==
  /\ age < MaxAge \/ entered < MaxAge
  /\ age' = Capped(age + 1, MaxAge)
  /\ entered' = Capped(entered + 1, MaxAge)
  /\ UNCHANGED <<pc, game_interface_type_, order, roundVars, errorVars,
                 ownerVars, window, told>>

GameExits ==
  /\ "exit" \in Disturbances
  /\ window
  /\ window' = FALSE
  /\ UNCHANGED <<pc, stateVars, order, roundVars, errorVars, ownerVars, told>>

Discriminate == Recognize \/ AnalyzeNothing \/ AnalyzeText \/ Dispatch

Next ==
  \/ Discriminate
  \/ Reconnect
  \/ DisableIdleMode
  \/ \E mode \in IdleModes : EnableIdleMode(mode)
  \/ Tick
  \/ GameExits

Spec == Init /\ [][Next]_vars

(* The discriminator runs a round every 3.5 s and the clock goes on.       *)
FairSpec == Spec /\ WF_vars(Discriminate) /\ WF_vars(Tick)

-----------------------------------------------------------------------------
(* Properties.                                                             *)

(* Outside the two interfaces the resets store, timepoint_ tells when the  *)
(* present interface was taken (OCRIdleEngine.hpp:47-53), whatever timeout *)
(* or verdict brought it about.                                            *)
TimerIsOfThisInterface ==
  game_interface_type_ \notin {"LOGIN", "UNKNOWN"} => age = entered

(* A game is told to end only if it has been loading for longer than the   *)
(* limit and the settings want it (cpp:260-283): not on a time measured    *)
(* before a reset, nor for a load that began while the screen was read.    *)
EndsOnlyOverdueLoads ==
  [][(AnalyzeText /\ told') =>
       /\ "RestartGameOnLoadingTimeout" \in Global
       /\ game_interface_type_ = "LOADING"
       /\ entered > LoadMapTimeout]_vars

(* Extended idling is ordered only in the extended mode and only when the  *)
(* game has been taken to run for the delay (cpp:319-329), whatever        *)
(* reconnections and mode switches came in between.                        *)
ExtendedOnlyByChoice ==
  [][(Dispatch /\ order'[1] = "CMD_EXTENDED_IDLE") =>
       /\ idle_mode_ = "EXTENDED"
       /\ game_interface_type_ = "IN_GAME"
       /\ entered > ExtendedIdleDelay]_vars

(* A room that does not start, a load that does not end and a login that   *)
(* does not succeed are left (cpp:246-289), unless the engine is suspended *)
(* or its thread over - and as long as the screens have any text at all: a *)
(* loading screen without text is never timed (cpp:68-71).                 *)
StaleInterfaceIsLeft ==
  []<><<AnalyzeText>>_vars =>
    \A i \in {"ROOM", "LOADING", "LOGIN"} :
      (game_interface_type_ = i)
        ~> (game_interface_type_ # i \/ suspended \/ panicked)

=============================================================================
