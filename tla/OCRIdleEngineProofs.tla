------------------------- MODULE OCRIdleEngineProofs -------------------------
(***************************************************************************)
(* Proofs about the OCR idle engine, for every value of the timeouts,      *)
(* limits and bounds and whatever the environment does.                    *)
(***************************************************************************)
EXTENDS OCRIdleEngine, TLAPS

(* The scores decide for a scenario or for none.                           *)
LEMMA AnalysisIsTyped ==
  ASSUME NEW scores
  PROVE  AnalyzedInGameState(scores) \in Interfaces \ {"LOGIN"}
  BY DEF AnalyzedInGameState, Interfaces, Scenarios

(* Neither a timeout nor the transition leaves the interfaces.             *)
LEMMA NextInterfaceIsTyped ==
  ASSUME TypeOK, verdict # NoText PROVE NextInterface \in Interfaces
<1>1. Transition \in Interfaces
  BY DEF TypeOK, Transition, Interfaces, Scenarios
<1> QED
  BY <1>1 DEF NextInterface, Interfaces, Scenarios

LEMMA CommandIsTyped ==
  ASSUME TypeOK
  PROVE  <<CommandFor(game_interface_type_),
           ModeOf(CommandFor(game_interface_type_))>>
           \in Commands \X CommandModes
<1>1. CommandFor(game_interface_type_) \in Commands
  BY DEF TypeOK, CommandFor, InGameCommand, Interfaces, Scenarios, Commands
<1>2. ModeOf(CommandFor(game_interface_type_)) \in CommandModes
  BY DEF ModeOf, CommandModes
<1> QED
  BY <1>1, <1>2

LEMMA CappedIsTyped ==
  ASSUME NEW n \in 0..MaxAge PROVE Capped(n + 1, MaxAge) \in 0..MaxAge
  BY TimesAssumption DEF Capped

(* A thread that goes on has endured no more errors than the limits allow; *)
(* without this TypeOK would not be inductive.                             *)
Endured ==
  ~panicked => /\ capture_error_count <= CaptureErrorLimit
               /\ decode_error_count <= DecodeErrorLimit

LEMMA TypeInit == Init => TypeOK /\ Endured
<1> SUFFICES ASSUME Init PROVE TypeOK /\ Endured
  OBVIOUS
<1>1. /\ age \in 0..MaxAge /\ started \in 0..MaxAge /\ entered \in 0..MaxAge
      /\ capture_error_count \in 0..(CaptureErrorLimit + 1)
      /\ decode_error_count \in 0..(DecodeErrorLimit + 1)
  BY TimesAssumption DEF Init
<1>2. order \in Commands \X CommandModes
  BY DEF Init, Commands, CommandModes
<1>3. panicked \in BOOLEAN /\ suspended \in BOOLEAN /\ window \in BOOLEAN
      /\ told \in BOOLEAN
  BY DEF Init
<1> QED
  BY <1>1, <1>2, <1>3, TimesAssumption DEF Init, TypeOK, Interfaces, Endured

LEMMA PanicOrEndured ==
  ASSUME NEW count \in Nat, NEW limit \in Nat, RecognizeFails(count, limit)
  PROVE  (panicked' \/ count + 1 <= limit) /\ (panicked' \/ ~panicked)
<1>1. CASE count + 1 > limit
  BY <1>1 DEF RecognizeFails
<1>2. CASE ~(count + 1 > limit)
  <2>1. count + 1 <= limit
    BY <1>2
  <2>2. ~panicked
    BY <1>2 DEF RecognizeFails, BeginRound
  <2> QED
    BY <2>1, <2>2
<1> QED
  BY <1>1, <1>2

(* No other step than a failing recognition touches the counts upwards.    *)
LEMMA EnduredNext == TypeOK /\ Endured /\ [Next]_vars => Endured'
<1> SUFFICES ASSUME TypeOK, Endured, [Next]_vars PROVE Endured'
  OBVIOUS
<1>0. /\ capture_error_count \in Nat /\ decode_error_count \in Nat
      /\ CaptureErrorLimit \in Nat /\ DecodeErrorLimit \in Nat
  BY TimesAssumption DEF TypeOK
<1> USE TimesAssumption DEF TypeOK, Endured, errorVars
<1>1. CASE RecognizeText \/ RecognizeNothing
  BY <1>1 DEF RecognizeText, RecognizeNothing
<1>2. CASE CaptureFails
  <2>1. RecognizeFails(capture_error_count, CaptureErrorLimit)
    BY <1>2 DEF CaptureFails
  <2>2. panicked' \/ capture_error_count + 1 <= CaptureErrorLimit
    BY <2>1, PanicOrEndured, <1>0
  <2>3. panicked' \/ ~panicked
    BY <2>1, PanicOrEndured, <1>0
  <2> QED
    BY <1>0, <1>2, <2>2, <2>3 DEF CaptureFails
<1>3. CASE DecodeFails
  <2>1. RecognizeFails(decode_error_count, DecodeErrorLimit)
    BY <1>3 DEF DecodeFails
  <2>2. panicked' \/ decode_error_count + 1 <= DecodeErrorLimit
    BY <2>1, PanicOrEndured, <1>0
  <2>3. panicked' \/ ~panicked
    BY <2>1, PanicOrEndured, <1>0
  <2> QED
    BY <1>0, <1>3, <2>2, <2>3 DEF DecodeFails
<1>4. CASE AnalyzeNothing \/ AnalyzeText \/ Dispatch
  BY <1>4 DEF AnalyzeNothing, AnalyzeText, Dispatch
<1>5. CASE Reconnect \/ DisableIdleMode \/ Tick \/ GameExits
  BY <1>5 DEF Reconnect, DisableIdleMode, Tick, GameExits
<1>6. CASE \E mode \in IdleModes : EnableIdleMode(mode)
  BY <1>6 DEF EnableIdleMode
<1>7. CASE UNCHANGED vars
  BY <1>7 DEF vars
<1> QED
  BY <1>1, <1>2, <1>3, <1>4, <1>5, <1>6, <1>7 DEF Next, Discriminate, Recognize

(* An endured error leaves room for one more, the one too many throws.     *)
LEMMA FailureIsTyped ==
  ASSUME TypeOK, NEW count \in Nat, NEW limit \in Nat,
         RecognizeFails(count, limit)
  PROVE  /\ pc' \in {"Idle", "Recognized", "Analyzed"}
         /\ verdict' \in (Interfaces \ {"LOGIN"}) \cup {NoText}
         /\ started' \in 0..MaxAge
         /\ panicked' \in BOOLEAN
         /\ ~panicked
         /\ UNCHANGED <<stateVars, order, ownerVars, window, told>>
<1>1. CASE count + 1 > limit
  BY <1>1 DEF RecognizeFails, TypeOK, roundVars
<1>2. CASE ~(count + 1 > limit)
  BY <1>2 DEF RecognizeFails, BeginRound, TypeOK
<1> QED
  BY <1>1, <1>2

LEMMA TypeNext == TypeOK /\ Endured /\ [Next]_vars => TypeOK'
<1> SUFFICES ASSUME TypeOK, Endured, [Next]_vars PROVE TypeOK'
  OBVIOUS
<1>0. /\ capture_error_count \in Nat /\ decode_error_count \in Nat
      /\ CaptureErrorLimit \in Nat /\ DecodeErrorLimit \in Nat
  BY TimesAssumption DEF TypeOK
<1> USE TimesAssumption DEF TypeOK, stateVars, roundVars, errorVars, ownerVars
<1>1. CASE RecognizeText
  BY <1>1, AnalysisIsTyped DEF RecognizeText, BeginRound
<1>2. CASE RecognizeNothing
  BY <1>2 DEF RecognizeNothing, BeginRound
<1>3. CASE CaptureFails
  <2>1. RecognizeFails(capture_error_count, CaptureErrorLimit)
    BY <1>3 DEF CaptureFails
  <2>2. /\ pc' \in {"Idle", "Recognized", "Analyzed"}
        /\ verdict' \in (Interfaces \ {"LOGIN"}) \cup {NoText}
        /\ started' \in 0..MaxAge
        /\ panicked' \in BOOLEAN
        /\ ~panicked
        /\ UNCHANGED <<stateVars, order, ownerVars, window, told>>
    BY <1>0, <2>1, FailureIsTyped
  <2>3. /\ capture_error_count' \in 0..(CaptureErrorLimit + 1)
        /\ decode_error_count' \in 0..(DecodeErrorLimit + 1)
    BY <1>0, <1>3, <2>2 DEF CaptureFails, Endured
  <2> QED
    BY <2>2, <2>3
<1>4. CASE DecodeFails
  <2>1. RecognizeFails(decode_error_count, DecodeErrorLimit)
    BY <1>4 DEF DecodeFails
  <2>2. /\ pc' \in {"Idle", "Recognized", "Analyzed"}
        /\ verdict' \in (Interfaces \ {"LOGIN"}) \cup {NoText}
        /\ started' \in 0..MaxAge
        /\ panicked' \in BOOLEAN
        /\ ~panicked
        /\ UNCHANGED <<stateVars, order, ownerVars, window, told>>
    BY <1>0, <2>1, FailureIsTyped
  <2>3. /\ capture_error_count' \in 0..(CaptureErrorLimit + 1)
        /\ decode_error_count' \in 0..(DecodeErrorLimit + 1)
    BY <1>0, <1>4, <2>2 DEF DecodeFails, Endured
  <2> QED
    BY <2>2, <2>3
<1>5. CASE AnalyzeNothing
  BY <1>5 DEF AnalyzeNothing
<1>6. CASE AnalyzeText
  BY <1>6, NextInterfaceIsTyped DEF AnalyzeText, SetInGameState
<1>7. CASE Dispatch
  BY <1>7, CommandIsTyped DEF Dispatch
<1>8. CASE Reconnect
  BY <1>8 DEF Reconnect, Reset, Interfaces, IdleModes
<1>9. CASE DisableIdleMode
  BY <1>9 DEF DisableIdleMode, Reset, Interfaces, Commands, CommandModes
<1>10. CASE \E mode \in IdleModes : EnableIdleMode(mode)
  BY <1>10 DEF EnableIdleMode
<1>11. CASE Tick
  BY <1>11, CappedIsTyped DEF Tick
<1>12. CASE GameExits
  BY <1>12 DEF GameExits
<1>13. CASE UNCHANGED vars
  BY <1>13 DEF vars
<1> QED
  BY <1>1, <1>2, <1>3, <1>4, <1>5, <1>6, <1>7, <1>8, <1>9, <1>10, <1>11,
     <1>12, <1>13
  DEF Next, Discriminate, Recognize

(* Every reachable state is well typed (TypeOK, OCRIdleEngine.hpp:38-44).  *)
THEOREM TypeCorrect == Spec => []TypeOK
  BY TypeInit, TypeNext, EnduredNext, PTL DEF Spec

-----------------------------------------------------------------------------
(* The time a round measured before it looked at the screen is no later    *)
(* than the one it would measure now.                                      *)
StartedInv == pc = "Recognized" => started <= age

TimerInv == TimerIsOfThisInterface /\ StartedInv

LEMMA TimerInit == Init => TimerInv
  BY DEF Init, TimerInv, TimerIsOfThisInterface, StartedInv

LEMMA TimerNext == TypeOK /\ TimerInv /\ [Next]_vars => TimerInv'
<1> SUFFICES ASSUME TypeOK, TimerInv, [Next]_vars PROVE TimerInv'
  OBVIOUS
<1>0. age \in Nat /\ entered \in Nat /\ started \in Nat /\ MaxAge \in Nat
      /\ age <= MaxAge /\ entered <= MaxAge
  BY TimesAssumption DEF TypeOK
<1> USE <1>0 DEF TimerInv, TimerIsOfThisInterface, StartedInv, stateVars,
                 roundVars, errorVars, ownerVars
<1>1. CASE Recognize
  BY <1>1 DEF Recognize, RecognizeText, RecognizeNothing, CaptureFails,
              DecodeFails, RecognizeFails, BeginRound
<1>2. CASE AnalyzeNothing
  BY <1>2 DEF AnalyzeNothing
<1>3. CASE AnalyzeText
  BY <1>3 DEF AnalyzeText, SetInGameState
<1>4. CASE Dispatch
  BY <1>4 DEF Dispatch
<1>5. CASE Reconnect \/ DisableIdleMode
  BY <1>5 DEF Reconnect, DisableIdleMode, Reset
<1>6. CASE \E mode \in IdleModes : EnableIdleMode(mode)
  BY <1>6 DEF EnableIdleMode
<1>7. CASE Tick
  BY <1>7 DEF Tick, Capped
<1>8. CASE GameExits \/ UNCHANGED vars
  BY <1>8 DEF GameExits, vars
<1> QED
  BY <1>1, <1>2, <1>3, <1>4, <1>5, <1>6, <1>7, <1>8 DEF Next, Discriminate

LEMMA TimerInvariance == Spec => [](TypeOK /\ TimerInv)
  BY TypeCorrect, TimerInit, TimerNext, PTL DEF Spec

(* Outside LOGIN and UNKNOWN, which the resets store without renewing it,  *)
(* the time point is that of the present interface                         *)
(* (TimerIsOfThisInterface, OCRIdleEngine.hpp:22-53).                      *)
THEOREM TimerBelongs == Spec => []TimerIsOfThisInterface
<1>1. TimerInv => TimerIsOfThisInterface
  BY DEF TimerInv
<1> QED
  BY <1>1, TimerInvariance, PTL

(* Only a game that has been loading for longer than the limit is told to  *)
(* end (EndsOnlyOverdueLoads, OCRIdleEngine.cpp:260-283).                  *)
THEOREM OnlyOverdueLoadsEnd == Spec => EndsOnlyOverdueLoads
<1>1. ASSUME TypeOK, TimerInv, [Next]_vars, AnalyzeText, told'
      PROVE  /\ "RestartGameOnLoadingTimeout" \in Global
             /\ game_interface_type_ = "LOADING"
             /\ entered > LoadMapTimeout
  <2>1. EndsGame /\ pc = "Recognized"
    BY <1>1 DEF AnalyzeText
  <2>2. age \in Nat /\ started \in Nat /\ LoadMapTimeout \in Nat
    BY <1>1, TimesAssumption DEF TypeOK
  <2> QED
    BY <1>1, <2>1, <2>2 DEF EndsGame, Overdue, TimerInv,
                            TimerIsOfThisInterface, StartedInv
<1>2. TypeOK /\ TimerInv /\ [Next]_vars =>
        [(AnalyzeText /\ told') =>
           /\ "RestartGameOnLoadingTimeout" \in Global
           /\ game_interface_type_ = "LOADING"
           /\ entered > LoadMapTimeout]_vars
  BY <1>1
<1> QED
  BY <1>2, TimerInvariance, PTL DEF Spec, EndsOnlyOverdueLoads

(* Extended idling is ordered only in the extended mode, in a game that    *)
(* has run for the delay (ExtendedOnlyByChoice, OCRIdleEngine.cpp:319-329).*)
THEOREM ExtendedIsChosen == Spec => ExtendedOnlyByChoice
<1>1. ASSUME TypeOK, TimerInv, Dispatch, order'[1] = "CMD_EXTENDED_IDLE"
      PROVE  /\ idle_mode_ = "EXTENDED"
             /\ game_interface_type_ = "IN_GAME"
             /\ entered > ExtendedIdleDelay
  <2>1. CommandFor(game_interface_type_) = "CMD_EXTENDED_IDLE"
    BY <1>1 DEF Dispatch
  <2>2. /\ game_interface_type_ = "IN_GAME"
        /\ InGameCommand = "CMD_EXTENDED_IDLE"
    BY <1>1, <2>1 DEF TypeOK, CommandFor, Interfaces, Scenarios
  <2> QED
    BY <1>1, <2>2 DEF InGameCommand, TimerInv, TimerIsOfThisInterface
<1>2. TypeOK /\ TimerInv /\ [Next]_vars =>
        [(Dispatch /\ order'[1] = "CMD_EXTENDED_IDLE") =>
           /\ idle_mode_ = "EXTENDED"
           /\ game_interface_type_ = "IN_GAME"
           /\ entered > ExtendedIdleDelay]_vars
  BY <1>1
<1> QED
  BY <1>2, TimerInvariance, PTL DEF Spec, ExtendedOnlyByChoice
=============================================================================
