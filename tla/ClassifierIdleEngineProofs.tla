--------------------- MODULE ClassifierIdleEngineProofs ---------------------
(***************************************************************************)
(* Proofs about the classifier idle engine, for every set of labels, every *)
(* value of the timeouts, limits and settings, and whatever the            *)
(* environment does.                                                       *)
(***************************************************************************)
EXTENDS ClassifierIdleEngine, TLAPS

(* No label and no state leads to an interface that does not exist.        *)
LEMMA SeenIsTyped ==
  ASSUME TypeOK, NEW label \in Labels PROVE Seen(label) \in Interfaces
  BY LabelsAssumption DEF TypeOK, Seen

LEMMA CommandIsTyped ==
  ASSUME TypeOK, NEW seen \in Interfaces PROVE CommandFor(seen) \in Commands
<1>1. InGameCommand \in Commands
  BY DEF InGameCommand, Commands, TypeOK
<1>2. RoomCommand \in Commands
  BY DEF RoomCommand, Commands
<1> QED
  BY <1>1, <1>2 DEF CommandFor, Interfaces, Commands

LEMMA ModeIsTyped ==
  ASSUME NEW command PROVE ModeOf(command) \in CommandModes
  BY DEF ModeOf, CommandModes

LEMMA CappedIsTyped ==
  ASSUME NEW bound \in Nat, NEW n \in 0..bound
  PROVE  Capped(n + 1, bound) \in 0..bound
  BY DEF Capped

LEMMA MoveIsTyped ==
  ASSUME TypeOK, NEW next \in Interfaces, MoveTo(next)
  PROVE  /\ interface_type_' \in Interfaces
         /\ age' \in 0..MaxAge /\ entered' \in 0..MaxAge
  BY TimesAssumption DEF TypeOK, MoveTo

(* The count of a session stays below three: the third return starts over. *)
LEMMA CountIsTyped ==
  ASSUME TypeOK, NEW seen, CountReturns(seen)
  PROVE  count' \in [Abnormal -> 0..2] /\ current' \subseteq Abnormal
<1>1. CASE NewSession(seen)
  BY <1>1 DEF CountReturns, TypeOK
<1>2. CASE ~NewSession(seen) /\ AbnormalReturn(seen)
  <2>1. interface_type_ \in Abnormal
    BY <1>2 DEF AbnormalReturn
  <2>2. CountNow(interface_type_) \in 0..2
    BY <2>1 DEF CountNow, TypeOK
  <2>3. (IF TooManyReturns(interface_type_) THEN CountNow(interface_type_)
                               ELSE CountNow(interface_type_) + 1) \in 0..2
    BY <2>2 DEF TooManyReturns
  <2> QED
    BY <1>2, <2>1, <2>3 DEF CountReturns, TypeOK
<1>3. CASE ~NewSession(seen) /\ ~AbnormalReturn(seen)
  BY <1>3 DEF CountReturns, TypeOK, sessionVars
<1> QED
  BY <1>1, <1>2, <1>3

LEMMA RecordIsTyped ==
  ASSUME TypeOK, NEW seen, RecordReturns(seen)
  PROVE  failures' \in [Abnormal -> 0..3]
<1> DEFINE Begins == /\ seen = "ROOM"
                     /\ interface_type_ \in {"LOGIN", "LOBBY", "RESULTS"}
<1>1. CASE Begins
  BY <1>1 DEF RecordReturns
<1>2. CASE ~Begins /\ AbnormalReturn(seen)
  <2>1. interface_type_ \in Abnormal
    BY <1>2 DEF AbnormalReturn
  <2>2. Capped(failures[interface_type_] + 1, 3) \in 0..3
    BY <2>1, CappedIsTyped DEF TypeOK
  <2> QED
    BY <1>2, <2>1, <2>2 DEF RecordReturns, TypeOK
<1>3. CASE ~Begins /\ ~AbnormalReturn(seen)
  BY <1>3 DEF RecordReturns, TypeOK
<1> QED
  BY <1>1, <1>2, <1>3

LEMMA RowIsTyped ==
  ASSUME TypeOK, NEW next, RecordRow(next)
  PROVE  in_a_row' \in [Abnormal -> 0..3]
<1>1. ASSUME NEW a \in Abnormal
      PROVE  (IF next \notin {a, "ROOM"} THEN 0
              ELSE IF next = "ROOM" /\ interface_type_ = a
              THEN Capped(in_a_row[a] + 1, 3)
              ELSE in_a_row[a]) \in 0..3
  <2>1. in_a_row[a] \in 0..3
    BY DEF TypeOK
  <2>2. Capped(in_a_row[a] + 1, 3) \in 0..3
    BY <2>1 DEF Capped
  <2> QED
    BY <2>1, <2>2
<1> QED
  BY <1>1 DEF RecordRow

-----------------------------------------------------------------------------
Windows == {"gone", "iconic", "background", "foreground"}

LEMMA TypeInit == Init => TypeOK
<1> SUFFICES ASSUME Init PROVE TypeOK
  OBVIOUS
<1>1. /\ age \in 0..MaxAge /\ entered \in 0..MaxAge
      /\ capture_error_count \in 0..CaptureErrorLimit
      /\ decode_error_count \in 0..DecodeErrorLimit
  BY TimesAssumption DEF Init
<1>2. order \in Commands \X CommandModes /\ command_type_ \in Commands
  BY DEF Init, Commands, CommandModes
<1>3. panicked \in BOOLEAN /\ suspended \in BOOLEAN /\ told \in BOOLEAN
  BY DEF Init
<1>4. /\ count \in [Abnormal -> 0..2] /\ current \subseteq Abnormal
      /\ failures \in [Abnormal -> 0..3] /\ in_a_row \in [Abnormal -> 0..3]
  BY DEF Init
<1>5. interface_type_ \in Interfaces /\ idle_mode_ \in IdleModes
      /\ window \in Windows
  BY DEF Init, Interfaces, Windows
<1> QED
  BY <1>1, <1>2, <1>3, <1>4, <1>5 DEF TypeOK, Windows

LEMMA EndIsTyped ==
  ASSUME ThreadEnds
  PROVE  /\ panicked' \in BOOLEAN
         /\ capture_error_count' \in 0..CaptureErrorLimit
         /\ decode_error_count' \in 0..DecodeErrorLimit
         /\ count' \in [Abnormal -> 0..2] /\ current' \subseteq Abnormal
         /\ failures' \in [Abnormal -> 0..3]
         /\ in_a_row' \in [Abnormal -> 0..3]
<1>1. panicked' \in BOOLEAN
  BY DEF ThreadEnds
<1>2. /\ capture_error_count' \in 0..CaptureErrorLimit
      /\ decode_error_count' \in 0..DecodeErrorLimit
  BY TimesAssumption DEF ThreadEnds
<1> QED
  BY <1>1, <1>2 DEF ThreadEnds

(* A round that looks at the screen keeps every variable in its type.      *)
LEMMA LookIsTyped ==
  ASSUME TypeOK, NEW label \in Labels, Discriminate(label)
  PROVE  TypeOK'
<1> DEFINE seen == Seen(label)
<1>1. seen \in Interfaces
  BY SeenIsTyped
<1>2. UNCHANGED <<idle_mode_, suspended>>
  BY DEF Discriminate, ownerVars
<1>3. CASE Unexpected(seen)
  <2>1. /\ ThreadEnds /\ told' = FALSE
        /\ UNCHANGED <<stateVars, command_type_, order, window>>
    BY <1>3 DEF Discriminate
  <2> QED
    BY <1>2, <2>1, EndIsTyped DEF TypeOK, stateVars
<1>4. CASE ~Unexpected(seen)
  <2>1. /\ command_type_' = CommandFor(seen)
        /\ order' = <<command_type_', ModeOf(command_type_')>>
        /\ MoveTo(IF LoginIsOverdue(seen) THEN "UNKNOWN" ELSE seen)
        /\ CountReturns(seen)
        /\ RecordReturns(seen)
        /\ RecordRow(interface_type_')
        /\ told' = EndsGame(seen)
        /\ window' \in IF told' THEN {"gone", window} ELSE {window}
        /\ capture_error_count' = 0
        /\ UNCHANGED <<decode_error_count, panicked>>
    BY <1>4, Zenon DEF Discriminate
  <2>2. command_type_' \in Commands /\ order' \in Commands \X CommandModes
    BY <1>1, <2>1, CommandIsTyped, ModeIsTyped
  <2>3. (IF LoginIsOverdue(seen) THEN "UNKNOWN" ELSE seen) \in Interfaces
    BY <1>1 DEF Interfaces
  <2>4. /\ interface_type_' \in Interfaces
        /\ age' \in 0..MaxAge /\ entered' \in 0..MaxAge
    BY <2>1, <2>3, MoveIsTyped
  <2>5. count' \in [Abnormal -> 0..2] /\ current' \subseteq Abnormal
    BY <2>1, CountIsTyped
  <2>6. failures' \in [Abnormal -> 0..3] /\ in_a_row' \in [Abnormal -> 0..3]
    BY <2>1, RecordIsTyped, RowIsTyped
  <2>7. EndsGame(seen) \in BOOLEAN
    BY Zenon DEF EndsGame, GameIsOverdue
  <2>8. told' \in BOOLEAN
    BY <2>1, <2>7
  <2>9. window' \in {"gone", "iconic", "background", "foreground"}
    BY <2>1 DEF TypeOK
  <2>10. panicked' \in BOOLEAN
    BY <2>1 DEF TypeOK
  <2>11. /\ capture_error_count' \in 0..CaptureErrorLimit
         /\ decode_error_count' \in 0..DecodeErrorLimit
    BY <2>1, TimesAssumption DEF TypeOK
  <2> QED
    BY <1>2, <2>2, <2>4, <2>5, <2>6, <2>8, <2>9, <2>10, <2>11 DEF TypeOK
<1> QED
  BY <1>3, <1>4

LEMMA TypeNext == TypeOK /\ [Next]_vars => TypeOK'
<1> SUFFICES ASSUME TypeOK, [Next]_vars PROVE TypeOK'
  OBVIOUS
<1>0. /\ capture_error_count \in Nat /\ decode_error_count \in Nat
      /\ CaptureErrorLimit \in Nat /\ DecodeErrorLimit \in Nat
  BY TimesAssumption DEF TypeOK
<1> USE TimesAssumption
    DEF TypeOK, stateVars, sessionVars, errorVars, ownerVars, historyVars
<1>1. CASE Look
  BY <1>1, LookIsTyped DEF Look
<1>2. CASE CaptureFails
  <2>1. CASE ThreadEnds
    BY <1>2, <2>1, EndIsTyped DEF CaptureFails
  <2>2. CASE ~ThreadEnds
    <3>1. /\ capture_error_count < CaptureErrorLimit
          /\ capture_error_count' = capture_error_count + 1
          /\ UNCHANGED <<decode_error_count, panicked, count, current,
                         failures, in_a_row>>
      BY <1>2, <2>2, Zenon DEF CaptureFails
    <3>2. capture_error_count' \in 0..CaptureErrorLimit
      BY <1>0, <3>1
    <3> QED
      BY <1>2, <3>1, <3>2 DEF CaptureFails
  <2> QED
    BY <2>1, <2>2
<1>3. CASE DecodeFails
  <2>1. CASE ThreadEnds
    BY <1>3, <2>1, EndIsTyped DEF DecodeFails
  <2>2. CASE ~ThreadEnds
    <3>1. /\ decode_error_count < DecodeErrorLimit
          /\ decode_error_count' = decode_error_count + 1
          /\ capture_error_count' = 0
          /\ UNCHANGED <<panicked, count, current, failures, in_a_row>>
      BY <1>3, <2>2, Zenon DEF DecodeFails
    <3>2. /\ capture_error_count' \in 0..CaptureErrorLimit
          /\ decode_error_count' \in 0..DecodeErrorLimit
      BY <1>0, <3>1
    <3> QED
      BY <1>3, <3>1, <3>2 DEF DecodeFails
  <2> QED
    BY <2>1, <2>2
<1>4. CASE RestoreWindow \/ WindowChanges
  BY <1>4 DEF RestoreWindow, WindowChanges
<1>5. CASE Reconnect
  BY <1>5, RowIsTyped DEF Reconnect, Reset, Interfaces, IdleModes
<1>6. CASE DisableIdleMode
  <2>1. order' \in Commands \X CommandModes
    BY <1>6 DEF DisableIdleMode, Commands, CommandModes
  <2> QED
    BY <1>6, <2>1, RowIsTyped DEF DisableIdleMode, Reset, Interfaces
<1>7. ASSUME NEW mode \in IdleModes, EnableIdleMode(mode)
      PROVE  TypeOK'
  <2>1. UNCHANGED <<interface_type_, age, entered, command_type_, order,
                    count, current, capture_error_count,
                    decode_error_count, panicked, window, failures,
                    in_a_row, told>>
    BY <1>7 DEF EnableIdleMode
  <2>2. idle_mode_' \in IdleModes /\ suspended' \in BOOLEAN
    BY <1>7 DEF EnableIdleMode
  <2> QED
    BY <2>1, <2>2
<1>8. CASE Tick
  BY <1>8, CappedIsTyped DEF Tick
<1>9. CASE UNCHANGED vars
  BY <1>9 DEF vars
<1> QED
  BY <1>1, <1>2, <1>3, <1>4, <1>5, <1>6, <1>7, <1>8, <1>9 DEF Next, Round

(* Every reachable state is well typed (TypeOK, ClassifierIdleEngine.hpp): *)
(* the two counts of a session in particular stay below three.             *)
THEOREM TypeCorrect == Spec => []TypeOK
  BY TypeInit, TypeNext, PTL DEF Spec

-----------------------------------------------------------------------------
LEMMA TimerInit == Init => TimerIsOfThisInterface
  BY DEF Init, TimerIsOfThisInterface

LEMMA TimerNext ==
  TypeOK /\ TimerIsOfThisInterface /\ [Next]_vars => TimerIsOfThisInterface'
<1> SUFFICES ASSUME TypeOK, TimerIsOfThisInterface, [Next]_vars
             PROVE  TimerIsOfThisInterface'
  OBVIOUS
<1> USE DEF TimerIsOfThisInterface, stateVars, sessionVars, errorVars,
            ownerVars, historyVars
<1>1. ASSUME NEW label \in Labels, Discriminate(label)
      PROVE  TimerIsOfThisInterface'
  <2>1. CASE Unexpected(Seen(label))
    BY <1>1, <2>1 DEF Discriminate
  <2>2. CASE ~Unexpected(Seen(label))
    <3>1. MoveTo(IF LoginIsOverdue(Seen(label)) THEN "UNKNOWN"
                                                ELSE Seen(label))
      BY <1>1, <2>2, Zenon DEF Discriminate
    <3> QED
      BY <3>1 DEF MoveTo
  <2> QED
    BY <2>1, <2>2
<1>2. CASE CaptureFails \/ DecodeFails
  BY <1>2 DEF CaptureFails, DecodeFails
<1>3. CASE RestoreWindow \/ WindowChanges
  BY <1>3 DEF RestoreWindow, WindowChanges
<1>4. CASE Reconnect \/ DisableIdleMode
  BY <1>4 DEF Reconnect, DisableIdleMode, Reset
<1>5. CASE \E mode \in IdleModes : EnableIdleMode(mode)
  BY <1>5 DEF EnableIdleMode
<1>6. CASE Tick
  BY <1>6 DEF Tick
<1>7. CASE UNCHANGED vars
  BY <1>7 DEF vars
<1> QED
  BY <1>1, <1>2, <1>3, <1>4, <1>5, <1>6, <1>7 DEF Next, Round, Look

(* Outside LOGIN and UNKNOWN, which the resets store without renewing it,  *)
(* the time point is that of the present interface                         *)
(* (TimerIsOfThisInterface, ClassifierIdleEngine.cpp:474-478).             *)
THEOREM TimerBelongs == Spec => []TimerIsOfThisInterface
  BY TypeCorrect, TimerInit, TimerNext, PTL DEF Spec

(* The discriminator tells a game to end only after it has been loading,   *)
(* or playing, for longer than the limit (EndsOnlyOverdueGames,            *)
(* ClassifierIdleEngine.cpp:275-289 and 368-381).                          *)
THEOREM OnlyOverdueGamesEnd == Spec => EndsOnlyOverdueGames
<1> DEFINE Overdue ==
             \/ /\ interface_type_ = "IN_GAME"
                /\ entered >= MaxInGameTime /\ entered >= DefaultIdleTime
             \/ /\ interface_type_ = "LOADING"
                /\ RestartGameOnLoadingTimeout /\ entered > LoadingTimeout
<1>1. ASSUME TimerIsOfThisInterface, NEW label \in Labels,
             Discriminate(label), told'
      PROVE  Overdue
  <2>1. told' = FALSE \/ told' = EndsGame(Seen(label))
    BY <1>1, Zenon DEF Discriminate
  <2>2. EndsGame(Seen(label))
    BY <1>1, <2>1
  <2> QED
    BY <1>1, <2>2 DEF EndsGame, GameIsOverdue, LoadingIsOverdue,
                      TimerIsOfThisInterface
<1>2. TimerIsOfThisInterface /\ [Next]_vars =>
        [(Look /\ told') => Overdue]_vars
  BY <1>1 DEF Look
<1> QED
  BY <1>2, TimerBelongs, PTL DEF Spec, EndsOnlyOverdueGames

(* The command a game is in for may be kept from the round before, which   *)
(* is safe because no game is taken to run across a change of the mode.    *)
KeptInv ==
  /\ suspended => interface_type_ = "UNKNOWN"
  /\ interface_type_ = "IN_GAME" /\ command_type_ = "CMD_EXTENDED_IDLE_2"
       => idle_mode_ = "EXTENDED" /\ age >= DefaultIdleTime

LEMMA KeptInit == Init => KeptInv
  BY DEF Init, KeptInv

(* Only a game that ran before the round is in for extended idling.        *)
LEMMA ExtendedCommand ==
  ASSUME TypeOK, KeptInv, NEW seen \in Interfaces,
         CommandFor(seen) = "CMD_EXTENDED_IDLE_2"
  PROVE  /\ seen = "IN_GAME" /\ interface_type_ = "IN_GAME"
         /\ idle_mode_ = "EXTENDED" /\ age >= DefaultIdleTime
<1>1. seen = "IN_GAME" /\ interface_type_ = "IN_GAME"
  BY DEF CommandFor, RoomCommand, Interfaces
<1>2. InGameCommand = "CMD_EXTENDED_IDLE_2"
  BY <1>1 DEF CommandFor
<1>3. age \in Nat /\ DefaultIdleTime \in Nat /\ ChooseCharacterTime \in Nat
      /\ MaxInGameTime \in Nat
  BY TimesAssumption DEF TypeOK
<1> QED
  BY <1>1, <1>2, <1>3 DEF InGameCommand, KeptInv

LEMMA KeptNext == TypeOK /\ KeptInv /\ [Next]_vars => KeptInv'
<1> SUFFICES ASSUME TypeOK, KeptInv, [Next]_vars PROVE KeptInv'
  OBVIOUS
<1> USE DEF stateVars, sessionVars, errorVars, ownerVars
<1>1. ASSUME NEW label \in Labels, Discriminate(label) PROVE KeptInv'
  <2> DEFINE seen == Seen(label)
  <2>1. ~suspended /\ UNCHANGED <<idle_mode_, suspended>>
    BY <1>1 DEF Discriminate, InRound
  <2>2. CASE Unexpected(seen)
    <3>1. UNCHANGED <<stateVars, command_type_>>
      BY <1>1, <2>2 DEF Discriminate
    <3> QED
      BY <2>1, <3>1 DEF KeptInv
  <2>3. CASE ~Unexpected(seen)
    <3>1. /\ command_type_' = CommandFor(seen)
          /\ MoveTo(IF LoginIsOverdue(seen) THEN "UNKNOWN" ELSE seen)
      BY <1>1, <2>3, Zenon DEF Discriminate
    <3>2. seen \in Interfaces
      BY SeenIsTyped
    <3>3. CASE command_type_' = "CMD_EXTENDED_IDLE_2"
      <4>1. /\ seen = "IN_GAME" /\ interface_type_ = "IN_GAME"
            /\ idle_mode_ = "EXTENDED" /\ age >= DefaultIdleTime
        BY <3>1, <3>2, <3>3, ExtendedCommand
      <4>2. age' = age
        BY <3>1, <4>1 DEF MoveTo, LoginIsOverdue
      <4> QED
        BY <2>1, <4>1, <4>2 DEF KeptInv
    <3>4. CASE command_type_' # "CMD_EXTENDED_IDLE_2"
      BY <2>1, <3>4 DEF KeptInv
    <3> QED
      BY <3>3, <3>4
  <2> QED
    BY <2>2, <2>3
<1>2. CASE CaptureFails \/ DecodeFails
  BY <1>2 DEF CaptureFails, DecodeFails, KeptInv
<1>3. CASE RestoreWindow \/ WindowChanges
  BY <1>3 DEF RestoreWindow, WindowChanges, KeptInv
<1>4. CASE Reconnect \/ DisableIdleMode
  BY <1>4 DEF Reconnect, DisableIdleMode, Reset, KeptInv
<1>5. CASE \E mode \in IdleModes : EnableIdleMode(mode)
  BY <1>5 DEF EnableIdleMode, KeptInv
<1>6. CASE Tick
  <2>1. /\ age \in Nat /\ MaxAge \in Nat /\ age <= MaxAge
        /\ DefaultIdleTime \in Nat
    BY TimesAssumption DEF TypeOK
  <2>2. age' >= age /\ age' \in Nat
    BY <1>6, <2>1 DEF Tick, Capped
  <2> QED
    BY <1>6, <2>1, <2>2 DEF Tick, KeptInv
<1>7. CASE UNCHANGED vars
  BY <1>7 DEF vars, KeptInv
<1> QED
  BY <1>1, <1>2, <1>3, <1>4, <1>5, <1>6, <1>7 DEF Next, Round, Look

(* Extended idling is ordered only in the extended mode, in a game seen    *)
(* for the whole default phase (ExtendedOnlyByChoice,                      *)
(* ClassifierIdleEngine.cpp:351-381): the command kept from the round      *)
(* before is never an order for extended idling given in another mode.     *)
THEOREM ExtendedIsChosen == Spec => ExtendedOnlyByChoice
<1> DEFINE Chosen == /\ idle_mode_ = "EXTENDED"
                     /\ interface_type_ = "IN_GAME"
                     /\ entered >= DefaultIdleTime
<1>1. ASSUME TypeOK, TimerIsOfThisInterface, KeptInv, NEW label \in Labels,
             Discriminate(label), ~panicked',
             order'[1] = "CMD_EXTENDED_IDLE_2"
      PROVE  Chosen
  <2>1. ~Unexpected(Seen(label))
    BY <1>1, Zenon DEF Discriminate, ThreadEnds
  <2>2. /\ command_type_' = CommandFor(Seen(label))
        /\ order' = <<command_type_', ModeOf(command_type_')>>
    BY <1>1, <2>1, Zenon DEF Discriminate
  <2>3. CommandFor(Seen(label)) = "CMD_EXTENDED_IDLE_2"
    BY <1>1, <2>2
  <2>4. Seen(label) \in Interfaces
    BY <1>1, SeenIsTyped
  <2> QED
    BY <1>1, <2>3, <2>4, ExtendedCommand DEF TimerIsOfThisInterface
<1>2. TypeOK /\ TimerIsOfThisInterface /\ KeptInv /\ [Next]_vars =>
        [(Look /\ ~panicked' /\ order'[1] = "CMD_EXTENDED_IDLE_2")
           => Chosen]_vars
  BY <1>1 DEF Look
<1> QED
  BY <1>2, TypeCorrect, TimerBelongs, KeptInit, KeptNext, PTL
  DEF Spec, ExtendedOnlyByChoice

-----------------------------------------------------------------------------
(* The code's count lies between the failures in a row and those of the    *)
(* session, and stops at two; nothing is in a row while another interface  *)
(* is shown.                                                               *)
CountInv ==
  \A a \in Abnormal :
    /\ interface_type_ \notin {a, "ROOM"} => in_a_row[a] = 0
    /\ in_a_row[a] <= CountNow(a) \/ CountNow(a) = 2
    /\ CountNow(a) <= failures[a]

LEMMA CountInit == Init => CountInv
  BY DEF Init, CountInv, CountNow

LEMMA CountIsZero == ThreadEnds => CountInv'
<1> SUFFICES ASSUME ThreadEnds, NEW a \in Abnormal
             PROVE  in_a_row'[a] = 0 /\ failures'[a] = 0 /\ CountNow(a)' = 0
  BY DEF CountInv
<1> QED
  BY DEF ThreadEnds, CountNow

(* One return more, in the code and in the history.                        *)
LEMMA CountReturn ==
  ASSUME TypeOK, CountInv, NEW seen, CountReturns(seen), RecordReturns(seen),
         RecordRow(interface_type_'), interface_type_' = "ROOM",
         AbnormalReturn(seen), NEW a, a = interface_type_
  PROVE  /\ CountInv'
         /\ in_a_row'[a] = 3 => TooManyReturns(a)
         /\ TooManyReturns(a) => failures'[a] = 3
<1>1. a \in Abnormal /\ seen = "ROOM" /\ ~NewSession(seen)
  BY DEF AbnormalReturn, NewSession, Abnormal
<1>2. /\ count \in [Abnormal -> 0..2] /\ failures \in [Abnormal -> 0..3]
      /\ in_a_row[a] \in 0..3 /\ failures[a] \in 0..3
      /\ CountNow(a) \in 0..2
  BY <1>1 DEF TypeOK, CountNow
<1>3. /\ count' = [count EXCEPT ![a] = IF TooManyReturns(a) THEN CountNow(a)
                                       ELSE CountNow(a) + 1]
      /\ current' = current \cup {a}
  BY <1>1 DEF CountReturns
<1>4. failures' = [failures EXCEPT ![a] = Capped(failures[a] + 1, 3)]
  BY <1>1 DEF RecordReturns, Abnormal
<1>5. in_a_row'[a] = Capped(in_a_row[a] + 1, 3)
  BY <1>1 DEF RecordRow
<1>6. /\ in_a_row[a] <= CountNow(a) \/ CountNow(a) = 2
      /\ CountNow(a) <= failures[a]
  BY <1>1 DEF CountInv
<1>7. /\ failures'[a] = Capped(failures[a] + 1, 3)
      /\ CountNow(a)' = IF TooManyReturns(a) THEN CountNow(a)
                                             ELSE CountNow(a) + 1
  BY <1>1, <1>2, <1>3, <1>4 DEF CountNow
<1>8. /\ in_a_row'[a] <= CountNow(a)' \/ CountNow(a)' = 2
      /\ CountNow(a)' <= failures'[a]
      /\ in_a_row'[a] = 3 => TooManyReturns(a)
      /\ TooManyReturns(a) => failures'[a] = 3
  BY <1>2, <1>5, <1>6, <1>7 DEF TooManyReturns, Capped
<1>9. ASSUME NEW b \in Abnormal, b # a
      PROVE  /\ in_a_row'[b] = in_a_row[b]
             /\ failures'[b] = failures[b]
             /\ CountNow(b)' = CountNow(b)
  <2>1. in_a_row'[b] = in_a_row[b]
    BY <1>9 DEF RecordRow
  <2>2. failures'[b] = failures[b] /\ count'[b] = count[b]
        /\ (b \in current' <=> b \in current)
    BY <1>2, <1>3, <1>4, <1>9
  <2> QED
    BY <2>1, <2>2 DEF CountNow
<1>10. ASSUME NEW b \in Abnormal
       PROVE  /\ in_a_row'[b] <= CountNow(b)' \/ CountNow(b)' = 2
              /\ CountNow(b)' <= failures'[b]
  <2>1. CASE b = a
    BY <1>8, <2>1
  <2>2. CASE b # a
    <3>1. /\ in_a_row[b] <= CountNow(b) \/ CountNow(b) = 2
          /\ CountNow(b) <= failures[b]
      BY DEF CountInv
    <3> QED
      BY <1>9, <2>2, <3>1
  <2> QED
    BY <2>1, <2>2
<1>11. CountInv'
  BY <1>10 DEF CountInv
<1> QED
  BY <1>8, <1>11

(* Every other label begins a session, ends a row or changes neither.      *)
LEMMA CountOther ==
  ASSUME TypeOK, CountInv, NEW seen, CountReturns(seen), RecordReturns(seen),
         RecordRow(interface_type_'), ~AbnormalReturn(seen),
         interface_type_' = "ROOM" <=> seen = "ROOM"
  PROVE  CountInv'
<1> SUFFICES ASSUME NEW a \in Abnormal
             PROVE  /\ interface_type_' \notin {a, "ROOM"} => in_a_row'[a] = 0
                    /\ in_a_row'[a] <= CountNow(a)' \/ CountNow(a)' = 2
                    /\ CountNow(a)' <= failures'[a]
  BY DEF CountInv
<1>1. /\ in_a_row[a] \in 0..3 /\ failures[a] \in 0..3
      /\ CountNow(a) \in 0..2
  BY DEF TypeOK, CountNow
<1>2. /\ interface_type_ \notin {a, "ROOM"} => in_a_row[a] = 0
      /\ in_a_row[a] <= CountNow(a) \/ CountNow(a) = 2
      /\ CountNow(a) <= failures[a]
  BY DEF CountInv
<1>3. ~(interface_type_' = "ROOM" /\ interface_type_ = a)
  BY DEF AbnormalReturn
<1>4. in_a_row'[a] = IF interface_type_' \notin {a, "ROOM"} THEN 0
                     ELSE in_a_row[a]
  BY <1>3 DEF RecordRow
<1>5. CASE NewSession(seen)
  <2>1. seen = "ROOM" /\ interface_type_ \notin {a, "ROOM"}
    BY <1>5 DEF NewSession, Abnormal
  <2>2. CountNow(a)' = 0
    BY <1>5 DEF CountReturns, CountNow
  <2>3. failures'[a] = 0 \/ failures'[a] = failures[a]
    BY DEF RecordReturns
  <2> QED
    BY <1>1, <1>2, <1>4, <2>1, <2>2, <2>3
<1>6. CASE ~NewSession(seen)
  <2>1. UNCHANGED <<count, current>>
    BY <1>6 DEF CountReturns, sessionVars
  <2>2. failures' = failures
    BY <1>6 DEF RecordReturns, NewSession
  <2>3. CountNow(a)' = CountNow(a)
    BY <2>1 DEF CountNow
  <2> QED
    BY <1>1, <1>2, <1>4, <2>2, <2>3
<1> QED
  BY <1>5, <1>6

LEMMA CountNext == TypeOK /\ CountInv /\ [Next]_vars => CountInv'
<1> SUFFICES ASSUME TypeOK, CountInv, [Next]_vars PROVE CountInv'
  OBVIOUS
<1>1. ASSUME NEW label \in Labels, Discriminate(label) PROVE CountInv'
  <2>1. CASE Unexpected(Seen(label))
    BY <1>1, <2>1, CountIsZero DEF Discriminate
  <2>2. CASE ~Unexpected(Seen(label))
    <3>1. /\ CountReturns(Seen(label)) /\ RecordReturns(Seen(label))
          /\ RecordRow(interface_type_')
          /\ MoveTo(IF LoginIsOverdue(Seen(label)) THEN "UNKNOWN"
                                                   ELSE Seen(label))
      BY <1>1, <2>2, Zenon DEF Discriminate
    <3>2. interface_type_' = "ROOM" <=> Seen(label) = "ROOM"
      BY <3>1 DEF MoveTo, LoginIsOverdue
    <3>3. AbnormalReturn(Seen(label)) => interface_type_' = "ROOM"
      BY <3>2 DEF AbnormalReturn
    <3> QED
      BY <3>1, <3>2, <3>3, CountReturn, CountOther
  <2> QED
    BY <2>1, <2>2
<1>2. ASSUME UNCHANGED <<interface_type_, count, current, failures, in_a_row>>
      PROVE  CountInv'
  BY <1>2 DEF CountInv, CountNow
<1>3. CASE CaptureFails \/ DecodeFails
  <2>1. \/ ThreadEnds
        \/ UNCHANGED <<interface_type_, count, current, failures, in_a_row>>
    BY <1>3 DEF CaptureFails, DecodeFails, stateVars, sessionVars,
                historyVars
  <2> QED
    BY <1>2, <2>1, CountIsZero
<1>4. CASE Reconnect \/ DisableIdleMode
  <2>1. /\ interface_type_' \in {"LOGIN", "UNKNOWN"}
        /\ RecordRow(interface_type_')
        /\ UNCHANGED <<count, current, failures>>
    BY <1>4 DEF Reconnect, DisableIdleMode, Reset, sessionVars
  <2> SUFFICES ASSUME NEW a \in Abnormal
               PROVE  /\ in_a_row'[a] = 0
                      /\ CountNow(a)' = CountNow(a) /\ CountNow(a) \in 0..2
                      /\ failures'[a] = failures[a]
    BY DEF CountInv
  <2>2. in_a_row'[a] = 0
    BY <2>1 DEF RecordRow, Abnormal
  <2>3. CountNow(a)' = CountNow(a) /\ CountNow(a) \in 0..2
    BY <2>1 DEF CountNow, TypeOK
  <2> QED
    BY <2>1, <2>2, <2>3
<1>5. ASSUME \/ RestoreWindow \/ Tick \/ WindowChanges \/ UNCHANGED vars
             \/ \E mode \in IdleModes : EnableIdleMode(mode)
      PROVE  CountInv'
  <2>1. UNCHANGED <<interface_type_, count, current, failures, in_a_row>>
    BY <1>5 DEF RestoreWindow, EnableIdleMode, Tick, WindowChanges, vars,
                stateVars, sessionVars, historyVars
  <2> QED
    BY <1>2, <2>1
<1> QED
  BY <1>1, <1>3, <1>4, <1>5 DEF Next, Round, Look

(* Three failed loads, or falls out of the game, in a row make the engine  *)
(* leave the room, and no failure before the third of a session does       *)
(* (FailuresLeaveRoom, ClassifierIdleEngine.cpp:96-97, 248-270, 325-346).  *)
THEOREM FailuresAreCounted == Spec => FailuresLeaveRoom
<1> DEFINE Left(a) ==
      (interface_type_ = a /\ interface_type_' = "ROOM") =>
        /\ in_a_row'[a] = 3 => order'[1] = "CMD_CREATE_GAME_ROOM"
        /\ order'[1] = "CMD_CREATE_GAME_ROOM" => failures'[a] = 3
<1>1. ASSUME TypeOK, CountInv, NEW label \in Labels, Discriminate(label),
             NEW a \in Abnormal, interface_type_ = a,
             interface_type_' = "ROOM"
      PROVE  /\ in_a_row'[a] = 3 => order'[1] = "CMD_CREATE_GAME_ROOM"
             /\ order'[1] = "CMD_CREATE_GAME_ROOM" => failures'[a] = 3
  <2> DEFINE seen == Seen(label)
  <2>1. ~Unexpected(seen)
    <3>1. Unexpected(seen) => interface_type_' = interface_type_
      BY <1>1 DEF Discriminate, stateVars
    <3> QED
      BY <1>1, <3>1 DEF Abnormal
  <2>2. /\ command_type_' = CommandFor(seen)
        /\ order' = <<command_type_', ModeOf(command_type_')>>
        /\ MoveTo(IF LoginIsOverdue(seen) THEN "UNKNOWN" ELSE seen)
        /\ CountReturns(seen) /\ RecordReturns(seen)
        /\ RecordRow(interface_type_')
    BY <1>1, <2>1, Zenon DEF Discriminate
  <2>3. seen = "ROOM" /\ AbnormalReturn(seen)
    BY <1>1, <2>2 DEF MoveTo, AbnormalReturn
  <2>4. /\ in_a_row'[a] = 3 => TooManyReturns(a)
        /\ TooManyReturns(a) => failures'[a] = 3
    BY <1>1, <2>2, <2>3, CountReturn
  <2>5. order'[1] = RoomCommand
    BY <2>2, <2>3 DEF CommandFor
  <2>6. RoomCommand = "CMD_CREATE_GAME_ROOM" <=> TooManyReturns(a)
    BY <1>1 DEF RoomCommand, Abnormal
  <2> QED
    BY <2>4, <2>5, <2>6
<1>2. ASSUME TypeOK, NEW a \in Abnormal, interface_type_ = a,
             interface_type_' = "ROOM", [Next]_vars
      PROVE  Look
  <2>1. interface_type_' # interface_type_ /\ interface_type_' = "ROOM"
    BY <1>2 DEF Abnormal
  <2> QED
    BY <1>2, <2>1 DEF Next, Round, CaptureFails, DecodeFails, RestoreWindow,
                      Reconnect, DisableIdleMode, EnableIdleMode, Reset, Tick,
                      WindowChanges, vars, stateVars
<1>3. TypeOK /\ CountInv /\ [Next]_vars =>
        [\A a \in Abnormal : Left(a)]_vars
  BY <1>1, <1>2 DEF Look
<1> QED
  BY <1>3, TypeCorrect, CountInit, CountNext, PTL
  DEF Spec, FailuresLeaveRoom
=============================================================================
