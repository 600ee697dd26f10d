--------------------------- MODULE ExecutorProofs ---------------------------
(***************************************************************************)
(* Proofs about the executor, for every set of commands, any number of     *)
(* ids and every mix of disturbances.                                      *)
(***************************************************************************)
EXTENDS Executor, SequenceTheorems, TLAPS

(* The steps of the script that leave the command, the file and the task   *)
(* alone and raise nothing.                                                *)
QuietStep ==
  \/ CallSleep \/ CallPress \/ CallRelease \/ CallMany \/ LaterClick
  \/ CallMask \/ CallPlayer \/ BeginRoutine \/ OtherRoutine
  \/ SleepOn \/ SleepReturns \/ FatalRelease \/ FatalHandlerDone \/ Dead

LEMMA StepsOfNext ==
  Next => \/ QuietStep \/ FetchTask \/ FinishTask \/ CallRaises \/ EndRoutine
          \/ ReadFile \/ ReadFails \/ ManualTakeover \/ RoutineRaises
          \/ PublishRest \/ Expire \/ Renew \/ \E t \in Types : Publish(t)
  BY DEF Next, StartUp, Controller, Call, Burst, Fatal, QuietStep

LEMMA QuietStepsKeep ==
  ASSUME QuietStep
  PROVE  UNCHANGED <<file, ordered, mixed, cmd, finished, type_changed, task,
                     exception, done>>
<1> USE DEF fileVars, commandVars, flowVars, burstVars, flagVars, deviceVars,
            playerVars
<1>1. CASE CallSleep \/ CallMany \/ LaterClick
  BY <1>1 DEF CallSleep, CallMany, LaterClick
<1>2. CASE CallPress \/ CallRelease
  BY <1>2 DEF CallPress, CallRelease
<1>3. CASE CallMask \/ CallPlayer
  BY <1>3 DEF CallMask, CallPlayer
<1>4. CASE BeginRoutine \/ OtherRoutine
  BY <1>4 DEF BeginRoutine, OtherRoutine
<1>5. CASE SleepOn \/ SleepReturns
  BY <1>5 DEF SleepOn, SleepReturns
<1>6. CASE FatalRelease \/ FatalHandlerDone \/ Dead
  BY <1>6 DEF FatalRelease, FatalHandlerDone, Dead, vars
<1> QED
  BY <1>1, <1>2, <1>3, <1>4, <1>5, <1>6 DEF QuietStep

(* A quiet step never leaves the end of a routine.                         *)
LEMMA QuietStepsStay == ASSUME QuietStep PROVE pc # "restore" \/ pc' = pc
  BY DEF QuietStep, CallSleep, CallPress, CallRelease, CallMany, LaterClick,
         CallMask, CallPlayer, BeginRoutine, OtherRoutine, SleepOn,
         SleepReturns,
         FatalRelease, FatalHandlerDone, Dead, vars, Calls

(* A handler that only raises an error, or is that of the takeover.        *)
LEMMA HandlersKeep ==
  ASSUME ManualTakeover \/ RoutineRaises
  PROVE  /\ UNCHANGED <<file, ordered, mixed, cmd, finished, type_changed,
                        task, step, after, wielded, active_player,
                        fatal_handler, routine, flagVars, done>>
         /\ pc = "handle" /\ pc' = "restore"
  BY DEF ManualTakeover, RoutineRaises, Handling, fileVars, commandVars,
         flowVars, playerVars, deviceVars

-----------------------------------------------------------------------------
(* An error is on its way only at the end of a routine; unless one is, the *)
(* task under way is the one the command received last asks for.           *)
TaskInv ==
  /\ exception # "none" => pc = "restore"
  /\ exception = "none" => task = "CMD_NOP" \/ task = cmd.type

LEMMA TaskInit == Init => TaskInv
  BY DEF Init, TaskInv

LEMMA TaskNext == TaskInv /\ [Next]_vars => TaskInv'
<1> SUFFICES ASSUME TaskInv, [Next]_vars PROVE TaskInv'
  OBVIOUS
<1> USE DEF TaskInv, fileVars, commandVars, flowVars, burstVars, deviceVars
<1>1. CASE QuietStep
  BY <1>1, QuietStepsKeep, QuietStepsStay
<1>2. CASE FetchTask
  BY <1>2 DEF FetchTask, Fetched
<1>3. CASE FinishTask
  BY <1>3 DEF FinishTask
<1>4. CASE CallRaises
  BY <1>4 DEF CallRaises, Unwind
<1>5. CASE EndRoutine
  BY <1>5 DEF EndRoutine, Unwind
<1>6. CASE ReadFile
  <2>1. pc = "handle" /\ pc' = "restore" /\ exception = "none"
        /\ cmd' = file /\ task' = task
    BY <1>6 DEF ReadFile, Handling
  <2>2. CASE file.type # cmd.type
    BY <1>6, <2>1, <2>2 DEF ReadFile, AfterReceive, Interrupt, ResetRaises
  <2>3. CASE file.type = cmd.type
    BY <2>1, <2>3
  <2> QED
    BY <2>2, <2>3
<1>7. CASE ReadFails
  BY <1>7 DEF ReadFails, Handling, AfterReceive, Interrupt, ResetRaises
<1>8. CASE PublishRest \/ Renew \/ \E t \in Types : Publish(t)
  BY <1>8 DEF PublishRest, Renew, Publish, executorVars
<1>9. CASE Expire
  BY <1>9 DEF Expire
<1>10. CASE ManualTakeover \/ RoutineRaises
  BY <1>10, HandlersKeep
<1>11. CASE UNCHANGED vars
  BY <1>11 DEF vars
<1> QED
  BY <1>1, <1>2, <1>3, <1>4, <1>5, <1>6, <1>7, <1>8, <1>9, <1>10, <1>11,
     StepsOfNext

(* Between two routines the task under way is that of the command received *)
(* last (TaskIsOfCommand, Automation.lua:184-199), whatever was read when. *)
THEOREM TaskFollowsCommand == Spec => []TaskIsOfCommand
<1>1. TaskInv => TaskIsOfCommand
  BY DEF TaskInv, TaskIsOfCommand, InTask
<1> QED
  BY <1>1, TaskInit, TaskNext, PTL DEF Spec

-----------------------------------------------------------------------------
(* An order the controller sets is repeatable only when its type is.  What *)
(* is read with an id that no file mixed is that order; its id is not      *)
(* younger than the file's, and the ids of what was run are not younger    *)
(* than the id read last.                                                  *)
Whole(c) == c.type \in OneShot \ {"CMD_NOP"} => ~c.repeatable

OnceInv ==
  /\ file \in Directives /\ cmd \in Directives /\ ordered \in Directives
  /\ mixed \subseteq 0..ordered.id
  /\ cmd.id <= file.id /\ file.id <= ordered.id
  /\ \A i \in done : i \in Nat /\ i <= cmd.id
  /\ Whole(ordered)
  /\ file.id \notin mixed => ordered.id \notin mixed
  /\ ordered.id \notin mixed =>
       /\ file.id = ordered.id /\ file.type = ordered.type
       /\ file.repeatable = ordered.repeatable
  /\ cmd.id \notin mixed =>
       /\ Whole(cmd)
       /\ cmd.id = file.id => cmd.type = file.type
       /\ cmd.id \in done => finished /\ cmd.type \in OneShot \ {"CMD_NOP"}

LEMMA NopsAreTyped ==
  NOP \in Directives /\ [NOP EXCEPT !.repeatable = TRUE] \in Directives
<1>1. /\ 0 \in 0..MaxId /\ "CMD_NOP" \in Types
      /\ TRUE \in BOOLEAN /\ FALSE \in BOOLEAN
  BY BoundAssumption, TypesAssumption
<1> QED
  BY <1>1 DEF NOP, Directives

LEMMA OnceInit == Init => OnceInv
<1> SUFFICES ASSUME Init PROVE OnceInv
  OBVIOUS
<1>1. file \in Directives /\ cmd \in Directives /\ ordered \in Directives
  BY NopsAreTyped DEF Init
<1>2. /\ file = ordered /\ file.id = 0 /\ cmd.id = 0 /\ mixed = {}
      /\ file.type = "CMD_NOP" /\ cmd.type = "CMD_NOP" /\ done = {}
  BY DEF Init, NOP
<1> QED
  BY <1>1, <1>2 DEF OnceInv, Whole

(* Only the time points change.                                            *)
LEMMA OnceKept ==
  ASSUME OnceInv, UNCHANGED <<mixed, finished, done>>,
         file' \in Directives, cmd' \in Directives, ordered' \in Directives,
         file'.id = file.id, file'.type = file.type,
         file'.repeatable = file.repeatable,
         cmd'.id = cmd.id, cmd'.type = cmd.type,
         cmd'.repeatable = cmd.repeatable,
         ordered'.id = ordered.id, ordered'.type = ordered.type,
         ordered'.repeatable = ordered.repeatable
  PROVE  OnceInv'
  BY DEF OnceInv, Whole

(* The file becomes what was ordered, but for its time point.              *)
LEMMA OnceWritten ==
  ASSUME OnceInv, UNCHANGED <<mixed, cmd, finished, done>>,
         ordered' \in Directives, file' = ordered',
         ordered'.id = ordered.id, ordered'.type = ordered.type,
         ordered'.repeatable = ordered.repeatable
  PROVE  OnceInv'
<1>1. cmd.id \in Nat /\ file.id \in Nat /\ ordered.id \in Nat
  BY BoundAssumption DEF OnceInv, Directives
<1> QED
  BY <1>1 DEF OnceInv, Whole

LEMMA OrdersAreTyped ==
  ASSUME NEW t \in Types, NEW i \in 0..MaxId
  PROVE  Order(i, t) \in Directives /\ Whole(Order(i, t))
<1>1. (t # "CMD_NOP") \in BOOLEAN /\ (t \in Repeatable) \in BOOLEAN
  OBVIOUS
<1>2. Repeatable \cap OneShot = {}
  BY DEF Repeatable, OneShot
<1> QED
  BY <1>1, <1>2 DEF Order, Directives, Whole

LEMMA MixturesAreTyped ==
  ASSUME NEW old \in Directives, NEW new \in Directives,
         NEW f \in Mixtures(old, new)
  PROVE  f \in Directives /\ f.id \in {old.id, new.id}
<1>1. PICK a, b, c, d \in {old, new} :
        f = [id |-> a.id, type |-> b.type, fresh |-> c.fresh,
             repeatable |-> d.repeatable]
  BY DEF Mixtures
<1>2. /\ a.id \in 0..MaxId /\ b.type \in Types /\ c.fresh \in BOOLEAN
      /\ d.repeatable \in BOOLEAN
  BY DEF Directives
<1> QED
  BY <1>1, <1>2 DEF Directives

LEMMA OnceNext == TaskInv /\ OnceInv /\ [Next]_vars => OnceInv'
<1> SUFFICES ASSUME TaskInv, OnceInv, [Next]_vars PROVE OnceInv'
  OBVIOUS
<1>0. /\ MaxId \in Nat /\ cmd.id \in 0..MaxId /\ file.id \in 0..MaxId
      /\ ordered.id \in 0..MaxId
  BY BoundAssumption DEF OnceInv, Directives
<1> USE DEF fileVars, commandVars, flowVars, burstVars, deviceVars
<1>1. CASE QuietStep
  BY <1>1, QuietStepsKeep DEF OnceInv
<1>2. CASE FetchTask \/ CallRaises \/ EndRoutine \/ ReadFails
           \/ ManualTakeover \/ RoutineRaises
  <2>1. UNCHANGED <<file, ordered, mixed, cmd, finished, done>>
    BY <1>2, HandlersKeep DEF FetchTask, CallRaises, EndRoutine, ReadFails
  <2> QED
    BY <2>1 DEF OnceInv
<1>3. CASE FinishTask
  <2>1. /\ UNCHANGED <<file, ordered, mixed, cmd>>
        /\ finished' = ~cmd.repeatable
        /\ done' = IF task \in OneShot \ {"CMD_NOP"}
                   THEN done \cup {cmd.id} ELSE done
    BY <1>3 DEF FinishTask, Finish
  <2>2. task = "CMD_NOP" \/ task = cmd.type
    BY <1>3 DEF FinishTask, TaskInv
  <2>3. \A i \in done' : i \in Nat /\ i <= cmd.id
    BY <1>0, <2>1 DEF OnceInv
  <2>4. ASSUME cmd.id \notin mixed, cmd.id \in done'
        PROVE  finished' /\ cmd.type \in OneShot \ {"CMD_NOP"}
    <3>1. cmd.type \in OneShot \ {"CMD_NOP"}
      BY <2>1, <2>2, <2>4 DEF OnceInv
    <3>2. ~cmd.repeatable
      BY <2>4, <3>1 DEF OnceInv, Whole
    <3> QED
      BY <2>1, <3>1, <3>2
  <2> QED
    BY <2>1, <2>3, <2>4 DEF OnceInv
<1>4. CASE ReadFile
  <2>1. /\ UNCHANGED <<file, ordered, mixed, done>> /\ cmd' = file
        /\ finished' = StillFinished
    BY <1>4 DEF ReadFile
  <2>2. ASSUME file.id \notin mixed
        PROVE  /\ Whole(file)
               /\ file.id \in done => /\ finished'
                                      /\ file.type \in OneShot \ {"CMD_NOP"}
    <3>1. Whole(file)
      BY <2>2 DEF OnceInv, Whole
    <3>2. ASSUME file.id \in done
          PROVE  finished' /\ file.type \in OneShot \ {"CMD_NOP"}
      <4>1. file.id = cmd.id
        BY <1>0, <3>2 DEF OnceInv
      <4>2. finished /\ cmd.type \in OneShot \ {"CMD_NOP"}
            /\ cmd.type = file.type
        BY <2>2, <3>2, <4>1 DEF OnceInv
      <4>3. StillFinished
        BY <4>1, <4>2 DEF StillFinished
      <4> QED
        BY <2>1, <4>2, <4>3
    <3> QED
      BY <3>1, <3>2
  <2>3. \A i \in done : i \in Nat /\ i <= file.id
    BY <1>0 DEF OnceInv
  <2> QED
    BY <1>0, <2>1, <2>2, <2>3 DEF OnceInv
<1>5. CASE PublishRest
  BY <1>5, OnceWritten DEF PublishRest, executorVars, OnceInv
<1>6. CASE Expire
  <2>1. /\ UNCHANGED <<mixed, finished, done>>
        /\ file' = [file EXCEPT !.fresh = FALSE]
        /\ ordered' = [ordered EXCEPT !.fresh = FALSE]
        /\ cmd' = [cmd EXCEPT !.fresh = FALSE]
    BY <1>6 DEF Expire
  <2>2. \A c \in Directives :
          LET e == [c EXCEPT !.fresh = FALSE]
          IN  /\ e \in Directives /\ e.id = c.id /\ e.type = c.type
              /\ e.repeatable = c.repeatable
    BY DEF Directives
  <2>3. file \in Directives /\ cmd \in Directives /\ ordered \in Directives
    BY DEF OnceInv
  <2> QED
    BY <2>1, <2>2, <2>3, OnceKept
<1>7. CASE Renew
  <2>1. /\ UNCHANGED <<mixed, cmd, finished, done>>
        /\ ordered' = [ordered EXCEPT !.fresh = TRUE]
        /\ file' = ordered'
    BY <1>7 DEF Renew, executorVars
  <2>2. /\ ordered' \in Directives /\ ordered'.id = ordered.id
        /\ ordered'.type = ordered.type
        /\ ordered'.repeatable = ordered.repeatable
    BY <2>1 DEF OnceInv, Directives
  <2> QED
    BY <2>1, <2>2, OnceWritten
<1>8. ASSUME NEW t \in Types, Publish(t) PROVE OnceInv'
  <2>1. /\ UNCHANGED <<cmd, finished, done>>
        /\ ordered.id < MaxId
        /\ ordered' = Order(ordered.id + 1, t)
    BY <1>8 DEF Publish, executorVars
  <2>2. /\ ordered.id + 1 \in 0..MaxId /\ ordered' \in Directives
        /\ ordered'.id = ordered.id + 1 /\ Whole(ordered')
    BY <1>0, <2>1, OrdersAreTyped DEF Order
  <2>3. CASE file' = ordered' /\ UNCHANGED mixed
    <3>1. cmd.id <= ordered.id /\ cmd.id # file'.id /\ cmd.id <= file'.id
      BY <1>0, <2>2, <2>3 DEF OnceInv
    <3>2. mixed' \subseteq 0..ordered'.id
      BY <1>0, <2>2, <2>3 DEF OnceInv
    <3>3. file' \in Directives /\ file'.id <= ordered'.id
      BY <1>0, <2>2, <2>3
    <3> QED
      BY <2>1, <2>2, <2>3, <3>1, <3>2, <3>3 DEF OnceInv, Whole
  <2>4. CASE /\ file' \in Mixtures(ordered, ordered')
             /\ mixed' = mixed \cup {ordered.id, ordered'.id}
    <3>1. file' \in Directives /\ file'.id \in {ordered.id, ordered'.id}
      BY <2>2, <2>4, MixturesAreTyped DEF OnceInv
    <3>5. cmd.id <= ordered.id /\ mixed \subseteq 0..ordered.id
      BY <1>0 DEF OnceInv
    <3>6. cmd.id <= file'.id /\ file'.id <= ordered'.id
      BY <1>0, <2>2, <3>1, <3>5
    <3>7. mixed' \subseteq 0..ordered'.id
      <4>1. \A i \in 0..ordered.id : i \in 0..ordered'.id
        BY <1>0, <2>2
      <4>2. ordered.id \in 0..ordered'.id /\ ordered'.id \in 0..ordered'.id
        BY <1>0, <2>2
      <4> QED
        BY <2>4, <3>5, <4>1, <4>2
    <3>2. /\ cmd.id <= file'.id /\ file'.id <= ordered'.id
          /\ mixed' \subseteq 0..ordered'.id
      BY <3>6, <3>7
    <3>3. file'.id \in mixed' /\ ordered'.id \in mixed'
      BY <2>4, <3>1
    <3>4. cmd.id \notin mixed' => cmd.id \notin mixed /\ cmd.id # file'.id
      BY <2>4, <3>3
    <3> QED
      BY <2>1, <2>2, <3>1, <3>2, <3>3, <3>4 DEF OnceInv, Whole
  <2> QED
    BY <1>8, <2>3, <2>4 DEF Publish
<1>9. CASE UNCHANGED vars
  BY <1>9 DEF vars, OnceInv
<1> QED
  BY <1>1, <1>2, <1>3, <1>4, <1>5, <1>6, <1>7, <1>8, <1>9, StepsOfNext

(* A command that is not repeatable is run at most once to its end, when   *)
(* its file is read again or late, unless a file mixed it with another     *)
(* (OneShotRunsOnce, Command.lua:71-130).                                  *)
THEOREM OneShotNotRepeated == Spec => OneShotRunsOnce
<1>1. ASSUME OnceInv, FetchTask, task' \in OneShot \ {"CMD_NOP"},
             cmd.id \notin mixed
      PROVE  cmd.id \notin done
  <2>1. ~finished
    BY <1>1 DEF FetchTask, Fetched
  <2> QED
    BY <1>1, <2>1 DEF OnceInv
<1>2. OnceInv /\ [Next]_vars =>
        [(FetchTask /\ task' \in OneShot \ {"CMD_NOP"} /\ cmd.id \notin mixed)
           => cmd.id \notin done]_vars
  BY <1>1
<1> QED
  BY <1>2, OnceInit, OnceNext, TaskInit, TaskNext, PTL
  DEF Spec, OneShotRunsOnce

-----------------------------------------------------------------------------
(* The calls of the tasks.                                                 *)

Calling ==
  {Click, Clicks, ClickOn, Sleep, <<"mask">>, <<"unmask">>, <<"deactivate">>}
    \cup {Press(k) : k \in Pressable} \cup {Release(k) : k \in Pressable}
    \cup {<<"activate", p>> : p \in Players}
    \cup {<<"wield", p>> : p \in Players}
    \cup {<<"unwield", p>> : p \in Players}

(* The first word of a call tells what it is and what its argument is.     *)
LEMMA CallShapes ==
  ASSUME NEW c \in Calling
  PROVE  /\ c[1] = "mask" <=> c = <<"mask">>
         /\ c[1] = "unmask" <=> c = <<"unmask">>
         /\ c[1] = "press" => c[2] \in Pressable /\ c = Press(c[2])
         /\ c[1] = "release" => c[2] \in Pressable /\ c = Release(c[2])
         /\ c[1] = "wield" => c[2] \in Players /\ c = <<"wield", c[2]>>
         /\ c[1] = "unwield" => c[2] \in Players /\ c = <<"unwield", c[2]>>
         /\ c[1] = "activate" => c[2] \in Players
  BY DEF Calling, Click, Clicks, ClickOn, Sleep, Press, Release

PlaySteps(p) ==
  <<<<"activate", p>>, <<"mask">>, Click, <<"unmask">>, ClickOn, Press("W"),
    <<"wield", p>>, Press("ATTACK"), Release("ATTACK"), <<"unwield", p>>,
    Release("W"), <<"wield", p>>, Press("ATTACK"), Release("ATTACK"),
    <<"unwield", p>>, <<"deactivate">>>>

(* s is the first n calls of all.                                          *)
First(n, all, s) ==
  s \in Seq(Calling) /\ Len(s) = n /\ \A i \in 1..n : s[i] = all[i]

LEMMA Concatenation ==
  ASSUME NEW s \in Seq(Calling), NEW r \in Seq(Calling)
  PROVE  /\ s \o r \in Seq(Calling) /\ Len(s \o r) = Len(s) + Len(r)
         /\ \A i \in 1..Len(s) : (s \o r)[i] = s[i]
         /\ \A i \in 1..Len(r) : (s \o r)[Len(s) + i] = r[i]
<1>1. /\ s \o r \in Seq(Calling) /\ Len(s \o r) = Len(s) + Len(r)
      /\ \A i \in 1..(Len(s) + Len(r)) :
           (s \o r)[i] = IF i <= Len(s) THEN s[i] ELSE r[i - Len(s)]
  BY ConcatProperties
<1>2. Len(s) \in Nat /\ Len(r) \in Nat
  OBVIOUS
<1>3. ASSUME NEW i \in 1..Len(r) PROVE (s \o r)[Len(s) + i] = r[i]
  <2>1. /\ Len(s) + i \in 1..(Len(s) + Len(r))
        /\ ~(Len(s) + i <= Len(s)) /\ (Len(s) + i) - Len(s) = i
    BY <1>2
  <2> QED
    BY <1>1, <2>1
<1> QED
  BY <1>1, <1>2, <1>3

LEMMA FirstOfMore ==
  ASSUME NEW n \in Nat, NEW m \in Nat, NEW all, NEW s, First(n, all, s),
         NEW r \in Seq(Calling), Len(r) = m,
         \A i \in 1..m : all[n + i] = r[i]
  PROVE  First(n + m, all, s \o r)
<1>1. /\ s \o r \in Seq(Calling) /\ Len(s \o r) = n + m
      /\ \A i \in 1..n : (s \o r)[i] = s[i]
      /\ \A i \in 1..m : (s \o r)[n + i] = r[i]
  BY Concatenation DEF First
<1>2. ASSUME NEW i \in 1..(n + m) PROVE (s \o r)[i] = all[i]
  <2>1. CASE i <= n
    BY <1>1, <2>1 DEF First
  <2>2. CASE ~(i <= n)
    <3>1. i - n \in 1..m /\ n + (i - n) = i
      BY <2>2
    <3> QED
      BY <1>1, <3>1
  <2> QED
    BY <2>1, <2>2
<1> QED
  BY <1>1, <1>2 DEF First

LEMMA FirstOfOneMore ==
  ASSUME NEW n \in Nat, NEW all, NEW s, First(n, all, s),
         NEW c \in Calling, all[n + 1] = c
  PROVE  First(n + 1, all, s \o <<c>>)
<1>1. /\ <<c>> \in Seq(Calling) /\ Len(<<c>>) = 1
      /\ \A i \in 1..1 : all[n + i] = <<c>>[i]
  OBVIOUS
<1> QED
  BY <1>1, FirstOfMore

(* Play(p) is these sixteen calls.                                         *)
LEMMA PlayIs ==
  ASSUME NEW p \in Players
  PROVE  First(16, PlaySteps(p), Play(p))
<1> DEFINE all == PlaySteps(p)
           a == <<<<"activate", p>>>>
           b == a \o Purchase
           c == b \o <<Press("W")>>
           d == c \o Attack(p)
           e == d \o <<Release("W")>>
           f == e \o Attack(p)
<1>1. /\ <<"activate", p>> \in Calling /\ <<"deactivate">> \in Calling
      /\ Press("W") \in Calling /\ Release("W") \in Calling
      /\ Purchase \in Seq(Calling) /\ Attack(p) \in Seq(Calling)
  BY DEF Calling, Purchase, Attack, Pressable, Keys, Buttons
<1>2. First(1, all, a)
  BY <1>1 DEF First, PlaySteps
<1>3. First(5, all, b)
  <2>1. Len(Purchase) = 4 /\ \A i \in 1..4 : all[1 + i] = Purchase[i]
    BY DEF Purchase, PlaySteps
  <2>2. First(1 + 4, all, b)
    BY <1>1, <1>2, <2>1, FirstOfMore
  <2> QED
    BY <2>2
<1>4. First(6, all, c)
  <2>1. all[5 + 1] = Press("W")
    BY DEF PlaySteps
  <2> HIDE DEF all, b
  <2>2. First(5 + 1, all, c)
    BY <1>1, <1>3, <2>1, FirstOfOneMore
  <2> QED
    BY <2>2
<1>5. Len(Attack(p)) = 4
  BY DEF Attack
<1>6. First(10, all, d)
  <2>1. \A i \in 1..4 : all[6 + i] = Attack(p)[i]
    BY DEF Attack, PlaySteps
  <2> HIDE DEF all, c
  <2>2. First(6 + 4, all, d)
    BY <1>1, <1>4, <1>5, <2>1, FirstOfMore
  <2> QED
    BY <2>2
<1>7. First(11, all, e)
  <2>1. all[10 + 1] = Release("W")
    BY DEF PlaySteps
  <2> HIDE DEF all, d
  <2>2. First(10 + 1, all, e)
    BY <1>1, <1>6, <2>1, FirstOfOneMore
  <2> QED
    BY <2>2
<1>8. First(15, all, f)
  <2>1. \A i \in 1..4 : all[11 + i] = Attack(p)[i]
    BY DEF Attack, PlaySteps
  <2> HIDE DEF all, e
  <2>2. First(11 + 4, all, f)
    BY <1>1, <1>5, <1>7, <2>1, FirstOfMore
  <2> QED
    BY <2>2
<1>9. First(16, all, f \o <<<<"deactivate">>>>)
  <2>1. all[15 + 1] = <<"deactivate">>
    BY DEF PlaySteps
  <2> HIDE DEF all, f
  <2>2. First(15 + 1, all, f \o <<<<"deactivate">>>>)
    BY <1>1, <1>8, <2>1, FirstOfOneMore
  <2> QED
    BY <2>2
<1> QED
  BY <1>9 DEF Play

(* Where in its sixteen calls Play(p) masks, presses and wields.           *)
LEMMA PlayLayout ==
  ASSUME NEW p \in Players, NEW i \in 1..16
  PROVE  LET c == PlaySteps(p)[i]
         IN  /\ c[1] = "mask" <=> i = 2
             /\ c[1] = "unmask" <=> i = 4
             /\ c[1] = "press" <=> i \in {6, 8, 13}
             /\ c[1] = "wield" <=> i \in {7, 12}
             /\ c[1] = "unwield" <=> i \in {10, 15}
             /\ c[1] \in {"wield", "unwield"} => c[2] = p
             /\ i = 6 => c[2] = "W"
             /\ i \in {8, 13} => c[2] = "ATTACK"
             /\ i \in {9, 14} => c = Release("ATTACK")
             /\ i = 11 => c = Release("W")
  BY DEF PlaySteps, Click, ClickOn, Press, Release

(* A task that plays as p after its first n calls, which only click.       *)
Plays(t, n, p) ==
  /\ Task[t] \in Seq(Calling) /\ Len(Task[t]) = n + 16
  /\ \A i \in 1..n : Task[t][i] \in {Clicks, ClickOn}
  /\ \A i \in 1..16 : Task[t][n + i] = PlaySteps(p)[i]

LEMMA IdleTasks ==
  ASSUME NEW t \in IdleCommands
  PROVE  \E n \in {0, 4}, p \in Players : Plays(t, n, p)
<1>1. ASSUME NEW p \in Players, Task[t] = Play(p) PROVE Plays(t, 0, p)
  BY <1>1, PlayIs DEF Plays, First
<1>2. ASSUME NEW p \in Players, Task[t] = ConfirmResults \o Play(p)
      PROVE  Plays(t, 4, p)
  <2>1. /\ ConfirmResults \in Seq(Calling) /\ Len(ConfirmResults) = 4
        /\ \A i \in 1..4 : ConfirmResults[i] \in {Clicks, ClickOn}
    BY DEF ConfirmResults, Calling
  <2>2. /\ Play(p) \in Seq(Calling) /\ Len(Play(p)) = 16
        /\ \A i \in 1..16 : Play(p)[i] = PlaySteps(p)[i]
    BY PlayIs DEF First
  <2>3. /\ Task[t] \in Seq(Calling) /\ Len(Task[t]) = 4 + 16
        /\ \A i \in 1..4 : Task[t][i] = ConfirmResults[i]
        /\ \A i \in 1..16 : Task[t][4 + i] = Play(p)[i]
    <3> DEFINE s == ConfirmResults
               r == Play(p)
    <3>1. s \in Seq(Calling) /\ r \in Seq(Calling) /\ Task[t] = s \o r
          /\ Len(s) = 4 /\ Len(r) = 16
      BY <1>2, <2>1, <2>2
    <3> HIDE DEF s, r
    <3>2. /\ s \o r \in Seq(Calling) /\ Len(s \o r) = Len(s) + Len(r)
          /\ \A i \in 1..Len(s) : (s \o r)[i] = s[i]
          /\ \A i \in 1..Len(r) : (s \o r)[Len(s) + i] = r[i]
      BY <3>1, Concatenation
    <3>3. /\ Task[t] \in Seq(Calling) /\ Len(Task[t]) = 4 + 16
          /\ \A i \in 1..4 : Task[t][i] = s[i]
          /\ \A i \in 1..16 : Task[t][4 + i] = r[i]
      BY <3>1, <3>2
    <3> QED
      BY <3>3 DEF s, r
  <2> QED
    BY <2>1, <2>2, <2>3 DEF Plays
<1>3. \E p \in Players : Task[t] = Play(p)
                         \/ Task[t] = ConfirmResults \o Play(p)
  <2>1. /\ Task["CMD_DEFAULT_IDLE"] = ConfirmResults \o Play("default")
        /\ Task["CMD_EXTENDED_IDLE"] = ConfirmResults \o Play("extended")
        /\ Task["CMD_DEFAULT_IDLE_2"] = Play("default")
        /\ Task["CMD_EXTENDED_IDLE_2"] = Play("extended")
    BY DEF Task
  <2> QED
    BY <2>1 DEF IdleCommands, Players
<1> QED
  BY <1>1, <1>2, <1>3

-----------------------------------------------------------------------------
(* What is masked, held and wielded before the s-th call of a task that    *)
(* nothing has disturbed.                                                  *)
MaskedAt(t, s) ==
  \E i \in 1..(s - 1) :
    /\ Task[t][i] = <<"mask">>
    /\ \A j \in (i + 1)..(s - 1) : Task[t][j] # <<"unmask">>

HeldAt(t, s) ==
  {k \in Pressable :
     \E i \in 1..(s - 1) :
       /\ Task[t][i] = Press(k)
       /\ \A j \in (i + 1)..(s - 1) : Task[t][j] # Release(k)}

WieldedAt(t, s) ==
  {p \in Players :
     \E i \in 1..(s - 1) :
       /\ Task[t][i] = <<"wield", p>>
       /\ \A j \in (i + 1)..(s - 1) : Task[t][j][1] # "unwield"}

(* A task undoes what it does, masks and wields one thing at a time, and   *)
(* presses one key only.                                                   *)
Bracketed(t) ==
  /\ Task[t] \in Seq(Calling)
  /\ \A s \in 1..Len(Task[t]) :
       /\ Task[t][s][1] = "mask" => ~MaskedAt(t, s)
       /\ Task[t][s][1] = "unmask" => MaskedAt(t, s)
       /\ Task[t][s][1] = "unwield" =>
            WieldedAt(t, s) \subseteq {Task[t][s][2]}
  /\ \E x : \A s \in 1..Len(Task[t]) : \A k \in Keys :
       Task[t][s] = Press(k) => k = x
  /\ LET s == Len(Task[t]) + 1
     IN  ~MaskedAt(t, s) /\ HeldAt(t, s) = {} /\ WieldedAt(t, s) = {}

LEMMA PlayingIsBracketed ==
  ASSUME NEW t, NEW n \in {0, 4}, NEW p \in Players, Plays(t, n, p)
  PROVE  Bracketed(t)
<1> DEFINE c == Task[t]
<1>1. c \in Seq(Calling) /\ Len(c) = n + 16
  BY DEF Plays
<1>10. \A i \in 1..n : c[i] \in {Clicks, ClickOn}
  BY DEF Plays
<1>11. \A i \in 1..16 : c[n + i] = PlaySteps(p)[i]
  BY DEF Plays
<1> HIDE DEF c
<1>0. n \in Nat
  OBVIOUS
<1>2. ASSUME NEW i \in 1..(n + 16)
      PROVE  /\ c[i] \in Calling
             /\ c[i][1] = "mask" <=> i = n + 2
             /\ c[i][1] = "unmask" <=> i = n + 4
             /\ c[i][1] = "press" <=> i \in {n + 6, n + 8, n + 13}
             /\ c[i][1] = "wield" <=> i \in {n + 7, n + 12}
             /\ c[i][1] = "unwield" <=> i \in {n + 10, n + 15}
             /\ c[i][1] \in {"wield", "unwield"} => c[i][2] = p
             /\ i = n + 6 => c[i][2] = "W"
             /\ i \in {n + 8, n + 13} => c[i][2] = "ATTACK"
             /\ i \in {n + 9, n + 14} => c[i] = Release("ATTACK")
             /\ i = n + 11 => c[i] = Release("W")
  <2>1. CASE i <= n
    <3>1. c[i] \in Calling
      BY <1>1
    <3>2. c[i] \in {Clicks, ClickOn}
      BY <1>0, <1>10, <2>1
    <3>3. c[i] = <<"clicks">> \/ c[i] = <<"click_on">>
      BY <3>2 DEF Clicks, ClickOn
    <3> QED
      BY <2>1, <3>1, <3>3
  <2>2. CASE ~(i <= n)
    <3>1. i - n \in 1..16 /\ n + (i - n) = i
      BY <2>2
    <3>2. c[i] = PlaySteps(p)[i - n]
      BY <1>11, <3>1
    <3> DEFINE d == i - n
    <3>3. d \in 1..16 /\ c[i] = PlaySteps(p)[d] /\ i = n + d
      BY <3>1, <3>2
    <3> HIDE DEF d
    <3>4. c[i] \in Calling
      BY <1>1
    <3> QED
      BY <3>3, <3>4, PlayLayout
  <2> QED
    BY <2>1, <2>2
<1>3. ASSUME NEW s \in 1..(n + 17)
      PROVE  MaskedAt(t, s) <=> s \in {n + 3, n + 4}
  <2>1. ASSUME NEW i \in 1..(s - 1)
        PROVE  /\ c[i] = <<"mask">> <=> i = n + 2
               /\ c[i] = <<"unmask">> <=> i = n + 4
    BY <1>2, CallShapes
  <2>2. MaskedAt(t, s) <=>
          \E i \in 1..(s - 1) :
            /\ c[i] = <<"mask">>
            /\ \A j \in (i + 1)..(s - 1) : c[j] # <<"unmask">>
    BY DEF MaskedAt, c
  <2> QED
    BY <2>1, <2>2
<1>4. ASSUME NEW s \in 1..(n + 17) PROVE WieldedAt(t, s) \subseteq {p}
  BY <1>2, CallShapes DEF WieldedAt, c
<1>5. WieldedAt(t, n + 17) = {}
  <2>1. ASSUME NEW q \in Players, NEW i \in 1..(n + 16),
               c[i] = <<"wield", q>>
        PROVE  \E j \in (i + 1)..(n + 16) : c[j][1] = "unwield"
    BY <1>2, <2>1
  <2> QED
    BY <2>1 DEF WieldedAt, c
<1>6. HeldAt(t, n + 17) = {}
  <2>1. ASSUME NEW k \in Pressable, NEW i \in 1..(n + 16), c[i] = Press(k)
        PROVE  \E j \in (i + 1)..(n + 16) : c[j] = Release(k)
    <3>1. c[i][1] = "press" /\ c[i][2] = k
      BY <2>1 DEF Press
    <3> QED
      BY <1>2, <3>1
  <2> QED
    BY <2>1 DEF HeldAt, c
<1>7. ASSUME NEW s \in 1..Len(c)
      PROVE  /\ c[s][1] = "mask" => ~MaskedAt(t, s)
             /\ c[s][1] = "unmask" => MaskedAt(t, s)
             /\ c[s][1] = "unwield" => WieldedAt(t, s) \subseteq {c[s][2]}
  <2>1. s \in 1..(n + 16) /\ s \in 1..(n + 17)
    BY <1>1
  <2> QED
    BY <1>2, <1>3, <1>4, <2>1
<1>8. Len(c) + 1 = n + 17 /\ ~MaskedAt(t, n + 17)
  <2>1. n + 17 \in 1..(n + 17) /\ n + 17 \notin {n + 3, n + 4}
    BY <1>0
  <2>2. ~MaskedAt(t, n + 17)
    BY <1>3, <2>1
  <2> QED
    BY <1>0, <1>1, <2>2
<1>9. /\ ~MaskedAt(t, Len(c) + 1) /\ HeldAt(t, Len(c) + 1) = {}
      /\ WieldedAt(t, Len(c) + 1) = {}
  BY <1>5, <1>6, <1>8
<1>12. ASSUME NEW s \in 1..Len(c), NEW k \in Keys, c[s] = Press(k)
       PROVE  k = "W"
  <2>1. c[s][1] = "press" /\ c[s][2] = k
    BY <1>12 DEF Press
  <2>2. s \in 1..(n + 16) /\ k # "ATTACK"
    BY <1>1 DEF Keys
  <2> QED
    BY <1>2, <2>1, <2>2
<1>13. \E x : \A s \in 1..Len(c) : \A k \in Keys : c[s] = Press(k) => k = x
  BY <1>12
<1> QED
  BY <1>1, <1>7, <1>9, <1>13 DEF Bracketed, c

(* A task that presses ENTER with its second call and releases it with its *)
(* fourth.                                                                 *)
LEMMA CombiningIsBracketed == Bracketed("CMD_BATCH_COMBINE_PARTS")
<1> DEFINE t == "CMD_BATCH_COMBINE_PARTS"
           c == Task[t]
<1>1. c = <<Sleep, Press("ENTER"), ClickOn, Release("ENTER")>>
  BY DEF Task
<1>2. c \in Seq(Calling) /\ Len(c) = 4
  BY <1>1 DEF Calling, Pressable, Keys
<1>3. /\ c[1] = Sleep /\ c[2] = Press("ENTER") /\ c[3] = ClickOn
      /\ c[4] = Release("ENTER")
  BY <1>1
<1> HIDE DEF c
<1>4. ASSUME NEW i \in 1..4
      PROVE  /\ c[i][1] \notin {"mask", "unmask", "wield", "unwield"}
             /\ c[i] # <<"mask">> /\ \A p : c[i] # <<"wield", p>>
             /\ \A k : c[i] = Press(k) => i = 2 /\ k = "ENTER"
  BY <1>3 DEF Sleep, Press, ClickOn, Release
<1>5. ~MaskedAt(t, 5) /\ WieldedAt(t, 5) = {}
  BY <1>4 DEF MaskedAt, WieldedAt, c
<1>6. HeldAt(t, 5) = {}
  <2>1. ASSUME NEW k \in Pressable, NEW i \in 1..4, c[i] = Press(k)
        PROVE  \E j \in (i + 1)..4 : c[j] = Release(k)
    BY <1>3, <1>4, <2>1
  <2> QED
    BY <2>1 DEF HeldAt, c
<1>7. Len(c) + 1 = 5
  BY <1>2
<1>8. \E x : \A s \in 1..Len(c) : \A k \in Keys : c[s] = Press(k) => k = x
  <2>1. \A s \in 1..Len(c) : \A k \in Keys : c[s] = Press(k) => k = "ENTER"
    BY <1>2, <1>4
  <2> HIDE <1>4
  <2> QED
    BY <2>1, Zenon
<1> QED
  BY <1>2, <1>4, <1>5, <1>6, <1>7, <1>8 DEF Bracketed, c

(* All the others only click and sleep.                                    *)
LEMMA ClickingIsBracketed ==
  ASSUME NEW t, Task[t] \in Seq({Click, Clicks, ClickOn, Sleep})
  PROVE  Bracketed(t)
<1> DEFINE c == Task[t]
<1>1. c \in Seq(Calling)
  BY DEF Calling
<1>2. ASSUME NEW i \in 1..Len(c)
      PROVE  /\ c[i][1] \notin {"mask", "unmask", "wield", "unwield"}
             /\ c[i] # <<"mask">> /\ \A p : c[i] # <<"wield", p>>
             /\ \A k : c[i] # Press(k)
  <2>1. c[i] \in {Click, Clicks, ClickOn, Sleep}
    OBVIOUS
  <2> HIDE DEF c
  <2> QED
    BY <2>1 DEF Click, Clicks, ClickOn, Sleep, Press
<1> HIDE DEF c
<1>3. LET s == Len(c) + 1
      IN  ~MaskedAt(t, s) /\ HeldAt(t, s) = {} /\ WieldedAt(t, s) = {}
  <2>1. Len(c) + 1 - 1 = Len(c)
    BY <1>1
  <2> QED
    BY <1>2, <2>1 DEF MaskedAt, HeldAt, WieldedAt, c
<1>4. \E x : \A s \in 1..Len(c) : \A k \in Keys : c[s] = Press(k) => k = x
  BY <1>2
<1> QED
  BY <1>1, <1>2, <1>3, <1>4 DEF Bracketed, c

LEMMA TasksAreBracketed ==
  ASSUME NEW t \in Types
  PROVE  Bracketed(t)
<1>1. CASE t \in IdleCommands
  <2>1. \E n \in {0, 4}, p \in Players : Plays(t, n, p)
    BY <1>1, IdleTasks
  <2> QED
    BY <2>1, PlayingIsBracketed
<1>2. CASE t = "CMD_BATCH_COMBINE_PARTS"
  BY <1>2, CombiningIsBracketed
<1>3. CASE t \notin IdleCommands \cup {"CMD_BATCH_COMBINE_PARTS"}
  <2>1. t \in {"CMD_NOP", "CMD_START_GAME_ROOM", "CMD_CHOOSE_CHARACTER",
               "CMD_BATCH_PURCHASE_ITEM", "CMD_LOCATE_CURSOR",
               "CMD_WAIT_FOR_LOADING", "CMD_CONFIRM_RESULTS",
               "CMD_CREATE_GAME_ROOM", "CMD_CLEAR_POPUPS"}
    BY <1>3, TypesAssumption DEF IdleCommands, Repeatable, OneShot
  <2>2. Task[t] \in Seq({Click, Clicks, ClickOn, Sleep})
    <3> USE DEF Task
    <3>1. CASE t = "CMD_NOP" BY <3>1
    <3>2. CASE t = "CMD_START_GAME_ROOM" BY <3>2
    <3>3. CASE t = "CMD_CHOOSE_CHARACTER" BY <3>3
    <3>4. CASE t = "CMD_BATCH_PURCHASE_ITEM" BY <3>4
    <3>5. CASE t = "CMD_LOCATE_CURSOR" BY <3>5
    <3>6. CASE t = "CMD_WAIT_FOR_LOADING" BY <3>6
    <3>7. CASE t = "CMD_CONFIRM_RESULTS" BY <3>7 DEF ConfirmResults
    <3>8. CASE t = "CMD_CREATE_GAME_ROOM" BY <3>8
    <3>9. CASE t = "CMD_CLEAR_POPUPS" BY <3>9
    <3> QED
      BY <2>1, <3>1, <3>2, <3>3, <3>4, <3>5, <3>6, <3>7, <3>8, <3>9
  <2> QED
    BY <2>2, ClickingIsBracketed
<1> QED
  BY <1>1, <1>2, <1>3

(* What the next call changes.                                             *)
LEMMA MaskStep ==
  ASSUME NEW t, NEW s \in Nat \ {0}
  PROVE  MaskedAt(t, s + 1) <=>
           Task[t][s] = <<"mask">> \/ (MaskedAt(t, s)
                                         /\ Task[t][s] # <<"unmask">>)
<1>1. /\ (s + 1) - 1 = s /\ 1..s = 1..(s - 1) \cup {s} /\ s \notin 1..(s - 1)
      /\ (s + 1)..s = {}
  OBVIOUS
<1>2. \A i \in 1..(s - 1) : (i + 1)..s = (i + 1)..(s - 1) \cup {s}
  OBVIOUS
<1>3. Task[t][s] = <<"mask">> => Task[t][s] # <<"unmask">>
  OBVIOUS
<1> DEFINE Opens(i, e) ==
             /\ Task[t][i] = <<"mask">>
             /\ \A j \in (i + 1)..e : Task[t][j] # <<"unmask">>
<1>4. \A i \in 1..(s - 1) :
        Opens(i, s) <=> Opens(i, s - 1) /\ Task[t][s] # <<"unmask">>
  BY <1>2
<1>5. Opens(s, s) <=> Task[t][s] = <<"mask">>
  BY <1>1
<1>6. /\ MaskedAt(t, s + 1) <=> \E i \in 1..s : Opens(i, s)
      /\ MaskedAt(t, s) <=> \E i \in 1..(s - 1) : Opens(i, s - 1)
  BY <1>1 DEF MaskedAt
<1> HIDE DEF Opens
<1> QED
  BY <1>1, <1>3, <1>4, <1>5, <1>6

LEMMA HeldStep ==
  ASSUME NEW t, NEW s \in Nat \ {0}, NEW k \in Pressable
  PROVE  k \in HeldAt(t, s + 1) <=>
           Task[t][s] = Press(k) \/ (k \in HeldAt(t, s)
                                       /\ Task[t][s] # Release(k))
  BY SMTT(30) DEF HeldAt

LEMMA WieldStep ==
  ASSUME NEW t, NEW s \in Nat \ {0}, NEW p \in Players
  PROVE  p \in WieldedAt(t, s + 1) <=>
           Task[t][s] = <<"wield", p>> \/ (p \in WieldedAt(t, s)
                                             /\ Task[t][s][1] # "unwield")
  BY SMTT(30) DEF WieldedAt

LEMMA NothingAtFirst ==
  ASSUME NEW t
  PROVE  ~MaskedAt(t, 1) /\ HeldAt(t, 1) = {} /\ WieldedAt(t, 1) = {}
  BY DEF MaskedAt, HeldAt, WieldedAt

-----------------------------------------------------------------------------
(* Control.  The task is tracked at the place a sleep returns to: a task is*)
(* fetched or finished only with nothing to do, a sleep in the middle of a *)
(* call is one of a call that clicks repeatedly, and the fatal handlers are*)
(* not left before the second has run.                                     *)
InHandler == pc \in {"handle", "restore"}

Place == IF pc \in {"routine", "handle", "restore", "slept"} THEN after ELSE pc

PlaceInv ==
  /\ Place = "fetch" => task = "CMD_NOP" /\ step = 1
  /\ Place = "inner" => step <= Len(Task[task])
                        /\ Task[task][step] \in {Clicks, ClickOn}
  /\ fatal_handler # 0 <=> Place \in {"fatal", "dead"}
  /\ pc \in {"fatal", "dead"} => fatal_handler # 0
  /\ pc = "dead" => fatal_handler = 2
  /\ exception = "__ERROR_COMMAND_CHANGED__" => routine = ReceiveCommand

(* The masking of the routines, with and without a routine under way.      *)
FlagInv ==
  /\ InHandler =>
       /\ routine_busy_flag /\ routine_mask_flag
       /\ routine_mask_flag_stack \in {<<FALSE>>, <<FALSE, TRUE>>}
       /\ routine # Takeover => routine_mask_flag_stack = <<FALSE>>
       /\ fatal_handler = 0 =>
            (routine_mask_flag_stack = <<FALSE, TRUE>>
               <=> MaskedAt(task, step))
  /\ ~InHandler =>
       /\ ~routine_busy_flag
       /\ routine_mask_flag_stack = IF routine_mask_flag THEN <<FALSE>>
                                                         ELSE <<>>
       /\ fatal_handler = 0 => (routine_mask_flag <=> MaskedAt(task, step))

(* The task never holds two keys.                                          *)
LEMMA OneKey ==
  ASSUME NEW t \in Types, NEW s \in 1..(Len(Task[t]) + 1)
  PROVE  \A k, l \in HeldAt(t, s) \cap Keys : k = l
<1>1. PICK x : \A i \in 1..Len(Task[t]) : \A k \in Keys :
                 Task[t][i] = Press(k) => k = x
  BY TasksAreBracketed DEF Bracketed
<1>2. Len(Task[t]) \in Nat
  BY TasksAreBracketed DEF Bracketed
<1>3. ASSUME NEW k \in HeldAt(t, s) \cap Keys PROVE k = x
  <2>1. PICK i \in 1..(s - 1) : Task[t][i] = Press(k)
    BY DEF HeldAt
  <2>2. i \in 1..Len(Task[t])
    BY <1>2
  <2> QED
    BY <1>1, <2>1, <2>2
<1> QED
  BY <1>3

LEMMA CallOfTask ==
  ASSUME TypeOK, step <= Len(Task[task])
  PROVE  /\ step \in 1..Len(Task[task]) /\ step \in Nat \ {0}
         /\ step + 1 \in 1..(Len(Task[task]) + 1)
         /\ Task[task][step] \in Calling
<1>1. Task[task] \in Seq(Calling) /\ task \in Types
      /\ step \in 1..(Len(Task[task]) + 1)
  BY TasksAreBracketed DEF TypeOK, Bracketed
<1>2. Len(Task[task]) \in Nat
  BY <1>1
<1> QED
  BY <1>1, <1>2

(* The calls that neither mask nor unmask.                                 *)
LEMMA MaskKept ==
  ASSUME TypeOK, step <= Len(Task[task]),
         Task[task][step][1] \notin {"mask", "unmask"}
  PROVE  MaskedAt(task, step + 1) <=> MaskedAt(task, step)
  BY CallOfTask, CallShapes, MaskStep

LEMMA PlaceInit == Init => PlaceInv /\ FlagInv
  BY NothingAtFirst DEF Init, PlaceInv, FlagInv, Place, InHandler

LEMMA PlaceNext == TypeOK /\ PlaceInv /\ TaskInv /\ [Next]_vars => PlaceInv'
<1> SUFFICES ASSUME TypeOK, PlaceInv, TaskInv, [Next]_vars PROVE PlaceInv'
  OBVIOUS
<1> USE DEF PlaceInv, Place, flowVars, burstVars
<1>1. CASE FetchTask \/ FinishTask
  BY <1>1 DEF FetchTask, FinishTask, SleepThen, TaskInv
<1>2. CASE CallSleep \/ CallPress \/ CallRelease
  BY <1>2 DEF CallSleep, CallPress, CallRelease, SleepThen, Calls, TaskInv
<1>3. CASE CallMany
  <2>1. pc = "call" /\ step <= Len(Task[task])
        /\ Task[task][step][1] \in {"clicks", "click_on"}
    BY <1>3 DEF CallMany, Calls
  <2>2. Task[task][step] \in {Clicks, ClickOn}
    <3>1. Task[task][step] \in Calling
      BY <2>1, CallOfTask
    <3> QED
      BY <2>1, <3>1 DEF Calling, Click, Clicks, ClickOn, Sleep, Press, Release
  <2> QED
    BY <1>3, <2>1, <2>2 DEF CallMany, SleepThen, TaskInv
<1>4. CASE LaterClick
  BY <1>4 DEF LaterClick, SleepThen, TaskInv
<1>5. CASE CallMask \/ CallPlayer
  BY <1>5 DEF CallMask, CallPlayer, TaskInv
<1>6. CASE CallRaises
  BY <1>6 DEF CallRaises, Unwind, NextFatalHandler, TaskInv
<1>7. CASE BeginRoutine
  BY <1>7 DEF BeginRoutine, NextRoutine, TaskInv
<1>8. CASE EndRoutine
  <2>1. CASE exception = "none"
    BY <1>8, <2>1 DEF EndRoutine, NextRoutine
  <2>2. CASE exception # "none" /\ fatal_handler = 0
    BY <1>8, <2>2 DEF EndRoutine, Unwind
  <2>3. CASE exception # "none" /\ fatal_handler # 0
    <3>1. /\ exception' = "none" /\ NextFatalHandler
      BY <1>8, <2>3 DEF EndRoutine, Unwind
    <3>2. fatal_handler \in 1..2
      BY <2>3 DEF TypeOK
    <3> QED
      BY <3>1, <3>2 DEF NextFatalHandler
  <2> QED
    BY <2>1, <2>2, <2>3
<1>9. CASE ManualTakeover \/ RoutineRaises \/ OtherRoutine
  BY <1>9 DEF ManualTakeover, RoutineRaises, ResetRaises, OtherRoutine,
              Handling, TaskInv
<1>10. CASE ReadFile \/ ReadFails
  BY <1>10 DEF ReadFile, ReadFails, AfterReceive, Handling, Interrupt,
               ResetRaises, TaskInv
<1>11. CASE SleepOn \/ SleepReturns
  BY <1>11 DEF SleepOn, SleepReturns, SleepThen, TaskInv, TypeOK
<1>12. CASE FatalRelease \/ FatalHandlerDone
  <2>1. fatal_handler \in 1..2 /\ exception = "none"
    BY <1>12 DEF FatalRelease, FatalHandlerDone, TaskInv, TypeOK
  <2> QED
    BY <1>12, <2>1
    DEF FatalRelease, FatalHandlerDone, SleepThen, NextFatalHandler
<1>13. CASE PublishRest \/ Expire \/ Renew \/ \E t \in Types : Publish(t)
  BY <1>13 DEF PublishRest, Expire, Renew, Publish, executorVars
<1>14. CASE Dead \/ UNCHANGED vars
  BY <1>14 DEF Dead, vars
<1> QED
  BY <1>1, <1>2, <1>3, <1>4, <1>5, <1>6, <1>7, <1>8, <1>9, <1>10, <1>11,
     <1>12, <1>13, <1>14
  DEF Next, StartUp, Controller, Call, Burst, Fatal

(* A step that touches neither the flags nor the task and neither enters   *)
(* nor leaves a routine.                                                   *)
LEMMA FlagsKept ==
  ASSUME FlagInv, UNCHANGED <<flagVars, task, step>>,
         InHandler' <=> InHandler, InHandler => routine' = routine,
         fatal_handler' = 0 => fatal_handler = 0
  PROVE  FlagInv'
  BY DEF FlagInv, flagVars, maskVars

(* A call, in the middle of a task, that neither masks nor unmasks.        *)
LEMMA FlagsAfterCall ==
  ASSUME TypeOK, FlagInv, ~InHandler, ~InHandler',
         step <= Len(Task[task]),
         Task[task][step][1] \notin {"mask", "unmask"},
         UNCHANGED <<flagVars, task, fatal_handler>>, step' = step + 1
  PROVE  FlagInv'
  BY MaskKept DEF FlagInv, flagVars, maskVars

LEMMA Pushing ==
  ASSUME NEW a, NEW b
  PROVE  Append(<<>>, a) = <<a>> /\ Append(<<a>>, b) = <<a, b>>
<1> DEFINE S == {a, b}
<1>1. <<>> \in Seq(S) /\ <<a>> \in Seq(S) /\ <<a, b>> \in Seq(S)
  OBVIOUS
<1> HIDE DEF S
<1>2. a \in S /\ b \in S
  BY DEF S
<1>3. /\ Append(<<>>, a) \in Seq(S) /\ Len(Append(<<>>, a)) = 1
      /\ Append(<<>>, a)[1] = a
  BY <1>1, <1>2, AppendProperties
<1>4. /\ Append(<<a>>, b) \in Seq(S) /\ Len(Append(<<a>>, b)) = 2
      /\ Append(<<a>>, b)[1] = a /\ Append(<<a>>, b)[2] = b
  BY <1>1, <1>2, AppendProperties
<1>5. \A i \in 1..1 : Append(<<>>, a)[i] = <<a>>[i]
  BY <1>3
<1>6. \A i \in 1..2 : Append(<<a>>, b)[i] = <<a, b>>[i]
  BY <1>4
<1> QED
  BY <1>1, <1>3, <1>4, <1>5, <1>6, SeqEqual

LEMMA Popping ==
  ASSUME NEW a, NEW b
  PROVE  /\ Len(<<a>>) = 1 /\ SubSeq(<<a>>, 1, 1 - 1) = <<>>
         /\ Len(<<a, b>>) = 2 /\ SubSeq(<<a, b>>, 1, 2 - 1) = <<a>>
         /\ <<a>> # <<>> /\ <<a, b>> # <<>>
<1> DEFINE S == {a, b}
<1>1. <<>> \in Seq(S) /\ <<a>> \in Seq(S) /\ <<a, b>> \in Seq(S)
  OBVIOUS
<1> HIDE DEF S
<1>2. SubSeq(<<a>>, 1, 0) = <<>>
  BY <1>1, SubSeqProperties
<1>3. /\ SubSeq(<<a, b>>, 1, 1) \in Seq(S) /\ Len(SubSeq(<<a, b>>, 1, 1)) = 1
      /\ SubSeq(<<a, b>>, 1, 1)[1] = a
  BY <1>1, SubSeqProperties
<1>4. SubSeq(<<a, b>>, 1, 1) = <<a>>
  <2>1. \A i \in 1..1 : SubSeq(<<a, b>>, 1, 1)[i] = <<a>>[i]
    BY <1>3
  <2> QED
    BY <1>1, <1>3, <2>1, SeqEqual
<1> QED
  BY <1>2, <1>4

LEMMA FlagNext ==
  TypeOK /\ PlaceInv /\ TaskInv /\ FlagInv /\ [Next]_vars => FlagInv'
<1> SUFFICES ASSUME TypeOK, PlaceInv, TaskInv, FlagInv, [Next]_vars
             PROVE  FlagInv'
  OBVIOUS
<1> USE DEF flowVars, burstVars, flagVars, maskVars
<1>1. CASE FetchTask
  <2>1. step = 1 /\ step' = 1 /\ ~InHandler /\ ~InHandler'
    BY <1>1 DEF FetchTask, PlaceInv, Place, InHandler
  <2>2. UNCHANGED <<flagVars, fatal_handler>>
    BY <1>1 DEF FetchTask
  <2> QED
    BY <2>1, <2>2, NothingAtFirst DEF FlagInv
<1>2. CASE FinishTask
  <2>1. step = Len(Task[task]) + 1
    BY <1>2, TasksAreBracketed DEF FinishTask, TypeOK, Bracketed
  <2>2. ~MaskedAt(task, step)
    BY <2>1, TasksAreBracketed DEF TypeOK, Bracketed
  <2>3. step' = 1 /\ ~InHandler /\ ~InHandler'
        /\ UNCHANGED <<flagVars, fatal_handler>>
    BY <1>2 DEF FinishTask, SleepThen, InHandler
  <2> QED
    BY <2>2, <2>3, NothingAtFirst DEF FlagInv
<1>3. CASE CallSleep \/ CallPress \/ CallRelease \/ CallPlayer
  <2>1. /\ ~InHandler /\ ~InHandler' /\ step <= Len(Task[task])
        /\ Task[task][step][1] \notin {"mask", "unmask"}
        /\ UNCHANGED <<flagVars, task, fatal_handler>> /\ step' = step + 1
    BY <1>3 DEF CallSleep, CallPress, CallRelease, CallPlayer, Calls,
                SleepThen, InHandler
  <2> QED
    BY <2>1, FlagsAfterCall
<1>4. CASE CallMany
  <2>1. /\ ~InHandler /\ ~InHandler' /\ step <= Len(Task[task])
        /\ Task[task][step][1] \notin {"mask", "unmask"}
        /\ UNCHANGED <<flagVars, task, fatal_handler>>
        /\ step' = step + 1 \/ step' = step
    BY <1>4 DEF CallMany, Calls, SleepThen, InHandler
  <2> QED
    BY <2>1, FlagsAfterCall, FlagsKept
<1>5. CASE LaterClick
  <2>1. /\ ~InHandler /\ ~InHandler' /\ step <= Len(Task[task])
        /\ Task[task][step][1] \notin {"mask", "unmask"}
        /\ UNCHANGED <<flagVars, task, fatal_handler>> /\ step' = step + 1
    BY <1>5 DEF LaterClick, SleepThen, InHandler, PlaceInv, Place, Clicks,
                ClickOn
  <2> QED
    BY <2>1, FlagsAfterCall
<1>6. CASE CallMask
  <2>1. /\ ~InHandler /\ ~InHandler' /\ step <= Len(Task[task])
        /\ UNCHANGED <<task, routine_busy_flag, fatal_handler>>
        /\ step' = step + 1
    BY <1>6 DEF CallMask, Calls, InHandler
  <2>2. Task[task][step] \in Calling /\ step \in Nat \ {0}
        /\ step \in 1..Len(Task[task]) /\ Bracketed(task)
    BY <2>1, CallOfTask, TasksAreBracketed DEF TypeOK
  <2>3. fatal_handler = 0
    BY <1>6 DEF CallMask, PlaceInv, Place
  <2>4. CASE Calls("mask")
    <3>1. ~routine_mask_flag /\ MaskedAt(task, step + 1)
      BY <2>1, <2>2, <2>3, <2>4, CallShapes, MaskStep
      DEF Calls, Bracketed, FlagInv
    <3>2. push_routine_mask_flag /\ routine_mask_flag' = TRUE
      BY <1>6, <2>4 DEF CallMask, Calls
    <3>3. routine_mask_flag_stack' = <<FALSE>>
      BY <2>1, <3>1, <3>2, Pushing DEF push_routine_mask_flag, FlagInv, TypeOK
    <3> QED
      BY <2>1, <3>1, <3>2, <3>3 DEF FlagInv
  <2>5. CASE Calls("unmask")
    <3>1. routine_mask_flag /\ ~MaskedAt(task, step + 1)
      BY <2>1, <2>2, <2>3, <2>5, CallShapes, MaskStep
      DEF Calls, Bracketed, FlagInv
    <3>2. pop_routine_mask_flag
      BY <1>6, <2>5 DEF CallMask, Calls
    <3>3. routine_mask_flag_stack = <<FALSE>>
      BY <2>1, <3>1 DEF FlagInv
    <3>4. routine_mask_flag_stack' = <<>> /\ routine_mask_flag' = FALSE
      BY <3>2, <3>3, Popping DEF pop_routine_mask_flag
    <3> QED
      BY <2>1, <3>1, <3>4 DEF FlagInv
  <2> QED
    BY <1>6, <2>4, <2>5 DEF CallMask
<1>7. CASE CallRaises
  <2>1. fatal_handler' # 0 /\ ~InHandler /\ ~InHandler' /\ UNCHANGED flagVars
    BY <1>7 DEF CallRaises, Unwind, NextFatalHandler, InHandler, TypeOK
  <2> QED
    BY <2>1 DEF FlagInv
<1>8. CASE BeginRoutine
  <2>1. ~InHandler /\ UNCHANGED <<task, step, fatal_handler>>
    BY <1>8 DEF BeginRoutine, InHandler
  <2>2. CASE Maskable(routine) /\ routine_mask_flag
    BY <1>8, <2>1, <2>2, FlagsKept
    DEF BeginRoutine, NextRoutine, InHandler, FlagInv
  <2>3. CASE ~(Maskable(routine) /\ routine_mask_flag)
    <3>1. /\ push_routine_mask_flag /\ routine_mask_flag' = TRUE
          /\ routine_busy_flag' = TRUE /\ pc' = "handle" /\ routine' = routine
      BY <1>8, <2>1, <2>3 DEF BeginRoutine, FlagInv
    <3>2. InHandler'
      BY <3>1 DEF InHandler
    <3>3. CASE routine_mask_flag
      <4>1. routine = Takeover /\ routine_mask_flag_stack = <<FALSE>>
            /\ routine_mask_flag = TRUE
        BY <2>1, <2>3, <3>3 DEF Maskable, FlagInv, TypeOK
      <4>2. routine_mask_flag_stack' = <<FALSE, TRUE>>
        BY <3>1, <4>1, Pushing DEF push_routine_mask_flag
      <4> QED
        BY <2>1, <3>1, <3>2, <3>3, <4>1, <4>2 DEF FlagInv
    <3>4. CASE ~routine_mask_flag
      <4>1. routine_mask_flag_stack = <<>> /\ routine_mask_flag = FALSE
        BY <2>1, <3>4 DEF FlagInv, TypeOK
      <4>2. routine_mask_flag_stack' = <<FALSE>>
        BY <3>1, <4>1, Pushing DEF push_routine_mask_flag
      <4>3. <<FALSE>> # <<FALSE, TRUE>>
        OBVIOUS
      <4> QED
        BY <2>1, <3>1, <3>2, <3>4, <4>2, <4>3 DEF FlagInv
    <3> QED
      BY <3>3, <3>4
  <2> QED
    BY <2>2, <2>3
<1>9. CASE EndRoutine
  <2>1. InHandler /\ ~InHandler' /\ pop_routine_mask_flag
        /\ routine_busy_flag' = FALSE
    BY <1>9 DEF EndRoutine, RestoreFlags, NextRoutine, Unwind,
                NextFatalHandler, InHandler
  <2>2. routine_mask_flag_stack' = (IF routine_mask_flag' THEN <<FALSE>>
                                                         ELSE <<>>)
        /\ (routine_mask_flag' <=> routine_mask_flag_stack = <<FALSE, TRUE>>)
    <3>1. CASE routine_mask_flag_stack = <<FALSE>>
      <4>1. routine_mask_flag_stack' = <<>> /\ routine_mask_flag' = FALSE
        BY <2>1, <3>1, Popping DEF pop_routine_mask_flag
      <4> QED
        BY <3>1, <4>1
    <3>2. CASE routine_mask_flag_stack = <<FALSE, TRUE>>
      <4>1. routine_mask_flag_stack' = <<FALSE>> /\ routine_mask_flag' = TRUE
        BY <2>1, <3>2, Popping DEF pop_routine_mask_flag
      <4> QED
        BY <3>2, <4>1
    <3> QED
      BY <2>1, <3>1, <3>2 DEF FlagInv
  <2>3. CASE exception = "none"
    <3>1. UNCHANGED <<task, step, fatal_handler>>
      BY <1>9, <2>3 DEF EndRoutine
    <3> QED
      BY <2>1, <2>2, <3>1 DEF FlagInv
  <2>4. CASE exception = "other"
    <3>1. fatal_handler' # 0
      BY <1>9, <2>4 DEF EndRoutine, Unwind, NextFatalHandler, TypeOK
    <3> QED
      BY <2>1, <2>2, <3>1 DEF FlagInv
  <2>5. CASE exception = "__ERROR_COMMAND_CHANGED__"
    <3>0. routine # Takeover
      BY <2>5 DEF PlaceInv, ReceiveCommand, Takeover
    <3>1. routine_mask_flag_stack = <<FALSE>>
      BY <2>1, <3>0 DEF FlagInv
    <3>2. step' = 1
      BY <1>9, <2>5 DEF EndRoutine, Unwind
    <3>3. <<FALSE>> # <<FALSE, TRUE>>
      OBVIOUS
    <3> QED
      BY <2>1, <2>2, <3>1, <3>2, <3>3, NothingAtFirst DEF FlagInv
  <2> QED
    BY <2>3, <2>4, <2>5 DEF TypeOK
<1>10. CASE ManualTakeover \/ RoutineRaises \/ OtherRoutine \/ ReadFile
            \/ ReadFails
  BY <1>10, FlagsKept, HandlersKeep
  DEF OtherRoutine, ReadFile, ReadFails, Handling, InHandler
<1>11. CASE SleepOn \/ SleepReturns
  BY <1>11, FlagsKept DEF SleepOn, SleepReturns, SleepThen, InHandler, TypeOK
<1>12. CASE FatalRelease \/ FatalHandlerDone
  <2>1. fatal_handler # 0 /\ fatal_handler' # 0
    BY <1>12 DEF FatalRelease, FatalHandlerDone, NextFatalHandler, PlaceInv,
                 TypeOK
  <2> QED
    BY <1>12, <2>1, FlagsKept
    DEF FatalRelease, FatalHandlerDone, NextFatalHandler, SleepThen, InHandler
<1>13. CASE PublishRest \/ Expire \/ Renew \/ \E t \in Types : Publish(t)
  BY <1>13, FlagsKept
  DEF PublishRest, Expire, Renew, Publish, executorVars, InHandler
<1>14. CASE Dead \/ UNCHANGED vars
  BY <1>14, FlagsKept DEF Dead, vars, InHandler
<1> QED
  BY <1>1, <1>2, <1>3, <1>4, <1>5, <1>6, <1>7, <1>8, <1>9, <1>10, <1>11,
     <1>12, <1>13, <1>14
  DEF Next, StartUp, Controller, Call, Burst, Fatal

-----------------------------------------------------------------------------
(* Before any handler for fatal errors runs, what the tables hold and what *)
(* is wielded is at most what the undisturbed task would hold and wield.   *)
(* A change of command has released everything.  No task holds two keys,   *)
(* or two buttons; so a fatal handler has released what it has to before   *)
(* its first sleep, in which a routine may raise an error and end it.      *)
DeviceInv ==
  /\ down \subseteq unreleased
  /\ frozen => unreleased = {}
  /\ exception = "__ERROR_COMMAND_CHANGED__"
       => unreleased = {} /\ wielded = {}
  /\ fatal_handler = 0 => /\ unreleased \subseteq HeldAt(task, step)
                          /\ wielded \subseteq WieldedAt(task, step)
  /\ \A k, l \in unreleased \cap Keys : k = l
  /\ fatal_handler = 2 => down \cap Keys = {}
  /\ fatal_handler # 0 /\ pc # "fatal"
       => down \cap DeviceOf(fatal_handler) = {}

LEMMA DeviceInit == Init => DeviceInv
  BY DEF Init, DeviceInv

(* A step that gives up nothing it holds, wields nothing, and is not one   *)
(* of the control of errors.                                               *)
LEMMA DevicesKept ==
  ASSUME DeviceInv, UNCHANGED <<deviceVars, wielded, task, step,
                                exception, fatal_handler>>,
         pc = "fatal" => pc' = "fatal"
  PROVE  DeviceInv'
  BY DEF DeviceInv, deviceVars

(* A handler may release keys, and presses and wields nothing.             *)
LEMMA DevicesReleased ==
  ASSUME DeviceInv, pc # "fatal", UNCHANGED <<task, step, fatal_handler>>,
         unreleased' \subseteq unreleased, down' \subseteq down,
         down' \subseteq unreleased', wielded' \subseteq wielded,
         frozen' => frozen \/ unreleased' = {},
         exception' = "__ERROR_COMMAND_CHANGED__"
           => unreleased' = {} /\ wielded' = {}
  PROVE  DeviceInv'
  BY DEF DeviceInv, DeviceOf

(* A call that neither releases nor unwields.                              *)
LEMMA DevicesAfterCall ==
  ASSUME TypeOK, DeviceInv, step <= Len(Task[task]),
         Task[task][step][1] \notin {"release", "unwield"},
         UNCHANGED <<deviceVars, wielded, task, exception, fatal_handler>>,
         step' = step + 1, fatal_handler = 0
  PROVE  DeviceInv'
<1>1. step \in Nat \ {0} /\ \A k \in Pressable : Task[task][step] # Release(k)
  BY CallOfTask DEF Release
<1>2. HeldAt(task, step) \subseteq HeldAt(task, step + 1)
  BY <1>1, HeldStep DEF HeldAt
<1>3. WieldedAt(task, step) \subseteq WieldedAt(task, step + 1)
  BY <1>1, WieldStep DEF WieldedAt
<1> QED
  BY <1>2, <1>3 DEF DeviceInv, deviceVars

LEMMA FatalHandlerEnds ==
  ASSUME DeviceInv, fatal_handler \in 1..2, NextFatalHandler,
         down \cap DeviceOf(fatal_handler) = {},
         UNCHANGED <<deviceVars, wielded>>, exception' = "none"
  PROVE  DeviceInv'
<1>1. CASE fatal_handler = 1
  BY <1>1 DEF NextFatalHandler, DeviceOf, DeviceInv, deviceVars
<1>2. CASE fatal_handler = 2
  BY <1>2 DEF NextFatalHandler, DeviceOf, DeviceInv, deviceVars
<1> QED
  BY <1>1, <1>2

LEMMA DeviceNext ==
  TypeOK /\ PlaceInv /\ TaskInv /\ DeviceInv /\ [Next]_vars => DeviceInv'
<1> SUFFICES ASSUME TypeOK, PlaceInv, TaskInv, DeviceInv, [Next]_vars
             PROVE  DeviceInv'
  OBVIOUS
<1> USE DEF flowVars, burstVars, deviceVars, playerVars
<1>1. CASE FetchTask
  <2>1. step = 1 /\ step' = 1 /\ pc' = "call"
        /\ UNCHANGED <<deviceVars, wielded, exception, fatal_handler>>
    BY <1>1 DEF FetchTask, PlaceInv, Place
  <2>2. fatal_handler = 0
    BY <1>1 DEF FetchTask, PlaceInv, Place
  <2>3. unreleased = {} /\ wielded = {}
    BY <2>1, <2>2, NothingAtFirst DEF DeviceInv
  <2> QED
    BY <2>1, <2>2, <2>3 DEF DeviceInv
<1>2. CASE FinishTask
  <2>1. step = Len(Task[task]) + 1 /\ step' = 1 /\ pc' = "routine"
        /\ UNCHANGED <<deviceVars, wielded, exception, fatal_handler>>
    BY <1>2, TasksAreBracketed DEF FinishTask, SleepThen, TypeOK, Bracketed
  <2>2. HeldAt(task, step) = {} /\ WieldedAt(task, step) = {}
    BY <2>1, TasksAreBracketed DEF TypeOK, Bracketed
  <2>3. fatal_handler = 0
    BY <1>2 DEF FinishTask, PlaceInv, Place
  <2>4. unreleased = {} /\ wielded = {}
    BY <2>2, <2>3 DEF DeviceInv
  <2> QED
    BY <2>1, <2>3, <2>4 DEF DeviceInv
<1>3. CASE CallSleep \/ CallMask
  BY <1>3, DevicesAfterCall
  DEF CallSleep, CallMask, Calls, SleepThen, PlaceInv, Place
<1>4. CASE CallPress
  <2>1. /\ step <= Len(Task[task]) /\ Task[task][step][1] = "press"
        /\ fatal_handler = 0 /\ exception = "none" /\ pc' = "routine"
        /\ step' = step + 1
        /\ UNCHANGED <<frozen, wielded, task, exception, fatal_handler>>
    BY <1>4 DEF CallPress, Calls, SleepThen, PlaceInv, Place, TaskInv
  <2>2. CASE frozen
    BY <1>4, <2>1, <2>2, DevicesAfterCall DEF CallPress, MayPress
  <2>3. CASE ~frozen
    <3>1. /\ Argument \in Pressable /\ Task[task][step] = Press(Argument)
          /\ step \in Nat \ {0}
      BY <2>1, CallOfTask, CallShapes DEF Argument
    <3>2. /\ unreleased' = unreleased \cup {Argument}
          /\ down' = down \cup {Argument}
      BY <1>4, <2>3 DEF CallPress, MayPress
    <3>3. HeldAt(task, step) \cup {Argument} \subseteq HeldAt(task, step + 1)
      <4>1. Press(Argument)[1] # Release(Argument)[1]
            /\ \A k \in Pressable : Press(Argument) # Release(k)
        BY DEF Press, Release
      <4> QED
        BY <3>1, <4>1, HeldStep DEF HeldAt
    <3>4. WieldedAt(task, step) \subseteq WieldedAt(task, step + 1)
      BY <2>1, <3>1, WieldStep DEF WieldedAt
    <3>5. unreleased' \subseteq HeldAt(task, step + 1)
      BY <2>1, <3>2, <3>3 DEF DeviceInv
    <3>6. \A k, l \in HeldAt(task, step + 1) \cap Keys : k = l
      <4>1. step + 1 \in 1..(Len(Task[task]) + 1) /\ task \in Types
        BY <2>1, CallOfTask DEF TypeOK
      <4> QED
        BY <4>1, OneKey
    <3>7. /\ down' \subseteq unreleased' /\ ~frozen'
          /\ wielded' \subseteq WieldedAt(task, step + 1)
      BY <2>1, <2>3, <3>2, <3>4 DEF DeviceInv
    <3> QED
      BY <2>1, <3>5, <3>6, <3>7 DEF DeviceInv
  <2> QED
    BY <2>2, <2>3
<1>5. CASE CallRelease
  <2>1. /\ step <= Len(Task[task]) /\ Task[task][step][1] = "release"
        /\ fatal_handler = 0 /\ exception = "none" /\ pc' = "routine"
        /\ step' = step + 1
        /\ UNCHANGED <<frozen, wielded, task, exception, fatal_handler>>
    BY <1>5 DEF CallRelease, Calls, SleepThen, PlaceInv, Place, TaskInv
  <2>2. /\ Argument \in Pressable /\ Task[task][step] = Release(Argument)
        /\ step \in Nat \ {0}
    BY <2>1, CallOfTask, CallShapes DEF Argument
  <2>3. /\ unreleased' \subseteq unreleased /\ down' \subseteq unreleased'
        /\ Argument \notin unreleased'
    BY <1>5 DEF CallRelease, DeviceInv
  <2>4. unreleased' \subseteq HeldAt(task, step + 1)
    <3>1. unreleased' \subseteq HeldAt(task, step) \ {Argument}
      BY <2>1, <2>3 DEF DeviceInv
    <3>2. \A k \in Pressable : Release(Argument) = Release(k) => k = Argument
      BY DEF Release
    <3> QED
      BY <2>2, <3>1, <3>2, HeldStep DEF HeldAt
  <2>5. WieldedAt(task, step) \subseteq WieldedAt(task, step + 1)
    BY <2>1, <2>2, WieldStep DEF WieldedAt
  <2> QED
    BY <2>1, <2>3, <2>4, <2>5 DEF DeviceInv
<1>6. CASE CallMany
  <2>1. /\ step <= Len(Task[task])
        /\ Task[task][step][1] \notin {"release", "unwield"}
        /\ UNCHANGED <<deviceVars, wielded, task, exception, fatal_handler>>
        /\ pc = "call" /\ fatal_handler = 0
        /\ step' = step + 1 \/ step' = step
    BY <1>6 DEF CallMany, Calls, SleepThen, PlaceInv, Place
  <2> QED
    BY <2>1, DevicesAfterCall, DevicesKept
<1>7. CASE LaterClick
  BY <1>7, DevicesAfterCall
  DEF LaterClick, SleepThen, PlaceInv, Place, Clicks, ClickOn
<1>8. CASE CallPlayer
  <2>1. /\ step <= Len(Task[task]) /\ pc' # "dead" /\ step' = step + 1
        /\ fatal_handler = 0 /\ exception = "none"
        /\ UNCHANGED <<deviceVars, task, exception, fatal_handler>>
    BY <1>8 DEF CallPlayer, Calls, PlaceInv, Place, TaskInv
  <2>2. Task[task][step] \in Calling /\ step \in 1..Len(Task[task])
        /\ step \in Nat \ {0} /\ Bracketed(task)
    BY <2>1, CallOfTask, TasksAreBracketed DEF TypeOK
  <2>3. CASE Calls("activate") \/ Calls("deactivate")
    BY <1>8, <2>1, <2>3, DevicesAfterCall DEF CallPlayer, Calls
  <2>4. CASE Calls("wield") \/ Calls("unwield")
    <3>1. HeldAt(task, step) \subseteq HeldAt(task, step + 1)
      <4>1. \A k \in Pressable : Task[task][step] # Release(k)
        BY <2>4 DEF Calls, Release
      <4> QED
        BY <2>2, <4>1, HeldStep DEF HeldAt
    <3>2. CASE Calls("wield")
      <4>1. wielded' = wielded \cup {Argument}
        BY <1>8, <3>2 DEF CallPlayer, Calls
      <4>2. Argument \in Players /\ Task[task][step] = <<"wield", Argument>>
        BY <2>2, <3>2, CallShapes DEF Calls, Argument
      <4>3. WieldedAt(task, step) \cup {Argument}
              \subseteq WieldedAt(task, step + 1)
        <5>1. Task[task][step][1] # "unwield"
          BY <4>2
        <5>2. WieldedAt(task, step) \subseteq Players
          BY DEF WieldedAt
        <5>3. \A p \in Players :
                p \in WieldedAt(task, step) \/ p = Argument
                  => p \in WieldedAt(task, step + 1)
          BY <2>2, <4>2, <5>1, WieldStep
        <5> QED
          BY <4>2, <5>2, <5>3
      <4> QED
        BY <2>1, <3>1, <4>1, <4>3 DEF DeviceInv
    <3>3. CASE Calls("unwield")
      <4>1. wielded' = wielded \ {Argument}
        BY <1>8, <3>3 DEF CallPlayer, Calls
      <4>2. WieldedAt(task, step) \subseteq {Argument}
        BY <2>2, <3>3 DEF Calls, Argument, Bracketed
      <4>3. wielded' = {}
        BY <2>1, <4>1, <4>2 DEF DeviceInv
      <4> QED
        BY <2>1, <3>1, <4>3 DEF DeviceInv
    <3> QED
      BY <2>4, <3>2, <3>3
  <2> QED
    BY <1>8, <2>3, <2>4 DEF CallPlayer
<1>9. CASE CallRaises
  <2>1. /\ fatal_handler' = 1 /\ pc' = "fatal" /\ exception' = "none"
        /\ UNCHANGED <<deviceVars, wielded>>
    BY <1>9 DEF CallRaises, Unwind, PlaceInv, Place
  <2> QED
    BY <2>1 DEF DeviceInv
<1>10. CASE BeginRoutine
  BY <1>10, DevicesKept DEF BeginRoutine, NextRoutine
<1>11. CASE EndRoutine
  <2>1. UNCHANGED <<deviceVars, wielded>>
    BY <1>11 DEF EndRoutine
  <2>2. CASE exception = "none"
    BY <1>11, <2>2, DevicesKept DEF EndRoutine, NextRoutine
  <2>3. CASE exception # "none" /\ fatal_handler = 0
    <3>1. \/ /\ exception = "__ERROR_COMMAND_CHANGED__"
             /\ pc' = "fetch" /\ fatal_handler' = 0
          \/ pc' = "fatal" /\ fatal_handler' = 1
      BY <1>11, <2>3 DEF EndRoutine, Unwind
    <3>2. exception' = "none"
      BY <1>11, <2>3 DEF EndRoutine, Unwind
    <3> QED
      BY <2>1, <3>1, <3>2 DEF DeviceInv
  <2>4. CASE exception # "none" /\ fatal_handler # 0
    <3>1. exception' = "none" /\ NextFatalHandler /\ pc = "restore"
      BY <1>11, <2>4 DEF EndRoutine, Unwind
    <3>2. fatal_handler \in 1..2 /\ down \cap DeviceOf(fatal_handler) = {}
      BY <2>4, <3>1 DEF DeviceInv, TypeOK
    <3> QED
      BY <2>1, <2>4, <3>1, <3>2, FatalHandlerEnds
  <2> QED
    BY <2>2, <2>3, <2>4
<1>12. CASE ManualTakeover \/ RoutineRaises
  <2>1. /\ pc = "handle" /\ exception = "none"
        /\ UNCHANGED <<wielded, task, step, fatal_handler>>
    BY <1>12, HandlersKeep DEF TaskInv
  <2>2. /\ exception' \in {"none", "other"}
        /\ \/ UNCHANGED <<unreleased, down>>
           \/ unreleased' = {} /\ down' = down \ unreleased
           \/ /\ UNCHANGED frozen
              /\ \E released \in SUBSET unreleased :
                   \E forgotten \in SUBSET released :
                     /\ down' = down \ released
                     /\ unreleased' = unreleased \ forgotten
        /\ frozen' => frozen \/ unreleased' = {}
    BY <1>12, <2>1
    DEF ManualTakeover, RoutineRaises, ResetRaises, ReleaseAll
  <2>3. /\ unreleased' \subseteq unreleased /\ down' \subseteq down
        /\ down' \subseteq unreleased'
    BY <2>2 DEF DeviceInv
  <2> QED
    BY <2>1, <2>2, <2>3, DevicesReleased
<1>13. CASE ReadFile \/ ReadFails
  <2>1. /\ pc = "handle" /\ exception = "none"
        /\ UNCHANGED <<frozen, task, step, fatal_handler>>
    BY <1>13 DEF ReadFile, ReadFails, Handling, TaskInv
  <2>2. \/ Interrupt
        \/ ResetRaises /\ UNCHANGED wielded
        \/ UNCHANGED <<unreleased, down, wielded, exception>>
    BY <1>13 DEF ReadFile, ReadFails, AfterReceive
  <2>3. /\ unreleased' \subseteq unreleased /\ down' \subseteq down
        /\ down' \subseteq unreleased' /\ wielded' \subseteq wielded
    BY <2>2 DEF Interrupt, ResetRaises, ReleaseAll, ResetPlayers, DeviceInv
  <2>4. exception' = "__ERROR_COMMAND_CHANGED__"
          => unreleased' = {} /\ wielded' = {}
    BY <2>1, <2>2 DEF Interrupt, ResetRaises, ReleaseAll, ResetPlayers
  <2> QED
    BY <2>1, <2>3, <2>4, DevicesReleased
<1>14. CASE OtherRoutine \/ SleepOn
  BY <1>14, DevicesKept DEF OtherRoutine, SleepOn, SleepThen
<1>15. CASE SleepReturns
  <2>1. /\ pc = "slept" /\ down' = down /\ unreleased' \subseteq unreleased
        /\ down' \subseteq unreleased'
        /\ UNCHANGED <<frozen, wielded, task, step, exception, fatal_handler>>
    BY <1>15 DEF SleepReturns, DeviceInv
  <2> QED
    BY <2>1, DevicesReleased DEF DeviceInv
<1>16. CASE FatalRelease
  <2>1. /\ pc' = "routine" /\ fatal_handler \in 1..2
        /\ UNCHANGED <<frozen, unreleased, wielded, task, step, exception,
                       fatal_handler>>
    BY <1>16 DEF FatalRelease, SleepThen, PlaceInv, TypeOK
  <2>2. PICK k \in unreleased \cap DeviceOf(fatal_handler) :
          down' = down \ {k}
    BY <1>16 DEF FatalRelease, HeldBy
  <2>3. down \cap DeviceOf(fatal_handler) \subseteq {k}
    <3>1. \A l \in unreleased \cap DeviceOf(fatal_handler) : l = k
      BY <2>1, <2>2 DEF DeviceOf, Buttons, DeviceInv
    <3> QED
      BY <3>1 DEF DeviceInv
  <2>4. down' \cap DeviceOf(fatal_handler) = {} /\ down' \subseteq down
    BY <2>2, <2>3
  <2>5. DeviceOf(fatal_handler)' = DeviceOf(fatal_handler)
    BY <2>1 DEF DeviceOf
  <2> QED
    BY <2>1, <2>4, <2>5 DEF DeviceInv
<1>17. CASE FatalHandlerDone
  <2>1. /\ fatal_handler \in 1..2 /\ NextFatalHandler
        /\ unreleased \cap DeviceOf(fatal_handler) = {}
        /\ UNCHANGED <<deviceVars, wielded, exception>>
    BY <1>17 DEF FatalHandlerDone, HeldBy, PlaceInv, TypeOK
  <2>2. down \cap DeviceOf(fatal_handler) = {}
    BY <2>1 DEF DeviceInv
  <2>3. exception' = "none"
    BY <1>17, <2>1 DEF FatalHandlerDone, TaskInv
  <2> QED
    BY <2>1, <2>2, <2>3, FatalHandlerEnds
<1>18. CASE PublishRest \/ Expire \/ Renew \/ \E t \in Types : Publish(t)
  BY <1>18 DEF PublishRest, Expire, Renew, Publish, executorVars, DeviceInv
<1>19. CASE Dead \/ UNCHANGED vars
  BY <1>19 DEF Dead, vars, DeviceInv
<1> QED
  BY <1>1, <1>2, <1>3, <1>4, <1>5, <1>6, <1>7, <1>8, <1>9, <1>10, <1>11,
     <1>12, <1>13, <1>14, <1>15, <1>16, <1>17, <1>18, <1>19
  DEF Next, StartUp, Controller, Call, Burst, Fatal

-----------------------------------------------------------------------------
(* Type correctness: what the file and the command received are comes from *)
(* OnceInv, the depth of the stack from FlagInv.                           *)
StackTypes == UNION {[1..n -> BOOLEAN] : n \in 0..2}

LEMMA StacksAreTyped ==
  ASSUME NEW s \in {<<>>, <<FALSE>>, <<FALSE, TRUE>>}
  PROVE  s \in StackTypes
<1>1. s \in Seq(BOOLEAN) /\ Len(s) \in 0..2
  <2>1. CASE s = <<>>
    BY <2>1
  <2>2. CASE s = <<FALSE>>
    BY <2>2
  <2>3. CASE s = <<FALSE, TRUE>>
    BY <2>3
  <2> QED
    BY <2>1, <2>2, <2>3
<1>2. s \in [1..Len(s) -> BOOLEAN]
  BY <1>1, LenProperties
<1> QED
  BY <1>1, <1>2 DEF StackTypes

LEMMA TypeInit == Init => TypeOK
<1> SUFFICES ASSUME Init PROVE TypeOK
  OBVIOUS
<1>1. /\ ordered \in Directives /\ file \in Directives /\ cmd \in Directives
      /\ mixed \subseteq 0..MaxId
  BY NopsAreTyped DEF Init
<1>2. task \in Types /\ step \in 1..(Len(Task[task]) + 1)
  <2>1. Task["CMD_NOP"] = <<>>
    BY DEF Task
  <2> QED
    BY <2>1, TypesAssumption DEF Init
<1>3. /\ pc \in Points /\ after \in {"fetch", "call", "inner", "fatal"}
      /\ exception \in {"none", "__ERROR_COMMAND_CHANGED__", "other"}
      /\ routine \in Routines /\ fatal_handler \in 0..2
  BY DEF Init, Points, Routines
<1>4. /\ finished \in BOOLEAN /\ type_changed \in BOOLEAN
      /\ routine_mask_flag \in BOOLEAN /\ routine_busy_flag \in BOOLEAN
      /\ frozen \in BOOLEAN
  BY DEF Init
<1>5. /\ unreleased \subseteq Pressable /\ down \subseteq Pressable
      /\ active_player \in Players \cup {"nil"} /\ wielded \subseteq Players
      /\ done \subseteq 0..MaxId
  BY DEF Init
<1>6. routine_mask_flag_stack \in StackTypes
  BY StacksAreTyped DEF Init
<1> QED
  BY <1>1, <1>2, <1>3, <1>4, <1>5, <1>6, Zenon DEF TypeOK, StackTypes

LEMMA TypeNext ==
  TypeOK /\ PlaceInv /\ TaskInv /\ FlagInv /\ FlagInv' /\ OnceInv /\ OnceInv'
    /\ [Next]_vars => TypeOK'
<1> SUFFICES ASSUME TypeOK, PlaceInv, TaskInv, FlagInv, FlagInv', OnceInv,
                    OnceInv', [Next]_vars
             PROVE  TypeOK'
  OBVIOUS
<1> USE DEF fileVars, commandVars, flowVars, burstVars, flagVars, maskVars,
            deviceVars, playerVars
<1>1. /\ file' \in Directives /\ cmd' \in Directives
      /\ ordered' \in Directives /\ mixed' \subseteq 0..MaxId
  <2>1. /\ file' \in Directives /\ cmd' \in Directives
        /\ ordered' \in Directives /\ mixed' \subseteq 0..ordered'.id
    BY DEF OnceInv
  <2>2. ordered'.id \in 0..MaxId /\ MaxId \in Nat
    BY <2>1, BoundAssumption DEF Directives
  <2> QED
    BY <2>1, <2>2
<1>2. routine_mask_flag_stack' \in StackTypes
  <2>1. routine_mask_flag_stack' \in {<<>>, <<FALSE>>, <<FALSE, TRUE>>}
    BY DEF FlagInv
  <2> QED
    BY <2>1, StacksAreTyped
<1>3. /\ finished' \in BOOLEAN /\ type_changed' \in BOOLEAN
      /\ done' \subseteq 0..MaxId
  <2> USE DEF TypeOK
  <2>1. CASE QuietStep
    BY <2>1, QuietStepsKeep
  <2>2. CASE FetchTask \/ CallRaises \/ EndRoutine
    BY <2>2 DEF FetchTask, CallRaises, EndRoutine
  <2>3. CASE FinishTask
    <3>1. cmd.id \in 0..MaxId
      BY DEF Directives
    <3>2. done' \subseteq 0..MaxId
      BY <2>3, <3>1 DEF FinishTask
    <3>3. finished' \in BOOLEAN /\ type_changed' = type_changed
      BY <2>3 DEF FinishTask, Finish
    <3> QED
      BY <3>2, <3>3
  <2>4. CASE ReadFile \/ ReadFails
    BY <2>4 DEF ReadFile, ReadFails, StillFinished
  <2>5. CASE PublishRest \/ Expire \/ Renew \/ \E t \in Types : Publish(t)
    BY <2>5 DEF PublishRest, Expire, Renew, Publish, executorVars
  <2>6. CASE ManualTakeover \/ RoutineRaises
    BY <2>6, HandlersKeep
  <2>7. CASE UNCHANGED vars
    BY <2>7 DEF vars
  <2> QED
    BY <2>1, <2>2, <2>3, <2>4, <2>5, <2>6, <2>7, StepsOfNext
<1>4. task' \in Types /\ step' \in 1..(Len(Task[task']) + 1)
  <2>1. "CMD_NOP" \in Types /\ cmd.type \in Types
    BY TypesAssumption DEF TypeOK, Directives
  <2>2. \A t \in Types : 1 \in 1..(Len(Task[t]) + 1)
    BY TasksAreBracketed DEF Bracketed
  <2>3. CASE task' = task /\ step' = step
    BY <2>3 DEF TypeOK
  <2>4. CASE task' = task /\ step' = step + 1 /\ step <= Len(Task[task])
    BY <2>4, CallOfTask DEF TypeOK
  <2>5. CASE task' \in {"CMD_NOP", cmd.type} /\ step' = 1
    BY <2>1, <2>2, <2>5
  <2>6. CASE CallSleep \/ CallPress \/ CallRelease \/ CallMany
    BY <2>6, <2>3, <2>4
    DEF CallSleep, CallPress, CallRelease, CallMany, Calls
  <2>7. CASE LaterClick \/ CallMask \/ CallPlayer
    BY <2>7, <2>4 DEF LaterClick, CallMask, CallPlayer, Calls, PlaceInv, Place
  <2>8. CASE FetchTask \/ FinishTask \/ CallRaises
    BY <2>8, <2>5 DEF FetchTask, Fetched, FinishTask, CallRaises, Unwind
  <2>9. CASE EndRoutine
    BY <2>9, <2>3, <2>5 DEF EndRoutine, Unwind
  <2>10. CASE BeginRoutine \/ ManualTakeover \/ RoutineRaises \/ ReadFile
              \/ ReadFails
    BY <2>10, <2>3, HandlersKeep DEF BeginRoutine, ReadFile, ReadFails
  <2>11. CASE OtherRoutine \/ SleepOn \/ SleepReturns \/ Fatal
    BY <2>11, <2>3
    DEF OtherRoutine, SleepOn, SleepReturns, Fatal, FatalRelease,
        FatalHandlerDone
  <2>12. CASE Controller
    BY <2>12, <2>3
    DEF Controller, PublishRest, Expire, Renew, Publish, executorVars
  <2>13. CASE Dead \/ UNCHANGED vars
    BY <2>13, <2>3 DEF Dead, vars
  <2> QED
    BY <2>6, <2>7, <2>8, <2>9, <2>10, <2>11, <2>12, <2>13
    DEF Next, StartUp, Call, Burst
<1>5. /\ pc' \in Points /\ after' \in {"fetch", "call", "inner", "fatal"}
      /\ exception' \in {"none", "__ERROR_COMMAND_CHANGED__", "other"}
      /\ routine' \in Routines /\ fatal_handler' \in 0..2
  <2> USE DEF TypeOK, Points, Routines
  <2>1. CASE Call \/ FetchTask \/ FinishTask
    BY <2>1
    DEF Call, CallSleep, CallPress, CallRelease, CallMany, LaterClick,
        CallMask, CallPlayer, CallRaises, FetchTask, FinishTask, SleepThen,
        Unwind, NextFatalHandler
  <2>2. CASE BeginRoutine \/ EndRoutine
    BY <2>2 DEF BeginRoutine, EndRoutine, NextRoutine, Unwind,
                NextFatalHandler, AntiShock
  <2>3. CASE ManualTakeover \/ RoutineRaises \/ ReadFile \/ ReadFails
             \/ OtherRoutine
    BY <2>3
    DEF ManualTakeover, RoutineRaises, ReadFile, ReadFails, OtherRoutine,
        AfterReceive, Interrupt, ResetRaises
  <2>4. CASE SleepOn \/ SleepReturns \/ Fatal
    BY <2>4 DEF SleepOn, SleepReturns, Fatal, FatalRelease, FatalHandlerDone,
                SleepThen, NextFatalHandler
  <2>5. CASE Controller
    BY <2>5
    DEF Controller, PublishRest, Expire, Renew, Publish, executorVars
  <2>6. CASE Dead \/ UNCHANGED vars
    BY <2>6 DEF Dead, vars
  <2> QED
    BY <2>1, <2>2, <2>3, <2>4, <2>5, <2>6 DEF Next, StartUp, Burst
<1>6. routine_mask_flag' \in BOOLEAN /\ routine_busy_flag' \in BOOLEAN
  <2>1. CASE BeginRoutine
    BY <2>1 DEF BeginRoutine, TypeOK
  <2>2. CASE EndRoutine \/ CallMask
    <3>1. \/ pop_routine_mask_flag
          \/ routine_mask_flag' = TRUE
      BY <2>2 DEF EndRoutine, RestoreFlags, CallMask
    <3>2. routine_busy_flag' \in BOOLEAN
      BY <2>2 DEF EndRoutine, RestoreFlags, CallMask, TypeOK
    <3>3. \/ routine_mask_flag_stack = <<>>
          \/ routine_mask_flag_stack = <<FALSE>>
          \/ routine_mask_flag_stack = <<FALSE, TRUE>>
      BY DEF FlagInv
    <3>4. pop_routine_mask_flag => routine_mask_flag' \in BOOLEAN
      BY <3>3, Popping DEF pop_routine_mask_flag, TypeOK
    <3> QED
      BY <3>1, <3>2, <3>4
  <2>3. CASE UNCHANGED flagVars
    BY <2>3 DEF TypeOK
  <2>4. CASE CallSleep \/ CallPress \/ CallRelease \/ CallMany \/ LaterClick
             \/ CallPlayer \/ CallRaises \/ FetchTask \/ FinishTask
    BY <2>3, <2>4
    DEF CallSleep, CallPress, CallRelease, CallMany, LaterClick, CallPlayer,
        CallRaises, FetchTask, FinishTask
  <2>5. CASE ManualTakeover \/ RoutineRaises \/ ReadFile \/ ReadFails
             \/ OtherRoutine
    BY <2>3, <2>5, HandlersKeep DEF ReadFile, ReadFails, OtherRoutine
  <2>6. CASE SleepOn \/ SleepReturns \/ Fatal
    BY <2>3, <2>6
    DEF SleepOn, SleepReturns, Fatal, FatalRelease, FatalHandlerDone
  <2>7. CASE Controller
    BY <2>3, <2>7
    DEF Controller, PublishRest, Expire, Renew, Publish, executorVars
  <2>8. CASE Dead \/ UNCHANGED vars
    BY <2>3, <2>8 DEF Dead, vars
  <2> QED
    BY <2>1, <2>2, <2>4, <2>5, <2>6, <2>7, <2>8
    DEF Next, StartUp, Call, Burst
<1>7. /\ frozen' \in BOOLEAN /\ unreleased' \subseteq Pressable
      /\ down' \subseteq Pressable /\ wielded' \subseteq Players
      /\ active_player' \in Players \cup {"nil"}
  <2>1. CASE CallPress
    <3>1. Argument \in Pressable
      BY <2>1, CallOfTask, CallShapes DEF CallPress, Calls, Argument
    <3> QED
      BY <2>1, <3>1 DEF CallPress, TypeOK
  <2>2. CASE CallPlayer
    <3>1. Calls("wield") \/ Calls("activate") => Argument \in Players
      BY CallOfTask, CallShapes DEF Calls, Argument
    <3> QED
      BY <2>2, <3>1 DEF CallPlayer, TypeOK
  <2> USE DEF TypeOK
  <2>3. CASE CallSleep \/ CallRelease \/ CallMany \/ LaterClick
             \/ CallMask \/ CallRaises \/ FetchTask \/ FinishTask
    BY <2>3
    DEF CallSleep, CallRelease, CallMany, LaterClick, CallMask, CallRaises,
        FetchTask, FinishTask
  <2>4. CASE BeginRoutine \/ EndRoutine \/ OtherRoutine
    BY <2>4 DEF BeginRoutine, EndRoutine, OtherRoutine
  <2>5. CASE ManualTakeover \/ RoutineRaises \/ ReadFile \/ ReadFails
    BY <2>5
    DEF ManualTakeover, RoutineRaises, ReadFile, ReadFails, AfterReceive,
        Interrupt, ResetRaises, ReleaseAll, ResetPlayers
  <2>6. CASE SleepOn \/ SleepReturns \/ Fatal
    BY <2>6 DEF SleepOn, SleepReturns, Fatal, FatalRelease, FatalHandlerDone
  <2>7. CASE Controller
    BY <2>7
    DEF Controller, PublishRest, Expire, Renew, Publish, executorVars
  <2>8. CASE Dead \/ UNCHANGED vars
    BY <2>8 DEF Dead, vars
  <2> QED
    BY <2>1, <2>2, <2>3, <2>4, <2>5, <2>6, <2>7, <2>8
    DEF Next, StartUp, Call, Burst
<1> QED
  BY <1>1, <1>2, <1>3, <1>4, <1>5, <1>6, <1>7, Zenon DEF TypeOK, StackTypes

IInv == TypeOK /\ TaskInv /\ OnceInv /\ PlaceInv /\ FlagInv /\ DeviceInv

LEMMA Invariance == Spec => []IInv
<1>1. Init => IInv
  BY TypeInit, TaskInit, OnceInit, PlaceInit, DeviceInit DEF IInv
<1>2. IInv /\ [Next]_vars => IInv'
  <2> SUFFICES ASSUME IInv, [Next]_vars PROVE IInv'
    OBVIOUS
  <2>1. OnceInv'
    BY OnceNext DEF IInv
  <2>2. PlaceInv' /\ TaskInv'
    BY PlaceNext, TaskNext DEF IInv
  <2>3. FlagInv' /\ DeviceInv'
    BY FlagNext, DeviceNext DEF IInv
  <2>4. TypeOK'
    BY <2>1, <2>3, TypeNext DEF IInv
  <2> QED
    BY <2>1, <2>2, <2>3, <2>4 DEF IInv
<1> QED
  BY <1>1, <1>2, PTL DEF Spec

(* The state of the script is well typed: a task is never run past its     *)
(* last call, and the flags are never pushed more than twice.              *)
THEOREM TypeCorrect == Spec => []TypeOK
<1>1. IInv => TypeOK
  BY DEF IInv
<1> QED
  BY <1>1, Invariance, PTL

(* Outside a routine none is marked busy, and they are masked exactly      *)
(* between the two calls of Weapon:purchase, whatever was thrown where     *)
(* (FlagsAreRestored, Runtime.lua:143-166).                                *)
THEOREM FlagsRestored == Spec => []FlagsAreRestored
<1>1. IInv => FlagsAreRestored
  <2> SUFFICES ASSUME IInv, ~InHandler, fatal_handler = 0
               PROVE  /\ ~routine_busy_flag
                      /\ routine_mask_flag = Purchasing
                      /\ Len(routine_mask_flag_stack)
                           = IF Purchasing THEN 1 ELSE 0
    BY DEF FlagsAreRestored, InHandler
  <2>1. Purchasing <=> MaskedAt(task, step)
    BY DEF Purchasing, MaskedAt
  <2>2. /\ ~routine_busy_flag /\ (routine_mask_flag <=> MaskedAt(task, step))
        /\ routine_mask_flag_stack = IF routine_mask_flag THEN <<FALSE>>
                                                          ELSE <<>>
    BY DEF IInv, FlagInv
  <2>3. routine_mask_flag \in BOOLEAN /\ Purchasing \in BOOLEAN
    BY DEF IInv, TypeOK, Purchasing
  <2>4. routine_mask_flag = Purchasing
    BY <2>1, <2>2, <2>3
  <2>5. Len(routine_mask_flag_stack) = IF Purchasing THEN 1 ELSE 0
    BY <2>1, <2>2
  <2> QED
    BY <2>2, <2>4, <2>5
<1> QED
  BY <1>1, Invariance, PTL

(* The executor holds nothing down that is not in its tables, nor anything *)
(* when a task begins, while the user has taken over, and when it is dead  *)
(* (NothingLeftDown, Keyboard.lua, Mouse.lua).                             *)
THEOREM NothingStaysDown == Spec => []NothingLeftDown
<1>1. IInv => NothingLeftDown
  <2> SUFFICES ASSUME IInv PROVE NothingLeftDown
    OBVIOUS
  <2>1. down \subseteq unreleased /\ (frozen => down = {})
    BY DEF IInv, DeviceInv
  <2>3. ASSUME pc = "dead" PROVE down = {}
    <3>1. fatal_handler = 2
      BY <2>3 DEF IInv, PlaceInv
    <3>2. down \cap Keys = {} /\ down \cap Buttons = {}
      BY <2>3, <3>1 DEF IInv, DeviceInv, DeviceOf
    <3> QED
      BY <3>2 DEF IInv, TypeOK, Pressable
  <2>2. ASSUME pc = "fetch" PROVE down = {}
    <3>1. step = 1 /\ fatal_handler = 0
      BY <2>2 DEF IInv, PlaceInv, Place
    <3> QED
      BY <2>1, <3>1, NothingAtFirst DEF IInv, DeviceInv
  <2> QED
    BY <2>1, <2>2, <2>3 DEF NothingLeftDown
<1> QED
  BY <1>1, Invariance, PTL

(* The anti-shock routine switches weapons only in the middle of an attack *)
(* of the task under way (AntiShockBelongsToAttack,                        *)
(* Automation.lua:543-545), although an interrupt leaves the player set.   *)
THEOREM AntiShockInAttack == Spec => []AntiShockBelongsToAttack
<1>1. IInv => AntiShockBelongsToAttack
  BY DEF IInv, DeviceInv, AntiShockBelongsToAttack, AntiShockClicks, WieldedAt
<1> QED
  BY <1>1, Invariance, PTL
=============================================================================
