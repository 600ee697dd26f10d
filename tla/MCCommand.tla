----------------------------- MODULE MCCommand -----------------------------
(* Instances of Command for TLC.                                           *)
EXTENDS Command

(* Two of the orders callers give; between them they use every mode.       *)
MCOrders ==
  {<<"CMD_NOP", {"ZERO_TIMESTAMP"}>>,
   <<"CMD_BATCH_COMBINE_PARTS", {"REPEATABLE", "AUTO_REFRESH"}>>}

(* A tick is longer than the cool-down of these commands, and longer than  *)
(* the time after which Get() renews a command: both are 4000 ms.          *)
MCCoolDown == [t \in {o[1] : o \in MCOrders} |-> 1]

(* The last id stands for one with a digit more.                           *)
MCDigits == [i \in 0..MaxId |-> IF i < MaxId THEN 1 ELSE 2]

MCLetters == [CMD_NOP |-> 15, CMD_BATCH_COMBINE_PARTS |-> 31]
=============================================================================
