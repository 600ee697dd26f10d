---------------------------- MODULE CommandProofs ----------------------------
(***************************************************************************)
(* Proofs about the Command object, for every set of orders, cool-downs    *)
(* and bounds.                                                             *)
(***************************************************************************)
EXTENDS Command, TLAPS

(* A Set() that is under way while a Get() is sets `overlapped`.           *)
Alone == pc["getter"] # "idle" /\ ~overlapped => pc["setter"] = "idle"

(* The fields other than the time stamp are written one after another, so  *)
(* the object is the command issued under its id before the first store    *)
(* and after the fourth one.                                               *)
Sound ==
  /\ pc["setter"] \in {"idle", "spin", "test", "id_", "auto_renew_", "unlock"}
       => SameCommand(self, issued[self.id_])
  /\ pc["setter"] \in {"type_", "timepoint_", "repeatable_"}
       => /\ issued[self.id_].id_ = self.id_
          /\ issued[self.id_].type_ = order[1]
          /\ issued[self.id_].repeatable_ = ("REPEATABLE" \in order[2])
  /\ pc["setter"] \in {"timepoint_", "repeatable_"} => self.type_ = order[1]
  /\ DOMAIN issued = 0..self.id_

(* Without a Set() alongside, what has been sized and what has been        *)
(* formatted is what the object holds.                                     *)
Seen(d) ==
  /\ "id_" \notin unread => d.id_ = self.id_
  /\ "type_" \notin unread => d.type_ = self.type_
  /\ "timepoint_" \notin unread => d.timepoint_ = self.timepoint_
  /\ "repeatable_" \notin unread => d.repeatable_ = self.repeatable_

Read ==
  /\ pc["getter"] \in {"spin", "renew", "age", "store"} => unread = Formatted
  /\ pc["getter"] = "unlock" => unread = {}
  /\ pc["getter"] = "size" /\ ~overlapped => Seen(sized)
  /\ pc["getter"] \in {"format", "unlock"} /\ ~overlapped =>
       Seen(text) /\ new_size = Size(self)

Objects == [id_ : Nat, type_ : Types, timepoint_ : Nat,
            repeatable_ : BOOLEAN, auto_renew_ : BOOLEAN]

Points == {"idle", "spin", "test", "unlock", "renew", "age", "store", "size",
           "format"} \cup Fields

Shape ==
  /\ self \in Objects /\ sized \in Objects /\ text \in Objects
  /\ order \in Orders \cup {NoOrder}
  /\ now \in Nat /\ tp \in Nat
  /\ pc \in [Callers -> Points]
  /\ pc["getter"] \in {"idle", "spin", "renew", "age", "store", "size",
                       "format", "unlock"}

ExactInv == Shape /\ Alone /\ Sound /\ Read

LEMMA ExactInit == Init => ExactInv
<1> SUFFICES ASSUME Init PROVE ExactInv
  OBVIOUS
<1>1. Shape
  <2>1. Command0 \in Objects
    BY DEF Command0, Objects, Types
  <2>2. pc \in [Callers -> Points] /\ pc["getter"] = "idle"
    BY DEF Init, Callers, Points
  <2> QED
    BY <2>1, <2>2, ClockAssumption DEF Init, Shape
<1>2. Alone /\ Read
  BY DEF Init, Alone, Read, Callers
<1>3. Sound
  <2>1. pc["setter"] = "idle" /\ self = Command0
        /\ issued = [i \in {0} |-> Command0]
    BY DEF Init, Callers
  <2>2. self.id_ = 0 /\ issued[0] = self /\ DOMAIN issued = 0..0
    BY <2>1 DEF Command0
  <2> QED
    BY <2>1, <2>2 DEF Sound, SameCommand
<1> QED
  BY <1>1, <1>2, <1>3 DEF ExactInv

LEMMA OrderIsTyped ==
  ASSUME Shape
  PROVE  order[1] \in Types /\ ("REPEATABLE" \in order[2]) \in BOOLEAN
  BY DEF Shape, Types, NoOrder

(* Whoever takes the flag only moves on.                                   *)
LEMMA Exchange ==
  ASSUME Shape, NEW c \in Callers, NEW next, CompareExchange(c, next)
  PROVE  /\ pc[c] = "spin"
         /\ pc' = pc \/ pc' = [pc EXCEPT ![c] = next]
  BY DEF CompareExchange, Goto

LEMMA SetNext ==
  ASSUME ExactInv, Set \/ \E o \in Orders : SetBegin(o) PROVE ExactInv'
<1> USE DEF ExactInv, Callers
<1>1. ASSUME NEW o \in Orders, SetBegin(o) PROVE ExactInv'
  <2>1. /\ pc["setter"] = "idle" /\ pc' = [pc EXCEPT !["setter"] = "spin"]
        /\ overlapped' = (pc["getter"] # "idle")
        /\ order' = o
        /\ UNCHANGED <<self, tp, unread, sized, new_size, text, now, issued>>
    BY <1>1 DEF SetBegin, Goto, getVars
  <2>2. pc'["setter"] = "spin" /\ pc'["getter"] = pc["getter"]
    BY <2>1 DEF Shape
  <2>3. Shape'
    <3>1. pc' \in [Callers -> Points]
      BY <2>1 DEF Shape, Points, Fields
    <3> QED
      BY <2>1, <2>2, <3>1 DEF Shape
  <2>4. pc'["getter"] # "idle" => overlapped'
    BY <2>1, <2>2
  <2>5. Alone' /\ Read'
    BY <2>1, <2>2, <2>4 DEF Alone, Read, Seen
  <2>6. Sound'
    BY <2>1, <2>2 DEF Sound
  <2> QED
    BY <2>3, <2>5, <2>6
<1>2. CASE SetLock
  <2>1. /\ pc["setter"] = "spin"
        /\ pc' = pc \/ pc' = [pc EXCEPT !["setter"] = "test"]
        /\ UNCHANGED <<self, order, issued, tp, unread, sized, new_size, text,
                       now, overlapped>>
    BY <1>2, Exchange DEF SetLock, setVars, getVars
  <2>2. pc'["setter"] \in {"spin", "test"} /\ pc'["getter"] = pc["getter"]
    BY <2>1 DEF Shape
  <2>3. Shape'
    <3>1. pc' \in [Callers -> Points]
      BY <2>1 DEF Shape, Points, Fields
    <3> QED
      BY <2>1, <2>2, <3>1 DEF Shape
  <2>4. Alone' /\ Read'
    BY <2>1, <2>2 DEF Alone, Read, Seen
  <2>5. Sound'
    BY <2>1, <2>2 DEF Sound
  <2> QED
    BY <2>3, <2>4, <2>5
<1>3. CASE SetTest
  <2>1. /\ pc["setter"] = "test"
        /\ \/ pc' = [pc EXCEPT !["setter"] = "idle"] /\ order' = NoOrder
           \/ pc' = [pc EXCEPT !["setter"] = "id_"] /\ order' = order
        /\ UNCHANGED <<self, issued, tp, unread, sized, new_size, text, now,
                       overlapped>>
    BY <1>3 DEF SetTest, Goto, getVars
  <2>2. pc'["setter"] \in {"idle", "id_"} /\ pc'["getter"] = pc["getter"]
    BY <2>1 DEF Shape
  <2>3. Shape'
    <3>1. pc' \in [Callers -> Points]
      BY <2>1 DEF Shape, Points, Fields
    <3> QED
      BY <2>1, <2>2, <3>1 DEF Shape
  <2>4. Alone' /\ Read'
    BY <2>1, <2>2 DEF Alone, Read, Seen
  <2>5. Sound'
    BY <2>1, <2>2 DEF Sound
  <2> QED
    BY <2>3, <2>4, <2>5
<1>4. CASE SetUnlock
  <2>1. /\ pc["setter"] = "unlock"
        /\ pc' = [pc EXCEPT !["setter"] = "idle"] /\ order' = NoOrder
        /\ UNCHANGED <<self, issued, tp, unread, sized, new_size, text, now,
                       overlapped>>
    BY <1>4 DEF SetUnlock, Goto, getVars
  <2>2. pc'["setter"] = "idle" /\ pc'["getter"] = pc["getter"]
    BY <2>1 DEF Shape
  <2>3. Shape'
    <3>1. pc' \in [Callers -> Points]
      BY <2>1 DEF Shape, Points, Fields
    <3> QED
      BY <2>1, <2>2, <3>1 DEF Shape
  <2>4. Alone' /\ Read'
    BY <2>1, <2>2 DEF Alone, Read, Seen
  <2>5. Sound'
    BY <2>1, <2>2 DEF Sound
  <2> QED
    BY <2>3, <2>4, <2>5
<1>5. ASSUME NEW f \in Fields, SetStore(f) PROVE ExactInv'
  <2>1. /\ pc["setter"] = f /\ pc' = [pc EXCEPT !["setter"] = StoreOrder[f]]
        /\ self' = [self EXCEPT ![f] = NewValue(f)]
        /\ IF f = "id_" THEN Issue ELSE UNCHANGED issued
        /\ UNCHANGED <<order, tp, unread, sized, new_size, text, now,
                       overlapped>>
    BY <1>5 DEF SetStore, Goto, getVars
  <2>2. pc["setter"] # "idle"
    BY <2>1 DEF Fields
  <2>3. pc'["setter"] = StoreOrder[f] /\ pc'["getter"] = pc["getter"]
    BY <2>1 DEF Shape
  <2>4. Alone' /\ Read'
    BY <2>1, <2>2, <2>3 DEF Alone, Read, Seen
  <2>5. Shape' /\ Sound'
    <3>1. CASE f = "id_"
      <4>0. NewValue("id_") = self.id_ + 1 /\ StoreOrder["id_"] = "type_"
        BY DEF NewValue, Ordered, StoreOrder
      <4>1. /\ self' = [self EXCEPT !.id_ = self.id_ + 1]
            /\ pc'["setter"] = "type_"
            /\ Issue
        BY <2>1, <2>3, <3>1, <4>0
      <4>2. self' \in Objects /\ self'.id_ = self.id_ + 1 /\ self.id_ \in Nat
        BY <4>1 DEF Shape, Objects
      <4>3. pc' \in [Callers -> Points]
        BY <2>1, <2>3, <4>1 DEF Shape, Points, Fields
      <4>4. Shape'
        BY <2>1, <2>3, <4>2, <4>3 DEF Shape
      <4>5. DOMAIN issued = 0..self.id_
        BY DEF Sound
      <4>6. /\ DOMAIN issued' = 0..(self.id_ + 1)
            /\ issued'[self.id_ + 1] = Meant
        BY <4>1, <4>2, <4>5 DEF Issue
      <4>7. /\ Meant.id_ = self.id_ + 1 /\ Meant.type_ = order[1]
            /\ Meant.repeatable_ = ("REPEATABLE" \in order[2])
        BY DEF Ordered, Meant
      <4> QED
        BY <2>1, <4>1, <4>2, <4>4, <4>6, <4>7 DEF Sound
    <3>2. CASE f = "type_"
      <4>0. StoreOrder["type_"] = "timepoint_" /\ NewValue("type_") = order[1]
        BY DEF NewValue, Ordered, StoreOrder
      <4>1. /\ self' = [self EXCEPT !.type_ = order[1]]
            /\ pc'["setter"] = "timepoint_" /\ issued' = issued
        BY <2>1, <2>3, <3>2, <4>0
      <4>2. order[1] \in Types
        BY OrderIsTyped
      <4>3. /\ self' \in Objects /\ self'.id_ = self.id_
            /\ self'.type_ = order[1]
            /\ self'.repeatable_ = self.repeatable_
        BY <4>1, <4>2 DEF Shape, Objects
      <4>4. pc' \in [Callers -> Points]
        BY <2>1, <2>3, <4>1 DEF Shape, Points, Fields
      <4>5. Shape'
        BY <2>1, <2>3, <4>3, <4>4 DEF Shape
      <4> QED
        BY <2>1, <3>2, <4>1, <4>3, <4>5 DEF Sound
    <3>3. CASE f = "timepoint_"
      <4>0. StoreOrder["timepoint_"] = "repeatable_"
        BY DEF StoreOrder
      <4>1. /\ self' = [self EXCEPT !.timepoint_ = NewValue("timepoint_")]
            /\ pc'["setter"] = "repeatable_" /\ issued' = issued
        BY <2>1, <2>3, <3>3, <4>0
      <4>2. NewValue("timepoint_") \in Nat
        BY DEF NewValue, Ordered, Shape
      <4>3. /\ self' \in Objects /\ self'.id_ = self.id_
            /\ self'.type_ = self.type_
            /\ self'.repeatable_ = self.repeatable_
        BY <4>1, <4>2 DEF Shape, Objects
      <4>4. pc' \in [Callers -> Points]
        BY <2>1, <2>3, <4>1 DEF Shape, Points, Fields
      <4>5. Shape'
        BY <2>1, <2>3, <4>3, <4>4 DEF Shape
      <4> QED
        BY <2>1, <3>3, <4>1, <4>3, <4>5 DEF Sound
    <3>4. CASE f = "repeatable_"
      <4>0. /\ StoreOrder["repeatable_"] = "auto_renew_"
            /\ NewValue("repeatable_") = ("REPEATABLE" \in order[2])
        BY DEF NewValue, Ordered, StoreOrder
      <4>1. /\ self' = [self EXCEPT !.repeatable_ =
                           ("REPEATABLE" \in order[2])]
            /\ pc'["setter"] = "auto_renew_" /\ issued' = issued
        BY <2>1, <2>3, <3>4, <4>0
      <4>2. ("REPEATABLE" \in order[2]) \in BOOLEAN
        BY OrderIsTyped
      <4>3. /\ self' \in Objects /\ self'.id_ = self.id_
            /\ self'.type_ = self.type_
            /\ self'.repeatable_ = ("REPEATABLE" \in order[2])
        BY <4>1, <4>2 DEF Shape, Objects
      <4>4. pc' \in [Callers -> Points]
        BY <2>1, <2>3, <4>1 DEF Shape, Points, Fields
      <4>5. Shape'
        BY <2>1, <2>3, <4>3, <4>4 DEF Shape
      <4> QED
        BY <2>1, <3>4, <4>1, <4>3, <4>5 DEF Sound, SameCommand
    <3>5. CASE f = "auto_renew_"
      <4>0. StoreOrder["auto_renew_"] = "unlock"
        BY DEF StoreOrder
      <4>1. /\ self' = [self EXCEPT !.auto_renew_ = NewValue("auto_renew_")]
            /\ pc'["setter"] = "unlock" /\ issued' = issued
        BY <2>1, <2>3, <3>5, <4>0
      <4>2. NewValue("auto_renew_") \in BOOLEAN
        BY DEF NewValue, Ordered
      <4>3. /\ self' \in Objects /\ self'.id_ = self.id_
            /\ self'.type_ = self.type_
            /\ self'.repeatable_ = self.repeatable_
        BY <4>1, <4>2 DEF Shape, Objects
      <4>4. pc' \in [Callers -> Points]
        BY <2>1, <2>3, <4>1 DEF Shape, Points, Fields
      <4>5. Shape'
        BY <2>1, <2>3, <4>3, <4>4 DEF Shape
      <4> QED
        BY <2>1, <3>5, <4>1, <4>3, <4>5 DEF Sound, SameCommand
    <3> QED
      BY <3>1, <3>2, <3>3, <3>4, <3>5 DEF Fields
  <2> QED
    BY <2>4, <2>5
<1> QED
  BY <1>1, <1>2, <1>3, <1>4, <1>5 DEF Set

(* One field of a directive is read, into a record that has the others.    *)
Looked(f, d, e) ==
  /\ f = "id_" => e.id_ = self.id_
  /\ f # "id_" => e.id_ = d.id_
  /\ f = "type_" => e.type_ = self.type_
  /\ f # "type_" => e.type_ = d.type_
  /\ f = "timepoint_" => e.timepoint_ = self.timepoint_
  /\ f # "timepoint_" => e.timepoint_ = d.timepoint_
  /\ f = "repeatable_" => e.repeatable_ = self.repeatable_
  /\ f # "repeatable_" => e.repeatable_ = d.repeatable_

LEMMA LookedAt ==
  ASSUME self \in Objects, NEW d \in Objects, NEW f \in Fields
  PROVE  LET e == [d EXCEPT ![f] = self[f]]
         IN  e \in Objects /\ Looked(f, d, e)
<1>1. CASE f = "id_"
  BY <1>1 DEF Objects, Looked
<1>2. CASE f = "type_"
  BY <1>2 DEF Objects, Looked
<1>3. CASE f = "timepoint_"
  BY <1>3 DEF Objects, Looked
<1>4. CASE f = "repeatable_"
  BY <1>4 DEF Objects, Looked
<1>5. CASE f = "auto_renew_"
  BY <1>5 DEF Objects, Looked
<1> QED
  BY <1>1, <1>2, <1>3, <1>4, <1>5 DEF Fields

LEMMA GetNext == ASSUME ExactInv, Get \/ GetBegin \/ Tick PROVE ExactInv'
<1> USE DEF ExactInv, Callers
<1>1. CASE GetBegin
  <2>1. /\ pc["getter"] = "idle" /\ pc' = [pc EXCEPT !["getter"] = "spin"]
        /\ overlapped' = (pc["setter"] # "idle") /\ unread' = Formatted
        /\ UNCHANGED <<self, order, issued, tp, sized, text, now>>
    BY <1>1 DEF GetBegin, Goto, setVars
  <2>2. pc'["getter"] = "spin" /\ pc'["setter"] = pc["setter"]
    BY <2>1 DEF Shape
  <2>3. Shape'
    <3>1. pc' \in [Callers -> Points]
      BY <2>1 DEF Shape, Points
    <3> QED
      BY <2>1, <2>2, <3>1 DEF Shape
  <2>4. pc'["setter"] # "idle" => overlapped'
    BY <2>1, <2>2
  <2>5. Alone' /\ Read'
    BY <2>1, <2>2, <2>4 DEF Alone, Read, Seen
  <2>6. Sound'
    BY <2>1, <2>2 DEF Sound
  <2> QED
    BY <2>3, <2>5, <2>6
<1>2. CASE GetLock \/ GetRenewTest \/ GetAge
  <2>1. /\ \/ /\ pc["getter"] = "spin"
              /\ pc' = pc \/ pc' = [pc EXCEPT !["getter"] = "renew"]
              /\ tp' = tp
           \/ /\ pc["getter"] = "renew" /\ tp' = tp
              /\ \/ pc' = [pc EXCEPT !["getter"] = "age"]
                 \/ pc' = [pc EXCEPT !["getter"] = "size"]
           \/ /\ pc["getter"] = "age" /\ tp' \in {tp, now}
              /\ \/ pc' = [pc EXCEPT !["getter"] = "store"]
                 \/ pc' = [pc EXCEPT !["getter"] = "size"]
        /\ UNCHANGED <<self, order, issued, unread, sized, new_size, text, now,
                       overlapped>>
    BY <1>2, Exchange DEF GetLock, GetRenewTest, GetAge, Goto, setVars, getVars
  <2>2. /\ pc["getter"] \in {"spin", "renew", "age"}
        /\ pc'["getter"] \in {"spin", "renew", "age", "store", "size"}
        /\ pc'["setter"] = pc["setter"]
    BY <2>1 DEF Shape
  <2>3. Shape'
    <3>1. pc' \in [Callers -> Points]
      BY <2>1 DEF Shape, Points
    <3> QED
      BY <2>1, <2>2, <3>1 DEF Shape
  <2>4. Alone'
    BY <2>1, <2>2 DEF Alone
  <2>5. Read'
    BY <2>1, <2>2 DEF Read, Seen, Formatted, Fields
  <2>6. Sound'
    BY <2>1, <2>2 DEF Sound
  <2> QED
    BY <2>3, <2>4, <2>5, <2>6
<1>3. CASE GetRenewStore
  <2>1. /\ pc["getter"] = "store" /\ pc' = [pc EXCEPT !["getter"] = "size"]
        /\ self' = [self EXCEPT !.timepoint_ = tp] /\ tp' = 0
        /\ UNCHANGED <<order, issued, unread, sized, new_size, text, now,
                       overlapped>>
    BY <1>3 DEF GetRenewStore, Goto, setVars
  <2>2. pc'["getter"] = "size" /\ pc'["setter"] = pc["setter"]
    BY <2>1 DEF Shape
  <2>3. /\ self' \in Objects /\ self'.id_ = self.id_
        /\ self'.type_ = self.type_ /\ self'.repeatable_ = self.repeatable_
    BY <2>1 DEF Shape, Objects
  <2>4. Shape'
    <3>1. pc' \in [Callers -> Points]
      BY <2>1 DEF Shape, Points
    <3> QED
      BY <2>1, <2>2, <2>3, <3>1 DEF Shape
  <2>5. Alone'
    BY <2>1, <2>2 DEF Alone
  <2>6. Read'
    BY <2>1, <2>2 DEF Read, Seen, Formatted, Fields
  <2>7. Sound'
    BY <2>1, <2>2, <2>3 DEF Sound, SameCommand
  <2> QED
    BY <2>4, <2>5, <2>6, <2>7
<1>4. ASSUME NEW f \in Fields, GetSize(f) PROVE ExactInv'
  <2> DEFINE seen == [sized EXCEPT ![f] = self[f]]
  <2>1. /\ pc["getter"] = "size" /\ f \in unread
        /\ \/ /\ unread = {f} /\ pc' = [pc EXCEPT !["getter"] = "format"]
              /\ new_size' = Size(seen) /\ sized' = Command0
              /\ unread' = Formatted
           \/ /\ unread # {f} /\ pc' = pc /\ sized' = seen
              /\ unread' = unread \ {f} /\ new_size' = new_size
        /\ UNCHANGED <<self, order, issued, tp, text, now, overlapped>>
    BY <1>4 DEF GetSize, Goto, setVars
  <2>2. /\ pc'["getter"] \in {"size", "format"} /\ pc' \in [Callers -> Points]
        /\ pc'["getter"] = "format" <=> unread = {f}
        /\ pc'["setter"] = pc["setter"]
    BY <2>1 DEF Shape, Points
  <2>3. seen \in Objects /\ Looked(f, sized, seen)
    BY LookedAt DEF Shape
  <2> HIDE DEF seen
  <2>4. Shape'
    <3>1. Command0 \in Objects
      BY DEF Command0, Objects, Types
    <3> QED
      BY <2>1, <2>2, <2>3, <3>1 DEF Shape
  <2>5. Alone'
    BY <2>1, <2>2 DEF Alone
  <2>6. Read'
    <3>1. CASE unread = {f}
      <4>1. Seen(sized) => Size(seen) = Size(self)
        BY <2>3, <3>1 DEF Seen, Looked, Size
      <4>2. Seen(text)'
        BY <2>1, <3>1 DEF Seen, Formatted, Fields
      <4> QED
        BY <2>1, <2>2, <3>1, <4>1, <4>2 DEF Read
    <3>2. CASE unread # {f}
      <4>1. Seen(sized) => Seen(sized)'
        BY <2>1, <2>3, <3>2 DEF Seen, Looked
      <4> QED
        BY <2>1, <2>2, <3>2, <4>1 DEF Read
    <3> QED
      BY <3>1, <3>2
  <2>7. Sound'
    BY <2>1, <2>2 DEF Sound
  <2> QED
    BY <2>4, <2>5, <2>6, <2>7
<1>5. ASSUME NEW f \in Fields, GetFormat(f) PROVE ExactInv'
  <2>1. /\ pc["getter"] = "format" /\ f \in unread /\ unread' = unread \ {f}
        /\ text' = [text EXCEPT ![f] = self[f]]
        /\ \/ unread = {f} /\ pc' = [pc EXCEPT !["getter"] = "unlock"]
           \/ unread # {f} /\ pc' = [pc EXCEPT !["getter"] = "format"]
        /\ UNCHANGED <<self, order, issued, tp, sized, new_size, now,
                       overlapped>>
    BY <1>5 DEF GetFormat, Goto, setVars
  <2>2. /\ pc'["getter"] \in {"format", "unlock"}
        /\ pc'["getter"] = "unlock" => unread' = {}
        /\ pc'["setter"] = pc["setter"]
    BY <2>1 DEF Shape
  <2>3. text' \in Objects /\ Looked(f, text, text')
    BY <2>1, LookedAt DEF Shape
  <2>4. Shape'
    <3>1. pc' \in [Callers -> Points]
      BY <2>1 DEF Shape, Points
    <3> QED
      BY <2>1, <2>2, <2>3, <3>1 DEF Shape
  <2>5. Alone'
    BY <2>1, <2>2 DEF Alone
  <2>6. Read'
    <3>1. Seen(text) => Seen(text)'
      BY <2>1, <2>3 DEF Seen, Looked
    <3> QED
      BY <2>1, <2>2, <3>1 DEF Read
  <2>7. Sound'
    BY <2>1, <2>2 DEF Sound
  <2> QED
    BY <2>4, <2>5, <2>6, <2>7
<1>6. CASE GetUnlock
  <2>1. /\ pc["getter"] = "unlock" /\ pc' = [pc EXCEPT !["getter"] = "idle"]
        /\ text' = Command0
        /\ UNCHANGED <<self, order, issued, tp, unread, sized, now>>
    BY <1>6 DEF GetUnlock, Goto, setVars
  <2>2. pc'["getter"] = "idle" /\ pc'["setter"] = pc["setter"]
    BY <2>1 DEF Shape
  <2>3. Shape'
    <3>1. pc' \in [Callers -> Points]
      BY <2>1 DEF Shape, Points
    <3>2. Command0 \in Objects
      BY DEF Command0, Objects, Types
    <3> QED
      BY <2>1, <2>2, <3>1, <3>2 DEF Shape
  <2>4. Alone' /\ Read'
    BY <2>1, <2>2 DEF Alone, Read, Seen
  <2>5. Sound'
    BY <2>1, <2>2 DEF Sound
  <2> QED
    BY <2>3, <2>4, <2>5
<1>7. CASE Tick
  <2>1. /\ now' = now + 1
        /\ UNCHANGED <<self, pc, order, issued, tp, unread, sized, new_size,
                       text, overlapped>>
    BY <1>7 DEF Tick, setVars, getVars
  <2>2. Shape'
    BY <2>1 DEF Shape
  <2>3. Alone' /\ Read' /\ Sound'
    BY <2>1 DEF Alone, Read, Seen, Sound
  <2> QED
    BY <2>2, <2>3
<1> QED
  BY <1>1, <1>2, <1>3, <1>4, <1>5, <1>6, <1>7 DEF Get

LEMMA ExactNext == ExactInv /\ [Next]_vars => ExactInv'
<1> SUFFICES ASSUME ExactInv, [Next]_vars PROVE ExactInv'
  OBVIOUS
<1>1. CASE Set \/ \E o \in Orders : SetBegin(o)
  BY <1>1, SetNext
<1>2. CASE Get \/ GetBegin \/ Tick
  BY <1>2, GetNext
<1>3. CASE UNCHANGED vars
  <2>1. UNCHANGED <<self, pc, order, issued, tp, unread, sized, new_size,
                    text, now, overlapped>>
    BY <1>3 DEF vars, setVars, getVars
  <2> QED
    BY <2>1 DEF ExactInv, Shape, Alone, Read, Seen, Sound
<1> QED
  BY <1>1, <1>2, <1>3 DEF Next

(* A Get() without a Set() alongside formats a command that was set, with  *)
(* its own id, type and kind (QuietGetIsExact, Command.cpp:5-65), although *)
(* neither call holds the flag both call a spin lock.                      *)
THEOREM QuietGetsAreExact == Spec => []QuietGetIsExact
<1>1. ExactInv => QuietGetIsExact
  <2> SUFFICES ASSUME ExactInv, pc["getter"] = "unlock", ~overlapped
               PROVE  /\ new_size = Size(text)
                      /\ SameCommand(text, issued[text.id_])
    BY DEF QuietGetIsExact
  <2>1. pc["setter"] = "idle"
    BY DEF ExactInv, Alone
  <2>2. SameCommand(self, issued[self.id_])
    BY <2>1 DEF ExactInv, Sound
  <2>3. /\ text.id_ = self.id_ /\ text.type_ = self.type_
        /\ text.timepoint_ = self.timepoint_
        /\ text.repeatable_ = self.repeatable_ /\ new_size = Size(self)
    BY DEF ExactInv, Read, Seen
  <2> QED
    BY <2>2, <2>3 DEF SameCommand, Size
<1> QED
  BY <1>1, ExactInit, ExactNext, PTL DEF Spec

-----------------------------------------------------------------------------
(* What holds of a Get() whatever runs alongside.                          *)

(* The value v of the field f is that of a command that was set.           *)
Given(f, v) == \E i \in DOMAIN issued : issued[i][f] = v

GivenAll(d) ==
  /\ Given("id_", d.id_)
  /\ Given("type_", d.type_)
  /\ Given("repeatable_", d.repeatable_)

GivenInv ==
  /\ issued[0] = Command0
  /\ GivenAll(self) /\ GivenAll(text) /\ GivenAll(directive)

(* Ids are drawn one after another and read once by each Get().            *)
IdInv ==
  /\ directive \in Objects
  /\ unread \subseteq Formatted
  /\ directive.id_ <= self.id_
  /\ sized.id_ <= self.id_
  /\ text.id_ <= self.id_
  /\ (pc["getter"] \in {"format", "unlock"} /\ "id_" \notin unread)
       => directive.id_ <= text.id_

(* No time stamp is ahead of the clock.                                    *)
TimeInv ==
  /\ Epoch <= now
  /\ tp <= now
  /\ self.timepoint_ <= now
  /\ sized.timepoint_ <= now
  /\ text.timepoint_ <= now
  /\ directive.timepoint_ <= now

(* The bounds of the model are kept.                                       *)
BoundInv ==
  /\ pc["setter"] \in {"spin", "test", "id_"} => self.id_ < MaxId
  /\ self.id_ <= MaxId
  /\ now <= MaxClock
  /\ new_size \in Nat
  /\ pc["setter"] \in {"idle", "spin", "test", "unlock"} \cup Fields

LockTypes ==
  /\ m_SpinLock \in BOOLEAN
  /\ expected \in [Callers -> BOOLEAN]
  /\ overlapped \in BOOLEAN
  /\ garbled \in BOOLEAN

FieldInv == GivenInv /\ IdInv /\ TimeInv /\ BoundInv

LEMMA FieldInit == Init => FieldInv
<1> SUFFICES ASSUME Init PROVE FieldInv
  OBVIOUS
<1>0. Command0 \in Objects
  BY DEF Command0, Objects, Types
<1>1. GivenInv
  BY DEF Init, GivenInv, GivenAll, Given
<1>2. IdInv
  BY <1>0 DEF Init, IdInv, Formatted, Fields, Objects, Callers
<1>3. TimeInv
  BY ClockAssumption DEF Init, TimeInv, Command0
<1>4. BoundInv
  BY ClockAssumption DEF Init, BoundInv, Command0, Callers
<1> QED
  BY <1>1, <1>2, <1>3, <1>4 DEF FieldInv

(* Nothing that was set is forgotten.                                      *)
LEMMA IssueKeeps ==
  ASSUME ExactInv, Issue
  PROVE  /\ issued'[0] = issued[0]
         /\ \A i \in DOMAIN issued :
              i \in DOMAIN issued' /\ issued'[i] = issued[i]
         /\ self.id_ + 1 \in DOMAIN issued'
         /\ issued'[self.id_ + 1] = Meant
<1>1. DOMAIN issued = 0..self.id_ /\ self.id_ \in Nat
  BY DEF ExactInv, Sound, Shape, Objects
<1>2. /\ DOMAIN issued' = 0..(self.id_ + 1)
      /\ \A i \in 0..self.id_ : issued'[i] = issued[i]
      /\ issued'[self.id_ + 1] = Meant
  BY <1>1 DEF Issue
<1> QED
  BY <1>1, <1>2

LEMMA LockTypesNext == LockTypes /\ [Next]_vars => LockTypes'
<1> SUFFICES ASSUME LockTypes, [Next]_vars PROVE LockTypes'
  OBVIOUS
<1> USE DEF LockTypes
<1>1. ASSUME NEW c \in Callers, NEW next, CompareExchange(c, next),
             UNCHANGED <<overlapped, garbled>>
      PROVE  LockTypes'
  <2>1. CASE m_SpinLock = expected[c]
    BY <1>1, <2>1 DEF CompareExchange
  <2>2. CASE m_SpinLock # expected[c]
    BY <1>1, <2>2 DEF CompareExchange, Retry
  <2> QED
    BY <2>1, <2>2
<1>2. CASE SetLock
  <2>1. CompareExchange("setter", "test") /\ UNCHANGED <<overlapped, garbled>>
    BY <1>2 DEF SetLock, getVars
  <2> QED
    BY <2>1, <1>1 DEF Callers
<1>3. CASE GetLock
  <2>1. CompareExchange("getter", "renew") /\ UNCHANGED <<overlapped, garbled>>
    BY <1>3 DEF GetLock, getVars
  <2> QED
    BY <2>1, <1>1 DEF Callers
<1>4. CASE GetBegin \/ \E o \in Orders : SetBegin(o)
  <2>1. /\ m_SpinLock' = m_SpinLock
        /\ expected' \in [Callers -> BOOLEAN]
    BY <1>4 DEF GetBegin, SetBegin
  <2>2. overlapped' \in BOOLEAN /\ garbled' = garbled
    BY <1>4 DEF GetBegin, SetBegin, getVars
  <2> QED
    BY <2>1, <2>2
<1>5. CASE SetUnlock \/ GetUnlock
  <2>1. garbled' \in BOOLEAN
    BY <1>5 DEF SetUnlock, GetUnlock, getVars
  <2> QED
    BY <1>5, <2>1 DEF SetUnlock, GetUnlock
<1>6. CASE \/ SetTest \/ (\E f \in Fields : SetStore(f)) \/ Tick
           \/ GetRenewTest \/ GetAge \/ GetRenewStore
           \/ \E f \in Fields : GetSize(f) \/ GetFormat(f)
  <2>1. UNCHANGED <<m_SpinLock, expected, overlapped, garbled>>
    BY <1>6 DEF SetTest, SetStore, GetRenewTest, GetAge, GetRenewStore,
                GetSize, GetFormat, Tick, getVars
  <2> QED
    BY <2>1
<1>7. CASE UNCHANGED vars
  BY <1>7 DEF vars, getVars
<1> QED
  BY <1>2, <1>3, <1>4, <1>5, <1>6, <1>7 DEF Next, Set, Get

(* The steps of Set().                                                     *)
LEMMA FieldSetNext ==
  ASSUME ExactInv, ExactInv', FieldInv, Set \/ \E o \in Orders : SetBegin(o)
  PROVE  FieldInv'
<1> USE DEF FieldInv
<1>0. /\ self \in Objects /\ sized \in Objects /\ text \in Objects
      /\ now \in Nat
      /\ pc \in [Callers -> Points] /\ MaxId \in Nat
  BY ClockAssumption DEF ExactInv, Shape
<1>1. CASE SetLock \/ SetTest \/ SetUnlock \/ \E o \in Orders : SetBegin(o)
  <2>1. UNCHANGED <<self, sized, new_size, text, directive, issued, unread,
                  now, tp>>
    BY <1>1 DEF SetLock, SetTest, SetUnlock, SetBegin, setVars, getVars
  <2>2. /\ pc'["getter"] = pc["getter"]
        /\ pc'["setter"] \in {"idle", "spin", "test", "id_"}
        /\ \/ pc["setter"] \in {"spin", "test", "id_"}
           \/ self.id_ < MaxId
           \/ pc'["setter"] = "idle"
    BY <1>0, <1>1, Exchange
    DEF SetLock, SetTest, SetUnlock, SetBegin, CompareExchange, Goto, Callers
  <2>3. GivenInv'
    BY <2>1 DEF GivenInv, GivenAll, Given
  <2>4. IdInv' /\ TimeInv'
    BY <2>1, <2>2 DEF IdInv, TimeInv
  <2>5. BoundInv'
    BY <2>1, <2>2 DEF BoundInv, Fields
  <2> QED
    BY <2>3, <2>4, <2>5
<1>2. ASSUME NEW f \in Fields, SetStore(f) PROVE FieldInv'
  <2>1. /\ pc["setter"] = f /\ pc' = [pc EXCEPT !["setter"] = StoreOrder[f]]
        /\ self' = [self EXCEPT ![f] = NewValue(f)]
        /\ IF f = "id_" THEN Issue ELSE UNCHANGED issued
        /\ UNCHANGED <<sized, new_size, text, directive, unread, now, tp>>
    BY <1>2 DEF SetStore, Goto, getVars
  <2>2. /\ pc'["getter"] = pc["getter"]
        /\ pc'["setter"] = StoreOrder[f]
    BY <1>0, <2>1 DEF Callers
  <2>3. CASE f = "id_"
    <3>1. NewValue("id_") = self.id_ + 1 /\ StoreOrder["id_"] = "type_"
      BY DEF NewValue, Ordered, StoreOrder
    <3>2. /\ self'.id_ = self.id_ + 1 /\ self.id_ \in Nat
          /\ self'.type_ = self.type_
          /\ self'.timepoint_ = self.timepoint_
          /\ self'.repeatable_ = self.repeatable_
      BY <1>0, <2>1, <2>3, <3>1 DEF Objects
    <3>3. Issue
      BY <2>1, <2>3
    <3>4. Meant.id_ = self.id_ + 1
      BY DEF Ordered, Meant
    <3>5. GivenAll(self)'
      BY <3>2, <3>3, <3>4, IssueKeeps DEF GivenInv, GivenAll, Given
    <3>6. GivenAll(text)' /\ GivenAll(directive)' /\ issued'[0] = Command0
      BY <2>1, <3>3, IssueKeeps DEF GivenInv, GivenAll, Given
    <3>7. GivenInv'
      BY <3>5, <3>6 DEF GivenInv
    <3>8. IdInv'
      <4>1. sized.id_ \in Nat /\ text.id_ \in Nat /\ directive.id_ \in Nat
        BY <1>0 DEF IdInv, Objects
      <4> QED
        BY <2>1, <2>2, <3>2, <4>1 DEF IdInv
    <3>9. TimeInv'
      BY <2>1, <3>2 DEF TimeInv
    <3>10. BoundInv'
      BY <1>0, <2>1, <2>2, <2>3, <3>1, <3>2 DEF BoundInv, Fields
    <3> QED
      BY <3>7, <3>8, <3>9, <3>10
  <2>4. CASE f # "id_"
    <3>1. /\ StoreOrder[f] \in Fields \cup {"unlock"}
          /\ StoreOrder[f] \notin {"spin", "test", "id_"}
      BY <2>4 DEF StoreOrder, Fields
    <3>2. self'.id_ = self.id_
      BY <1>0, <2>1, <2>4 DEF Objects, Fields
    <3>3. /\ issued[self.id_].type_ = order[1]
             \/ pc["setter"] \notin {"type_", "timepoint_", "repeatable_"}
          /\ issued[self.id_].repeatable_ = ("REPEATABLE" \in order[2])
             \/ pc["setter"] \notin {"type_", "timepoint_", "repeatable_"}
          /\ self.id_ \in DOMAIN issued
      BY <1>0 DEF ExactInv, Sound, Objects
    <3>4. UNCHANGED issued
      BY <2>1, <2>4
    <3>5. Given("type_", self'.type_)
      <4>1. CASE f = "type_"
        <5>1. self'.type_ = order[1]
          BY <1>0, <2>1, <4>1 DEF NewValue, Ordered, Objects
        <5> QED
          BY <2>1, <3>3, <4>1, <5>1 DEF Given
      <4>2. CASE f # "type_"
        <5>1. self'.type_ = self.type_
          BY <1>0, <2>1, <4>2 DEF Objects, Fields
        <5> QED
          BY <5>1 DEF GivenInv, GivenAll
      <4> QED
        BY <4>1, <4>2
    <3>6. Given("repeatable_", self'.repeatable_)
      <4>1. CASE f = "repeatable_"
        <5>1. self'.repeatable_ = ("REPEATABLE" \in order[2])
          BY <1>0, <2>1, <4>1 DEF NewValue, Ordered, Objects
        <5> QED
          BY <2>1, <3>3, <4>1, <5>1 DEF Given
      <4>2. CASE f # "repeatable_"
        <5>1. self'.repeatable_ = self.repeatable_
          BY <1>0, <2>1, <4>2 DEF Objects, Fields
        <5> QED
          BY <5>1 DEF GivenInv, GivenAll
      <4> QED
        BY <4>1, <4>2
    <3>7. GivenInv'
      BY <2>1, <3>2, <3>4, <3>5, <3>6 DEF GivenInv, GivenAll, Given
    <3>8. self'.timepoint_ <= now
      <4>1. CASE f = "timepoint_"
        BY <1>0, <2>1, <4>1 DEF NewValue, Ordered, Objects
      <4>2. CASE f # "timepoint_"
        <5>1. self'.timepoint_ = self.timepoint_
          BY <1>0, <2>1, <4>2 DEF Objects, Fields
        <5> QED
          BY <5>1 DEF TimeInv
      <4> QED
        BY <4>1, <4>2
    <3>9. IdInv' /\ TimeInv'
      BY <2>1, <2>2, <3>2, <3>8 DEF IdInv, TimeInv
    <3>10. BoundInv'
      BY <2>1, <2>2, <3>1, <3>2 DEF BoundInv
    <3> QED
      BY <3>7, <3>9, <3>10
  <2> QED
    BY <2>3, <2>4
<1> QED
  BY <1>1, <1>2 DEF Set

(* The steps of Get() and of the clock.                                    *)
LEMMA FieldGetNext ==
  ASSUME ExactInv, ExactInv', FieldInv, Get \/ GetBegin \/ Tick
  PROVE  FieldInv'
<1> USE DEF FieldInv
<1>0. /\ self \in Objects /\ sized \in Objects /\ text \in Objects
      /\ now \in Nat /\ tp \in Nat
      /\ pc \in [Callers -> Points] /\ MaxId \in Nat /\ MaxClock \in Nat
      /\ Epoch \in Nat /\ directive \in Objects
  BY ClockAssumption DEF ExactInv, Shape, IdInv
<1>1. CASE GetBegin \/ GetLock \/ GetRenewTest \/ GetAge
  <2>1. /\ UNCHANGED <<self, sized, new_size, text, directive, issued, now>>
        /\ tp' = tp \/ tp' = now
        /\ unread' \in {unread, Formatted}
    BY <1>1 DEF GetBegin, GetLock, GetRenewTest, GetAge, setVars, getVars
  <2>2. /\ pc'["setter"] = pc["setter"]
        /\ pc'["getter"] \in {"spin", "renew", "age", "store", "size"}
    BY <1>0, <1>1, Exchange
    DEF GetBegin, GetLock, GetRenewTest, GetAge, CompareExchange, Goto, Callers
  <2>4. GivenInv'
    BY <2>1 DEF GivenInv, GivenAll, Given
  <2>5. IdInv' /\ TimeInv'
    BY <1>0, <2>1, <2>2 DEF IdInv, TimeInv
  <2>6. BoundInv'
    BY <2>1, <2>2 DEF BoundInv
  <2> QED
    BY <2>4, <2>5, <2>6
<1>2. CASE GetRenewStore
  <2>1. /\ pc["getter"] = "store" /\ pc' = [pc EXCEPT !["getter"] = "size"]
        /\ self' = [self EXCEPT !.timepoint_ = tp] /\ tp' = 0
        /\ UNCHANGED <<issued, unread, sized, new_size, text, directive, now>>
    BY <1>2 DEF GetRenewStore, Goto, setVars, getVars
  <2>2. pc'["getter"] = "size" /\ pc'["setter"] = pc["setter"]
    BY <1>0, <2>1 DEF Callers
  <2>3. /\ self'.id_ = self.id_ /\ self'.type_ = self.type_
        /\ self'.repeatable_ = self.repeatable_ /\ self'.timepoint_ = tp
    BY <1>0, <2>1 DEF Objects
  <2>5. GivenInv'
    BY <2>1, <2>3 DEF GivenInv, GivenAll, Given
  <2>6. IdInv' /\ TimeInv'
    BY <1>0, <2>1, <2>2, <2>3 DEF IdInv, TimeInv
  <2>7. BoundInv'
    BY <2>1, <2>2, <2>3 DEF BoundInv
  <2> QED
    BY <2>5, <2>6, <2>7
<1>3. ASSUME NEW f \in Fields, GetSize(f) PROVE FieldInv'
  <2> DEFINE seen == [sized EXCEPT ![f] = self[f]]
  <2>1. /\ \/ /\ pc' = [pc EXCEPT !["getter"] = "format"]
              /\ new_size' = Size(seen) /\ sized' = Command0
              /\ unread' = Formatted
           \/ /\ pc' = pc /\ sized' = seen /\ unread' = unread \ {f}
              /\ new_size' = new_size
        /\ pc["getter"] = "size"
        /\ UNCHANGED <<self, issued, tp, text, directive, now>>
    BY <1>3 DEF GetSize, Goto, setVars
  <2>2. /\ pc'["getter"] = "format" => "id_" \in unread'
        /\ pc'["getter"] \in {"size", "format"}
        /\ pc'["setter"] = pc["setter"] /\ unread' \subseteq Formatted
    BY <1>0, <2>1 DEF Callers, Formatted, Fields, IdInv
  <2>3. /\ seen \in Objects /\ seen.id_ \in {sized.id_, self.id_}
        /\ seen.timepoint_ \in {sized.timepoint_, self.timepoint_}
    BY <1>0, LookedAt DEF Looked
  <2> HIDE DEF seen
  <2>4. seen.id_ \in 0..MaxId
    BY <1>0, <2>3 DEF IdInv, BoundInv, Objects
  <2>5. Size(seen) \in Nat
    <3>1. Digits[seen.id_] \in Nat /\ Letters[seen.type_] \in Nat
      BY <2>3, <2>4, WidthAssumption DEF Objects
    <3> QED
      BY <3>1 DEF Size
  <2>6. GivenInv'
    BY <2>1 DEF GivenInv, GivenAll, Given
  <2>7. IdInv'
    BY <1>0, <2>1, <2>2, <2>3 DEF IdInv, Command0, Objects
  <2>8. TimeInv'
    BY <1>0, <2>1, <2>3 DEF TimeInv, Command0
  <2>9. BoundInv'
    BY <2>1, <2>2, <2>5 DEF BoundInv
  <2> QED
    BY <2>6, <2>7, <2>8, <2>9
<1>4. ASSUME NEW f \in Fields, GetFormat(f) PROVE FieldInv'
  <2>1. /\ pc["getter"] = "format" /\ f \in unread /\ unread' = unread \ {f}
        /\ text' = [text EXCEPT ![f] = self[f]]
        /\ \/ pc' = [pc EXCEPT !["getter"] = "unlock"]
           \/ pc' = [pc EXCEPT !["getter"] = "format"]
        /\ UNCHANGED <<self, issued, tp, sized, new_size, directive, now>>
    BY <1>4 DEF GetFormat, Goto, setVars
  <2>2. /\ pc'["getter"] \in {"format", "unlock"}
        /\ pc'["setter"] = pc["setter"]
    BY <1>0, <2>1 DEF Callers
  <2>3. /\ text'.id_ \in {text.id_, self.id_}
        /\ f = "id_" => text'.id_ = self.id_
        /\ f # "id_" => text'.id_ = text.id_
        /\ text'.type_ \in {text.type_, self.type_}
        /\ text'.timepoint_ \in {text.timepoint_, self.timepoint_}
        /\ text'.repeatable_ \in {text.repeatable_, self.repeatable_}
    BY <1>0, <2>1, LookedAt DEF Looked
  <2>4. GivenAll(text)'
    <3>1. Given("id_", text'.id_)
      BY <2>3 DEF GivenInv, GivenAll
    <3>2. Given("type_", text'.type_)
      BY <2>3 DEF GivenInv, GivenAll
    <3>3. Given("repeatable_", text'.repeatable_)
      BY <2>3 DEF GivenInv, GivenAll
    <3> QED
      BY <2>1, <3>1, <3>2, <3>3 DEF GivenAll, Given
  <2>5. GivenInv'
    BY <2>1, <2>4 DEF GivenInv, GivenAll, Given
  <2>6. IdInv'
    <3>1. self.id_ \in Nat /\ text.id_ \in Nat /\ directive.id_ \in Nat
      BY <1>0 DEF Objects
    <3>2. "id_" \notin unread' => f = "id_" \/ "id_" \notin unread
      BY <2>1
    <3>3. unread' \subseteq Formatted
      BY <2>1 DEF IdInv
    <3> QED
      BY <2>1, <2>2, <2>3, <3>1, <3>2, <3>3 DEF IdInv
  <2>7. TimeInv'
    BY <2>1, <2>3 DEF TimeInv
  <2>8. BoundInv'
    BY <2>1, <2>2 DEF BoundInv
  <2> QED
    BY <2>5, <2>6, <2>7, <2>8
<1>5. CASE GetUnlock
  <2>1. /\ pc["getter"] = "unlock" /\ pc' = [pc EXCEPT !["getter"] = "idle"]
        /\ directive' = text /\ text' = Command0 /\ new_size' = 0
        /\ UNCHANGED <<self, issued, tp, unread, sized, now>>
    BY <1>5 DEF GetUnlock, Goto, setVars
  <2>2. pc'["getter"] = "idle" /\ pc'["setter"] = pc["setter"]
    BY <1>0, <2>1 DEF Callers
  <2>3. 0 \in DOMAIN issued /\ self.id_ \in Nat
    BY <1>0 DEF ExactInv, Sound, Objects
  <2>4. GivenInv'
    BY <2>1, <2>3 DEF GivenInv, GivenAll, Given
  <2>5. IdInv'
    BY <1>0, <2>1, <2>2, <2>3 DEF IdInv, Command0
  <2>6. TimeInv'
    BY <1>0, <2>1 DEF TimeInv, Command0
  <2>7. BoundInv'
    BY <2>1, <2>2 DEF BoundInv
  <2> QED
    BY <2>4, <2>5, <2>6, <2>7
<1>6. CASE Tick
  <2>1. /\ now < MaxClock /\ now' = now + 1
        /\ UNCHANGED <<self, pc, issued, tp, unread, sized, new_size, text,
                       directive>>
    BY <1>6 DEF Tick, setVars, getVars
  <2>2. GivenInv' /\ IdInv'
    BY <2>1 DEF GivenInv, GivenAll, Given, IdInv
  <2>3. TimeInv'
    BY <1>0, <2>1 DEF TimeInv, Objects
  <2>4. BoundInv'
    BY <1>0, <2>1 DEF BoundInv
  <2> QED
    BY <2>2, <2>3, <2>4
<1> QED
  BY <1>1, <1>2, <1>3, <1>4, <1>5, <1>6 DEF Get

LEMMA FieldNext == ExactInv /\ FieldInv /\ [Next]_vars => FieldInv'
<1> SUFFICES ASSUME ExactInv, ExactInv', FieldInv, [Next]_vars PROVE FieldInv'
  BY ExactNext
<1>1. CASE Set \/ \E o \in Orders : SetBegin(o)
  BY <1>1, FieldSetNext
<1>2. CASE Get \/ GetBegin \/ Tick
  BY <1>2, FieldGetNext
<1>3. CASE UNCHANGED vars
  <2>1. UNCHANGED <<self, pc, issued, tp, unread, sized, new_size, text,
                    directive, now>>
    BY <1>3 DEF vars, setVars, getVars
  <2> QED
    BY <2>1 DEF FieldInv, GivenInv, GivenAll, Given, IdInv, TimeInv, BoundInv
<1> QED
  BY <1>1, <1>2, <1>3 DEF Next

LEMMA FieldInvariance == Spec => [](ExactInv /\ FieldInv /\ LockTypes)
<1>1. Init => LockTypes
  BY DEF Init, LockTypes
<1> QED
  BY <1>1, ExactInit, ExactNext, FieldInit, FieldNext, LockTypesNext, PTL
  DEF Spec

(* The Command object, its two callers and the directive are well typed    *)
(* for every set of orders (TypeOK, Command.hpp and Command.cpp).          *)
THEOREM TypeCorrect == Spec => []TypeOK
<1>1. ExactInv /\ FieldInv /\ LockTypes => TypeOK
  <2> SUFFICES ASSUME ExactInv, FieldInv, LockTypes PROVE TypeOK
    OBVIOUS
  <2> USE DEF ExactInv, Shape, FieldInv, IdInv, TimeInv, BoundInv, Objects
  <2>1. /\ self \in Commands /\ sized \in Commands /\ text \in Commands
        /\ directive \in Commands
    BY ClockAssumption DEF Commands
  <2>2. /\ tp \in 0..MaxClock /\ now \in Epoch..MaxClock
        /\ DOMAIN issued \subseteq 0..MaxId
    BY ClockAssumption DEF Sound
  <2>3. /\ pc["setter"] \in {"idle", "spin", "test", "unlock"} \cup Fields
        /\ pc["getter"] \in {"idle", "spin", "renew", "age", "store", "size",
                             "format", "unlock"}
        /\ new_size \in Nat
        /\ order \in Orders \cup {NoOrder} /\ unread \subseteq Formatted
    OBVIOUS
  <2> QED
    BY <2>1, <2>2, <2>3, Zenon DEF TypeOK, LockTypes
<1> QED
  BY <1>1, FieldInvariance, PTL

(* Whatever a Set() does to the object meanwhile, each field Get() formats *)
(* is one that was set, and its time is not ahead of the clock.  So is each*)
(* field of a directive that fills its string; one whose two passes saw    *)
(* different lengths is cut short or followed by something old.            *)
TornAtMost ==
  ~garbled =>
    /\ \E i \in DOMAIN issued : directive.id_ = issued[i].id_
    /\ \E i \in DOMAIN issued : directive.type_ = issued[i].type_
    /\ \E i \in DOMAIN issued : directive.repeatable_ = issued[i].repeatable_
    /\ directive.timepoint_ <= now

(* The worst a Get() in the middle of a Set() can return, when the lengths *)
(* of its two passes agree, is a mixture of commands that were set         *)
(* (Command.cpp:23-28 against 57-63): no field is made up.                 *)
THEOREM NoFieldMadeUp == Spec => []TornAtMost
<1>1. FieldInv => TornAtMost
  <2> SUFFICES ASSUME FieldInv PROVE TornAtMost
    OBVIOUS
  <2>1. GivenAll(directive) /\ directive.timepoint_ <= now
    BY DEF FieldInv, GivenInv, TimeInv
  <2>2. /\ \E i \in DOMAIN issued : issued[i].id_ = directive.id_
        /\ \E i \in DOMAIN issued : issued[i].type_ = directive.type_
        /\ \E i \in DOMAIN issued :
             issued[i].repeatable_ = directive.repeatable_
    BY <2>1 DEF GivenAll, Given
  <2> QED
    BY <2>1, <2>2 DEF TornAtMost
<1> QED
  BY <1>1, FieldInvariance, PTL

(* The ids of the directives never go back, although the object may change *)
(* in the middle of each Get().  (The id is what the second pass formats;  *)
(* being the first field it is never cut off.)                             *)
IdsNeverGoBack == [][directive'.id_ >= directive.id_]_vars

(* One Get() after another sees the commands in the order they were given  *)
(* (Command.cpp:23-28, 57): a torn directive never carries an older id     *)
(* than the one before it.                                                 *)
THEOREM IdsAreMonotonic == Spec => IdsNeverGoBack
<1>1. ASSUME ExactInv, FieldInv, [Next]_vars
      PROVE  directive'.id_ >= directive.id_
  <2>0. directive.id_ \in Nat /\ text.id_ \in Nat
    BY <1>1 DEF FieldInv, IdInv, ExactInv, Shape, Objects
  <2>1. CASE GetUnlock
    <3>1. pc["getter"] = "unlock" /\ directive' = text
      BY <2>1 DEF GetUnlock
    <3>2. unread = {}
      BY <1>1, <3>1 DEF ExactInv, Read
    <3> QED
      BY <1>1, <2>0, <3>1, <3>2 DEF FieldInv, IdInv
  <2>2. CASE ~GetUnlock
    <3>1. directive' = directive
      BY <1>1, <2>2
      DEF Next, Set, Get, SetBegin, SetLock, SetTest, SetStore, SetUnlock,
          GetBegin, GetLock, GetRenewTest, GetAge, GetRenewStore, GetSize,
          GetFormat, Tick, getVars, vars
    <3> QED
      BY <2>0, <3>1
  <2> QED
    BY <2>1, <2>2
<1> QED
  BY <1>1, FieldInvariance, PTL DEF Spec, IdsNeverGoBack
=============================================================================
