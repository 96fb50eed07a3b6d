-------------------------- MODULE MlmeQueueProofs --------------------------
(***************************************************************************)
(* MlmeHandler works on an element of the ring after it has counted it     *)
(* out, and callers put their messages in after the test for room.  As     *)
(* long as the elements that neither the ring nor the test counts have     *)
(* room next to those that wait, no message is written over another.  For  *)
(* a ring of any size and any callers.                                     *)
(***************************************************************************)
EXTENDS MlmeQueue, FiniteSetTheorems, SequenceTheorems, TLAPS

Worked == Elem = None <=> thread # "work"

Stopped == up = "down" => thread = "wait" /\ ~wake

\* QTail is behind the elements that wait.
Behind == QTail = IF QHead + Num < Max THEN QHead + Num ELSE QHead + Num - Max

\* The element in work is the one before the head.
Follows == Elem # None => After(Elem) = QHead

\* Elements that wait, are worked on, or are spoken for.
Fits == Num + Unseen <= Max

Sound == Behind /\ Follows /\ Fits

IInv == TypeOK /\ Worked /\ Stopped /\ OccupiedExact /\ (overbooked \/ Sound)
-----------------------------------------------------------------------------
\* Half of the ring has at least one element.
LEMMA HalfType == Max \div 2 \in Nat /\ Max \div 2 >= 1 /\ Max \in Nat /\ Max >= 2
BY MaxAssumption

\* The callers between test and insertion can be counted, and so can the elements
\* spoken for.
LEMMA CheckedFinite ==
    /\ IsFiniteSet(Checked) /\ Cardinality(Checked) \in Nat
    /\ Unseen \in Nat
    /\ Elem # None => Unseen = Cardinality(Checked) + 1
    /\ Elem = None => Unseen = Cardinality(Checked)
<1>1. IsFiniteSet(Procs) BY CallersAssumption, FS_Union DEF Procs
<1>2. IsFiniteSet(Checked) /\ Cardinality(Checked) \in Nat
  BY <1>1, FS_Subset, FS_CardinalityType DEF Checked
<1> QED BY <1>2 DEF Unseen

\* A caller in between finds the element behind the tail; with one in work, another.
LEMMA NotFull ==
    ASSUME IInv, ~overbooked
    PROVE  /\ Num \in Nat /\ Num <= Max
           /\ Elem # None => Num <= Max - 1 - Cardinality(Checked)
           /\ \A p \in Procs : pc[p] = "checked" =>
                  /\ Cardinality(Checked) >= 1
                  /\ Num <= Max - 1
                  /\ Elem # None => Num <= Max - 2
<1>1. Num \in Nat /\ Fits BY DEF IInv, TypeOK, Sound
<1>2. ASSUME NEW p \in Procs, pc[p] = "checked" PROVE Cardinality(Checked) >= 1
  <2>1. Checked # {} BY <1>2 DEF Checked
  <2>2. Cardinality(Checked) # 0 BY <2>1, CheckedFinite, FS_EmptySet
  <2> QED BY <2>2, CheckedFinite
<1>3. /\ Elem # None => Num + Cardinality(Checked) + 1 <= Max
      /\ Elem = None => Num + Cardinality(Checked) <= Max
  BY <1>1, CheckedFinite DEF Fits
<1> QED BY <1>1, <1>2, <1>3, CheckedFinite, HalfType

\* The property the theorems are about.
LEMMA Apart == IInv => ElemApart
<1> SUFFICES ASSUME IInv, Elem # None, ~overbooked
             PROVE  ~Pending(Elem) /\ (QTail = Elem => Checked = {})
  BY DEF ElemApart
<1>1. /\ Elem \in Slots /\ After(Elem) = QHead
      /\ QHead \in Slots /\ QTail \in Slots /\ Num \in Nat
      /\ Num <= Max - 1 - Cardinality(Checked) /\ Cardinality(Checked) \in Nat
      /\ Max \in Nat
  BY NotFull, HalfType, CheckedFinite DEF IInv, Sound, Follows, TypeOK
<1>2. ~Pending(Elem)
  BY <1>1 DEF Pending, After, Slots
<1>3. QTail = Elem => Num = Max - 1
  BY <1>1 DEF Sound, Behind, After, Slots, IInv
<1>4. QTail = Elem => Cardinality(Checked) = 0
  BY <1>1, <1>3
<1> QED BY <1>2, <1>4, CheckedFinite, FS_EmptySet

\* What an insertion and a removal make of the ring.
LEMMA InsertRing ==
    ASSUME TypeOK, Behind, Num <= Max - 1,
           QTail' = After(QTail), Num' = Num + 1, QHead' = QHead
    PROVE  /\ Behind' /\ ~Pending(QTail)
           /\ \A i \in Slots : Pending(i)' <=> Pending(i) \/ i = QTail
<1>1. /\ QHead \in 0 .. Max - 1 /\ QTail \in 0 .. Max - 1 /\ Num \in Nat
      /\ Max \in Nat
  BY HalfType DEF TypeOK, Slots
<1> QED BY <1>1 DEF Behind, After, Pending, Slots

\* MlmeDequeue takes the head out and leaves the tail where it is.
LEMMA DequeueRing ==
    ASSUME TypeOK, Behind, Num # 0, Num <= Max,
           QHead' = After(QHead), Num' = Num - 1, QTail' = QTail
    PROVE  /\ Behind' /\ Pending(QHead)
           /\ \A i \in Slots : Pending(i)' <=> Pending(i) /\ i # QHead
<1>1. /\ QHead \in 0 .. Max - 1 /\ QTail \in 0 .. Max - 1 /\ Num \in Nat
      /\ Max \in Nat
  BY HalfType DEF TypeOK, Slots
<1> QED BY <1>1 DEF Behind, After, Pending, Slots

\* The indexes wrap, and elements are written whole: the types are kept even by a
\* ring that is overbooked.
LEMMA AfterType == \A i \in Slots : After(i) \in Slots
BY HalfType DEF After, Slots
-----------------------------------------------------------------------------
\* MlmeQueueInit.
LEMMA Establishes == Init => IInv
<1> SUFFICES ASSUME Init PROVE IInv OBVIOUS
<1> USE DEF Init
<1>1. TypeOK
  <2>1. Entry \in [Slots -> [Occupied : BOOLEAN, msg : Msgs \cup {None}]]
    BY DEF Free
  <2>2. Num \in Nat /\ Num <= Max /\ QHead \in Slots /\ QTail \in Slots
    BY HalfType DEF Slots
  <2>3. pc \in [Procs -> {"idle", "checked", "inserted"}]
    OBVIOUS
  <2> QED BY <2>1, <2>2, <2>3 DEF TypeOK
<1>2. Worked /\ Stopped /\ Behind /\ Follows
  BY HalfType DEF Worked, Stopped, Behind, Follows
<1>3. Fits
  <2>1. Checked = {} BY DEF Checked
  <2> QED BY <2>1, FS_EmptySet, HalfType DEF Fits, Unseen
<1>4. OccupiedExact
  BY HalfType, NoneAssumption DEF OccupiedExact, Pending, Slots, Free
<1> QED BY <1>1, <1>2, <1>3, <1>4 DEF IInv, Sound

\* A caller passes MlmeQueueFull: there is room for its message, or overbooked tells.
LEMMA CheckStep ==
    ASSUME IInv, NEW p \in Procs, Check(p)
    PROVE  IInv'
<1>1. /\ pc' = [pc EXCEPT ![p] = "checked"] /\ ~MlmeQueueFull(p) /\ pc[p] = "idle"
      /\ overbooked' = (overbooked \/ Crowded(p))
      /\ UNCHANGED <<Num, QHead, QTail, Entry, thread, Elem, wake, up>>
  BY DEF Check
<1>2. TypeOK'
  <2>1. overbooked' \in BOOLEAN /\ (overbooked' \/ Num <= Max)
    BY <1>1, HalfType DEF IInv, TypeOK, Crowded
  <2> QED BY <1>1, <2>1 DEF IInv, TypeOK
<1>3. Worked' /\ Stopped' /\ OccupiedExact'
  BY <1>1 DEF IInv, Worked, Stopped, OccupiedExact, Pending
<1>4. ASSUME ~overbooked' PROVE Sound'
  <2>1. ~overbooked /\ ~Crowded(p) /\ Sound BY <1>1, <1>4 DEF IInv
  <2>2. Behind' /\ Follows' BY <1>1, <2>1 DEF Sound, Behind, Follows
  <2>3. Checked' = Checked \cup {p} /\ p \notin Checked
    BY <1>1 DEF Checked, IInv, TypeOK
  <2>4. Cardinality(Checked') = Cardinality(Checked) + 1
    BY <2>3, CheckedFinite, FS_AddElement
  <2>5. Unseen' = Unseen + 1
    BY <1>1, <2>4, CheckedFinite DEF Unseen
  <2>6. Num \in Nat /\ Num <= Max /\ Max \div 2 \in Nat /\ Max \in Nat
    BY <2>1, HalfType, NotFull
  <2>7. Num + Unseen + 1 <= Max
    <3>1. CASE p \in Tasklets
      <4>1. Num < Max \div 2 /\ Cardinality(Checked) < Max - Max \div 2
        BY <1>1, <2>1, <2>6, <3>1, CheckedFinite DEF MlmeQueueFull, Crowded
      <4>2. Unseen <= Cardinality(Checked) + 1 BY CheckedFinite
      <4> QED BY <2>6, <4>1, <4>2, CheckedFinite
    <3>2. CASE p \notin Tasklets
      <4>1. Num # Max /\ (Unseen = 0 \/ Num + Unseen < Max)
        BY <1>1, <2>1, <2>6, <3>2, CheckedFinite DEF MlmeQueueFull, Crowded
      <4> QED BY <2>6, <4>1, CheckedFinite
    <3> QED BY <3>1, <3>2
  <2>8. Fits' BY <1>1, <2>5, <2>6, <2>7, CheckedFinite DEF Fits
  <2> QED BY <2>2, <2>8 DEF Sound
<1> QED BY <1>2, <1>3, <1>4 DEF IInv

\* The element at the tail is free, and is the next to wait.
LEMMA InsertStep ==
    ASSUME IInv, NEW p \in Procs, NEW m \in Msgs, Insert(p, m)
    PROVE  IInv'
<1>1. /\ pc[p] = "checked"
      /\ Entry' = [Entry EXCEPT ![QTail] = [Occupied |-> TRUE, msg |-> m]]
      /\ QTail' = After(QTail) /\ Num' = Num + 1
      /\ pc' = [pc EXCEPT ![p] = "inserted"]
      /\ UNCHANGED <<QHead, thread, Elem, wake, up, overbooked>>
  BY DEF Insert
<1>2. QTail \in Slots /\ Num \in Nat /\ (overbooked \/ Num <= Max - 1)
  BY <1>1, NotFull DEF IInv, TypeOK
<1>3. TypeOK'
  <2>1. Entry' \in [Slots -> [Occupied : BOOLEAN, msg : Msgs \cup {None}]]
    BY <1>1, <1>2 DEF IInv, TypeOK
  <2>2. pc' \in [Procs -> {"idle", "checked", "inserted"}]
    BY <1>1 DEF IInv, TypeOK
  <2>3. Num' \in Nat /\ QTail' \in Slots /\ (overbooked \/ Num' <= Max)
    BY <1>1, <1>2, AfterType, HalfType
  <2> QED BY <1>1, <2>1, <2>2, <2>3 DEF IInv, TypeOK
<1>4. Worked' /\ Stopped'
  BY <1>1 DEF IInv, Worked, Stopped
<1>5. ~overbooked => /\ Behind' /\ ~Pending(QTail)
                     /\ \A i \in Slots : Pending(i)' <=> Pending(i) \/ i = QTail
  BY <1>1, <1>2, InsertRing DEF IInv, Sound
<1>6. OccupiedExact'
  <2> SUFFICES ASSUME up = "up", ~overbooked, NEW i \in Slots
               PROVE  Entry'[i].Occupied <=> Pending(i)' \/ i = Elem
    BY <1>1 DEF OccupiedExact
  <2>1. Entry[i].Occupied <=> Pending(i) \/ i = Elem
    BY DEF IInv, OccupiedExact
  <2>2. CASE i = QTail
    BY <1>1, <1>5, <2>2 DEF IInv, TypeOK
  <2>3. CASE i # QTail
    <3>1. Entry'[i] = Entry[i]
      BY <1>1, <2>3 DEF IInv, TypeOK
    <3> QED BY <1>5, <2>1, <2>3, <3>1
  <2> QED BY <2>2, <2>3
<1>7. ASSUME ~overbooked PROVE Sound'
  <2>1. Checked' = Checked \ {p} /\ p \in Checked
    BY <1>1 DEF Checked, IInv, TypeOK
  <2>2. Cardinality(Checked') = Cardinality(Checked) - 1
    BY <2>1, CheckedFinite, FS_RemoveElement
  <2>3. Num' + Unseen' = Num + Unseen
    BY <1>1, <1>2, <2>2, CheckedFinite DEF Unseen
  <2>4. Fits' BY <1>7, <2>3 DEF IInv, Sound, Fits
  <2>5. Follows' BY <1>1, <1>7 DEF IInv, Sound, Follows
  <2> QED BY <1>5, <1>7, <2>4, <2>5 DEF Sound
<1> QED BY <1>1, <1>3, <1>4, <1>6, <1>7 DEF IInv

\* RTMP_MLME_HANDLER touches the semaphore only.
LEMMA WakeUpStep ==
    ASSUME IInv, NEW p \in Procs, WakeUp(p)
    PROVE  IInv'
<1>1. /\ pc[p] = "inserted" /\ pc' = [pc EXCEPT ![p] = "idle"]
      /\ wake' = (wake \/ up # "down")
      /\ UNCHANGED <<Num, QHead, QTail, Entry, thread, Elem, up, overbooked>>
  BY DEF WakeUp
<1>2. Checked' = Checked
  BY <1>1 DEF Checked, IInv, TypeOK
<1>3. TypeOK'
  <2>1. pc' \in [Procs -> {"idle", "checked", "inserted"}] /\ wake' \in BOOLEAN
    BY <1>1 DEF IInv, TypeOK
  <2> QED BY <1>1, <2>1 DEF IInv, TypeOK
<1>4. Stopped'
  BY <1>1 DEF IInv, Stopped
<1>5. Unseen' = Unseen BY <1>1, <1>2 DEF Unseen
<1> QED BY <1>1, <1>3, <1>4, <1>5
        DEF IInv, Worked, Sound, Behind, Follows, Fits, OccupiedExact, Pending

\* The oldest element becomes the one in work, which stays Occupied.
LEMMA DequeueStep ==
    ASSUME IInv, MlmeDequeue
    PROVE  IInv'
<1>1. /\ thread = "loop" /\ thread' = "work" /\ up = "up" /\ Num # 0
      /\ Elem' = QHead /\ Num' = Num - 1 /\ QHead' = After(QHead)
      /\ UNCHANGED <<QTail, Entry, pc, wake, up, overbooked>>
  BY DEF MlmeDequeue
<1>2. QHead \in Slots /\ Num \in Nat /\ QHead # None /\ Elem = None
  BY <1>1, NoneAssumption DEF IInv, TypeOK, Worked, Slots
<1>3. TypeOK'
  <2>1. Num' \in Nat /\ QHead' \in Slots /\ (overbooked \/ Num' <= Max)
    BY <1>1, <1>2, AfterType, HalfType DEF IInv, TypeOK
  <2> QED BY <1>1, <1>2, <2>1 DEF IInv, TypeOK
<1>4. Worked' /\ Stopped'
  BY <1>1, <1>2 DEF IInv, Worked, Stopped
<1>5. ~overbooked => /\ Behind'
                     /\ Pending(QHead)
                     /\ \A i \in Slots : Pending(i)' <=> Pending(i) /\ i # QHead
  BY <1>1, NotFull, DequeueRing DEF IInv, Sound
<1>6. OccupiedExact'
  BY <1>1, <1>2, <1>5, NoneAssumption DEF IInv, OccupiedExact, Slots
<1>7. ASSUME ~overbooked PROVE Sound'
  <2>1. Checked' = Checked BY <1>1 DEF Checked
  <2>2. Num' + Unseen' = Num + Unseen
    BY <1>1, <1>2, <2>1, CheckedFinite DEF Unseen
  <2>3. Fits' BY <1>7, <2>2 DEF IInv, Sound, Fits
  <2>4. Follows' BY <1>1 DEF Follows
  <2> QED BY <1>5, <1>7, <2>3, <2>4 DEF Sound
<1> QED BY <1>1, <1>3, <1>4, <1>6, <1>7 DEF IInv

\* MlmeHandler frees the element in work, which does not wait.
LEMMA FinishStep ==
    ASSUME IInv, Finish
    PROVE  IInv'
<1>1. /\ thread = "work" /\ thread' = "loop" /\ Elem' = None
      /\ Entry' = [Entry EXCEPT ![Elem] = Free]
      /\ UNCHANGED <<Num, QHead, QTail, pc, wake, up, overbooked>>
  BY DEF Finish
<1>2. Elem \in Slots /\ Elem # None /\ (overbooked \/ ~Pending(Elem))
  BY <1>1, Apart DEF IInv, Worked, ElemApart, TypeOK
<1>3. TypeOK'
  <2>1. Entry' \in [Slots -> [Occupied : BOOLEAN, msg : Msgs \cup {None}]]
    BY <1>1, <1>2 DEF IInv, TypeOK, Free
  <2> QED BY <1>1, <2>1 DEF IInv, TypeOK
<1>4. Worked' /\ Stopped'
  BY <1>1 DEF IInv, Worked, Stopped
<1>5. OccupiedExact'
  <2> SUFFICES ASSUME up = "up", ~overbooked, NEW i \in Slots
               PROVE  Entry'[i].Occupied <=> Pending(i)
    BY <1>1, NoneAssumption DEF OccupiedExact, Slots, Pending
  <2>1. Entry[i].Occupied <=> Pending(i) \/ i = Elem
    BY DEF IInv, OccupiedExact
  <2>2. CASE i = Elem
    BY <1>1, <1>2, <2>2 DEF IInv, TypeOK, Free
  <2>3. CASE i # Elem
    <3>1. Entry'[i] = Entry[i]
      BY <1>1, <1>2, <2>3 DEF IInv, TypeOK
    <3> QED BY <2>1, <2>3, <3>1
  <2> QED BY <2>2, <2>3
<1>6. ASSUME ~overbooked PROVE Sound'
  <2>1. Checked' = Checked BY <1>1 DEF Checked
  <2>2. Unseen' = Cardinality(Checked) /\ Unseen = Cardinality(Checked) + 1
    BY <1>1, <1>2, <2>1, CheckedFinite DEF Unseen
  <2>3. Fits'
    BY <1>1, <1>6, <2>2, NotFull, CheckedFinite, HalfType DEF IInv, Sound, Fits
  <2>4. Behind' /\ Follows' BY <1>1, <1>6 DEF IInv, Sound, Behind, Follows
  <2> QED BY <2>3, <2>4 DEF Sound
<1> QED BY <1>1, <1>3, <1>4, <1>5, <1>6 DEF IInv

\* The interface is closed: an empty ring, though callers may be in between.
LEMMA HaltStep ==
    ASSUME IInv, MlmeHalt
    PROVE  IInv'
<1>1. /\ Num' = 0 /\ QHead' = 0 /\ QTail' = 0 /\ up' = "down" /\ wake' = FALSE
      /\ thread = "wait"
      /\ UNCHANGED <<Entry, pc, thread, Elem, overbooked>>
  BY DEF MlmeHalt
<1>2. Elem = None BY <1>1 DEF IInv, Worked
<1>3. TypeOK'
  <2>1. Num' \in Nat /\ Num' <= Max /\ QHead' \in Slots /\ QTail' \in Slots
    BY <1>1, HalfType DEF Slots
  <2> QED BY <1>1, <2>1 DEF IInv, TypeOK
<1>4. Worked' /\ Stopped' /\ OccupiedExact'
  BY <1>1 DEF IInv, Worked, Stopped, OccupiedExact
<1>5. ASSUME ~overbooked PROVE Sound'
  <2>1. Behind' /\ Follows' BY <1>1, <1>2, HalfType DEF Behind, Follows
  <2>2. Unseen' = Unseen BY <1>1 DEF Unseen, Checked
  <2>3. Fits'
    BY <1>1, <1>5, <2>2, NotFull, CheckedFinite, HalfType DEF IInv, Sound, Fits
  <2> QED BY <2>1, <2>3 DEF Sound
<1> QED BY <1>1, <1>3, <1>4, <1>5 DEF IInv

\* It is opened: MlmeQueueInit clears the elements, and nobody is in between.
LEMMA OpenStep ==
    ASSUME IInv, Open
    PROVE  IInv'
<1>1. /\ Num' = 0 /\ QHead' = 0 /\ QTail' = 0 /\ up' = "up" /\ overbooked' = FALSE
      /\ Entry' = [i \in Slots |-> Free] /\ thread = "wait"
      /\ \A p \in Procs : pc[p] = "idle"
      /\ UNCHANGED <<pc, thread, Elem, wake>>
  BY DEF Open, IInv, Stopped
<1>2. Elem = None BY <1>1 DEF IInv, Worked
<1>3. TypeOK'
  <2>1. Entry' \in [Slots -> [Occupied : BOOLEAN, msg : Msgs \cup {None}]]
    BY <1>1 DEF Free
  <2>2. Num' \in Nat /\ Num' <= Max /\ QHead' \in Slots /\ QTail' \in Slots
    BY <1>1, HalfType DEF Slots
  <2> QED BY <1>1, <2>1, <2>2 DEF IInv, TypeOK
<1>4. Worked' /\ Stopped' BY <1>1 DEF IInv, Worked, Stopped
<1>5. OccupiedExact'
  BY <1>1, <1>2, HalfType, NoneAssumption DEF OccupiedExact, Pending, Slots, Free
<1>6. Behind' /\ Follows' BY <1>1, <1>2, HalfType DEF Behind, Follows
<1>7. Fits'
  <2>1. Checked' = {} BY <1>1 DEF Checked
  <2> QED BY <1>1, <1>2, <2>1, FS_EmptySet, HalfType DEF Fits, Unseen
<1> QED BY <1>3, <1>4, <1>5, <1>6, <1>7 DEF IInv, Sound

\* Start, Leave and Halt move the thread or the flag, nothing else.
LEMMA ControlStep ==
    ASSUME IInv, UNCHANGED <<Num, QHead, QTail, Entry, pc, Elem, overbooked>>,
           (thread = "work") <=> (thread' = "work"),
           thread' \in {"wait", "loop", "work"}, wake' \in BOOLEAN,
           up' \in {"up", "halting", "down"}, up' = "up" => up = "up",
           Stopped'
    PROVE  IInv'
<1>1. TypeOK'
  BY DEF IInv, TypeOK
<1>2. Worked' /\ (overbooked' \/ Sound')
  BY DEF IInv, Worked, Sound, Behind, Follows, Fits, Unseen, Checked
<1>3. OccupiedExact'
  BY DEF IInv, OccupiedExact, Pending
<1> QED BY <1>1, <1>2, <1>3 DEF IInv

\* Every step keeps the inductive invariant.
LEMMA Preserves == IInv /\ [Next]_vars => IInv'
<1> SUFFICES ASSUME IInv, [Next]_vars PROVE IInv'
  OBVIOUS
<1>1. ASSUME NEW p \in Procs, Check(p) PROVE IInv'
  BY <1>1, CheckStep
<1>2. ASSUME NEW p \in Procs, NEW m \in Msgs, Insert(p, m) PROVE IInv'
  BY <1>2, InsertStep
<1>3. ASSUME NEW p \in Procs, WakeUp(p) PROVE IInv'
  BY <1>3, WakeUpStep
<1>4. CASE Start
  <2>1. up # "down"
    BY <1>4 DEF Start, IInv, Stopped
  <2> QED BY <1>4, <2>1, ControlStep DEF Start, IInv, TypeOK, Stopped
<1>5. CASE MlmeDequeue
  BY <1>5, DequeueStep
<1>6. CASE Finish
  BY <1>6, FinishStep
<1>7. CASE Leave
  <2>1. up # "down"
    BY <1>7 DEF Leave, IInv, Stopped
  <2> QED BY <1>7, <2>1, ControlStep DEF Leave, IInv, TypeOK, Stopped
<1>8. CASE Halt
  BY <1>8, ControlStep DEF Halt, IInv, TypeOK, Stopped
<1>9. CASE MlmeHalt
  BY <1>9, HaltStep
<1>10. CASE Open
  BY <1>10, OpenStep
<1>11. CASE UNCHANGED vars
  BY <1>11, ControlStep DEF vars, IInv, TypeOK, Stopped
<1> QED BY <1>1, <1>2, <1>3, <1>4, <1>5, <1>6, <1>7, <1>8, <1>9, <1>10, <1>11 DEF Next
-----------------------------------------------------------------------------
\* The inductive invariant of the ring of mlme.c, for a ring of any size and any
\* callers.
THEOREM Invariance == Spec => []IInv
<1>1. IInv /\ [Next]_vars => IInv'
  BY Preserves
<1> QED BY <1>1, Establishes, PTL DEF Spec

\* Types of the ring, which holds no more than its elements until it is
\* overbooked.
THEOREM Typing == Spec => []TypeOK
<1>1. IInv => TypeOK
  BY DEF IInv
<1> QED BY <1>1, Invariance, PTL

\* Until the ring is overbooked, the element that the state machine works on is
\* not in it, nor is it the next one a caller that passed MlmeQueueFull will write.
THEOREM WorkedElementApart == Spec => []ElemApart
<1>1. IInv => ElemApart
  BY Apart
<1> QED BY <1>1, Invariance, PTL

\* Until then, Occupied is set on the elements that wait or are worked on, and no
\* others.
THEOREM OccupiedMarks == Spec => []OccupiedExact
<1>1. IInv => OccupiedExact
  BY DEF IInv
<1> QED BY <1>1, Invariance, PTL
-----------------------------------------------------------------------------
(***************************************************************************)
(* The ring implements MlmeFifo.  Place(k) is the element of the k-th      *)
(* message that waits; an insertion adds the place behind the last, and a  *)
(* removal makes the second the first.                                     *)
(***************************************************************************)
Position(h, k) == IF h + k - 1 < Max THEN h + k - 1 ELSE h + k - 1 - Max

Place(k) == Position(QHead, k)

\* What waits or is worked on is a message.
Messages ==
    /\ \A i \in Slots : Pending(i) => Entry[i].msg \in Msgs
    /\ Elem # None => Entry[Elem].msg \in Msgs

FifoInv == IInv /\ (overbooked \/ Messages)

\* The index wraps once.
LEMMA Wraps ==
    ASSUME NEW h \in Slots, NEW k \in 1 .. Max
    PROVE  (h + k - 1) % Max = Position(h, k) /\ Position(h, k) \in Slots
<1>1. Max \in Nat /\ Max >= 2 /\ h \in 0 .. Max - 1
  BY MaxAssumption DEF Slots
<1>2. ASSUME NEW x \in Nat, x < Max
      PROVE  x % Max = x
  BY <1>1, <1>2
<1>3. ASSUME NEW x \in Nat, x < Max
      PROVE  (x + Max) % Max = x
  BY <1>1, <1>3
<1>4. CASE h + k - 1 < Max
  BY <1>1, <1>2, <1>4 DEF Position, Slots
<1>5. CASE ~(h + k - 1 < Max)
  <2>1. h + k - 1 - Max \in Nat /\ h + k - 1 - Max < Max
    BY <1>1, <1>5
  <2>2. (h + k - 1 - Max) + Max = h + k - 1
    BY <1>1
  <2> QED BY <1>1, <1>3, <1>5, <2>1, <2>2 DEF Position, Slots
<1> QED BY <1>4, <1>5

\* The sequence that waits, with the places written out.
LEMMA Sequence ==
    ASSUME NEW h \in Slots, NEW n \in 0 .. Max, NEW E
    PROVE  [k \in 1 .. n |-> E[(h + k - 1) % Max].msg]
             = [k \in 1 .. n |-> E[Position(h, k)].msg]
<1>1. \A k \in 1 .. n : k \in 1 .. Max
  BY HalfType
<1>2. \A k \in 1 .. n : (h + k - 1) % Max = Position(h, k)
  BY <1>1, Wraps
<1> QED BY <1>2

\* A sequence with one more at its end.
LEMMA Appended ==
    ASSUME NEW S, NEW s \in Seq(S), NEW n \in Nat, Len(s) = n, NEW e \in S
    PROVE  Append(s, e) = [k \in 1 .. n + 1 |-> IF k <= n THEN s[k] ELSE e]
<1> DEFINE t == [k \in 1 .. n + 1 |-> IF k <= n THEN s[k] ELSE e]
<1>1. t \in Seq(S) /\ Len(t) = n + 1
  BY DEF t
<1>2. Append(s, e) \in Seq(S) /\ Len(Append(s, e)) = n + 1
  BY AppendProperties
<1>3. \A k \in 1 .. n + 1 : Append(s, e)[k] = t[k]
  BY AppendProperties
<1> HIDE DEF t
<1>4. Append(s, e) = t
  BY <1>1, <1>2, <1>3, SeqEqual
<1> QED BY <1>4 DEF t

\* The places of the waiting messages are the elements in the ring.
LEMMA PlacePending ==
    ASSUME TypeOK, ~overbooked, NEW k \in 1 .. Num
    PROVE  Place(k) \in Slots /\ Pending(Place(k))
<1>1. QHead \in 0 .. Max - 1 /\ Num \in 0 .. Max /\ Max \in Nat
  BY HalfType DEF TypeOK, Slots
<1> QED BY <1>1 DEF Place, Position, Pending, Slots

\* The messages of the state after a step that does not overbook the ring.
LEMMA Waits ==
    ASSUME TypeOK, TypeOK', ~overbooked, ~overbooked'
    PROVE  /\ Waiting = [k \in 1 .. Num |-> Entry[Place(k)].msg]
           /\ Waiting' = [k \in 1 .. Num' |-> Entry'[Position(QHead', k)].msg]
           /\ Len(Waiting) = Num
<1>1. QHead \in Slots /\ QHead' \in Slots /\ Num \in 0 .. Max /\ Num' \in 0 .. Max
  BY HalfType DEF TypeOK
<1>2. Waiting = [k \in 1 .. Num |-> Entry[Place(k)].msg]
  BY <1>1, Sequence DEF Waiting, Place
<1>3. Waiting' = [k \in 1 .. Num' |-> Entry'[Position(QHead', k)].msg]
  BY <1>1, Sequence DEF Waiting
<1>4. Num \in Nat
  BY <1>1, HalfType
<1> QED BY <1>2, <1>3, <1>4

\* Nothing that waits is touched.
LEMMA WaitKept ==
    ASSUME TypeOK, TypeOK', ~overbooked, ~overbooked', UNCHANGED <<Num, QHead>>,
           \A i \in Slots : Pending(i) => Entry'[i].msg = Entry[i].msg
    PROVE  Waiting' = Waiting
<1>1. \A k \in 1 .. Num : Entry'[Place(k)].msg = Entry[Place(k)].msg
  BY PlacePending
<1>2. Waiting' = [k \in 1 .. Num |-> Entry'[Place(k)].msg]
  BY Waits DEF Place
<1> QED BY <1>1, <1>2, Waits

\* MlmeQueueInit: nothing waits.
LEMMA FifoInit == Init => Fifo!Init /\ Messages
<1> SUFFICES ASSUME Init PROVE Fifo!Init /\ Messages
  OBVIOUS
<1>1. Num = 0 /\ Elem = None /\ QHead = 0
  BY DEF Init
<1>2. Waiting = <<>>
  BY <1>1 DEF Waiting
<1>3. Messages
  BY <1>1, HalfType DEF Messages, Pending, Slots
<1> QED BY <1>1, <1>2, <1>3 DEF Fifo!Init, InWork

\* MlmeEnqueue puts its message behind the others.
LEMMA InsertPuts ==
    ASSUME FifoInv, ~overbooked, IInv', NEW p \in Procs, NEW m \in Msgs, Insert(p, m)
    PROVE  Fifo!Put(m) /\ Messages'
<1>1. /\ pc[p] = "checked"
      /\ Entry' = [Entry EXCEPT ![QTail] = [Occupied |-> TRUE, msg |-> m]]
      /\ QTail' = After(QTail) /\ Num' = Num + 1
      /\ UNCHANGED <<QHead, Elem, overbooked>>
  BY DEF Insert
<1>2. Num <= Max - 1 /\ Num \in Nat
  BY <1>1, NotFull DEF FifoInv
<1>3. /\ ~Pending(QTail)
      /\ \A i \in Slots : Pending(i)' <=> Pending(i) \/ i = QTail
  BY <1>1, <1>2, InsertRing DEF FifoInv, IInv, Sound
<1>4. /\ TypeOK /\ TypeOK' /\ ~overbooked' /\ QTail \in Slots /\ QHead \in Slots
      /\ Entry \in [Slots -> [Occupied : BOOLEAN, msg : Msgs \cup {None}]]
  BY <1>1 DEF FifoInv, IInv, TypeOK
<1>5. /\ Entry'[QTail].msg = m
      /\ \A i \in Slots : i # QTail => Entry'[i] = Entry[i]
  BY <1>1, <1>4
<1>6. Elem # None => Elem \in Slots /\ Elem # QTail
  <2>1. p \in Checked
    BY <1>1 DEF Checked
  <2> QED BY <2>1, Apart DEF FifoInv, IInv, TypeOK, ElemApart
<1>7. Position(QHead, Num + 1) = QTail
  BY <1>2, <1>4, HalfType DEF Position, Behind, FifoInv, IInv, Sound, Slots
<1>8. \A k \in 1 .. Num : Entry'[Place(k)].msg = Entry[Place(k)].msg
  BY <1>3, <1>4, <1>5, PlacePending
<1>9. Waiting' = Append(Waiting, m)
  <2>1. Waiting' = [k \in 1 .. Num + 1 |-> Entry'[Position(QHead, k)].msg]
    BY <1>1, <1>4, Waits
  <2>2. Append(Waiting, m) = [k \in 1 .. Num + 1 |-> IF k <= Num THEN Waiting[k] ELSE m]
    <3>1. Waiting \in Seq(Msgs \cup {None}) /\ Len(Waiting) = Num
      BY <1>2, <1>4, Waits, PlacePending DEF TypeOK
    <3> QED BY <1>2, <3>1, Appended
  <2>3. \A k \in 1 .. Num + 1 : k <= Num => k \in 1 .. Num
    BY <1>2
  <2>4. \A k \in 1 .. Num + 1 : ~(k <= Num) => k = Num + 1
    BY <1>2
  <2>5. \A k \in 1 .. Num : Waiting[k] = Entry'[Position(QHead, k)].msg
    BY <1>4, <1>8, Waits DEF Place
  <2>6. \A k \in 1 .. Num + 1 : Entry'[Position(QHead, k)].msg
                                  = IF k <= Num THEN Waiting[k] ELSE m
    BY <1>5, <1>7, <2>3, <2>4, <2>5
  <2> QED BY <2>1, <2>2, <2>6
<1>10. Messages'
  BY <1>1, <1>3, <1>5, <1>6 DEF FifoInv, Messages
<1> QED BY <1>1, <1>5, <1>6, <1>9, <1>10 DEF Fifo!Put, InWork

\* MlmeDequeue takes the first, and no other is being worked on.
LEMMA DequeueTakes ==
    ASSUME FifoInv, ~overbooked, IInv', MlmeDequeue
    PROVE  Fifo!Take /\ Messages'
<1>1. /\ thread = "loop" /\ Num # 0
      /\ Elem' = QHead /\ Num' = Num - 1 /\ QHead' = After(QHead)
      /\ UNCHANGED <<QTail, Entry, overbooked>>
  BY DEF MlmeDequeue
<1>2. Num <= Max /\ Num \in Nat
  BY NotFull DEF FifoInv
<1>3. /\ \A i \in Slots : Pending(i)' <=> Pending(i) /\ i # QHead
      /\ Pending(QHead)
  BY <1>1, <1>2, DequeueRing DEF FifoInv, IInv, Sound
<1>4. TypeOK /\ TypeOK' /\ ~overbooked' /\ QHead \in Slots /\ Elem = None /\ Elem' # None
  BY <1>1, NoneAssumption DEF FifoInv, IInv, TypeOK, Worked, Slots
<1>5. Position(QHead, 1) = QHead
  BY <1>4, HalfType DEF Position, Slots
<1>6. \A k \in 1 .. Num - 1 : Position(QHead', k) = Position(QHead, k + 1)
  BY <1>1, <1>2, <1>4, HalfType DEF Position, After, Slots
<1>7. Waiting # <<>> /\ Waiting[1] = Entry[QHead].msg
  <2>1. 1 \in 1 .. Num
    BY <1>1, <1>2
  <2> QED BY <1>4, <1>5, <2>1, Waits DEF Place
<1>8. Waiting' = SubSeq(Waiting, 2, Len(Waiting))
  <2>1. Waiting' = [k \in 1 .. Num - 1 |-> Entry[Position(QHead', k)].msg]
    BY <1>1, <1>4, Waits
  <2>2. Len(Waiting) = Num
    BY <1>4, Waits
  <2>3. SubSeq(Waiting, 2, Len(Waiting)) = [k \in 1 .. Num - 1 |-> Waiting[k + 1]]
    BY <1>1, <1>2, <2>2
  <2>4. \A k \in 1 .. Num - 1 : k + 1 \in 1 .. Num
    BY <1>2
  <2>5. \A k \in 1 .. Num - 1 : Waiting[k + 1] = Entry[Position(QHead, k + 1)].msg
    BY <1>4, <2>4, Waits DEF Place
  <2> QED BY <1>6, <2>1, <2>3, <2>5
<1>9. Messages'
  BY <1>1, <1>3, <1>4 DEF FifoInv, Messages
<1> QED BY <1>1, <1>4, <1>7, <1>8, <1>9 DEF Fifo!Take, InWork

\* MlmeHandler frees the element in work: its message is done.
LEMMA FinishDone ==
    ASSUME FifoInv, ~overbooked, IInv', Finish
    PROVE  Fifo!Done /\ Messages'
<1>1. /\ thread = "work" /\ Elem' = None
      /\ Entry' = [Entry EXCEPT ![Elem] = Free]
      /\ UNCHANGED <<Num, QHead, overbooked>>
  BY DEF Finish
<1>2. /\ TypeOK /\ TypeOK' /\ Elem \in Slots /\ Elem # None /\ ~Pending(Elem)
      /\ Entry[Elem].msg \in Msgs
  BY <1>1, Apart DEF FifoInv, IInv, TypeOK, Worked, ElemApart, Messages
<1>3. \A i \in Slots : Pending(i) => Entry'[i].msg = Entry[i].msg
  BY <1>1, <1>2 DEF TypeOK
<1>4. Waiting' = Waiting
  BY <1>1, <1>2, <1>3, WaitKept
<1>5. Messages'
  BY <1>1, <1>3 DEF FifoInv, Messages, Pending
<1> QED BY <1>1, <1>2, <1>4, <1>5, NoneAssumption DEF Fifo!Done, InWork

\* MlmeQueueDestroy and MlmeQueueInit leave nothing that waits.
LEMMA EmptyCloses ==
    ASSUME FifoInv, Num' = 0, QHead' = 0, Elem' = Elem, thread = "wait"
    PROVE  Fifo!Close /\ Messages'
<1>1. Elem = None /\ Elem' = None
  BY DEF FifoInv, IInv, Worked
<1>2. Waiting' = <<>>
  BY DEF Waiting
<1>3. Messages'
  BY <1>1, HalfType DEF Messages, Pending, Slots
<1> QED BY <1>1, <1>2, <1>3 DEF Fifo!Close, InWork

\* The callers' tests, the semaphore and the flag are not seen in MlmeFifo.
LEMMA ControlStutters ==
    ASSUME FifoInv, ~overbooked, IInv', ~overbooked', UNCHANGED <<Num, QHead, Entry, Elem>>
    PROVE  Waiting' = Waiting /\ Messages'
<1>1. TypeOK /\ TypeOK'
  BY DEF FifoInv, IInv
<1>2. Waiting' = Waiting
  BY <1>1, WaitKept
<1> QED BY <1>2 DEF FifoInv, Messages, Pending

\* A step of the ring is a step of MlmeFifo, or none, or it overbooks the ring.
LEMMA FifoStep ==
    ASSUME FifoInv, [Next]_vars
    PROVE  FifoInv' /\ [overbooked' \/ Fifo!Next]_<<Waiting, InWork>>
<1>0. IInv'
  BY Preserves DEF FifoInv
<1> DEFINE Quiet == UNCHANGED <<Num, QHead, Entry, Elem>>
           Kept == Fifo!Next /\ Messages'
<1>1. CASE MlmeHalt \/ Open
  <2>1. thread = "wait"
    BY <1>1 DEF MlmeHalt, Open, FifoInv, IInv, Stopped
  <2>2. Num' = 0 /\ QHead' = 0 /\ Elem' = Elem
    BY <1>1 DEF MlmeHalt, Open
  <2>3. Kept BY <2>1, <2>2, EmptyCloses DEF Fifo!Next
  <2> QED BY <1>0, <2>3 DEF FifoInv
<1>2. CASE ~(MlmeHalt \/ Open) /\ ~overbooked'
  <2>1. ~overbooked
    BY <1>2 DEF Next, Check, Insert, WakeUp, Start, MlmeDequeue, Finish, Leave, Halt, vars
  <2>2. ASSUME NEW p \in Procs, NEW m \in Msgs, Insert(p, m) PROVE Kept
    BY <1>0, <2>1, <2>2, InsertPuts DEF Fifo!Next
  <2>3. CASE MlmeDequeue
    <3>1. Kept BY <1>0, <2>1, <2>3, DequeueTakes DEF Fifo!Next
    <3> QED BY <1>0, <3>1 DEF FifoInv
  <2>4. CASE Finish
    <3>1. Kept BY <1>0, <2>1, <2>4, FinishDone DEF Fifo!Next
    <3> QED BY <1>0, <3>1 DEF FifoInv
  <2>5. CASE Quiet
    <3>1. Waiting' = Waiting /\ Messages' BY <1>0, <1>2, <2>1, <2>5, ControlStutters
    <3>2. InWork' = InWork BY <2>5 DEF InWork
    <3> QED BY <1>0, <3>1, <3>2 DEF FifoInv
  <2>6. ASSUME \/ \E p \in Procs : Check(p) \/ WakeUp(p)
               \/ Start \/ Leave \/ Halt
               \/ UNCHANGED vars
        PROVE  Quiet
    BY <2>6 DEF Check, WakeUp, Start, Leave, Halt, vars
  <2> QED BY <1>0, <1>2, <2>2, <2>3, <2>4, <2>5, <2>6 DEF Next, FifoInv
<1>3. CASE overbooked'
  BY <1>0, <1>3 DEF FifoInv
<1> QED BY <1>1, <1>2, <1>3

\* The ring of elements implements the queue its users see, until it is overbooked:
\* messages are handled one at a time, whole, in the order they were put in.
THEOREM Refinement == Spec => ImplementsFifo
<1>1. Init => FifoInv /\ Fifo!Init
  BY Establishes, FifoInit DEF FifoInv
<1>2. FifoInv /\ [Next]_vars
        => FifoInv' /\ [overbooked' \/ Fifo!Next]_<<Waiting, InWork>>
  BY FifoStep
<1> QED BY <1>1, <1>2, PTL DEF Spec, ImplementsFifo
=============================================================================
