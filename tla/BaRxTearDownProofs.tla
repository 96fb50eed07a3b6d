------------------------- MODULE BaRxTearDownProofs -------------------------
(***************************************************************************)
(* Theorems about BaRxTearDown, for any stations and any number of MPDUs.  *)
(* What is passed up and what is pending are one sequence, which every     *)
(* step leaves as it is, but for those that put the MPDU in hand into it.  *)
(***************************************************************************)
EXTENDS BaRxTearDown, SequenceTheorems, TLAPS

Whole == up \o list

Types ==
    /\ cur \in Nat /\ up \in Seq(Nat) /\ list \in Seq(Nat)
    /\ Members(Whole) \cup gone \subseteq 1 .. cur
    /\ pc = [p \in {Rx, Mlme} |-> pc[p]]

IInv == Types /\ EachOnce

\* r is q with x put in somewhere.
Inserted(r, q, x) ==
    \E a, b \in Seq(Nat) : q = a \o b /\ r = (a \o <<x>>) \o b

-----------------------------------------------------------------------------
LEMMA ConcatMembers ==
    ASSUME NEW a \in Seq(Nat), NEW b \in Seq(Nat)
    PROVE  Members(a \o b) = Members(a) \cup Members(b)
<1>1. /\ Len(a) \in Nat /\ Len(b) \in Nat /\ Len(a \o b) = Len(a) + Len(b)
      /\ \A i \in 1 .. Len(a) + Len(b) : (a \o b)[i] = IF i <= Len(a) THEN a[i] ELSE b[i - Len(a)]
  BY ConcatProperties, LenProperties
<1>2. ASSUME NEW i \in 1 .. Len(a \o b) PROVE (a \o b)[i] \in Members(a) \cup Members(b)
  <2>1. CASE i <= Len(a) BY <1>1, <2>1 DEF Members
  <2>2. CASE i > Len(a)
    <3>1. i - Len(a) \in 1 .. Len(b) /\ (a \o b)[i] = b[i - Len(a)] BY <1>1, <2>2
    <3> QED BY <3>1 DEF Members
  <2> QED BY <1>1, <2>1, <2>2
<1>3. ASSUME NEW i \in 1 .. Len(a) PROVE a[i] \in Members(a \o b)
  <2>1. i \in 1 .. Len(a \o b) /\ (a \o b)[i] = a[i] BY <1>1
  <2> QED BY <2>1 DEF Members
<1>4. ASSUME NEW i \in 1 .. Len(b) PROVE b[i] \in Members(a \o b)
  <2>1. i + Len(a) \in 1 .. Len(a \o b) /\ (a \o b)[i + Len(a)] = b[i] BY <1>1
  <2> QED BY <2>1 DEF Members
<1> QED BY <1>2, <1>3, <1>4 DEF Members

\* Two sequences have no member in common and repeat none.
LEMMA ConcatDistinct ==
    ASSUME NEW a \in Seq(Nat), NEW b \in Seq(Nat)
    PROVE  Distinct(a \o b) <=>
              Distinct(a) /\ Distinct(b) /\ Members(a) \cap Members(b) = {}
<1>1. /\ Len(a) \in Nat /\ Len(b) \in Nat /\ Len(a \o b) = Len(a) + Len(b)
      /\ \A i \in 1 .. Len(a) : i \in 1 .. Len(a \o b) /\ (a \o b)[i] = a[i]
      /\ \A i \in 1 .. Len(b) : i + Len(a) \in 1 .. Len(a \o b) /\ (a \o b)[i + Len(a)] = b[i]
  BY ConcatProperties, LenProperties
<1>2. \A i \in 1 .. Len(a \o b) : \/ i \in 1 .. Len(a)
                                  \/ i - Len(a) \in 1 .. Len(b) /\ (i - Len(a)) + Len(a) = i
  BY <1>1
<1>3. ASSUME Distinct(a \o b)
      PROVE  Distinct(a) /\ Distinct(b) /\ Members(a) \cap Members(b) = {}
  <2>1. Distinct(a) BY <1>1, <1>3 DEF Distinct
  <2>2. Distinct(b)
    <3> SUFFICES ASSUME NEW i \in 1 .. Len(b), NEW j \in 1 .. Len(b), b[i] = b[j] PROVE i = j
      BY DEF Distinct
    <3>1. i + Len(a) = j + Len(a) BY <1>1, <1>3 DEF Distinct
    <3> QED BY <1>1, <3>1
  <2>3. Members(a) \cap Members(b) = {}
    <3> SUFFICES ASSUME NEW i \in 1 .. Len(a), NEW j \in 1 .. Len(b), a[i] = b[j] PROVE FALSE
      BY DEF Members
    <3>1. i = j + Len(a) BY <1>1, <1>3 DEF Distinct
    <3> QED BY <1>1, <3>1
  <2> QED BY <2>1, <2>2, <2>3
<1>4. ASSUME Distinct(a), Distinct(b), Members(a) \cap Members(b) = {}
      PROVE  Distinct(a \o b)
  <2> SUFFICES ASSUME NEW i \in 1 .. Len(a \o b), NEW j \in 1 .. Len(a \o b),
                      (a \o b)[i] = (a \o b)[j]
               PROVE  i = j
    BY DEF Distinct
  <2>1. \A k \in 1 .. Len(a), l \in 1 .. Len(b) : a[k] # b[l] BY <1>4 DEF Members
  <2>2. CASE i \in 1 .. Len(a) /\ j \in 1 .. Len(a) BY <1>1, <1>4, <2>2 DEF Distinct
  <2>3. CASE i - Len(a) \in 1 .. Len(b) /\ j - Len(a) \in 1 .. Len(b)
    <3>1. b[i - Len(a)] = b[j - Len(a)] BY <1>1, <1>2, <2>3
    <3>2. i - Len(a) = j - Len(a) BY <1>4, <2>3, <3>1 DEF Distinct
    <3> QED BY <1>1, <3>2
  <2>4. CASE i \in 1 .. Len(a) /\ j - Len(a) \in 1 .. Len(b) BY <1>1, <1>2, <2>1, <2>4
  <2>5. CASE i - Len(a) \in 1 .. Len(b) /\ j \in 1 .. Len(a) BY <1>1, <1>2, <2>1, <2>5
  <2> QED BY <1>2, <2>2, <2>3, <2>4, <2>5
<1> QED BY <1>3, <1>4

LEMMA Associative == \A a, b, c \in Seq(Nat) : (a \o b) \o c = a \o (b \o c)
BY ConcatAssociative

LEMMA Single == ASSUME NEW x \in Nat
                PROVE  <<x>> \in Seq(Nat) /\ Members(<<x>>) = {x} /\ Distinct(<<x>>)
BY DEF Members, Distinct

\* What is put in a sequence is a member of it, and none is repeated if it is
\* new.
LEMMA InsertedMembers ==
    ASSUME NEW r, NEW q \in Seq(Nat), NEW x \in Nat, Inserted(r, q, x)
    PROVE  /\ r \in Seq(Nat)
           /\ Members(r) = Members(q) \cup {x}
           /\ Distinct(q) /\ x \notin Members(q) => Distinct(r)
<1>1. PICK a \in Seq(Nat), b \in Seq(Nat) : q = a \o b /\ r = (a \o <<x>>) \o b
  BY DEF Inserted
<1>2. a \o <<x>> \in Seq(Nat) /\ r \in Seq(Nat) BY <1>1, Single, ConcatProperties
<1>3. Members(a \o <<x>>) = Members(a) \cup {x} BY Single, ConcatMembers
<1>4. Members(r) = Members(q) \cup {x}
  <2>1. Members(r) = Members(a \o <<x>>) \cup Members(b) BY <1>1, <1>2, ConcatMembers, Zenon
  <2>2. Members(q) = Members(a) \cup Members(b) BY <1>1, ConcatMembers, Zenon
  <2> QED BY <1>3, <2>1, <2>2
<1>5. ASSUME Distinct(q), x \notin Members(q) PROVE Distinct(r)
  <2>1. Distinct(a) /\ Distinct(b) /\ Members(a) \cap Members(b) = {}
    BY <1>1, <1>5, ConcatDistinct
  <2>2. x \notin Members(a) /\ x \notin Members(b) BY <1>1, <1>5, ConcatMembers
  <2>3. Distinct(a \o <<x>>)
    <3>1. Members(a) \cap Members(<<x>>) = {} BY <2>2, Single
    <3> QED BY <2>1, <3>1, Single, ConcatDistinct, Zenon
  <2>4. Members(a \o <<x>>) \cap Members(b) = {} BY <1>3, <2>1, <2>2
  <2> QED BY <1>1, <1>2, <2>1, <2>3, <2>4, ConcatDistinct, Zenon
<1> QED BY <1>2, <1>4, <1>5

\* PassUp moves the first of what is pending to what is up, alone or with the
\* MPDU in hand before or after it.
LEMMA Parts ==
    ASSUME NEW s \in Seq(Nat), NEW n \in 0 .. Len(s)
    PROVE  /\ SubSeq(s, 1, n) \in Seq(Nat) /\ SubSeq(s, n + 1, Len(s)) \in Seq(Nat)
           /\ SubSeq(s, 1, n) \o SubSeq(s, n + 1, Len(s)) = s
<1>1. Len(s) \in Nat /\ \A i \in 1 .. Len(s) : s[i] \in Nat BY LenProperties, ElementOfSeq
<1>2. SubSeq(s, 1, n) \in Seq(Nat) /\ SubSeq(s, n + 1, Len(s)) \in Seq(Nat)
  BY <1>1, SubSeqProperties
<1>3. 1 \in 1 .. Len(s) + 1 /\ n \in 1 - 1 .. Len(s) /\ Len(s) \in n .. Len(s) BY <1>1
<1>4. SubSeq(s, 1, n) \o SubSeq(s, n + 1, Len(s)) = SubSeq(s, 1, Len(s))
  BY <1>3, ConcatAdjacentSubSeq
<1> QED BY <1>2, <1>4, SubSeqFull

LEMMA PassedUp ==
    ASSUME Types, NEW n \in 0 .. Len(list), PassUp(<<>>, n, <<>>)
    PROVE  up' \in Seq(Nat) /\ list' \in Seq(Nat) /\ Whole' = Whole
<1> DEFINE f == SubSeq(list, 1, n)
           g == SubSeq(list, n + 1, Len(list))
<1>1. up \in Seq(Nat) /\ list \in Seq(Nat) BY DEF Types
<1>2. f \in Seq(Nat) /\ g \in Seq(Nat) /\ f \o g = list BY <1>1, Parts
<1>3. up' = ((up \o <<>>) \o f) \o <<>> /\ list' = g BY DEF PassUp
<1> HIDE DEF f, g
<1>4. up \o f \in Seq(Nat) BY <1>1, <1>2, ConcatProperties
<1>5. up' = up \o f BY <1>1, <1>3, <1>4, ConcatEmptySeq
<1>6. Whole' = up \o (f \o g)
  <2>1. (up \o f) \o g = up \o (f \o g) BY <1>1, <1>2, Associative, Zenon
  <2> QED BY <1>3, <1>5, <2>1 DEF Whole
<1> QED BY <1>2, <1>3, <1>4, <1>5, <1>6 DEF Whole

LEMMA PassedUpWith ==
    ASSUME Types, NEW n \in 0 .. Len(list), NEW x \in Nat,
           PassUp(<<x>>, n, <<>>) \/ PassUp(<<>>, n, <<x>>)
    PROVE  up' \in Seq(Nat) /\ list' \in Seq(Nat) /\ Inserted(Whole', Whole, x)
<1> DEFINE f == SubSeq(list, 1, n)
           g == SubSeq(list, n + 1, Len(list))
           h == <<x>>
<1>1. up \in Seq(Nat) /\ list \in Seq(Nat) /\ h \in Seq(Nat) BY Single DEF Types
<1>2. f \in Seq(Nat) /\ g \in Seq(Nat) /\ f \o g = list BY <1>1, Parts
<1>3. \/ up' = ((up \o h) \o f) \o <<>> /\ list' = g
      \/ up' = ((up \o <<>>) \o f) \o h /\ list' = g
  BY DEF PassUp
<1>4. \A r \in Seq(Nat) : Inserted((r \o h) \o g, r \o g, x) BY <1>2 DEF Inserted
<1>5. Inserted((up \o h) \o list, up \o list, x) BY <1>1 DEF Inserted
<1> HIDE DEF f, g, h
<1>6. up \o h \in Seq(Nat) /\ up \o f \in Seq(Nat) BY <1>1, <1>2, ConcatProperties
<1>7. CASE up' = ((up \o h) \o f) \o <<>> /\ list' = g
  <2>1. (up \o h) \o f \in Seq(Nat) BY <1>2, <1>6, ConcatProperties
  <2>2. up' = (up \o h) \o f BY <1>7, <2>1, ConcatEmptySeq
  <2>3. Whole' = (up \o h) \o list
    <3>1. ((up \o h) \o f) \o g = (up \o h) \o (f \o g)
      BY <1>2, <1>6, Associative, Zenon
    <3> QED BY <1>2, <1>7, <2>2, <3>1 DEF Whole
  <2> QED BY <1>2, <1>5, <1>7, <2>1, <2>2, <2>3 DEF Whole
<1>8. CASE up' = ((up \o <<>>) \o f) \o h /\ list' = g
  <2>1. up' = (up \o f) \o h /\ up' \in Seq(Nat)
    BY <1>1, <1>6, <1>8, ConcatEmptySeq, ConcatProperties
  <2>2. Whole = (up \o f) \o g
    <3>1. (up \o f) \o g = up \o (f \o g) BY <1>1, <1>2, Associative, Zenon
    <3> QED BY <1>2, <3>1 DEF Whole
  <2> QED BY <1>2, <1>4, <1>6, <1>8, <2>1, <2>2 DEF Whole
<1> QED BY <1>3, <1>7, <1>8

\* So does the MPDU that goes straight up, or in the list.
LEMMA Appended ==
    ASSUME Types, NEW x \in Nat,
           \/ up' = Append(up, x) /\ list' = list
           \/ up' = up /\ list' = Append(list, x)
    PROVE  up' \in Seq(Nat) /\ list' \in Seq(Nat) /\ Inserted(Whole', Whole, x)
<1>1. up \in Seq(Nat) /\ list \in Seq(Nat) /\ <<x>> \in Seq(Nat) /\ <<>> \in Seq(Nat)
  BY Single, EmptySeq DEF Types
<1>2. CASE up' = Append(up, x) /\ list' = list
  <2>1. up' = up \o <<x>> /\ up' \in Seq(Nat) BY <1>1, <1>2, AppendIsConcat, AppendProperties
  <2> QED BY <1>1, <1>2, <2>1 DEF Whole, Inserted
<1>3. CASE up' = up /\ list' = Append(list, x)
  <2>1. list' = list \o <<x>> /\ list' \in Seq(Nat)
    BY <1>1, <1>3, AppendIsConcat, AppendProperties
  <2>2. Whole \in Seq(Nat) /\ Whole \o <<x>> \in Seq(Nat) BY <1>1, ConcatProperties DEF Whole
  <2>3. Whole' = (Whole \o <<x>>) \o <<>> /\ Whole = Whole \o <<>>
    BY <1>1, <1>3, <2>1, <2>2, ConcatAssociative, ConcatEmptySeq DEF Whole
  <2> QED BY <1>1, <1>3, <2>1, <2>2, <2>3 DEF Inserted
<1> QED BY <1>2, <1>3

-----------------------------------------------------------------------------
Lists == up' \in Seq(Nat) /\ list' \in Seq(Nat)
Steps == pc' = [p \in {Rx, Mlme} |-> pc'[p]]

\* A step that leaves the one sequence, and the MPDU in hand, as they are.
LEMMA SameKeeps ==
    ASSUME IInv, Lists, Steps, Whole' = Whole, UNCHANGED <<cur, gone>>, InHand' = InHand
    PROVE  IInv'
BY DEF IInv, Types, EachOnce, Whole, Lists, Steps

\* A step that puts the MPDU in hand into it.
LEMMA InKeeps ==
    ASSUME IInv, Lists, Steps, Inserted(Whole', Whole, cur),
           UNCHANGED <<cur, gone>>, InHand = {cur}, InHand' = {}
    PROVE  IInv'
<1>1. Whole \in Seq(Nat) BY DEF IInv, Types, Whole
<1>2. cur \in 1 .. cur /\ cur \notin Members(Whole) BY DEF IInv, EachOnce, Whole
<1>3. cur \in Nat BY DEF IInv, Types
<1>4. Distinct(Whole) BY DEF IInv, EachOnce, Whole
<1>5. Members(Whole') = Members(Whole) \cup {cur} /\ Distinct(Whole')
  BY <1>1, <1>2, <1>3, <1>4, InsertedMembers, Zenon
<1>6. cur \notin gone BY DEF IInv, EachOnce
<1> QED BY <1>2, <1>5, <1>6 DEF IInv, Types, EachOnce, Whole, Lists, Steps

\* A step that drops it.
LEMMA DropKeeps ==
    ASSUME IInv, Steps, UNCHANGED <<cur, up, list>>, gone' = gone \cup {cur},
           InHand = {cur}, InHand' = {}
    PROVE  IInv'
<1>1. Whole' = Whole BY DEF Whole
<1>2. cur \in 1 .. cur /\ cur \notin Members(Whole) BY DEF IInv, EachOnce, Whole
<1> QED BY <1>1, <1>2 DEF IInv, Types, EachOnce, Whole, Steps

\* What a step of the tasklet, or of the MLME thread, leaves in hand.
LEMMA RxStep ==
    ASSUME Types, NEW f, NEW t, Step("rx", f, t)
    PROVE  Steps /\ pc["rx"] = f /\ pc'["rx"] = t
BY DEF Types, Step, Steps, Rx, Mlme

LEMMA MlmeStep ==
    ASSUME Types, NEW f, NEW t, Step("mlme", f, t)
    PROVE  Steps /\ pc'["rx"] = pc["rx"]
BY DEF Types, Step, Steps, Rx, Mlme

LEMMA ArriveKeeps == ASSUME IInv, NEW k \in Keys, Arrive(k) PROVE IInv'
<1> USE DEF IInv
<1>1. cur' = cur + 1 /\ gone' = gone /\ list' = list /\ cur' \in Nat BY DEF Arrive, Types
<1>2. pc[Rx] = "idle" /\ InHand = {} BY DEF Arrive, Step, InHand
<1>3. Whole \in Seq(Nat) BY DEF Types, Whole
<1>4. cur' \notin Members(Whole) \cup gone BY <1>1 DEF Types
<1>5. CASE Step(Rx, "idle", "entry") /\ UNCHANGED up
  <2>1. Steps /\ pc'[Rx] = "entry" BY <1>5, RxStep DEF Rx
  <2>2. InHand' = {cur'} /\ Whole' = Whole BY <1>1, <1>5, <2>1 DEF InHand, Whole
  <2> QED BY <1>1, <1>2, <1>4, <1>5, <2>1, <2>2 DEF Types, EachOnce, Whole, Steps
<1>6. CASE Step(Rx, "idle", "idle") /\ up' = Append(up, cur')
  <2>1. Steps /\ pc'[Rx] = "idle" /\ InHand' = {} BY <1>6, RxStep DEF Rx, InHand
  <2>2. /\ up' \in Seq(Nat) /\ list' \in Seq(Nat)
        /\ Inserted(Whole', Whole, cur')
    BY <1>1, <1>6, Appended
  <2>3. Members(Whole') = Members(Whole) \cup {cur'} /\ Distinct(Whole')
    <3>1. Distinct(Whole) BY DEF EachOnce, Whole
    <3> QED BY <1>1, <1>3, <1>4, <2>2, <3>1, InsertedMembers, Zenon
  <2> QED BY <1>1, <1>2, <1>4, <2>1, <2>2, <2>3 DEF Types, EachOnce, Whole, Steps
<1> QED BY <1>5, <1>6 DEF Arrive

LEMMA ReceiveKeeps == ASSUME IInv, Receive PROVE IInv'
<1>0. Types BY DEF IInv
<1>1. CASE First
  <2>1. Steps /\ InHand = {cur} /\ InHand' = {}
    BY <1>0, <1>1, RxStep DEF First, InHand, Rx
  <2>2. Lists /\ Inserted(Whole', Whole, cur)
    BY <1>0, <1>1, Appended DEF First, Types, Lists
  <2> QED BY <1>1, <2>1, <2>2, InKeeps DEF First
<1>2. CASE FlushTimeout
  <2>1. Steps /\ InHand' = InHand
    BY <1>0, <1>2, RxStep DEF FlushTimeout, InHand, Rx
  <2>2. \E n \in 0 .. Len(list) : PassUp(<<>>, n, <<>>)
    BY <1>0, <1>2 DEF FlushTimeout, Prefixes, Types
  <2>3. Lists /\ Whole' = Whole BY <1>0, <2>2, PassedUp DEF Lists
  <2> QED BY <1>2, <2>1, <2>3, SameKeeps DEF FlushTimeout
<1>3. CASE InOrder
  <2>1. Steps /\ InHand = {cur} /\ InHand' = {}
    BY <1>0, <1>3, RxStep DEF InOrder, InHand, Rx
  <2>2. Lists /\ Inserted(Whole', Whole, cur)
    BY <1>0, <1>3, PassedUpWith DEF InOrder, Prefixes, Types, Lists
  <2> QED BY <1>3, <2>1, <2>2, InKeeps DEF InOrder
<1>4. CASE Drop
  <2>1. Steps /\ InHand = {cur} /\ InHand' = {}
    BY <1>0, <1>4, RxStep DEF Drop, InHand, Rx
  <2> QED BY <1>4, <2>1, DropKeeps DEF Drop
<1>5. CASE Hold
  <2>1. Steps /\ InHand' = InHand
    BY <1>0, <1>5, RxStep DEF Hold, InHand, Rx
  <2>2. Lists /\ Whole' = Whole
    BY <1>0, <1>5, PassedUp DEF Hold, Prefixes, Lists, Types, Whole
  <2> QED BY <1>5, <2>1, <2>2, SameKeeps DEF Hold
<1>6. CASE Enqueue
  <2>1. Steps /\ InHand = {cur} /\ InHand' = {}
    BY <1>0, <1>6, RxStep DEF Enqueue, InHand, Rx
  <2>2. CASE list' = Append(list, cur) /\ UNCHANGED <<up, gone>>
    <3>1. Lists /\ Inserted(Whole', Whole, cur)
      BY <1>0, <2>2, Appended DEF Types, Lists
    <3> QED BY <1>6, <2>1, <2>2, <3>1, InKeeps DEF Enqueue
  <2>3. CASE gone' = gone \cup {cur} /\ UNCHANGED <<list, up>>
    BY <1>6, <2>1, <2>3, DropKeeps DEF Enqueue
  <2>4. CASE (\E n \in Prefixes : PassUp(<<>>, n, <<cur>>)) /\ UNCHANGED gone
    <3>1. Lists /\ Inserted(Whole', Whole, cur)
      BY <1>0, <2>4, PassedUpWith DEF Prefixes, Types, Lists
    <3> QED BY <1>6, <2>1, <2>4, <3>1, InKeeps DEF Enqueue
  <2> QED BY <1>6, <2>2, <2>3, <2>4 DEF Enqueue
<1>7. CASE Drain
  <2>1. Steps /\ InHand' = InHand
    BY <1>0, <1>7, RxStep DEF Drain, InHand, Rx
  <2>2. Lists /\ Whole' = Whole BY <1>0, <1>7, PassedUp DEF Drain, Prefixes, Lists
  <2> QED BY <1>7, <2>1, <2>2, SameKeeps DEF Drain
<1> QED BY <1>1, <1>2, <1>3, <1>4, <1>5, <1>6, <1>7, ArriveKeeps DEF Receive

\* The steps of a tear-down, in which the tasklet has no MPDU in hand.
Quiet == {"idle", "flush", "renew", "unmap", "fill", "free", "lock"}

LEMMA TearDownKeeps == ASSUME IInv, NEW p \in {Rx, Mlme}, TearDownStep(p) PROVE IInv'
<1>0. Types BY DEF IInv
<1>1. Steps /\ InHand' = InHand /\ UNCHANGED <<cur, gone>>
  <2>1. PICK f \in Quiet, t \in Quiet : Step(p, f, t)
    BY DEF TearDownStep, TearDown, Refresh, Unmap, FreeTest, FreeLocked, Quiet
  <2>2. UNCHANGED <<cur, gone>>
    BY DEF TearDownStep, TearDown, Refresh, Unmap, FreeTest, FreeLocked
  <2>3. CASE p = Rx BY <1>0, <2>1, <2>2, <2>3, RxStep DEF Quiet, InHand, Rx
  <2>4. CASE p = Mlme BY <1>0, <2>1, <2>2, <2>4, MlmeStep DEF InHand, Rx, Mlme
  <2> QED BY <2>2, <2>3, <2>4
<1>2. CASE Refresh(p)
  <2>1. Lists /\ Whole' = Whole BY <1>0, <1>2, PassedUp DEF Refresh, Lists, Types
  <2> QED BY <1>1, <2>1, SameKeeps
<1>3. CASE UNCHANGED <<list, up>>
  <2>1. Lists /\ Whole' = Whole BY <1>0, <1>3 DEF Lists, Whole, Types
  <2> QED BY <1>1, <2>1, SameKeeps
<1> QED BY <1>2, <1>3 DEF TearDownStep, TearDown, Unmap, FreeTest, FreeLocked

LEMMA OtherKeeps ==
    ASSUME IInv, (\E k \in Keys : Add(k)) \/ Fill \/ UNCHANGED vars
    PROVE  IInv'
<1>1. UNCHANGED <<list, up, cur, gone>> /\ Steps /\ InHand' = InHand
  <2>1. CASE UNCHANGED vars BY <2>1 DEF vars, IInv, Types, Steps, InHand
  <2>2. CASE (\E k \in Keys : Add(k)) \/ Fill
    BY <2>2, MlmeStep DEF Add, Fill, IInv, InHand, Rx, Mlme
  <2> QED BY <2>1, <2>2
<1>2. Lists /\ Whole' = Whole BY <1>1 DEF Lists, Whole, IInv, Types
<1> QED BY <1>1, <1>2, SameKeeps

LEMMA InitHolds == Init => IInv
<1> SUFFICES ASSUME Init PROVE IInv OBVIOUS
<1>1. Whole = <<>> /\ Members(Whole) = {} /\ Len(Whole) = 0 BY DEF Init, Whole, Members
<1>2. InHand = {} BY DEF Init, InHand, Rx, Mlme
<1>3. Distinct(Whole) BY <1>1 DEF Distinct
<1>4. Types BY <1>1, EmptySeq DEF Init, Types
<1>5. cur = 0 /\ gone = {} BY DEF Init
<1> QED BY <1>1, <1>2, <1>3, <1>4, <1>5 DEF IInv, EachOnce, Whole

\* For any number of MPDUs and any order of steps of the tasklet and the MLME
\* thread, tear-downs and renewals lose no MPDU, and pass up or free none twice.
THEOREM Accounted == Spec => []EachOnce
<1>1. IInv /\ [Next]_vars => IInv'
  BY ReceiveKeeps, TearDownKeeps, OtherKeeps DEF Next
<1>2. IInv => EachOnce BY DEF IInv
<1> QED BY <1>1, <1>2, InitHolds, PTL DEF Spec
=============================================================================
