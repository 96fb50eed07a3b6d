--------------------------- MODULE BaReorderProofs ---------------------------
(***************************************************************************)
(* Proofs about BaReorder, for every window, pool and stream: types, the   *)
(* blocks of the pool, the order and the window of the pending list, and   *)
(* the order in which MPDUs are passed up.                                 *)
(*                                                                         *)
(* The argument.  The code sees 12-bit numbers only; the proofs name the   *)
(* MPDU L that LastIndSeq stands for, and show that between any two        *)
(* numbers a handler compares lie fewer than half of all numbers, so that  *)
(* SEQ_SMALLER tells the order of the stream (lemma Apart).  That needs to *)
(* know where the sender is: an MPDU that arrives is within a window and   *)
(* the lost MPDUs of the newest that has arrived, and the newest is within *)
(* a window of LastIndSeq.  Follows(L) says so between two handlers,       *)
(* Good(b, L, t, h) within one.                                            *)
(***************************************************************************)
EXTENDS BaReorder, WellFoundedInduction, SequenceTheorems, TLAPS

(***************************************************************************)
(* Leading positions, and arithmetic on sequence numbers.                  *)
(***************************************************************************)
\* A set of naturals that is not empty has a least element: the induction of
\* the proofs below, which take the first position at which something fails.
LEMMA Least ==
    ASSUME NEW T, T \subseteq Nat, T # {}
    PROVE  \E x \in T : \A y \in T : x <= y
<1>1. IsWellFoundedOn(OpToRel(<, Nat), Nat)
  BY NatLessThanWellFounded
<1>2. \E x \in T : \A y \in T : <<y, x>> \notin OpToRel(<, Nat)
  BY <1>1, WFMin, Zenon
<1>3. ASSUME NEW x \in T, NEW y \in T, <<y, x>> \notin OpToRel(<, Nat)
      PROVE  x <= y
  <2>1. x \in Nat /\ y \in Nat
    OBVIOUS
  <2>2. ~(y < x)
    BY <1>3, <2>1 DEF OpToRel
  <2>3. QED
    BY <2>1, <2>2
<1>4. QED
  BY <1>2, <1>3

\* Leading is defined, and is what its comment says.
LEMMA LeadingIs ==
    ASSUME NEW list, Len(list) \in Nat, NEW at
    PROVE  /\ Leading(list, at) \in 0 .. Len(list)
           /\ 1 .. Leading(list, at) \subseteq at
           /\ Leading(list, at) < Len(list) => Leading(list, at) + 1 \notin at
<1> DEFINE T == {k \in 0 .. Len(list) : k < Len(list) => k + 1 \notin at}
<1>1. PICK k \in T : \A j \in T : k <= j
  <2>1. T \subseteq Nat
    OBVIOUS
  <2>2. Len(list) \in T
    OBVIOUS
  <2>3. QED
    BY <2>1, <2>2, Least
<1>2. ASSUME NEW i \in 1 .. k PROVE i \in at
  <2>1. i - 1 \notin T /\ i - 1 \in 0 .. Len(list) /\ i - 1 < Len(list) /\ (i - 1) + 1 = i
    BY <1>1
  <2>2. QED
    BY <2>1
<1>3. k \in 0 .. Len(list) /\ 1 .. k \subseteq at /\ (k < Len(list) => k + 1 \notin at)
  BY <1>1, <1>2
<1>4. QED
  BY <1>3 DEF Leading

\* The values of a sequence number.
Numbers == 0 .. SeqSpace - 1

\* Reducing an argument first changes no sum and no difference of numbers.
LEMMA ModShift ==
    ASSUME NEW x \in Int, NEW y \in Int
    PROVE  /\ ((x % SeqSpace) + y) % SeqSpace = (x + y) % SeqSpace
           /\ ((x % SeqSpace) - y) % SeqSpace = (x - y) % SeqSpace
           /\ ((x % SeqSpace) - (y % SeqSpace)) % SeqSpace = (x - y) % SeqSpace
<1>1. ((x % SeqSpace) + y) % SeqSpace = (x + y) % SeqSpace
  BY SizesAssumption, SMTT(30)
<1>2. ((x % SeqSpace) - y) % SeqSpace = (x - y) % SeqSpace
  BY SizesAssumption, SMTT(30)
<1>3. ((x % SeqSpace) - (y % SeqSpace)) % SeqSpace = (x - y) % SeqSpace
  BY SizesAssumption, SMTT(30)
<1>4. QED
  BY <1>1, <1>2, <1>3

\* Reduced numbers are sequence numbers.
LEMMA ModRange == ASSUME NEW x \in Int PROVE x % SeqSpace \in Numbers
BY SizesAssumption DEF Numbers

\* The number k places on, or back, is that of the MPDU k places on, or back.
LEMMA Shift ==
    ASSUME NEW a \in Int, NEW k \in Int
    PROVE  (Sn(a) + k) % SeqSpace = Sn(a + k) /\ (Sn(a) - k) % SeqSpace = Sn(a - k)
<1>1. FirstSn \in Int
  BY SizesAssumption
<1> DEFINE x == FirstSn + a
<1>2. x \in Int /\ x + k = FirstSn + (a + k) /\ x - k = FirstSn + (a - k)
  BY <1>1
<1>3. ((x % SeqSpace) + k) % SeqSpace = (x + k) % SeqSpace
  BY <1>2, ModShift
<1>4. ((x % SeqSpace) - k) % SeqSpace = (x - k) % SeqSpace
  BY <1>2, ModShift
<1>5. QED
  BY <1>2, <1>3, <1>4 DEF Sn

\* Between MPDUs fewer than half of all numbers apart, sequence numbers tell
\* which is which and which is first.
LEMMA Apart ==
    ASSUME NEW a \in Int, NEW b \in Int,
           a - b < SeqSpace \div 2, b - a < SeqSpace \div 2
    PROVE  /\ Sn(a) = Sn(b) <=> a = b
           /\ SEQ_SMALLER(Sn(a), Sn(b)) <=> a < b
<1>1. (Sn(a) - Sn(b)) % SeqSpace = (a - b) % SeqSpace
  <2> DEFINE x == FirstSn + a  y == FirstSn + b
  <2>1. x \in Int /\ y \in Int /\ x - y = a - b
    BY SizesAssumption
  <2>2. ((x % SeqSpace) - (y % SeqSpace)) % SeqSpace = (x - y) % SeqSpace
    BY <2>1, ModShift
  <2>3. QED
    BY <2>1, <2>2 DEF Sn
<1>2. (a - b) % SeqSpace >= SeqSpace \div 2 <=> a < b
  <2>1. CASE a < b
    <3>1. (a - b) % SeqSpace = a - b + SeqSpace
      BY <2>1, SizesAssumption
    <3>2. QED
      BY <2>1, <3>1, SizesAssumption
  <2>2. CASE ~(a < b)
    <3>1. (a - b) % SeqSpace = a - b
      BY <2>2, SizesAssumption
    <3>2. QED
      BY <2>2, <3>1, SizesAssumption
  <2>3. QED
    BY <2>1, <2>2
<1>3. Sn(a) = Sn(b) <=> a = b
  BY SizesAssumption, SMTT(30) DEF Sn
<1>4. QED
  BY <1>1, <1>2, <1>3 DEF SEQ_SMALLER

\* No MPDU has the number RESET_RCV_SEQ.
LEMMA SnRange ==
    ASSUME NEW a \in Int
    PROVE  Sn(a) \in 0 .. SeqSpace - 1 /\ Sn(a) # RESET_RCV_SEQ
BY SizesAssumption DEF Sn, RESET_RCV_SEQ

\* Nor does the distance of two numbers lose anything.
LEMMA Distance ==
    ASSUME NEW a \in Int, NEW b \in Int, b <= a, a - b < SeqSpace
    PROVE  (Sn(a) - Sn(b)) % SeqSpace = a - b
BY SizesAssumption DEF Sn
-----------------------------------------------------------------------------
(***************************************************************************)
(* Lists.                                                                  *)
(***************************************************************************)
\* The entry, whatever the number of blocks.
Entries ==
    [list : Seq(Frames), last : Numbers \cup {RESET_RCV_SEQ}, free : Nat, win : Nat,
     up : Seq(Frames), cut : Nat, fallback : Int]

\* list without its first k; u and the first k of l; l with n after its first k.
Cut(l, k) == SubSeq(l, k + 1, Len(l))
Glued(u, l, k) == u \o SubSeq(l, 1, k)
Spliced(l, k, n) == SubSeq(l, 1, k) \o <<n>> \o SubSeq(l, k + 1, Len(l))

\* What Cut returns.
LEMMA CutIs ==
    ASSUME NEW l \in Seq(Frames), NEW k \in 0 .. Len(l)
    PROVE  /\ Cut(l, k) \in Seq(Frames)
           /\ Len(Cut(l, k)) = Len(l) - k
           /\ \A i \in 1 .. Len(Cut(l, k)) : Cut(l, k)[i] = l[i + k]
BY DEF Cut

\* What \o returns.
LEMMA Joined ==
    ASSUME NEW u \in Seq(Frames), NEW v \in Seq(Frames)
    PROVE  /\ u \o v \in Seq(Frames)
           /\ Len(u \o v) = Len(u) + Len(v)
           /\ \A i \in 1 .. Len(u) : (u \o v)[i] = u[i]
           /\ \A i \in 1 .. Len(v) : (u \o v)[Len(u) + i] = v[i]
OBVIOUS

\* What Glued returns.
LEMMA GluedIs ==
    ASSUME NEW u \in Seq(Frames), NEW l \in Seq(Frames), NEW k \in 0 .. Len(l)
    PROVE  /\ Glued(u, l, k) \in Seq(Frames)
           /\ Len(Glued(u, l, k)) = Len(u) + k
           /\ \A i \in 1 .. Len(u) : Glued(u, l, k)[i] = u[i]
           /\ \A i \in 1 .. k : Glued(u, l, k)[Len(u) + i] = l[i]
<1> DEFINE h == SubSeq(l, 1, k)
<1>0. h \in Seq(Frames)
  OBVIOUS
<1>1. Len(h) = k /\ \A i \in 1 .. k : h[i] = l[i]
  OBVIOUS
<1> HIDE DEF h
<1>2. /\ u \o h \in Seq(Frames)
      /\ Len(u \o h) = Len(u) + Len(h)
      /\ \A i \in 1 .. Len(u) : (u \o h)[i] = u[i]
      /\ \A i \in 1 .. Len(h) : (u \o h)[Len(u) + i] = h[i]
  BY <1>0, Joined
<1>3. QED
  BY <1>1, <1>2 DEF Glued, h

\* What Spliced returns.
LEMMA SplicedIs ==
    ASSUME NEW l \in Seq(Frames), NEW n \in Frames, NEW k \in 0 .. Len(l)
    PROVE  /\ Spliced(l, k, n) \in Seq(Frames)
           /\ Len(Spliced(l, k, n)) = Len(l) + 1
           /\ \A i \in 1 .. k : Spliced(l, k, n)[i] = l[i]
           /\ Spliced(l, k, n)[k + 1] = n
           /\ \A i \in (k + 2) .. (Len(l) + 1) : Spliced(l, k, n)[i] = l[i - 1]
<1> DEFINE m == SubSeq(l, 1, k) \o <<n>>  t == Cut(l, k)
<1>0. m \in Seq(Frames) /\ t \in Seq(Frames)
  BY CutIs
<1>1. Len(m) = k + 1 /\ (\A i \in 1 .. k : m[i] = l[i]) /\ m[k + 1] = n
  OBVIOUS
<1>2. Len(t) = Len(l) - k /\ \A i \in 1 .. Len(t) : t[i] = l[i + k]
  BY CutIs
<1>3. Spliced(l, k, n) = m \o t
  BY DEF Spliced, Cut
<1> HIDE DEF m, t
<1>4. /\ m \o t \in Seq(Frames)
      /\ Len(m \o t) = Len(m) + Len(t)
      /\ \A i \in 1 .. Len(m) : (m \o t)[i] = m[i]
      /\ \A i \in 1 .. Len(t) : (m \o t)[Len(m) + i] = t[i]
  BY <1>0, Joined
<1>5. ASSUME NEW i \in (k + 2) .. (Len(l) + 1) PROVE (m \o t)[i] = l[i - 1]
  <2>1. i - (k + 1) \in 1 .. Len(t) /\ Len(m) + (i - (k + 1)) = i /\ (i - (k + 1)) + k = i - 1
    BY <1>1, <1>2
  <2>2. (m \o t)[i] = t[i - (k + 1)]
    BY <1>4, <2>1
  <2>3. QED
    BY <1>2, <2>1, <2>2
<1>6. QED
  BY <1>0, <1>1, <1>2, <1>3, <1>4, <1>5

\* Announce changes the lists and the pool, and nothing else.
LEMMA Announces ==
    ASSUME NEW b \in Entries, NEW k \in 0 .. Len(b.list)
    PROVE  /\ Announce(b, k) \in Entries
           /\ Announce(b, k).free = b.free + k
           /\ Announce(b, k).list = Cut(b.list, k)
           /\ Announce(b, k).up = Glued(b.up, b.list, k)
           /\ Announce(b, k).last = b.last
           /\ Announce(b, k).win = b.win
           /\ Announce(b, k).cut = b.cut
           /\ Announce(b, k).fallback = b.fallback
<1>1. b.list \in Seq(Frames) /\ b.up \in Seq(Frames)
  BY DEF Entries
<1>2. Announce(b, k) = [b EXCEPT !.up = Glued(b.up, b.list, k),
                                 !.list = Cut(b.list, k), !.free = b.free + k]
  BY DEF Announce, Entries, Glued, Cut
<1>3. Cut(b.list, k) \in Seq(Frames) /\ Glued(b.up, b.list, k) \in Seq(Frames)
  BY <1>1, CutIs, GluedIs
<1>4. b.free + k \in Nat
  BY DEF Entries
<1>5. QED
  BY <1>2, <1>3, <1>4 DEF Entries

\* What it does to the lists: those that leave list are appended to up.
LEMMA Moved ==
    ASSUME NEW b \in Entries, NEW k \in 0 .. Len(b.list)
    PROVE  LET c == Announce(b, k)
           IN  /\ Len(c.list) = Len(b.list) - k
               /\ \A i \in 1 .. Len(c.list) : c.list[i] = b.list[i + k]
               /\ Len(c.up) = Len(b.up) + k
               /\ \A i \in 1 .. Len(b.up) : c.up[i] = b.up[i]
               /\ \A i \in 1 .. k : c.up[Len(b.up) + i] = b.list[i]
<1> DEFINE l == b.list  u == b.up
<1>1. l \in Seq(Frames) /\ u \in Seq(Frames) /\ k \in 0 .. Len(l)
  BY DEF Entries
<1>2. Announce(b, k).list = Cut(l, k) /\ Announce(b, k).up = Glued(u, l, k)
  BY Announces
<1> HIDE DEF l, u
<1>3. /\ Len(Cut(l, k)) = Len(l) - k
      /\ \A i \in 1 .. Len(Cut(l, k)) : Cut(l, k)[i] = l[i + k]
  BY <1>1, CutIs
<1>4. /\ Len(Glued(u, l, k)) = Len(u) + k
      /\ \A i \in 1 .. Len(u) : Glued(u, l, k)[i] = u[i]
      /\ \A i \in 1 .. k : Glued(u, l, k)[Len(u) + i] = l[i]
  BY <1>1, GluedIs
<1>5. QED
  BY <1>2, <1>3, <1>4 DEF l, u

\* The insertion of InsertSorted.
LEMMA Inserts ==
    ASSUME NEW b \in Entries, NEW n \in Frames, NEW k \in 0 .. Len(b.list), b.free > 0
    PROVE  LET c == [b EXCEPT !.list = SubSeq(@, 1, k) \o <<n>> \o SubSeq(@, k + 1, Len(@)),
                              !.free = @ - 1]
           IN  c \in Entries /\ c = [b EXCEPT !.list = Spliced(b.list, k, n), !.free = b.free - 1]
<1>1. b.list \in Seq(Frames) /\ b.free - 1 \in Nat
  BY DEF Entries
<1>2. Spliced(b.list, k, n) \in Seq(Frames)
  BY <1>1, SplicedIs
<1>3. [b EXCEPT !.list = SubSeq(@, 1, k) \o <<n>> \o SubSeq(@, k + 1, Len(@)),
                              !.free = @ - 1]
      = [b EXCEPT !.list = Spliced(b.list, k, n), !.free = b.free - 1]
  BY DEF Spliced, Entries
<1>4. QED
  BY <1>1, <1>2, <1>3 DEF Entries
-----------------------------------------------------------------------------
(***************************************************************************)
(* Types and blocks.                                                       *)
(***************************************************************************)
\* The block that the fallback is given and does not use.
Leak(b) == IF b.fallback > 0 THEN 1 ELSE 0

\* c is an entry, and its blocks are those of b.
Accounts(b, c) ==
    /\ c \in Entries
    /\ c.win = b.win
    /\ c.free + Len(c.list) + Leak(c) = b.free + Len(b.list) + Leak(b)

\* The list has a length.
LEMMA LenNat == ASSUME NEW b \in Entries PROVE Len(b.list) \in Nat
BY DEF Entries

\* One part of a handler after another.
LEMMA AccountsTrans ==
    ASSUME NEW a, NEW b, NEW c, Accounts(a, b), Accounts(b, c) PROVE Accounts(a, c)
BY DEF Accounts

\* Every MPDU passed up gives its block back.
LEMMA AnnounceAccounts ==
    ASSUME NEW b \in Entries, NEW k \in 0 .. Len(b.list)
    PROVE  /\ Accounts(b, Announce(b, k))
           /\ Len(Announce(b, k).list) = Len(b.list) - k
<1>1. Len(Announce(b, k).list) = Len(b.list) - k
  BY Moved
<1>2. b.free \in Nat /\ Len(b.list) \in Nat
  BY DEF Entries
<1>3. QED
  BY <1>1, <1>2, Announces DEF Accounts, Leak

\* LastIndSeq is no matter of blocks.
LEMMA LastAccounts ==
    ASSUME NEW b \in Entries, NEW s \in Numbers
    PROVE  /\ [b EXCEPT !.last = s] \in Entries
           /\ Accounts(b, [b EXCEPT !.last = s])
           /\ [b EXCEPT !.last = s].fallback = b.fallback
           /\ [b EXCEPT !.last = s].last = s
           /\ [b EXCEPT !.last = s].list = b.list
           /\ [b EXCEPT !.last = s].up = b.up
           /\ [b EXCEPT !.last = s].cut = b.cut
BY DEF Accounts, Leak, Entries

\* ba_indicate_reordering_mpdus_le_seq accounts for its blocks.
LEMMA LeSeqAccounts ==
    ASSUME NEW b \in Entries, NEW s
    PROVE  /\ LeSeq(b, s) \in Entries
           /\ Accounts(b, LeSeq(b, s))
           /\ LeSeq(b, s).fallback = b.fallback
           /\ LeSeq(b, s).last = b.last
           /\ LeSeq(b, s).cut = b.cut
<1> DEFINE due == {i \in DOMAIN b.list : Sn(b.list[i]) = s \/ SEQ_SMALLER(Sn(b.list[i]), s)}
<1>1. Leading(b.list, due) \in 0 .. Len(b.list)
  BY LenNat, LeadingIs
<1>2. QED
  BY <1>1, Announces, AnnounceAccounts DEF LeSeq

\* An MPDU has a sequence number.
LEMMA FrameSn == ASSUME NEW n \in Frames PROVE Sn(n) \in Numbers /\ n \in Int
BY SnRange DEF Frames, Numbers

\* ba_indicate_reordering_mpdus_in_order accounts for its blocks.
LEMMA InOrderAccounts ==
    ASSUME NEW b \in Entries, NEW start
    PROVE  /\ InOrder(b, start) \in Entries
           /\ Accounts(b, InOrder(b, start))
           /\ InOrder(b, start).fallback = b.fallback
           /\ InOrder(b, start).cut = b.cut
           /\ b.last \in Numbers => InOrder(b, start).last \in Numbers
<1> DEFINE due == {i \in DOMAIN b.list : Sn(b.list[i]) = (start + i) % SeqSpace}
           k == Leading(b.list, due)
<1>1. k \in 0 .. Len(b.list)
  BY LenNat, LeadingIs
<1> HIDE DEF k
<1>2. CASE k = 0
  BY <1>2 DEF InOrder, Accounts, k
<1>3. CASE k # 0
  <2>1. Sn(b.list[k]) \in Numbers
    BY <1>1, <1>3, FrameSn DEF Entries
  <2> DEFINE c == Announce(b, k)
  <2>2. c \in Entries /\ Accounts(b, c) /\ c.fallback = b.fallback /\ c.cut = b.cut
    BY <1>1, Announces, AnnounceAccounts
  <2>3. InOrder(b, start) = [c EXCEPT !.last = Sn(b.list[k])]
    BY <1>3 DEF InOrder, k
  <2> HIDE DEF c
  <2>4. /\ [c EXCEPT !.last = Sn(b.list[k])] \in Entries
        /\ Accounts(c, [c EXCEPT !.last = Sn(b.list[k])])
        /\ [c EXCEPT !.last = Sn(b.list[k])].fallback = c.fallback
        /\ [c EXCEPT !.last = Sn(b.list[k])].last = Sn(b.list[k])
        /\ [c EXCEPT !.last = Sn(b.list[k])].cut = c.cut
    BY <2>1, <2>2, LastAccounts
  <2>5. QED
    BY <2>1, <2>2, <2>3, <2>4, AccountsTrans
<1>4. QED
  BY <1>2, <1>3

\* ba_refresh_reordering_mpdus empties the list and accounts for its blocks.
LEMMA RefreshAccounts ==
    ASSUME NEW b \in Entries
    PROVE  /\ Refresh(b) \in Entries
           /\ Accounts(b, Refresh(b))
           /\ Refresh(b).fallback = b.fallback
           /\ Refresh(b).last = RESET_RCV_SEQ
           /\ Refresh(b).list = <<>>
           /\ Refresh(b).up = Glued(b.up, b.list, Len(b.list))
           /\ Refresh(b).cut = Len(b.up) + Len(b.list)
<1> DEFINE k == Len(b.list)  e == Announce(b, k)
<1>1. k \in 0 .. Len(b.list) /\ Len(b.up) \in Nat
  BY LenNat DEF Entries
<1> HIDE DEF k
<1>2. /\ e \in Entries /\ Accounts(b, e) /\ Len(e.list) = Len(b.list) - k
      /\ e.fallback = b.fallback /\ e.up = Glued(b.up, b.list, k)
  BY <1>1, Announces, AnnounceAccounts
<1>3. Len(e.up) = Len(b.up) + k
  BY <1>1, Moved
<1>4. Refresh(b) = [e EXCEPT !.last = RESET_RCV_SEQ, !.cut = Len(e.up)]
  BY DEF Refresh, k
<1> HIDE DEF e
<1>5. e.list = <<>>
  BY <1>1, <1>2 DEF Entries, k
<1>6. Len(e.up) \in Nat
  BY <1>1, <1>3
<1>7. [e EXCEPT !.last = RESET_RCV_SEQ, !.cut = Len(e.up)] \in Entries
  BY <1>2, <1>6 DEF Entries
<1>8. Accounts(e, [e EXCEPT !.last = RESET_RCV_SEQ, !.cut = Len(e.up)])
  BY <1>2, <1>7 DEF Entries, Accounts, Leak
<1>9. QED
  BY <1>2, <1>3, <1>4, <1>5, <1>7, <1>8, AccountsTrans DEF Entries, k

\* ba_flush_reordering_timeout_mpdus accounts for its blocks.
LEMMA FlushTimeoutAccounts ==
    ASSUME NEW b \in Entries, NEW a, b.last = RESET_RCV_SEQ => b.list = <<>>
    PROVE  /\ FlushTimeout(b, a) \in Entries
           /\ Accounts(b, FlushTimeout(b, a))
           /\ FlushTimeout(b, a).fallback = b.fallback
           /\ FlushTimeout(b, a).last = RESET_RCV_SEQ => FlushTimeout(b, a).list = <<>>
<1>1. CASE Len(b.list) > 1 /\ a = "over500ms"
  BY <1>1, RefreshAccounts DEF FlushTimeout
<1>2. CASE ~(Len(b.list) > 1 /\ a = "over500ms") /\ Len(b.list) > 0 /\ a # "recent"
  <2> DEFINE next == (b.last + 1) % SeqSpace
             d == LeSeq(b, next)
             e == [d EXCEPT !.last = next]
  <2>0. b.last \in Int
    BY SizesAssumption DEF Entries, Numbers, RESET_RCV_SEQ
  <2>1. next \in Numbers
    BY <2>0, ModRange
  <2>2. FlushTimeout(b, a) = InOrder(e, next)
    BY <1>2 DEF FlushTimeout
  <2> HIDE DEF next
  <2>3. d \in Entries /\ Accounts(b, d) /\ d.fallback = b.fallback
    BY LeSeqAccounts
  <2> HIDE DEF d
  <2>4. e \in Entries /\ Accounts(d, e) /\ e.fallback = d.fallback /\ e.last = next
    BY <2>1, <2>3, LastAccounts
  <2> HIDE DEF e
  <2>5. /\ InOrder(e, next) \in Entries /\ Accounts(e, InOrder(e, next))
        /\ InOrder(e, next).fallback = e.fallback
        /\ InOrder(e, next).last \in Numbers
    BY <2>1, <2>4, InOrderAccounts
  <2>6. RESET_RCV_SEQ \notin Numbers
    BY SizesAssumption DEF Numbers, RESET_RCV_SEQ
  <2>7. QED
    BY <2>2, <2>3, <2>4, <2>5, <2>6, AccountsTrans
<1>3. CASE ~(Len(b.list) > 0 /\ a # "recent") /\ ~(Len(b.list) > 1 /\ a = "over500ms")
  BY <1>3 DEF FlushTimeout, Accounts
<1>4. QED
  BY <1>1, <1>2, <1>3

\* The leading positions of the list of an entry.
LEMMA LeadingDue ==
    ASSUME NEW b \in Entries, NEW at PROVE Leading(b.list, at) \in 0 .. Len(b.list)
BY LenNat, LeadingIs

\* ba_reordering_mpdu_insertsorted: a block for each MPDU, none for a duplicate.
LEMMA InsertSortedAccounts ==
    ASSUME NEW b \in Entries, NEW n \in Frames, b.free > 0
    PROVE  /\ InsertSorted(b, n) \in Entries
           /\ Accounts(b, InsertSorted(b, n))
           /\ InsertSorted(b, n).fallback = b.fallback
           /\ InsertSorted(b, n).cut = b.cut
           /\ InsertSorted(b, n).last = b.last
<1> DEFINE before == {i \in DOMAIN b.list : SEQ_SMALLER(Sn(b.list[i]), Sn(n))}
           k == Leading(b.list, before)
           c == [b EXCEPT !.list = SubSeq(@, 1, k) \o <<n>> \o SubSeq(@, k + 1, Len(@)),
                          !.free = @ - 1]
<1>1. k \in 0 .. Len(b.list)
  BY LeadingDue
<1>2. InsertSorted(b, n) = b \/ InsertSorted(b, n) = c
  BY DEF InsertSorted
<1> HIDE DEF k
<1>3. c \in Entries /\ c = [b EXCEPT !.list = Spliced(b.list, k, n), !.free = b.free - 1]
  BY <1>1, Inserts
<1>4. Len(Spliced(b.list, k, n)) = Len(b.list) + 1 /\ Len(b.list) \in Nat /\ b.free \in Nat
  BY <1>1, SplicedIs DEF Entries
<1> HIDE DEF c
<1>4a. /\ c.list = Spliced(b.list, k, n) /\ c.free = b.free - 1 /\ c.win = b.win
       /\ c.fallback = b.fallback /\ c.cut = b.cut /\ c.last = b.last
  BY <1>3 DEF Entries
<1>5. Accounts(b, c)
  BY <1>3, <1>4, <1>4a DEF Accounts, Leak
<1>6. Accounts(b, b)
  BY DEF Accounts
<1>7. QED
  BY <1>2, <1>3, <1>4a, <1>5, <1>6

\* An MPDU passed up at once takes no block.
LEMMA IndicateAccounts ==
    ASSUME NEW b \in Entries, NEW n \in Frames
    PROVE  /\ Indicate(b, n) \in Entries
           /\ Accounts(b, Indicate(b, n))
           /\ Indicate(b, n).fallback = b.fallback
           /\ Indicate(b, n).cut = b.cut
           /\ Indicate(b, n).last = b.last
           /\ Indicate(b, n).list = b.list
           /\ Indicate(b, n).up = Append(b.up, n)
<1>1. Append(b.up, n) \in Seq(Frames)
  BY DEF Entries
<1>2. Indicate(b, n) = [b EXCEPT !.up = Append(b.up, n)]
  BY DEF Indicate, Entries
<1>3. QED
  BY <1>1, <1>2 DEF Entries, Accounts, Leak

\* ba_enqueue_reordering_packet accounts for its blocks but for the one its
\* fallback is given; unless it falls back, it inserts.
LEMMA EnqueueAccounts ==
    ASSUME NEW b \in Entries, NEW n \in Frames, b.fallback = -1, b.last \in Numbers
    PROVE  /\ EnqueueReordering(b, n) \in Entries
           /\ Accounts(b, EnqueueReordering(b, n))
           /\ EnqueueReordering(b, n).cut = b.cut
           /\ EnqueueReordering(b, n).last \in Numbers
           /\ EnqueueReordering(b, n).fallback = -1 =>
                 b.free > 0 /\ EnqueueReordering(b, n) = InsertSorted(b, n)
           /\ EnqueueReordering(b, n).fallback >= -1
<1>1. CASE b.free > 0 /\ n \notin Eapol
  BY <1>1, InsertSortedAccounts DEF EnqueueReordering
<1>2. CASE ~(b.free > 0 /\ n \notin Eapol)
  <2> DEFINE t == [b EXCEPT !.free = IF @ > 0 THEN @ - 1 ELSE 0, !.fallback = b.free]
             d == LeSeq(t, Sn(n))
             e == [d EXCEPT !.last = Sn(n)]
  <2>1. EnqueueReordering(b, n) = Indicate(e, n)
    BY <1>2 DEF EnqueueReordering
  <2>a. b.free \in Nat /\ Len(b.list) \in Nat
    BY DEF Entries
  <2> DEFINE x == IF b.free > 0 THEN b.free - 1 ELSE 0
  <2>c. x \in Nat /\ t = [b EXCEPT !.free = x, !.fallback = b.free]
    BY <2>a DEF Entries
  <2> HIDE DEF x, t
  <2> DEFINE y == b.free
  <2>e. y \in Int /\ t = [b EXCEPT !.free = x, !.fallback = y]
    BY <2>a, <2>c
  <2> HIDE DEF y
  <2>d. t \in Entries
    BY <2>c, <2>e DEF Entries
  <2>b. /\ t.list = b.list /\ t.win = b.win
        /\ t.fallback = b.free /\ t.cut = b.cut
        /\ t.free = x
    BY <2>c DEF Entries
  <2>2. t \in Entries /\ Accounts(b, t) /\ t.fallback = b.free /\ t.cut = b.cut
    BY <2>a, <2>b, <2>d DEF Accounts, Leak, x
  <2> HIDE DEF t
  <2>3. d \in Entries /\ Accounts(t, d) /\ d.fallback = t.fallback /\ d.cut = t.cut
    BY <2>2, LeSeqAccounts
  <2> HIDE DEF d
  <2>4. e \in Entries /\ Accounts(d, e) /\ e.fallback = d.fallback /\ e.cut = d.cut
        /\ e.last = Sn(n)
    BY <2>3, FrameSn, LastAccounts
  <2> HIDE DEF e
  <2>5. /\ Indicate(e, n) \in Entries /\ Accounts(e, Indicate(e, n))
        /\ Indicate(e, n).fallback = e.fallback /\ Indicate(e, n).cut = e.cut
        /\ Indicate(e, n).last = e.last
    BY <2>4, IndicateAccounts
  <2>6. Accounts(b, Indicate(e, n))
    BY <2>2, <2>3, <2>4, <2>5, AccountsTrans
  <2>7. b.free \in Nat
    BY DEF Entries
  <2>8. QED
    BY <2>1, <2>2, <2>3, <2>4, <2>5, <2>6, <2>7, FrameSn
<1>3. QED
  BY <1>1, <1>2

\* Case V accounts for its blocks.
LEMMA SurpassAccounts ==
    ASSUME NEW b \in Entries, NEW n \in Frames, b.fallback = -1
    PROVE  /\ SurpassWindow(b, n) \in Entries
           /\ Accounts(b, SurpassWindow(b, n))
           /\ SurpassWindow(b, n).cut = b.cut
           /\ SurpassWindow(b, n).last \in Numbers
           /\ SurpassWindow(b, n).fallback >= -1
<1> DEFINE start == (Sn(n) - b.win) % SeqSpace
           d == LeSeq(b, start)
           f == [d EXCEPT !.last = start]
           e == EnqueueReordering(f, n)
<1>0. SurpassWindow(b, n) = InOrder(e, e.last)
  BY DEF SurpassWindow
<1>1. start \in Numbers
  <2>1. Sn(n) - b.win \in Int
    BY FrameSn DEF Entries, Numbers
  <2>2. QED
    BY <2>1, ModRange
<1> HIDE DEF start
<1>2. d \in Entries /\ Accounts(b, d) /\ d.fallback = -1 /\ d.cut = b.cut
  BY LeSeqAccounts
<1> HIDE DEF d
<1>3. f \in Entries /\ Accounts(d, f) /\ f.fallback = -1 /\ f.last = start /\ f.cut = d.cut
  BY <1>1, <1>2, LastAccounts
<1> HIDE DEF f
<1>4. /\ e \in Entries /\ Accounts(f, e) /\ e.cut = f.cut /\ e.last \in Numbers
      /\ e.fallback >= -1
  BY <1>1, <1>3, EnqueueAccounts
<1> HIDE DEF e
<1>5. /\ InOrder(e, e.last) \in Entries
      /\ Accounts(e, InOrder(e, e.last))
      /\ InOrder(e, e.last).fallback = e.fallback
      /\ InOrder(e, e.last).cut = e.cut
      /\ InOrder(e, e.last).last \in Numbers
  BY <1>4, InOrderAccounts
<1>6. Accounts(b, InOrder(e, e.last))
  BY <1>2, <1>3, <1>4, <1>5, AccountsTrans
<1>7. QED
  BY <1>0, <1>2, <1>3, <1>4, <1>5, <1>6

\* Indicate_AMPDU_Packet after the timeout flush accounts for its blocks.
LEMMA ClassifyAccounts ==
    ASSUME NEW b \in Entries, NEW n \in Frames, b.fallback = -1
    PROVE  /\ Classify(b, n) \in Entries
           /\ Accounts(b, Classify(b, n))
           /\ Classify(b, n).cut = b.cut
           /\ Classify(b, n).last \in Numbers
           /\ Classify(b, n).fallback >= -1
<1> DEFINE s == Sn(n)
           f == [b EXCEPT !.last = s]
           g == Indicate(f, n)
<1>1. /\ f \in Entries /\ Accounts(b, f) /\ f.fallback = -1 /\ f.last = s /\ f.cut = b.cut
  BY FrameSn, LastAccounts
<1>2. s \in Numbers
  BY FrameSn
<1> HIDE DEF f
<1>3. /\ g \in Entries /\ Accounts(f, g) /\ g.fallback = -1 /\ g.last = s /\ g.cut = b.cut
  BY <1>1, IndicateAccounts
<1>4. Accounts(b, g)
  BY <1>1, <1>3, AccountsTrans
<1> HIDE DEF g
<1>5. b.last # RESET_RCV_SEQ => b.last \in Numbers
  BY DEF Entries
<1>6. CASE b.last = RESET_RCV_SEQ
  BY <1>2, <1>3, <1>4, <1>6 DEF Classify, f, g
<1>7. CASE b.last # RESET_RCV_SEQ /\ SEQ_STEPONE(s, b.last)
  <2>1. Classify(b, n) = InOrder(g, s)
    BY <1>7 DEF Classify, f, g
  <2>2. /\ InOrder(g, s) \in Entries
        /\ Accounts(g, InOrder(g, s))
        /\ InOrder(g, s).fallback = g.fallback
        /\ InOrder(g, s).cut = g.cut
        /\ InOrder(g, s).last \in Numbers
    BY <1>2, <1>3, InOrderAccounts
  <2>3. QED
    BY <1>3, <1>4, <2>1, <2>2, AccountsTrans
<1>8. CASE /\ b.last # RESET_RCV_SEQ /\ ~SEQ_STEPONE(s, b.last)
           /\ s = b.last \/ SEQ_SMALLER(s, b.last)
  BY <1>5, <1>8 DEF Classify, Accounts
<1>9. CASE /\ b.last # RESET_RCV_SEQ /\ ~SEQ_STEPONE(s, b.last)
           /\ ~(s = b.last \/ SEQ_SMALLER(s, b.last))
  <2>1. Classify(b, n) = EnqueueReordering(b, n) \/ Classify(b, n) = SurpassWindow(b, n)
    BY <1>9 DEF Classify
  <2>2. QED
    BY <1>5, <1>9, <2>1, EnqueueAccounts, SurpassAccounts
<1>10. QED
  BY <1>6, <1>7, <1>8, <1>9

\* A handler begins with nothing passed up.
LEMMA BeginAccounts ==
    ASSUME NEW b \in Entries
    PROVE  /\ Begin(b) \in Entries
           /\ Begin(b) = [b EXCEPT !.up = <<>>, !.cut = 0, !.fallback = -1]
           /\ Begin(b).list = b.list /\ Begin(b).last = b.last /\ Begin(b).win = b.win
           /\ Begin(b).free = b.free
           /\ Begin(b).up = <<>> /\ Begin(b).cut = 0 /\ Begin(b).fallback = -1
<1>1. <<>> \in Seq(Frames) /\ -1 \in Int /\ 0 \in Nat
  OBVIOUS
<1>2. Begin(b) = [b EXCEPT !.up = <<>>, !.cut = 0, !.fallback = -1]
  BY DEF Begin
<1>3. [b EXCEPT !.up = <<>>, !.cut = 0, !.fallback = -1] \in Entries
  BY <1>1 DEF Entries
<1>4. QED
  BY <1>2, <1>3 DEF Entries

\* Indicate_AMPDU_Packet accounts for its blocks.
LEMMA IndicateAmpduAccounts ==
    ASSUME NEW b \in Entries, NEW n \in Frames, NEW a, b.fallback = -1,
           b.last = RESET_RCV_SEQ => b.list = <<>>
    PROVE  LET c == Classify(FlushTimeout(b, a), n)
           IN  /\ c \in Entries
               /\ Accounts(b, c)
               /\ c.cut = FlushTimeout(b, a).cut
               /\ c.last \in Numbers
               /\ c.fallback >= -1
<1> DEFINE d == FlushTimeout(b, a)
<1>1. d \in Entries /\ Accounts(b, d) /\ d.fallback = -1
  BY FlushTimeoutAccounts
<1> HIDE DEF d
<1>2. /\ Classify(d, n) \in Entries /\ Accounts(d, Classify(d, n))
      /\ Classify(d, n).cut = d.cut /\ Classify(d, n).last \in Numbers
      /\ Classify(d, n).fallback >= -1
  BY <1>1, ClassifyAccounts
<1>3. QED
  BY <1>1, <1>2, AccountsTrans DEF d

\* BARecSessionTearDown gives all blocks back.
LEMMA TornDownAccounts ==
    ASSUME NEW b \in Entries
    PROVE  /\ TornDown(b) \in Entries
           /\ TornDown(b).free + Len(TornDown(b).list) + Leak(TornDown(b))
                = b.free + Len(b.list) + Leak(b)
           /\ TornDown(b).list = <<>> /\ TornDown(b).last = RESET_RCV_SEQ
           /\ TornDown(b).fallback = b.fallback
           /\ TornDown(b).win = 0
           /\ TornDown(b).up = Glued(b.up, b.list, Len(b.list))
           /\ TornDown(b).cut = Len(b.up) + Len(b.list)
<1> DEFINE e == Refresh(b)
<1>1. /\ e \in Entries /\ Accounts(b, e) /\ e.fallback = b.fallback
      /\ e.last = RESET_RCV_SEQ /\ e.list = <<>>
      /\ e.up = Glued(b.up, b.list, Len(b.list)) /\ e.cut = Len(b.up) + Len(b.list)
  BY RefreshAccounts
<1>2. TornDown(b) = [e EXCEPT !.win = 0]
  BY DEF TornDown
<1> HIDE DEF e
<1>3. /\ [e EXCEPT !.win = 0] \in Entries
      /\ [e EXCEPT !.win = 0].free = e.free
      /\ [e EXCEPT !.win = 0].list = e.list
      /\ [e EXCEPT !.win = 0].last = e.last
      /\ [e EXCEPT !.win = 0].fallback = e.fallback
      /\ [e EXCEPT !.win = 0].up = e.up
      /\ [e EXCEPT !.win = 0].cut = e.cut
      /\ [e EXCEPT !.win = 0].win = 0
  BY <1>1 DEF Entries
<1>4. QED
  BY <1>1, <1>2, <1>3 DEF Accounts, Leak

\* The flush of a BlockAckReq accounts for its blocks.
LEMMA BarFlushAccounts ==
    ASSUME NEW b \in Entries, NEW start \in Numbers
    PROVE  /\ BarFlush(b, start) \in Entries
           /\ Accounts(b, BarFlush(b, start))
           /\ BarFlush(b, start).fallback = b.fallback
           /\ BarFlush(b, start).cut = b.cut
           /\ BarFlush(b, start) = b \/ BarFlush(b, start).last \in Numbers
<1> DEFINE d == LeSeq(b, start)
           s == IF start = 0 THEN SeqSpace - 1 ELSE start - 1
<1>1. d \in Entries /\ Accounts(b, d) /\ d.fallback = b.fallback /\ d.cut = b.cut
  BY LeSeqAccounts
<1>2. s \in Numbers
  BY SizesAssumption DEF Numbers
<1>3. BarFlush(b, start) = b \/ BarFlush(b, start) = [d EXCEPT !.last = s]
  BY DEF BarFlush
<1> HIDE DEF d, s
<1>4. /\ [d EXCEPT !.last = s] \in Entries /\ Accounts(d, [d EXCEPT !.last = s])
      /\ [d EXCEPT !.last = s].fallback = d.fallback
      /\ [d EXCEPT !.last = s].last = s
      /\ [d EXCEPT !.last = s].cut = d.cut
  BY <1>1, <1>2, LastAccounts
<1>5. Accounts(b, [d EXCEPT !.last = s])
  BY <1>1, <1>4, AccountsTrans
<1>6. Accounts(b, b)
  BY DEF Accounts
<1>7. QED
  BY <1>1, <1>2, <1>3, <1>4, <1>5, <1>6
-----------------------------------------------------------------------------
(***************************************************************************)
(* The highest MPDU of a set.                                              *)
(***************************************************************************)
\* Highest returns one of the set, above all others.
LEMMA HighestIs ==
    ASSUME NEW S, S \subseteq Frames \cup {-1}
    PROVE  /\ Highest(S) \in Frames \cup {-1}
           /\ S # {} => Highest(S) \in S
           /\ \A y \in S : y <= Highest(S)
<1>1. CASE S = {}
  BY <1>1 DEF Highest
<1>2. CASE S # {}
  <2> DEFINE T == {NFrames - x : x \in S}
  <2>1. NFrames \in Nat /\ \A x \in S : x \in Int /\ NFrames - x \in Nat
    BY SizesAssumption DEF Frames
  <2>2. T \subseteq Nat /\ T # {}
    BY <1>2, <2>1
  <2>3. PICK t \in T : \A u \in T : t <= u
    BY <2>2, Least
  <2>4. PICK x \in S : t = NFrames - x
    BY <2>3
  <2>5. \A y \in S : y <= x
    <3> SUFFICES ASSUME NEW y \in S PROVE y <= x
      OBVIOUS
    <3>1. NFrames - y \in T
      OBVIOUS
    <3>2. NFrames - x <= NFrames - y
      BY <2>3, <2>4, <3>1
    <3>3. QED
      BY <2>1, <3>2
  <2>6. QED
    BY <1>2, <2>5 DEF Highest
<1>3. QED
  BY <1>1, <1>2
-----------------------------------------------------------------------------
(***************************************************************************)
(* Typing and the pool.                                                    *)
(***************************************************************************)
\* Types, blocks, and that nothing is pending while LastIndSeq is reset.
TInv ==
    /\ TypeOK
    /\ ba \in Entries
    /\ PoolConserved
    /\ ba.last = RESET_RCV_SEQ => ba.list = <<>>
    /\ sess = (ba.win # 0)
    /\ sess \/ ba.last = RESET_RCV_SEQ
    /\ leaked \in Nat

\* What Remember keeps.
LEMMA Remembered ==
    ASSUME TInv, ba' \in Entries, ba'.fallback >= -1,
           NEW up \in BOOLEAN, NEW bar \in Frames \cup {-1}, Remember(ba', up, bar)
    PROVE  /\ top' \in Frames \cup {-1}
           /\ barred' \in Frames \cup {-1}
           /\ fell' \in BOOLEAN
           /\ leaked' = leaked + Leak(ba')
           /\ leaked' \in Nat
<1> DEFINE since == {ba'.up[i] : i \in (ba'.cut + 1) .. Len(ba'.up)}
           S == since \cup (IF ba'.cut > 0 THEN {} ELSE {top})
<1>0. ba'.up \in Seq(Frames) /\ ba'.cut \in Nat /\ top \in Frames \cup {-1}
  BY DEF Entries, TInv, TypeOK
<1>1. S \subseteq Frames \cup {-1}
  <2>1. \A i \in (ba'.cut + 1) .. Len(ba'.up) : ba'.up[i] \in Frames
    BY <1>0
  <2>2. QED
    BY <1>0, <2>1
<1>2. top' = -1 \/ top' = Highest(S)
  BY DEF Remember
<1> HIDE DEF S
<1>3. top' \in Frames \cup {-1}
  BY <1>1, <1>2, HighestIs
<1>4. barred' \in Frames \cup {-1} /\ fell' \in BOOLEAN
  BY DEF Remember
<1>5. leaked' = leaked + Leak(ba') /\ leaked' \in Nat
  BY DEF Remember, Leak, TInv
<1>6. QED
  BY <1>3, <1>4, <1>5

\* An entry that accounts for all blocks is typed.
LEMMA Typed ==
    ASSUME TInv, ba' \in Entries, ba'.win \in WinSizes \cup {0}, others' \in 0 .. OthersMax,
           leaked' \in Nat, PoolConserved'
    PROVE  /\ ba'.list \in Seq(Frames) /\ ba'.up \in Seq(Frames)
           /\ ba'.last \in 0 .. SeqSpace - 1 \cup {RESET_RCV_SEQ}
           /\ ba'.free \in 0 .. PoolSize
           /\ ba'.win \in WinSizes \cup {0}
<1>1. /\ ba'.list \in Seq(Frames) /\ ba'.up \in Seq(Frames) /\ ba'.free \in Nat
      /\ ba'.last \in Numbers \cup {RESET_RCV_SEQ} /\ Len(ba'.list) \in Nat
  BY DEF Entries
<1>2. ba'.free + Len(ba'.list) + others' + leaked' = PoolSize
  BY DEF PoolConserved
<1>3. others' \in Nat /\ PoolSize \in Nat
  BY SizesAssumption
<1>4. QED
  BY <1>1, <1>2, <1>3 DEF Numbers

\* It holds at first.
LEMMA TypesInit == Init => TInv
<1> SUFFICES ASSUME Init PROVE TInv
  OBVIOUS
<1>1. {PoolSize, OthersMax, NFrames, MaxCopies} \subseteq Nat
  BY SizesAssumption
<1>2. <<>> \in Seq(Frames) /\ Len(<<>>) = 0
  OBVIOUS
<1>3. ba \in Entries
  BY <1>1, <1>2 DEF Init, Entry, Entries
<1>4. copies \in [Frames -> 0 .. MaxCopies]
  BY <1>1 DEF Init
<1>5. ba = [list |-> <<>>, last |-> RESET_RCV_SEQ, free |-> PoolSize, win |-> 0,
            up |-> <<>>, cut |-> 0, fallback |-> -1]
  BY DEF Init, Entry
<1>6. PoolConserved
  BY <1>1, <1>2, <1>5 DEF Init, PoolConserved
<1>7. TypeOK
  <2>1. /\ ba.list \in Seq(Frames) /\ ba.up \in Seq(Frames)
        /\ ba.last = RESET_RCV_SEQ /\ ba.free \in 0 .. PoolSize /\ ba.win = 0
    BY <1>1, <1>2, <1>5
  <2>2. others \in 0 .. OthersMax /\ winO \in 0 .. NFrames
    BY <1>1 DEF Init
  <2>3. QED
    BY <1>4, <2>1, <2>2 DEF Init, TypeOK
<1>8. ba.list = <<>> /\ ba.win = 0 /\ ba.last = RESET_RCV_SEQ
  BY <1>5
<1>9. QED
  BY <1>3, <1>6, <1>7, <1>8 DEF Init, TInv

\* The part of TInv about the entry, the histories and the pool.
TEntry ==
    /\ ba \in Entries
    /\ ba.list \in Seq(Frames) /\ ba.up \in Seq(Frames)
    /\ ba.last \in 0 .. SeqSpace - 1 \cup {RESET_RCV_SEQ}
    /\ ba.free \in 0 .. PoolSize
    /\ ba.win \in WinSizes \cup {0}
    /\ others \in 0 .. OthersMax
    /\ top \in Frames \cup {-1} /\ barred \in Frames \cup {-1}
    /\ fell \in BOOLEAN /\ leaked \in Nat
    /\ PoolConserved

\* A handler that accounts for the blocks keeps it.
LEMMA Handled ==
    ASSUME TInv, ba' \in Entries, ba'.win \in WinSizes \cup {0}, ba'.fallback >= -1,
           ba'.free + Len(ba'.list) + Leak(ba') = ba.free + Len(ba.list),
           NEW up \in BOOLEAN, NEW bar \in Frames \cup {-1}, Remember(ba', up, bar),
           others' = others
    PROVE  TEntry'
<1>1. /\ top' \in Frames \cup {-1} /\ barred' \in Frames \cup {-1} /\ fell' \in BOOLEAN
      /\ leaked' = leaked + Leak(ba') /\ leaked' \in Nat
  BY Remembered, Zenon
<1>2. ba'.free \in Nat /\ Len(ba'.list) \in Nat /\ Leak(ba') \in Nat
  BY DEF Entries, Leak
<1>3. ba.free \in Nat /\ Len(ba.list) \in Nat /\ leaked \in Nat /\ others \in 0 .. OthersMax
  BY DEF Entries, TInv, TypeOK
<1>4. PoolConserved' /\ others' \in 0 .. OthersMax
  <2>1. ba.free + Len(ba.list) + others + leaked = PoolSize
    BY DEF TInv, PoolConserved
  <2>2. others \in Nat /\ OthersMax \in Nat
    BY <1>3, SizesAssumption
  <2>3. ba'.free + Len(ba'.list) + others' + leaked' = PoolSize
    BY <1>1, <1>2, <1>3, <2>1, <2>2
  <2>4. QED
    BY <1>3, <2>3 DEF PoolConserved
<1>5. QED
  BY <1>1, <1>4, Typed DEF TEntry

\* BARecSessionAdd.
LEMMA TypesAddBa == ASSUME TInv, NEW w \in WinSizes, AddBa(w) PROVE TInv'
<1> DEFINE b == IF sess THEN Refresh(Begin(ba)) ELSE Begin(ba)
           a == Begin(ba)
<1>1. /\ a \in Entries /\ a.list = ba.list /\ a.last = ba.last /\ a.win = ba.win
      /\ a.free = ba.free /\ a.fallback = -1
  BY BeginAccounts DEF TInv
<1> HIDE DEF a
<1>2. /\ b \in Entries /\ b.free + Len(b.list) = ba.free + Len(ba.list)
      /\ b.fallback = -1 /\ b.list = <<>>
  <2>1. CASE sess
    <3>1. /\ Refresh(a) \in Entries /\ Accounts(a, Refresh(a))
          /\ Refresh(a).fallback = a.fallback /\ Refresh(a).list = <<>>
      BY <1>1, RefreshAccounts
    <3>2. QED
      BY <1>1, <2>1, <3>1 DEF Accounts, Leak, a, Entries
  <2>2. CASE ~sess
    BY <1>1, <2>2 DEF TInv, a
  <2>3. QED
    BY <2>1, <2>2
<1>3. ba' = [b EXCEPT !.win = w, !.last = RESET_RCV_SEQ]
  BY DEF AddBa
<1>4. w \in Nat /\ w # 0
  BY SizesAssumption
<1> HIDE DEF b
<1>5. ba' \in Entries
  BY <1>2, <1>3, <1>4 DEF Entries
<1>6. /\ ba'.win = w /\ ba'.list = b.list /\ ba'.free = b.free /\ ba'.fallback = -1
      /\ ba'.last = RESET_RCV_SEQ
  BY <1>2, <1>3 DEF Entries
<1>7. Remember(ba', TRUE, -1) /\ sess' = TRUE /\ UNCHANGED <<age, others, winO, copies, newest>>
  BY DEF AddBa
<1>8. /\ ba'.free + Len(ba'.list) + Leak(ba') = ba.free + Len(ba.list)
      /\ ba'.fallback >= -1 /\ ba'.win \in WinSizes \cup {0} /\ -1 \in Frames \cup {-1}
  BY <1>2, <1>4, <1>6 DEF Leak, TInv, Entries
<1>9. TEntry'
  BY <1>5, <1>7, <1>8, Handled, Zenon
<1>10. QED
  BY <1>2, <1>4, <1>6, <1>7, <1>9 DEF TInv, TypeOK, TEntry

\* BARecSessionTearDown.
LEMMA TypesTearDown == ASSUME TInv, TearDown PROVE TInv'
<1> DEFINE a == Begin(ba)
<1>1. /\ a \in Entries /\ a.list = ba.list /\ a.free = ba.free /\ a.fallback = -1
  BY BeginAccounts DEF TInv
<1>2. ba' = TornDown(a) /\ Remember(ba', FALSE, -1) /\ sess' = FALSE
      /\ UNCHANGED <<age, others, winO, copies, newest>>
  BY DEF TearDown
<1> HIDE DEF a
<1>3. /\ ba' \in Entries /\ ba'.free + Len(ba'.list) + Leak(ba') = a.free + Len(a.list) + Leak(a)
      /\ ba'.list = <<>> /\ ba'.last = RESET_RCV_SEQ /\ ba'.fallback = -1 /\ ba'.win = 0
  BY <1>1, <1>2, TornDownAccounts
<1>4. ba'.free + Len(ba'.list) + Leak(ba') = ba.free + Len(ba.list)
  BY <1>1, <1>3 DEF Leak, TInv, Entries
<1>5. ba'.fallback >= -1 /\ ba'.win \in WinSizes \cup {0} /\ -1 \in Frames \cup {-1}
  BY <1>3
<1>6. TEntry'
  BY <1>2, <1>3, <1>4, <1>5, Handled, Zenon
<1>7. QED
  BY <1>2, <1>3, <1>6 DEF TInv, TypeOK, TEntry

\* Indicate_AMPDU_Packet.
LEMMA TypesReceive == ASSUME TInv, NEW n \in Frames, Receive(n) PROVE TInv'
<1> DEFINE a == Begin(ba)
<1>1. /\ a \in Entries /\ a.list = ba.list /\ a.free = ba.free /\ a.fallback = -1
      /\ a.last = ba.last /\ a.win = ba.win
  BY BeginAccounts DEF TInv
<1>2. /\ Remember(ba', sess, barred) /\ UNCHANGED <<sess, others, winO>>
      /\ copies' = [copies EXCEPT ![n] = @ - 1] /\ copies[n] > 0
      /\ newest' = Highest({n, newest})
      /\ age' = IF sess THEN "recent" ELSE age
      /\ ba' = IF sess THEN Classify(FlushTimeout(a, age), n) ELSE Indicate(a, n)
  BY DEF Receive, IndicateAmpdu
<1> HIDE DEF a
<1>3. a.last = RESET_RCV_SEQ => a.list = <<>>
  BY <1>1 DEF TInv
<1>4. /\ ba' \in Entries /\ Accounts(a, ba') /\ ba'.fallback >= -1
      /\ ba'.last = RESET_RCV_SEQ => ba'.list = <<>>
      /\ ~sess => ba'.last = RESET_RCV_SEQ
  <2>1. CASE sess
    <3>1. ba' = Classify(FlushTimeout(a, age), n)
      BY <1>2, <2>1
    <3>2. /\ ba' \in Entries /\ Accounts(a, ba') /\ ba'.fallback >= -1 /\ ba'.last \in Numbers
      BY <1>1, <1>3, <3>1, IndicateAmpduAccounts
    <3>3. RESET_RCV_SEQ \notin Numbers
      BY SizesAssumption DEF Numbers, RESET_RCV_SEQ
    <3>4. QED
      BY <2>1, <3>2, <3>3
  <2>2. CASE ~sess
    <3>1. ba' = Indicate(a, n)
      BY <1>2, <2>2
    <3>2. /\ ba' \in Entries /\ Accounts(a, ba') /\ ba'.fallback = a.fallback
          /\ ba'.last = a.last /\ ba'.list = a.list
      BY <1>1, <3>1, IndicateAccounts
    <3>3. QED
      BY <1>1, <1>3, <2>2, <3>2 DEF TInv
  <2>3. QED
    BY <2>1, <2>2
<1>5. /\ ba'.free + Len(ba'.list) + Leak(ba') = ba.free + Len(ba.list)
      /\ ba'.win = ba.win
  BY <1>1, <1>4 DEF Leak, TInv, Entries, Accounts
<1>6. ba'.win \in WinSizes \cup {0} /\ barred \in Frames \cup {-1} /\ sess \in BOOLEAN /\ others' = others
  BY <1>2, <1>5 DEF TInv, TypeOK
<1>7. TEntry'
  BY <1>2, <1>4, <1>5, <1>6, Handled, Zenon
<1>8. newest' \in Frames \cup {-1}
  <2>1. {n, newest} \subseteq Frames \cup {-1}
    BY DEF TInv, TypeOK
  <2>2. QED
    BY <1>2, <2>1, HighestIs, Zenon
<1>9. copies' \in [Frames -> 0 .. MaxCopies]
  <2>1. copies \in [Frames -> 0 .. MaxCopies] /\ MaxCopies \in Nat
    BY SizesAssumption DEF TInv, TypeOK
  <2>2. copies[n] - 1 \in 0 .. MaxCopies
    BY <1>2, <2>1
  <2>3. QED
    BY <1>2, <2>1, <2>2
<1>10. age' \in {"recent", "over100ms", "over500ms"}
  BY <1>2 DEF TInv, TypeOK
<1>11. QED
  BY <1>2, <1>4, <1>5, <1>7, <1>8, <1>9, <1>10 DEF TInv, TypeOK, TEntry

\* CntlEnqueueForRecv.
LEMMA TypesBlockAckReq == ASSUME TInv, NEW c \in BOOLEAN, BlockAckReq(c) PROVE TInv'
<1> DEFINE a == Begin(ba)
           b == BarFlush(a, Sn(winO))
           bar == IF SEQ_SMALLER(ba.last, Sn(winO)) THEN winO ELSE barred
<1>1. /\ a \in Entries /\ a.list = ba.list /\ a.free = ba.free /\ a.fallback = -1
      /\ a.last = ba.last /\ a.win = ba.win
  BY BeginAccounts DEF TInv
<1>2. /\ ba' = IF c THEN b ELSE TornDown(b)
      /\ sess /\ sess' = c /\ Remember(ba', c, bar) /\ winO \in Frames
      /\ UNCHANGED <<age, others, winO, copies, newest>>
  BY DEF BlockAckReq
<1>3. bar \in Frames \cup {-1}
  BY <1>2 DEF TInv, TypeOK
<1> HIDE DEF a, bar
<1>4. /\ b \in Entries /\ Accounts(a, b) /\ b.fallback = a.fallback
      /\ b = a \/ b.last \in Numbers
  BY <1>1, <1>2, FrameSn, BarFlushAccounts
<1>5. b.last = RESET_RCV_SEQ => b.list = <<>>
  <2>1. RESET_RCV_SEQ \notin Numbers
    BY SizesAssumption DEF Numbers, RESET_RCV_SEQ
  <2>2. QED
    BY <1>1, <1>4, <2>1 DEF TInv
<1> HIDE DEF b
<1>6. /\ ba' \in Entries /\ ba'.free + Len(ba'.list) + Leak(ba') = b.free + Len(b.list) + Leak(b)
      /\ ba'.last = RESET_RCV_SEQ => ba'.list = <<>>
      /\ ba'.fallback = -1
      /\ ba'.win = IF c THEN ba.win ELSE 0
      /\ c \/ ba'.last = RESET_RCV_SEQ
  <2>1. CASE c
    BY <1>1, <1>2, <1>4, <1>5, <2>1 DEF Accounts
  <2>2. CASE ~c
    BY <1>1, <1>2, <1>4, <2>2, TornDownAccounts
  <2>3. QED
    BY <2>1, <2>2
<1>7. ba'.free + Len(ba'.list) + Leak(ba') = ba.free + Len(ba.list)
  BY <1>1, <1>4, <1>6 DEF Accounts, Leak, TInv, Entries
<1>8. ba'.win \in WinSizes \cup {0} /\ ba'.fallback >= -1 /\ others' = others
  BY <1>2, <1>6 DEF TInv, TypeOK
<1>9. TEntry'
  BY <1>2, <1>3, <1>6, <1>7, <1>8, Handled, Zenon
<1>10. QED
  BY <1>2, <1>6, <1>9 DEF TInv, TypeOK, TEntry

\* Tick, SenderAdvance and OthersUse leave the lists alone.
LEMMA TypesQuiet ==
    ASSUME TInv, Tick \/ SenderAdvance \/ OthersUse PROVE TInv'
<1> DEFINE a == Begin(ba)
<1>1. /\ a \in Entries /\ a.list = ba.list /\ a.free = ba.free /\ a.fallback = -1
      /\ a.last = ba.last /\ a.win = ba.win /\ a.up = <<>>
  BY BeginAccounts DEF TInv
<1>2. CASE Tick \/ SenderAdvance
  <2>1. ba' = a /\ UNCHANGED <<sess, others, newest, top, barred, fell, leaked>>
    BY <1>2 DEF Tick, SenderAdvance, history
  <2> HIDE DEF a
  <2>2. TInv /\ ba' \in Entries /\ ba'.list = ba.list /\ ba'.free = ba.free
        /\ ba'.last = ba.last /\ ba'.win = ba.win /\ ba'.up \in Seq(Frames)
    BY <1>1, <2>1 DEF Entries
  <2>3. CASE Tick
    <3>1. age' \in {"recent", "over100ms", "over500ms"} /\ UNCHANGED <<winO, copies>>
      BY <2>3 DEF Tick
    <3>2. QED
      BY <2>1, <2>2, <3>1 DEF TInv, TypeOK, PoolConserved
  <2>4. CASE SenderAdvance
    <3>1. winO < NFrames /\ winO' = winO + 1 /\ copies' = [copies EXCEPT ![winO] = 0] /\ age' = age
      BY <2>4 DEF SenderAdvance
    <3>2. NFrames \in Nat /\ MaxCopies \in Nat
      BY SizesAssumption
    <3>3. winO \in 0 .. NFrames /\ copies \in [Frames -> 0 .. MaxCopies]
      BY DEF TInv, TypeOK
    <3>4. winO' \in 0 .. NFrames
      BY <3>1, <3>2, <3>3
    <3>5. 0 \in 0 .. MaxCopies
      BY <3>2
    <3>6. copies' \in [Frames -> 0 .. MaxCopies]
      BY <3>1, <3>3, <3>5
    <3>7. QED
      BY <2>1, <2>2, <3>1, <3>4, <3>6 DEF TInv, TypeOK, PoolConserved
  <2>5. QED
    BY <1>2, <2>3, <2>4
<1>3. CASE OthersUse
  <2>1. /\ ba' = [a EXCEPT !.free = ba.free + others - others']
        /\ others' \in 0 .. OthersMax /\ others' - others <= ba.free
        /\ UNCHANGED <<sess, age, winO, copies, newest, top, barred, fell, leaked>>
    BY <1>1, <1>3 DEF OthersUse, history
  <2> HIDE DEF a
  <2>2. /\ ba.free \in Nat /\ Len(ba.list) \in Nat /\ others \in Nat /\ others' \in Nat
        /\ leaked \in Nat /\ ba.free + Len(ba.list) + others + leaked = PoolSize
    BY <2>1, SizesAssumption DEF TInv, TypeOK, Entries, PoolConserved
  <2>3. ba.free + others - others' \in 0 .. PoolSize
    <3>1. others' - others <= ba.free /\ PoolSize \in Nat
      BY <2>1, SizesAssumption
    <3> DEFINE l == Len(ba.list)
    <3>2. l \in Nat /\ ba.free + l + others + leaked = PoolSize
      BY <2>2
    <3> HIDE DEF l
    <3>3. QED
      BY <2>2, <3>1, <3>2
  <2>4. /\ ba' \in Entries /\ ba'.list = ba.list /\ ba'.free = ba.free + others - others'
        /\ ba'.last = ba.last /\ ba'.win = ba.win /\ ba'.up \in Seq(Frames)
    BY <1>1, <2>1, <2>3 DEF Entries
  <2>5. PoolConserved'
    BY <2>1, <2>2, <2>4 DEF PoolConserved
  <2>6. QED
    BY <2>1, <2>3, <2>4, <2>5 DEF TInv, TypeOK
<1>4. QED
  BY <1>2, <1>3

\* Every step keeps it.
LEMMA TypesKept == TInv /\ [Next]_vars => TInv'
<1> SUFFICES ASSUME TInv, [Next]_vars PROVE TInv'
  OBVIOUS
<1>1. ASSUME NEW w \in WinSizes, AddBa(w) PROVE TInv'
  BY <1>1, TypesAddBa
<1>2. CASE TearDown
  BY <1>2, TypesTearDown
<1>3. ASSUME NEW n \in Frames, Receive(n) PROVE TInv'
  BY <1>3, TypesReceive
<1>4. ASSUME NEW c \in BOOLEAN, BlockAckReq(c) PROVE TInv'
  BY <1>4, TypesBlockAckReq
<1>5. CASE Tick \/ SenderAdvance \/ OthersUse
  BY <1>5, TypesQuiet
<1>6. CASE UNCHANGED vars
  BY <1>6 DEF TInv, TypeOK, PoolConserved, vars
<1>7. QED
  BY <1>1, <1>2, <1>3, <1>4, <1>5, <1>6 DEF Next

\* So it holds always.
LEMMA TypesInvariant == Spec => []TInv
BY TypesInit, TypesKept, PTL DEF Spec

\* Types hold; above all the pool never has more free blocks than it has blocks,
\* however often MPDUs are pending, dropped, flushed or passed up.
THEOREM Typing == Spec => []TypeOK
<1>1. TInv => TypeOK
  BY DEF TInv
<1>2. QED
  BY TypesInvariant, <1>1, PTL

\* Each block of the pool is free, pending or another session's, but for those
\* given to EAPOL MPDUs by ba_enqueue_reordering_packet.
THEOREM Pool == Spec => []PoolConserved
<1>1. TInv => PoolConserved
  BY DEF TInv
<1>2. QED
  BY TypesInvariant, <1>1, PTL
-----------------------------------------------------------------------------
(***************************************************************************)
(* The order of the stream: lists that are lined up, and an entry in mid-  *)
(* handler.                                                                *)
(***************************************************************************)
\* SEQ_SMALLER compares up to half of the numbers.  Reach bounds the windows.
Half == SeqSpace \div 2
Reach == (Half - MaxLoss - 1) \div 2

\* The sizes, and that a window of lag, the lost MPDUs and a window are fewer
\* than half of the numbers.
LEMMA Reaches ==
    /\ MaxLoss \in Nat /\ Half \in Nat /\ Reach \in Int /\ SeqSpace = 2 * Half
    /\ 2 * Reach + MaxLoss < Half
    /\ \A w \in WinSizes : w \in Nat /\ 1 <= w /\ w <= Reach
<1>1. MaxLoss \in Nat
  BY SizesAssumption
<1>2. Half \in Nat /\ SeqSpace = 2 * Half
  BY SizesAssumption DEF Half
<1>3. Reach \in Int /\ 2 * Reach <= Half - MaxLoss - 1 /\ Half - MaxLoss - 1 <= 2 * Reach + 1
  BY <1>1, <1>2 DEF Reach
<1>4. ASSUME NEW w \in WinSizes PROVE w \in Nat /\ 1 <= w /\ w <= Reach
  <2>1. w \in 1 .. Half
    BY SizesAssumption DEF Half
  <2>2. 2 * w + MaxLoss < Half
    BY LossAssumption DEF Half
  <2>3. QED
    BY <1>1, <1>2, <1>3, <2>1, <2>2
<1>5. QED
  BY <1>1, <1>2, <1>3, <1>4

\* The i-th MPDU of a list in order is at least i places after L.
LEMMA Spaced ==
    ASSUME NEW l \in Seq(Int), NEW L \in Int, StrictlyAfter(l, L)
    PROVE  \A i \in 1 .. Len(l) : l[i] >= L + i
<1> DEFINE T == {i \in 1 .. Len(l) : l[i] < L + i}
<1>1. SUFFICES ASSUME T # {} PROVE FALSE
  OBVIOUS
<1>2. PICK x \in T : \A y \in T : x <= y
  <2>1. T \subseteq Nat
    OBVIOUS
  <2>2. QED
    BY <1>1, <2>1, Least
<1>3. x \in 1 .. Len(l) /\ l[x] < L + x /\ l[x] \in Int
  OBVIOUS
<1>4. CASE x = 1
  BY <1>3, <1>4 DEF StrictlyAfter
<1>5. CASE x > 1
  <2>1. x - 1 \in 1 .. Len(l) /\ x - 1 \notin T
    BY <1>2, <1>3, <1>5
  <2>2. l[x - 1] >= L + (x - 1) /\ l[x - 1] \in Int
    BY <2>1
  <2>3. l[x - 1] < l[x]
    BY <1>3, <2>1 DEF StrictlyAfter
  <2>4. QED
    BY <1>3, <2>2, <2>3
<1>6. QED
  BY <1>3, <1>4, <1>5

\* The MPDUs passed up by the handler and then those pending are in order after t.
Lined(b, t) ==
    /\ StrictlyAfter(b.up, t)
    /\ StrictlyAfter(b.list, t)
    /\ \A i \in 1 .. Len(b.up), j \in 1 .. Len(b.list) : b.up[i] < b.list[j]

\* MPDUs are numbers.
LEMMA FrameInt == Frames \subseteq Int /\ Frames \subseteq Nat
BY SizesAssumption DEF Frames

\* The lists of an entry are lists of numbers.
LEMMA ListsInt ==
    ASSUME NEW b \in Entries
    PROVE  /\ Len(b.list) \in Nat /\ Len(b.up) \in Nat
           /\ \A i \in 1 .. Len(b.list) : b.list[i] \in Int /\ b.list[i] \in Frames
           /\ \A i \in 1 .. Len(b.up) : b.up[i] \in Int /\ b.up[i] \in Frames
           /\ b.list \in Seq(Int) /\ b.up \in Seq(Int)
<1>1. b.list \in Seq(Frames) /\ b.up \in Seq(Frames)
  BY DEF Entries
<1>2. \A i \in 1 .. Len(b.list) : b.list[i] \in Frames
  BY <1>1
<1>3. \A i \in 1 .. Len(b.up) : b.up[i] \in Frames
  BY <1>1
<1>4. b.list \in Seq(Int) /\ b.up \in Seq(Int)
  <2>1. Seq(Frames) \subseteq Seq(Int)
    BY FrameInt, SeqMonotonic
  <2>2. QED
    BY <1>1, <2>1
<1>5. QED
  BY <1>1, <1>2, <1>3, <1>4, FrameInt

\* Passing up the first of the list keeps the order.
LEMMA LinedAnnounce ==
    ASSUME NEW b \in Entries, NEW t \in Int, Lined(b, t), NEW k \in 0 .. Len(b.list)
    PROVE  Lined(Announce(b, k), t)
<1> DEFINE c == Announce(b, k)  m == Len(b.up)
<1>1. /\ Len(c.list) = Len(b.list) - k
      /\ \A i \in 1 .. Len(c.list) : c.list[i] = b.list[i + k]
      /\ Len(c.up) = m + k
      /\ \A i \in 1 .. m : c.up[i] = b.up[i]
      /\ \A i \in 1 .. k : c.up[m + i] = b.list[i]
  BY Moved
<1>2. /\ Len(b.list) \in Nat /\ m \in Nat
      /\ \A i \in 1 .. Len(b.list) : b.list[i] \in Int
      /\ \A i \in 1 .. m : b.up[i] \in Int
  BY ListsInt
<1> HIDE DEF c, m
<1>3. \A i \in (m + 1) .. (m + k) : c.up[i] = b.list[i - m]
  <2> SUFFICES ASSUME NEW i \in (m + 1) .. (m + k) PROVE c.up[i] = b.list[i - m]
    OBVIOUS
  <2>1. i - m \in 1 .. k /\ m + (i - m) = i
    BY <1>2
  <2>2. QED
    BY <1>1, <2>1
<1>4. StrictlyAfter(c.list, t)
  <2>1. \A i \in 1 .. Len(c.list) : i + k \in 1 .. Len(b.list)
    BY <1>1, <1>2
  <2>2. ASSUME NEW i \in 1 .. Len(c.list) PROVE c.list[i] > t
    BY <1>1, <2>1 DEF Lined, StrictlyAfter
  <2>3. ASSUME NEW i \in 1 .. Len(c.list), NEW j \in 1 .. Len(c.list), i < j
        PROVE  c.list[i] < c.list[j]
    <3>1. i + k < j + k
      BY <2>3, <1>1, <1>2
    <3>2. QED
      BY <1>1, <2>1, <2>3, <3>1 DEF Lined, StrictlyAfter
  <2>4. QED
    BY <2>2, <2>3 DEF StrictlyAfter
<1>5. StrictlyAfter(c.up, t)
  <2>1. ASSUME NEW i \in 1 .. Len(c.up) PROVE c.up[i] > t
    <3>1. CASE i \in 1 .. m
      BY <1>1, <3>1 DEF Lined, StrictlyAfter, m
    <3>2. CASE i \in (m + 1) .. (m + k)
      <4>1. i - m \in 1 .. Len(b.list)
        BY <1>2, <3>2
      <4>2. QED
        BY <1>3, <3>2, <4>1 DEF Lined, StrictlyAfter
    <3>3. QED
      BY <1>1, <1>2, <3>1, <3>2
  <2>2. ASSUME NEW i \in 1 .. Len(c.up), NEW j \in 1 .. Len(c.up), i < j
        PROVE  c.up[i] < c.up[j]
    <3>1. CASE j \in 1 .. m
      <4>1. i \in 1 .. m
        BY <1>2, <2>2, <3>1
      <4>2. QED
        BY <1>1, <2>2, <3>1, <4>1 DEF Lined, StrictlyAfter, m
    <3>2. CASE i \in 1 .. m /\ j \in (m + 1) .. (m + k)
      <4>1. j - m \in 1 .. Len(b.list)
        BY <1>2, <3>2
      <4>2. QED
        BY <1>1, <1>3, <3>2, <4>1 DEF Lined, m
    <3>3. CASE i \in (m + 1) .. (m + k) /\ j \in (m + 1) .. (m + k)
      <4>1. j - m \in 1 .. Len(b.list) /\ i - m \in 1 .. Len(b.list) /\ i - m < j - m
        BY <1>2, <2>2, <3>3
      <4>2. QED
        BY <1>3, <3>3, <4>1 DEF Lined, StrictlyAfter
    <3>4. QED
      BY <1>1, <1>2, <2>2, <3>1, <3>2, <3>3
  <2>3. QED
    BY <2>1, <2>2 DEF StrictlyAfter
<1>6. ASSUME NEW i \in 1 .. Len(c.up), NEW j \in 1 .. Len(c.list) PROVE c.up[i] < c.list[j]
  <2>1. j + k \in 1 .. Len(b.list) /\ c.list[j] = b.list[j + k]
    BY <1>1, <1>2
  <2>2. CASE i \in 1 .. m
    BY <1>1, <2>1, <2>2 DEF Lined, m
  <2>3. CASE i \in (m + 1) .. (m + k)
    <3>1. i - m \in 1 .. Len(b.list) /\ i - m < j + k
      BY <1>2, <2>1, <2>3
    <3>2. QED
      BY <1>3, <2>1, <2>3, <3>1 DEF Lined, StrictlyAfter
  <2>4. QED
    BY <1>1, <1>2, <2>2, <2>3
<1>7. QED
  BY <1>4, <1>5, <1>6 DEF Lined, c

\* b is the entry in mid-handler, with LastIndSeq the number of position L.
Good(b, L, t, h) ==
    /\ b \in Entries
    /\ b.last = Sn(L)
    /\ b.win \in 1 .. Reach
    /\ Lined(b, t)
    /\ \A j \in 1 .. Len(b.list) : L < b.list[j] /\ b.list[j] <= L + b.win /\ b.list[j] <= h
    /\ \A i \in 1 .. Len(b.up) : b.up[i] <= L

\* LastIndSeq moves to s when all MPDUs up to s are passed up.
LEMMA GoodLeading ==
    ASSUME NEW b, NEW L \in Int, NEW t \in Int, NEW h \in Int, Good(b, L, t, h),
           NEW k \in 0 .. Len(b.list), NEW s \in Int, L <= s,
           \A i \in 1 .. k : b.list[i] <= s,
           k < Len(b.list) => b.list[k + 1] > s
    PROVE  Good([Announce(b, k) EXCEPT !.last = Sn(s)], s, t, h)
<1> DEFINE c == Announce(b, k)  e == [c EXCEPT !.last = Sn(s)]  m == Len(b.up)
<1>1. b \in Entries /\ b.win \in 1 .. Reach /\ Lined(b, t)
  BY DEF Good
<1>2. c \in Entries /\ c.win = b.win
  BY <1>1, Announces
<1>3. Sn(s) \in Numbers
  BY SnRange DEF Numbers
<1>4. /\ Len(c.list) = Len(b.list) - k
      /\ \A i \in 1 .. Len(c.list) : c.list[i] = b.list[i + k]
      /\ Len(c.up) = m + k
      /\ \A i \in 1 .. m : c.up[i] = b.up[i]
      /\ \A i \in 1 .. k : c.up[m + i] = b.list[i]
  BY <1>1, Moved
<1>5. Lined(c, t)
  BY <1>1, LinedAnnounce
<1>6. /\ Len(b.list) \in Nat /\ m \in Nat
      /\ \A i \in 1 .. Len(b.list) : b.list[i] \in Int
      /\ \A i \in 1 .. m : b.up[i] \in Int
  BY <1>1, ListsInt
<1> HIDE DEF c, m
<1>7. e \in Entries /\ e.list = c.list /\ e.up = c.up /\ e.win = c.win /\ e.last = Sn(s)
  BY <1>2, <1>3 DEF Entries
<1>8. ASSUME NEW j \in 1 .. Len(c.list)
      PROVE  s < c.list[j] /\ c.list[j] <= s + c.win /\ c.list[j] <= h
  <2>1. j + k \in 1 .. Len(b.list) /\ k + 1 \in 1 .. Len(b.list) /\ c.list[j] = b.list[j + k]
        /\ k < Len(b.list)
    BY <1>4, <1>6
  <2>2. b.list[k + 1] <= b.list[j + k]
    <3>1. CASE j = 1
      BY <1>6, <2>1, <3>1
    <3>2. CASE j # 1
      BY <1>1, <1>6, <2>1, <3>2 DEF Lined, StrictlyAfter
    <3>3. QED
      BY <3>1, <3>2
  <2>3. s < b.list[k + 1]
    BY <2>1
  <2>4. b.list[j + k] <= L + b.win /\ b.list[j + k] <= h
    BY <2>1 DEF Good
  <2>5. QED
    BY <1>1, <1>2, <1>6, <2>1, <2>2, <2>3, <2>4
<1>9. ASSUME NEW i \in 1 .. Len(c.up) PROVE c.up[i] <= s
  <2>1. CASE i \in 1 .. m
    <3>1. b.up[i] <= L
      BY <2>1 DEF Good, m
    <3>2. QED
      BY <1>4, <1>6, <2>1, <3>1
  <2>2. CASE i \in (m + 1) .. (m + k)
    <3>1. i - m \in 1 .. k /\ m + (i - m) = i
      BY <1>6, <2>2
    <3>2. c.up[i] = b.list[i - m]
      BY <1>4, <3>1
    <3>3. QED
      BY <3>1, <3>2
  <2>3. QED
    BY <1>4, <1>6, <2>1, <2>2
<1>10. QED
  BY <1>1, <1>2, <1>5, <1>7, <1>8, <1>9 DEF Good, Lined, c

\* What Good says of the numbers in the list.
LEMMA GoodNumbers ==
    ASSUME NEW b, NEW L \in Int, NEW t \in Int, NEW h \in Int, Good(b, L, t, h)
    PROVE  /\ b \in Entries /\ b.win \in Int /\ 1 <= b.win /\ b.win <= Reach
           /\ Len(b.list) \in Nat /\ Len(b.up) \in Nat
           /\ \A i \in 1 .. Len(b.list) :
                 /\ b.list[i] \in Int /\ b.list[i] \in Frames
                 /\ L + i <= b.list[i] /\ L < b.list[i] /\ b.list[i] <= L + b.win
                 /\ b.list[i] <= h /\ t < b.list[i]
           /\ \A i, j \in 1 .. Len(b.list) : i < j => b.list[i] < b.list[j]
           /\ \A i \in 1 .. Len(b.up) : b.up[i] \in Int /\ b.up[i] <= L /\ t < b.up[i]
           /\ Len(b.list) <= b.win
<1>1. b \in Entries /\ b.win \in Int /\ 1 <= b.win /\ b.win <= Reach
  BY Reaches DEF Good
<1>2. /\ Len(b.list) \in Nat /\ Len(b.up) \in Nat
      /\ \A i \in 1 .. Len(b.list) : b.list[i] \in Int /\ b.list[i] \in Frames
      /\ \A i \in 1 .. Len(b.up) : b.up[i] \in Int
      /\ b.list \in Seq(Int)
  BY <1>1, ListsInt
<1>3. \A i, j \in 1 .. Len(b.list) : i < j => b.list[i] < b.list[j]
  BY DEF Good, Lined, StrictlyAfter
<1>4. \A i \in 1 .. Len(b.list) : L < b.list[i] /\ b.list[i] <= L + b.win /\ b.list[i] <= h
  BY DEF Good
<1>5. \A i \in 1 .. Len(b.list) : t < b.list[i]
  BY <1>2 DEF Good, Lined, StrictlyAfter
<1>6. StrictlyAfter(b.list, L)
  BY <1>2, <1>3, <1>4 DEF StrictlyAfter
<1>7. \A i \in 1 .. Len(b.list) : b.list[i] >= L + i
  BY <1>2, <1>6, Spaced
<1>8. \A i \in 1 .. Len(b.up) : b.up[i] <= L /\ t < b.up[i]
  BY <1>2 DEF Good, Lined, StrictlyAfter
<1>9. Len(b.list) <= b.win
  <2>1. CASE Len(b.list) = 0
    BY <1>1, <2>1
  <2>2. CASE Len(b.list) > 0
    <3>1. Len(b.list) \in 1 .. Len(b.list)
      BY <1>2, <2>2
    <3>2. L + Len(b.list) <= b.list[Len(b.list)] /\ b.list[Len(b.list)] <= L + b.win
      BY <1>4, <1>7, <3>1, <1>2
    <3>3. QED
      BY <1>1, <1>2, <3>1, <3>2
  <2>3. QED
    BY <1>2, <2>1, <2>2
<1>10. QED
  BY <1>1, <1>2, <1>3, <1>4, <1>5, <1>7, <1>8, <1>9

\* ba_indicate_reordering_mpdus_le_seq, with the caller's update.
LEMMA LeSeqGood ==
    ASSUME NEW b, NEW L \in Int, NEW t \in Int, NEW h \in Int, Good(b, L, t, h),
           NEW s \in Int, L <= s, s - L < Half
    PROVE  Good([LeSeq(b, Sn(s)) EXCEPT !.last = Sn(s)], s, t, h)
<1> DEFINE due == {i \in DOMAIN b.list : Sn(b.list[i]) = Sn(s) \/ SEQ_SMALLER(Sn(b.list[i]), Sn(s))}
           k == Leading(b.list, due)
<1>1. /\ b \in Entries /\ b.win \in Int /\ b.win <= Reach /\ Len(b.list) \in Nat
      /\ \A i \in 1 .. Len(b.list) :
            b.list[i] \in Int /\ L < b.list[i] /\ b.list[i] <= L + b.win
  BY GoodNumbers
<1>2. DOMAIN b.list = 1 .. Len(b.list)
  BY <1>1 DEF Entries
<1>3. /\ k \in 0 .. Len(b.list) /\ 1 .. k \subseteq due
      /\ k < Len(b.list) => k + 1 \notin due
  BY <1>1, LeadingIs
<1>4. ASSUME NEW i \in 1 .. Len(b.list) PROVE i \in due <=> b.list[i] <= s
  <2>1. b.list[i] \in Int /\ b.list[i] - s < Half /\ s - b.list[i] < Half
    BY <1>1, Reaches
  <2>2. /\ Sn(b.list[i]) = Sn(s) <=> b.list[i] = s
        /\ SEQ_SMALLER(Sn(b.list[i]), Sn(s)) <=> b.list[i] < s
    BY <2>1, Apart DEF Half
  <2>3. QED
    BY <1>2, <2>1, <2>2
<1>5. LeSeq(b, Sn(s)) = Announce(b, k)
  BY DEF LeSeq
<1> HIDE DEF due, k
<1>6. \A i \in 1 .. k : b.list[i] <= s
  BY <1>1, <1>3, <1>4
<1>7. k < Len(b.list) => b.list[k + 1] > s
  <2> SUFFICES ASSUME k < Len(b.list) PROVE b.list[k + 1] > s
    OBVIOUS
  <2>1. k + 1 \in 1 .. Len(b.list)
    BY <1>1, <1>3
  <2>2. ~(b.list[k + 1] <= s)
    BY <1>3, <1>4, <2>1
  <2>3. QED
    BY <1>1, <2>1, <2>2
<1>8. QED
  BY <1>3, <1>5, <1>6, <1>7, GoodLeading

\* The MPDU after LastIndSeq is not pending.
NotHeld(b, L) == b.list # <<>> => b.list[1] # L + 1

\* ba_indicate_reordering_mpdus_in_order passes up what is next, and leaves
\* nothing that is.
LEMMA InOrderGood ==
    ASSUME NEW b, NEW L \in Int, NEW t \in Int, NEW h \in Int, Good(b, L, t, h)
    PROVE  \E M \in Int : /\ Good(InOrder(b, Sn(L)), M, t, h)
                         /\ NotHeld(InOrder(b, Sn(L)), M)
                         /\ L <= M /\ (M = L \/ M <= h)
<1> DEFINE due == {i \in DOMAIN b.list : Sn(b.list[i]) = (Sn(L) + i) % SeqSpace}
           k == Leading(b.list, due)
<1>1. /\ b \in Entries /\ b.win \in Int /\ b.win <= Reach /\ Len(b.list) \in Nat
      /\ \A i \in 1 .. Len(b.list) :
            /\ b.list[i] \in Int /\ L < b.list[i] /\ b.list[i] <= L + b.win
            /\ L + i <= b.list[i] /\ b.list[i] <= h
      /\ \A i, j \in 1 .. Len(b.list) : i < j => b.list[i] < b.list[j]
  BY GoodNumbers
<1>2. DOMAIN b.list = 1 .. Len(b.list)
  BY <1>1 DEF Entries
<1>3. /\ k \in 0 .. Len(b.list) /\ 1 .. k \subseteq due
      /\ k < Len(b.list) => k + 1 \notin due
  BY <1>1, LeadingIs
<1>4. ASSUME NEW i \in 1 .. Len(b.list) PROVE i \in due <=> b.list[i] = L + i
  <2>1. b.list[i] \in Int /\ L + i \in Int /\ b.list[i] - (L + i) < Half /\ (L + i) - b.list[i] < Half
    BY <1>1, Reaches
  <2>2. (Sn(L) + i) % SeqSpace = Sn(L + i)
    BY Shift
  <2>3. Sn(b.list[i]) = Sn(L + i) <=> b.list[i] = L + i
    BY <2>1, Apart DEF Half
  <2>4. QED
    BY <1>2, <2>2, <2>3
<1>5. InOrder(b, Sn(L)) = IF k = 0 THEN b ELSE [Announce(b, k) EXCEPT !.last = Sn(b.list[k])]
  BY DEF InOrder
<1> HIDE DEF due, k
<1>6. CASE k = 0
  <2>1. NotHeld(b, L)
    <3> SUFFICES ASSUME b.list # <<>> PROVE b.list[1] # L + 1
      BY DEF NotHeld
    <3>1. 1 \in 1 .. Len(b.list)
      BY <1>1 DEF Entries
    <3>2. QED
      BY <1>3, <1>4, <1>6, <3>1
  <2>2. QED
    BY <1>5, <1>6, <2>1
<1>7. CASE k > 0
  <2> DEFINE M == b.list[k]  c == [Announce(b, k) EXCEPT !.last = Sn(M)]
  <2>1. k \in 1 .. Len(b.list) /\ M \in Int /\ M = L + k /\ L <= M /\ M <= h
    BY <1>1, <1>3, <1>4, <1>7
  <2>2. \A i \in 1 .. k : b.list[i] <= M
    BY <1>1, <2>1
  <2>3. k < Len(b.list) => b.list[k + 1] > M /\ b.list[k + 1] # M + 1
    <3> SUFFICES ASSUME k < Len(b.list) PROVE b.list[k + 1] > M /\ b.list[k + 1] # M + 1
      OBVIOUS
    <3>1. k + 1 \in 1 .. Len(b.list)
      BY <1>1, <2>1
    <3>2. b.list[k + 1] # L + (k + 1)
      BY <1>3, <1>4, <3>1
    <3>3. QED
      BY <1>1, <2>1, <3>1, <3>2
  <2>4. Good(c, M, t, h)
    BY <1>3, <2>1, <2>2, <2>3, GoodLeading
  <2>5. NotHeld(c, M)
    <3>1. c.list = Announce(b, k).list
      BY <1>1, <1>3, Announces DEF Entries
    <3>2. /\ Len(c.list) = Len(b.list) - k
          /\ \A i \in 1 .. Len(c.list) : c.list[i] = b.list[i + k]
      BY <1>1, <1>3, <3>1, Moved
    <3> HIDE DEF c, M
    <3> SUFFICES ASSUME c.list # <<>> PROVE c.list[1] # M + 1
      BY DEF NotHeld
    <3>3. c.list \in Seq(Frames)
      BY <2>4 DEF Good, Entries
    <3>4. 1 \in 1 .. Len(c.list)
      BY <3>3
    <3>5. c.list[1] = b.list[k + 1] /\ k < Len(b.list)
      <4>1. 1 <= Len(b.list) - k
        BY <3>2, <3>4, <3>3
      <4>2. k < Len(b.list)
        BY <1>1, <2>1, <4>1
      <4>3. c.list[1] = b.list[1 + k] /\ 1 + k = k + 1
        BY <2>1, <3>2, <3>4
      <4>4. QED
        BY <4>2, <4>3
    <3>6. QED
      BY <2>3, <3>5
  <2>6. QED
    BY <1>5, <1>7, <2>1, <2>4, <2>5
<1>8. QED
  BY <1>3, <1>6, <1>7
-----------------------------------------------------------------------------
(***************************************************************************)
(* What the list operations do to an entry in mid-handler.                 *)
(***************************************************************************)
\* Good from its parts.
LEMMA GoodIntro ==
    ASSUME NEW b \in Entries, NEW L \in Int, NEW t \in Int, NEW h \in Int,
           b.last = Sn(L), b.win \in 1 .. Reach,
           StrictlyAfter(b.up, t),
           \A i \in 1 .. Len(b.up) : b.up[i] <= L,
           \A i, j \in 1 .. Len(b.list) : i < j => b.list[i] < b.list[j],
           \A j \in 1 .. Len(b.list) :
              L < b.list[j] /\ b.list[j] <= L + b.win /\ b.list[j] <= h /\ t < b.list[j]
    PROVE  Good(b, L, t, h)
<1>1. /\ \A i \in 1 .. Len(b.up) : b.up[i] \in Int
      /\ \A i \in 1 .. Len(b.list) : b.list[i] \in Int
  BY ListsInt
<1>2. StrictlyAfter(b.list, t)
  BY <1>1 DEF StrictlyAfter
<1>3. ASSUME NEW i \in 1 .. Len(b.up), NEW j \in 1 .. Len(b.list) PROVE b.up[i] < b.list[j]
  <2>1. b.up[i] <= L /\ L < b.list[j] /\ b.up[i] \in Int /\ b.list[j] \in Int
    BY <1>1
  <2>2. QED
    BY <2>1
<1>4. Lined(b, t)
  BY <1>2, <1>3 DEF Lined
<1>5. QED
  BY <1>4 DEF Good

\* What was passed up first stays first.
LEMMA InOrderFirst ==
    ASSUME NEW b \in Entries, NEW s, 1 <= Len(b.up)
    PROVE  /\ 1 <= Len(InOrder(b, s).up) /\ InOrder(b, s).up # <<>>
           /\ InOrder(b, s).up[1] = b.up[1]
<1> DEFINE due == {i \in DOMAIN b.list : Sn(b.list[i]) = (s + i) % SeqSpace}
           k == Leading(b.list, due)
           c == Announce(b, k)
<1>1. k \in 0 .. Len(b.list) /\ Len(b.list) \in Nat /\ Len(b.up) \in Nat
  BY LeadingDue, LenNat DEF Entries
<1>2. InOrder(b, s) = b \/ InOrder(b, s) = [c EXCEPT !.last = Sn(b.list[k])]
  BY DEF InOrder
<1> HIDE DEF k
<1>3. Len(c.up) = Len(b.up) + k /\ \A i \in 1 .. Len(b.up) : c.up[i] = b.up[i]
  BY <1>1, Moved
<1>4. c \in Entries
  BY <1>1, Announces
<1> HIDE DEF c
<1>5. [c EXCEPT !.last = Sn(b.list[k])].up = c.up
  BY <1>4 DEF Entries
<1>6. 1 \in 1 .. Len(b.up) /\ 1 <= Len(c.up)
  BY <1>1, <1>3
<1>7. /\ 1 <= Len(InOrder(b, s).up)
      /\ InOrder(b, s).up[1] = b.up[1]
  <2>1. CASE InOrder(b, s) = b
    BY <2>1
  <2>2. CASE InOrder(b, s) = [c EXCEPT !.last = Sn(b.list[k])]
    <3>1. InOrder(b, s).up = c.up
      BY <1>5, <2>2
    <3>2. c.up[1] = b.up[1]
      BY <1>3, <1>6
    <3>3. QED
      BY <1>6, <3>1, <3>2
  <2>3. QED
    BY <1>2, <2>1, <2>2
<1>8. Len(<<>>) = 0
  OBVIOUS
<1>9. QED
  BY <1>7, <1>8

\* Case I: the MPDU after LastIndSeq.
LEMMA IndicateGood ==
    ASSUME NEW b, NEW L \in Int, NEW t \in Int, NEW h \in Int, Good(b, L, t, h),
           NotHeld(b, L), NEW n \in Frames, n = L + 1, t < n
    PROVE  /\ Good(Indicate([b EXCEPT !.last = Sn(n)], n), n, t, h)
           /\ 1 <= Len(Indicate([b EXCEPT !.last = Sn(n)], n).up)
           /\ b.up = <<>> => Indicate([b EXCEPT !.last = Sn(n)], n).up[1] = n
<1> DEFINE f == [b EXCEPT !.last = Sn(n)]
           g == Indicate(f, n)
           u == b.up
           l == b.list
<1>1. /\ b \in Entries /\ b.win \in Int /\ Len(l) \in Nat /\ Len(u) \in Nat
      /\ \A i \in 1 .. Len(l) :
            /\ l[i] \in Int /\ L + i <= l[i] /\ L < l[i] /\ l[i] <= L + b.win
            /\ l[i] <= h /\ t < l[i]
      /\ \A i, j \in 1 .. Len(l) : i < j => l[i] < l[j]
      /\ \A i \in 1 .. Len(u) : u[i] \in Int /\ u[i] <= L /\ t < u[i]
  BY GoodNumbers
<1>2. b.win \in 1 .. Reach /\ StrictlyAfter(u, t)
  BY DEF Good, Lined
<1>3. u \in Seq(Frames) /\ l \in Seq(Frames)
  BY <1>1 DEF Entries
<1>4. /\ f \in Entries /\ f.list = l /\ f.up = u /\ f.win = b.win /\ f.last = Sn(n)
  BY <1>1, FrameSn DEF Entries
<1> HIDE DEF f
<1>5. /\ g \in Entries /\ g.last = Sn(n) /\ g.list = l /\ g.up = Append(u, n) /\ g.win = b.win
  BY <1>4, IndicateAccounts DEF Accounts
<1> HIDE DEF g
<1>6. n \in Int /\ L \in Int
  BY FrameSn
<1>7. ASSUME NEW j \in 1 .. Len(l) PROVE n < l[j]
  <2>1. l # <<>> /\ 1 \in 1 .. Len(l)
    BY <1>1, <1>3
  <2>2. l[1] # L + 1
    BY <2>1 DEF NotHeld
  <2>3. CASE j = 1
    BY <1>1, <1>6, <2>1, <2>2, <2>3
  <2>4. CASE j # 1
    BY <1>1, <1>6, <2>1, <2>4
  <2>5. QED
    BY <2>3, <2>4
<1> HIDE DEF l, u
<1>8. /\ Len(g.up) = Len(u) + 1
      /\ \A i \in 1 .. Len(u) : g.up[i] = u[i]
      /\ g.up[Len(u) + 1] = n
  BY <1>3, <1>5
<1>9. ASSUME NEW i \in 1 .. Len(g.up) PROVE t < g.up[i] /\ g.up[i] <= n /\ g.up[i] \in Int
  <2>1. CASE i \in 1 .. Len(u)
    <3>1. g.up[i] = u[i] /\ u[i] \in Int /\ u[i] <= L /\ t < u[i]
      BY <1>1, <1>8, <2>1
    <3>2. QED
      BY <1>6, <3>1
  <2>2. CASE i = Len(u) + 1
    BY <1>6, <1>8, <2>2
  <2>3. QED
    BY <1>1, <1>8, <2>1, <2>2
<1>10. ASSUME NEW i \in 1 .. Len(g.up), NEW j \in 1 .. Len(g.up), i < j
       PROVE  g.up[i] < g.up[j]
  <2>1. i \in 1 .. Len(u) /\ g.up[i] = u[i]
    BY <1>1, <1>8, <1>10
  <2>2. CASE j \in 1 .. Len(u)
    BY <1>2, <1>8, <1>10, <2>1, <2>2 DEF StrictlyAfter
  <2>3. CASE j = Len(u) + 1
    BY <1>1, <1>6, <1>8, <2>1, <2>3
  <2>4. QED
    BY <1>1, <1>8, <2>2, <2>3
<1>11. StrictlyAfter(g.up, t)
  <2>1. \A i \in 1 .. Len(g.up) : g.up[i] > t
    BY <1>9
  <2>2. QED
    BY <1>10, <2>1 DEF StrictlyAfter
<1>12. \A j \in 1 .. Len(g.list) :
          n < g.list[j] /\ g.list[j] <= n + g.win /\ g.list[j] <= h /\ t < g.list[j]
  <2> SUFFICES ASSUME NEW j \in 1 .. Len(l)
               PROVE  n < l[j] /\ l[j] <= n + b.win /\ l[j] <= h /\ t < l[j]
    BY <1>5
  <2>1. n < l[j] /\ l[j] \in Int /\ l[j] <= L + b.win /\ l[j] <= h /\ t < l[j]
    BY <1>1, <1>7
  <2>2. QED
    BY <1>1, <1>6, <2>1
<1>13. Good(g, n, t, h)
  <2>1. \A i, j \in 1 .. Len(g.list) : i < j => g.list[i] < g.list[j]
    BY <1>1, <1>5
  <2>2. \A i \in 1 .. Len(g.up) : g.up[i] <= n
    BY <1>9
  <2>3. g.win \in 1 .. Reach
    BY <1>2, <1>5
  <2>4. QED
    BY <1>5, <1>6, <1>11, <1>12, <2>1, <2>2, <2>3, GoodIntro
<1>14. u = <<>> => g.up[1] = n
  <2>1. Len(<<>>) = 0
    OBVIOUS
  <2>2. QED
    BY <1>8, <2>1
<1>15. QED
  BY <1>1, <1>8, <1>13, <1>14 DEF f, g, u

\* ba_enqueue_reordering_mpdu, with a block from the pool.
LEMMA InsertSortedGood ==
    ASSUME NEW b, NEW L \in Int, NEW t \in Int, NEW h \in Int, Good(b, L, t, h),
           NEW n \in Frames, L < n, n <= L + b.win, t < n, n <= h, b.free > 0
    PROVE  /\ Good(InsertSorted(b, n), L, t, h)
           /\ InsertSorted(b, n).up = b.up
           /\ NotHeld(b, L) /\ n # L + 1 => NotHeld(InsertSorted(b, n), L)
<1> DEFINE before == {i \in DOMAIN b.list : SEQ_SMALLER(Sn(b.list[i]), Sn(n))}
           k == Leading(b.list, before)
           l == b.list
           m == Spliced(l, k, n)
           c == [b EXCEPT !.list = m, !.free = b.free - 1]
<1>1. /\ b \in Entries /\ b.win \in Int /\ b.win <= Reach /\ Len(l) \in Nat
      /\ \A i \in 1 .. Len(l) :
            /\ l[i] \in Int /\ L < l[i] /\ l[i] <= L + b.win
            /\ l[i] <= h /\ t < l[i]
      /\ \A i, j \in 1 .. Len(l) : i < j => l[i] < l[j]
      /\ \A i \in 1 .. Len(b.up) : b.up[i] <= L
  BY GoodNumbers
<1>2. b.win \in 1 .. Reach /\ StrictlyAfter(b.up, t) /\ b.last = Sn(L)
  BY DEF Good, Lined
<1>3. l \in Seq(Frames) /\ DOMAIN l = 1 .. Len(l) /\ n \in Int
  BY <1>1, FrameSn DEF Entries
<1>4. /\ k \in 0 .. Len(l) /\ 1 .. k \subseteq before
      /\ k < Len(l) => k + 1 \notin before
  BY <1>1, LeadingIs
<1>5. ASSUME NEW i \in 1 .. Len(l)
      PROVE  (i \in before <=> l[i] < n) /\ (Sn(l[i]) = Sn(n) <=> l[i] = n)
  <2>1. l[i] \in Int /\ l[i] - n < Half /\ n - l[i] < Half
    BY <1>1, <1>3, Reaches
  <2>2. /\ Sn(l[i]) = Sn(n) <=> l[i] = n
        /\ SEQ_SMALLER(Sn(l[i]), Sn(n)) <=> l[i] < n
    BY <1>3, <2>1, Apart DEF Half
  <2>3. QED
    BY <1>3, <2>1, <2>2
<1>6. InsertSorted(b, n) = IF k < Len(l) /\ Sn(l[k + 1]) = Sn(n) THEN b ELSE c
  BY <1>1, <1>4, Inserts DEF InsertSorted
<1>7. c \in Entries
  BY <1>1, <1>4, Inserts
<1> HIDE DEF before, k
<1>8. CASE k < Len(l) /\ Sn(l[k + 1]) = Sn(n)
  BY <1>6, <1>8
<1>9. CASE ~(k < Len(l) /\ Sn(l[k + 1]) = Sn(n))
  <2>1. \A i \in 1 .. k : l[i] < n
    BY <1>1, <1>4, <1>5
  <2>2. ASSUME NEW i \in (k + 1) .. Len(l) PROVE n < l[i]
    <3>1. k < Len(l) /\ k + 1 \in 1 .. Len(l) /\ i \in 1 .. Len(l)
      BY <1>1, <1>4
    <3>2. ~(l[k + 1] < n) /\ l[k + 1] # n
      BY <1>4, <1>5, <1>9, <3>1
    <3>3. n < l[k + 1]
      BY <1>1, <1>3, <3>1, <3>2
    <3>4. i = k + 1 \/ k + 1 < i
      BY <1>4, <3>1
    <3>5. QED
      BY <1>1, <1>3, <3>1, <3>3, <3>4
  <2>3. /\ m \in Seq(Frames) /\ Len(m) = Len(l) + 1
        /\ \A i \in 1 .. k : m[i] = l[i]
        /\ m[k + 1] = n
        /\ \A i \in (k + 2) .. (Len(l) + 1) : m[i] = l[i - 1]
    <3>1. l \in Seq(Frames) /\ k \in 0 .. Len(l)
      BY <1>3, <1>4
    <3> HIDE DEF l
    <3>2. m \in Seq(Frames) /\ Len(m) = Len(l) + 1 /\ m[k + 1] = n
      BY <3>1, SplicedIs
    <3>3. \A i \in 1 .. k : m[i] = l[i]
      BY <3>1, SplicedIs
    <3>4. \A i \in (k + 2) .. (Len(l) + 1) : m[i] = l[i - 1]
      BY <3>1, SplicedIs
    <3>5. QED
      BY <3>2, <3>3, <3>4
  <2>4. c.list = m /\ c.up = b.up /\ c.last = b.last /\ c.win = b.win
    BY <1>1 DEF Entries
  <2> HIDE DEF m, c, l
  <2>5. ASSUME NEW j \in 1 .. Len(m)
        PROVE  \/ m[j] = n /\ j = k + 1
               \/ j \in 1 .. k /\ m[j] = l[j]
               \/ j \in (k + 2) .. (Len(l) + 1) /\ j - 1 \in (k + 1) .. Len(l) /\ m[j] = l[j - 1]
    BY <1>1, <1>4, <2>3
  <2>6. ASSUME NEW j \in 1 .. Len(m)
        PROVE  L < m[j] /\ m[j] <= L + b.win /\ m[j] <= h /\ t < m[j]
    <3>1. CASE m[j] = n
      BY <3>1
    <3>2. CASE j \in 1 .. k /\ m[j] = l[j]
      <4>1. j \in 1 .. Len(l)
        BY <1>1, <1>4, <3>2
      <4>2. QED
        BY <1>1, <3>2, <4>1
    <3>3. CASE j - 1 \in (k + 1) .. Len(l) /\ m[j] = l[j - 1]
      <4>1. j - 1 \in 1 .. Len(l)
        BY <1>1, <1>4, <3>3
      <4>2. QED
        BY <1>1, <3>3, <4>1
    <3>4. QED
      BY <2>5, <3>1, <3>2, <3>3
  <2>7. ASSUME NEW i \in 1 .. Len(m), NEW j \in 1 .. Len(m), i < j PROVE m[i] < m[j]
    <3>0. k \in Nat /\ Len(l) \in Nat
      BY <1>1, <1>4
    <3>1. CASE i \in 1 .. k /\ m[i] = l[i]
      <4>1. i \in 1 .. Len(l)
        BY <1>4, <3>1, <3>0
      <4>2. CASE j = k + 1
        BY <2>1, <2>3, <3>1, <4>2
      <4>3. CASE j \in 1 .. k /\ m[j] = l[j]
        <5>1. j \in 1 .. Len(l)
          BY <1>4, <3>0, <4>3
        <5>2. QED
          BY <1>1, <2>7, <3>1, <4>1, <4>3, <5>1
      <4>4. CASE j - 1 \in (k + 1) .. Len(l) /\ m[j] = l[j - 1]
        <5>1. j - 1 \in 1 .. Len(l) /\ i < j - 1
          BY <3>0, <3>1, <4>4
        <5>2. QED
          BY <1>1, <3>1, <4>1, <4>4, <5>1
      <4>5. QED
        BY <2>5, <4>2, <4>3, <4>4
    <3>2. CASE i = k + 1
      <4>1. j - 1 \in (k + 1) .. Len(l) /\ m[j] = l[j - 1]
        BY <2>5, <2>7, <3>0, <3>2
      <4>2. QED
        BY <2>2, <2>3, <3>2, <4>1
    <3>3. CASE i - 1 \in (k + 1) .. Len(l) /\ m[i] = l[i - 1]
      <4>1. j - 1 \in (k + 1) .. Len(l) /\ m[j] = l[j - 1]
        BY <2>5, <2>7, <3>0, <3>3
      <4>2. i - 1 \in 1 .. Len(l) /\ j - 1 \in 1 .. Len(l) /\ i - 1 < j - 1
        BY <2>7, <3>0, <3>3, <4>1
      <4>3. QED
        BY <1>1, <3>3, <4>1, <4>2
    <3>4. QED
      BY <2>5, <3>1, <3>2, <3>3
  <2>8. Good(c, L, t, h)
    BY <1>1, <1>2, <1>7, <2>4, <2>6, <2>7, GoodIntro
  <2>9. ASSUME NotHeld(b, L), n # L + 1 PROVE NotHeld(c, L)
    <3>1. SUFFICES m[1] # L + 1
      BY <2>4 DEF NotHeld
    <3>2. 1 \in 1 .. Len(m)
      BY <1>1, <2>3
    <3>3. CASE k = 0
      BY <2>3, <2>9, <3>3
    <3>4. CASE k > 0
      <4>1. 1 \in 1 .. k /\ 1 \in 1 .. Len(l)
        BY <1>1, <1>4, <3>4
      <4>2. b.list # <<>>
        BY <1>3, <4>1 DEF l
      <4>3. QED
        BY <2>3, <2>9, <4>1, <4>2 DEF NotHeld, l
    <3>5. QED
      BY <1>4, <3>3, <3>4
  <2>10. QED
    BY <1>6, <1>9, <2>4, <2>8, <2>9
<1>10. QED
  BY <1>8, <1>9
-----------------------------------------------------------------------------
(***************************************************************************)
(* What the handlers' parts do to it.                                      *)
(***************************************************************************)
\* A number below 0 is reduced by adding SeqSpace once.
LEMMA ModBelow ==
    ASSUME NEW x \in Int, x < 0, 0 <= x + SeqSpace
    PROVE  x % SeqSpace = x + SeqSpace
BY SizesAssumption

\* LastIndSeq = (StartSeq - 1) & MAXSEQ, as the code writes it.
LEMMA SnBefore ==
    ASSUME NEW s \in Int
    PROVE  (IF Sn(s) = 0 THEN SeqSpace - 1 ELSE Sn(s) - 1) = Sn(s - 1)
<1> DEFINE q == Sn(s)
<1>1. q \in 0 .. SeqSpace - 1 /\ (q - 1) % SeqSpace = Sn(s - 1)
  BY SnRange, Shift
<1> HIDE DEF q
<1>2. CASE q = 0
  <2>1. q - 1 \in Int /\ q - 1 < 0 /\ 0 <= q - 1 + SeqSpace
    BY <1>1, <1>2, SizesAssumption
  <2>2. (q - 1) % SeqSpace = q - 1 + SeqSpace
    BY <2>1, ModBelow
  <2>3. q - 1 + SeqSpace = SeqSpace - 1
    BY <1>2, SizesAssumption
  <2>4. QED
    BY <1>1, <1>2, <2>2, <2>3 DEF q
<1>3. CASE q # 0
  <2>1. (q - 1) % SeqSpace = q - 1
    BY <1>1, <1>3, SizesAssumption
  <2>2. QED
    BY <1>1, <1>3, <2>1 DEF q
<1>4. QED
  BY <1>2, <1>3

\* Case V, unless the MPDU takes the fallback.
LEMMA SurpassGood ==
    ASSUME NEW b, NEW L \in Int, NEW t \in Int, NEW h \in Int, Good(b, L, t, h),
           b.fallback = -1, NEW n \in Frames, L + b.win < n, n - L < Half, t <= L + 1,
           n <= h, SurpassWindow(b, n).fallback = -1
    PROVE  \E M \in Int : /\ Good(SurpassWindow(b, n), M, t, h)
                         /\ NotHeld(SurpassWindow(b, n), M)
                         /\ L <= M /\ M <= h /\ L + 1 <= M /\ n - M <= Reach
<1> DEFINE s == n - b.win
           start == (Sn(n) - b.win) % SeqSpace
           d == LeSeq(b, start)
           f == [d EXCEPT !.last = start]
           e == EnqueueReordering(f, n)
<1>1. b \in Entries /\ b.win \in Int /\ 1 <= b.win /\ b.win <= Reach
  BY GoodNumbers
<1>2. n \in Int
  BY FrameSn
<1>2a. Half \in Int /\ Reach \in Int
  BY Reaches
<1>3. start = Sn(s) /\ s \in Int
  <2>1. (Sn(n) - b.win) % SeqSpace = Sn(n - b.win)
    BY <1>1, <1>2, Shift
  <2>2. QED
    BY <1>1, <1>2, <2>1
<1>4. L + 1 <= s /\ s - L < Half /\ s < n /\ n <= s + b.win /\ s <= h /\ t < n /\ n - s <= Reach
  BY <1>1, <1>2, <1>2a
<1>5. SurpassWindow(b, n) = InOrder(e, e.last)
  BY DEF SurpassWindow
<1> HIDE DEF start, s
<1>6. /\ d \in Entries /\ Accounts(b, d) /\ d.fallback = -1
  BY <1>1, LeSeqAccounts
<1>7. Good([LeSeq(b, Sn(s)) EXCEPT !.last = Sn(s)], s, t, h)
  <2>1. L <= s
    BY <1>3, <1>4
  <2>2. QED
    BY <1>3, <1>4, <2>1, LeSeqGood
<1>8. Good(f, s, t, h)
  BY <1>3, <1>7
<1>9. Sn(s) \in Numbers
  BY <1>3, SnRange DEF Numbers
<1> HIDE DEF d
<1>10. f.win = b.win /\ f.fallback = -1 /\ f.last = Sn(s) /\ f \in Entries
  BY <1>3, <1>6, <1>9, LastAccounts DEF Accounts
<1> HIDE DEF f
<1>11. /\ e \in Entries
       /\ e.fallback = -1 => f.free > 0 /\ e = InsertSorted(f, n)
  BY <1>9, <1>10, EnqueueAccounts
<1> HIDE DEF e
<1>12. InOrder(e, e.last).fallback = e.fallback
  BY <1>11, InOrderAccounts
<1>13. f.free > 0 /\ e = InsertSorted(f, n)
  BY <1>5, <1>11, <1>12
<1>14. Good(e, s, t, h)
  <2>1. s < n /\ n <= s + f.win
    BY <1>4, <1>10
  <2>2. QED
    BY <1>3, <1>4, <1>8, <1>13, <2>1, InsertSortedGood
<1>15. e.last = Sn(s)
  BY <1>14 DEF Good
<1>16. PICK M \in Int : /\ Good(InOrder(e, Sn(s)), M, t, h)
                        /\ NotHeld(InOrder(e, Sn(s)), M)
                        /\ s <= M /\ (M = s \/ M <= h)
  BY <1>3, <1>14, InOrderGood
<1>17. L <= M /\ M <= h /\ L + 1 <= M /\ n - M <= Reach
  BY <1>2, <1>3, <1>4, <1>16, Reaches
<1>18. QED
  BY <1>5, <1>15, <1>16, <1>17

\* The MPDU is classified as the sender numbers it, and the window moves on.
LEMMA ClassifyGood ==
    ASSUME NEW b, NEW L \in Int, NEW t \in Int, NEW h \in Int, Good(b, L, t, h),
           NotHeld(b, L), b.fallback = -1, NEW n \in Frames, n - L < Half, (L + 1) - n < Half,
           t <= L \/ (t = L + 1 /\ b.up = <<>>),
           n <= h, Classify(b, n).fallback = -1
    PROVE  \E M \in Int, u \in Int :
              /\ Good(Classify(b, n), M, u, h)
              /\ NotHeld(Classify(b, n), M)
              /\ L <= M /\ (M = L \/ M <= h) /\ n - M <= Reach
              /\ \/ u = t
                 \/ /\ u = L /\ t = L + 1 /\ n = t /\ t <= M
                    /\ Classify(b, n).up # <<>> /\ Classify(b, n).up[1] = n
<1> DEFINE c == Classify(b, n)
           s == Sn(n)
<1>1. b \in Entries /\ b.win \in Int /\ 1 <= b.win /\ b.win <= Reach /\ b.last = Sn(L)
  BY GoodNumbers DEF Good
<1>2. n \in Int /\ Half \in Nat /\ Reach \in Int /\ 2 * Reach + MaxLoss < Half /\ MaxLoss \in Nat
  BY FrameSn, Reaches
<1>3. b.last # RESET_RCV_SEQ
  BY <1>1, SnRange
<1>4. SEQ_STEPONE(s, b.last) <=> n = L + 1
  <2>1. (Sn(L) + 1) % SeqSpace = Sn(L + 1)
    BY Shift
  <2>2. n - (L + 1) < Half /\ (L + 1) - n < Half
    BY <1>2
  <2>3. Sn(n) = Sn(L + 1) <=> n = L + 1
    BY <1>2, <2>2, Apart DEF Half
  <2>4. QED
    BY <1>1, <2>1, <2>3 DEF SEQ_STEPONE
<1>5. s = b.last \/ SEQ_SMALLER(s, b.last) <=> n <= L
  <2>1. /\ Sn(n) = Sn(L) <=> n = L
        /\ SEQ_SMALLER(Sn(n), Sn(L)) <=> n < L
    BY <1>2, Apart DEF Half
  <2>2. QED
    BY <1>1, <1>2, <2>1
<1>6. CASE n = L + 1
  <2> DEFINE g == Indicate([b EXCEPT !.last = Sn(n)], n)
  <2>1. c = InOrder(g, Sn(n))
    BY <1>3, <1>4, <1>6 DEF Classify
  <2>2. PICK u \in Int : /\ Good(b, L, u, h) /\ u < n
                         /\ u = t \/ (u = L /\ t = L + 1 /\ b.up = <<>>)
    <3>1. CASE t <= L
      <4>1. t < n
        BY <1>6, <3>1
      <4>2. QED
        BY <4>1
    <3>2. CASE t = L + 1 /\ b.up = <<>>
      <4>1. /\ \A i, j \in 1 .. Len(b.list) : i < j => b.list[i] < b.list[j]
            /\ \A j \in 1 .. Len(b.list) :
                 L < b.list[j] /\ b.list[j] <= L + b.win /\ b.list[j] <= h
        BY GoodNumbers
      <4>2. StrictlyAfter(b.up, L) /\ \A i \in 1 .. Len(b.up) : b.up[i] <= L
        BY <3>2 DEF StrictlyAfter
      <4>3. b.win \in 1 .. Reach
        BY DEF Good
      <4>4. Good(b, L, L, h)
        BY <1>1, <4>1, <4>2, <4>3, GoodIntro
      <4>5. L < n
        BY <1>6
      <4>6. QED
        BY <3>2, <4>4, <4>5
    <3>3. QED
      BY <3>1, <3>2
  <2>3. /\ Good(g, n, u, h) /\ 1 <= Len(g.up)
        /\ b.up = <<>> => g.up[1] = n
    <3>1. n = L + 1 /\ u < n
      BY <1>6, <2>2
    <3>2. Good(b, L, u, h)
      BY <2>2
    <3>3. QED
      BY <3>1, <3>2, IndicateGood
  <2> HIDE DEF g
  <2>4. PICK M \in Int : /\ Good(InOrder(g, Sn(n)), M, u, h)
                         /\ NotHeld(InOrder(g, Sn(n)), M)
                         /\ n <= M /\ (M = n \/ M <= h)
    BY <1>2, <2>2, <2>3, InOrderGood
  <2>5. g \in Entries
    BY <2>3 DEF Good
  <2>6. c.up # <<>> /\ c.up[1] = g.up[1]
    BY <2>1, <2>3, <2>5, InOrderFirst
  <2>7. L <= M /\ M <= h /\ n - M <= Reach
    BY <1>1, <1>2, <1>6, <2>4
  <2>8. u = t \/ (u = L /\ t = L + 1 /\ n = t /\ t <= M /\ c.up # <<>> /\ c.up[1] = n)
    BY <1>6, <2>2, <2>3, <2>4, <2>6
  <2>9. QED
    BY <2>1, <2>2, <2>4, <2>7, <2>8
<1>7. CASE n <= L
  <2>1. n # L + 1
    BY <1>2, <1>7
  <2>2. c = b
    BY <1>3, <1>4, <1>5, <1>7, <2>1 DEF Classify
  <2>3. n - L <= Reach /\ L <= L
    BY <1>1, <1>2, <1>7
  <2>4. QED
    BY <2>2, <2>3
<1>8. CASE n > L + 1
  <2>1. ~SEQ_STEPONE(s, b.last) /\ ~(s = b.last \/ SEQ_SMALLER(s, b.last))
    BY <1>2, <1>4, <1>5, <1>8
  <2>2. SEQ_SMALLER(s, (b.last + b.win + 1) % SeqSpace) <=> n < L + b.win + 1
    <3>1. (Sn(L) + (b.win + 1)) % SeqSpace = Sn(L + (b.win + 1))
      BY <1>1, Shift
    <3>2. Sn(L) \in Int
      BY SnRange, SizesAssumption
    <3>3. b.last + b.win + 1 = Sn(L) + (b.win + 1)
      BY <1>1, <3>2
    <3>4. L + (b.win + 1) \in Int /\ n - (L + (b.win + 1)) < Half /\ (L + (b.win + 1)) - n < Half
      BY <1>1, <1>2, <1>8
    <3>5. SEQ_SMALLER(Sn(n), Sn(L + (b.win + 1))) <=> n < L + (b.win + 1)
      BY <1>2, <3>4, Apart DEF Half
    <3>6. QED
      BY <1>1, <1>2, <3>1, <3>3, <3>5
  <2>3. CASE n < L + b.win + 1
    <3>1. c = EnqueueReordering(b, n)
      BY <1>3, <2>1, <2>2, <2>3 DEF Classify
    <3>2. b.last \in Numbers
      BY <1>1, SnRange DEF Numbers
    <3>3. b.free > 0 /\ c = InsertSorted(b, n)
      BY <1>1, <3>1, <3>2, EnqueueAccounts
    <3>4. L < n /\ n <= L + b.win /\ n # L + 1 /\ n - L <= Reach /\ L <= L
      <4>1. L < n /\ n # L + 1 /\ L <= L
        BY <1>2, <1>8
      <4>2. n <= L + b.win
        BY <1>1, <1>2, <2>3
      <4>3. n - L <= Reach
        BY <1>1, <1>2, <4>2
      <4>4. QED
        BY <4>1, <4>2, <4>3
    <3>4a. t < n
      <4>1. t <= L + 1
        OBVIOUS
      <4>2. QED
        BY <1>2, <1>8, <4>1
    <3>5. Good(c, L, t, h) /\ NotHeld(c, L)
      BY <3>3, <3>4, <3>4a, InsertSortedGood
    <3>6. QED
      BY <3>4, <3>5
  <2>4. CASE ~(n < L + b.win + 1)
    <3>1. c = SurpassWindow(b, n)
      BY <1>3, <2>1, <2>2, <2>4 DEF Classify
    <3>2. L + b.win < n /\ t <= L + 1
      BY <1>1, <1>2, <2>4
    <3>3. PICK M \in Int : /\ Good(SurpassWindow(b, n), M, t, h)
                           /\ NotHeld(SurpassWindow(b, n), M)
                           /\ L <= M /\ M <= h /\ L + 1 <= M /\ n - M <= Reach
      BY <3>1, <3>2, SurpassGood
    <3>4. QED
      BY <3>1, <3>3
  <2>5. QED
    BY <2>3, <2>4
<1>9. QED
  BY <1>2, <1>6, <1>7, <1>8

\* ba_flush_reordering_timeout_mpdus, unless it flushes all.
LEMMA FlushTimeoutCut ==
    ASSUME NEW b \in Entries, NEW a, ~(Len(b.list) > 1 /\ a = "over500ms")
    PROVE  /\ FlushTimeout(b, a).cut = b.cut
           /\ FlushTimeout(b, a).fallback = b.fallback
<1>1. CASE Len(b.list) > 0 /\ a # "recent"
  <2> DEFINE next == (b.last + 1) % SeqSpace
             d == LeSeq(b, next)
             e == [d EXCEPT !.last = next]
  <2>1. FlushTimeout(b, a) = InOrder(e, next)
    BY <1>1 DEF FlushTimeout
  <2>2. next \in Numbers
    <3>1. b.last + 1 \in Int
      BY SizesAssumption DEF Entries, Numbers, RESET_RCV_SEQ
    <3>2. QED
      BY <3>1, ModRange
  <2> HIDE DEF next
  <2>3. d \in Entries /\ d.cut = b.cut /\ d.fallback = b.fallback
    BY LeSeqAccounts
  <2> HIDE DEF d
  <2>4. e \in Entries /\ e.cut = b.cut /\ e.fallback = b.fallback
    BY <2>2, <2>3, LastAccounts
  <2> HIDE DEF e
  <2>5. InOrder(e, next).cut = b.cut /\ InOrder(e, next).fallback = b.fallback
    BY <2>4, InOrderAccounts
  <2>6. QED
    BY <2>1, <2>5
<1>2. CASE ~(Len(b.list) > 0 /\ a # "recent")
  BY <1>2 DEF FlushTimeout
<1>3. QED
  BY <1>1, <1>2

\* The flush after 100 ms steps over at least one missing MPDU.
LEMMA FlushTimeoutGood ==
    ASSUME NEW b, NEW L \in Int, NEW t \in Int, NEW h \in Int, Good(b, L, t, h),
           NotHeld(b, L), NEW a, ~(Len(b.list) > 1 /\ a = "over500ms")
    PROVE  \E M \in Int :
              /\ Good(FlushTimeout(b, a), M, t, h)
              /\ NotHeld(FlushTimeout(b, a), M)
              /\ \/ M = L /\ FlushTimeout(b, a).up = b.up
                 \/ L + 1 <= M /\ M <= h
<1>1. CASE Len(b.list) > 0 /\ a # "recent"
  <2> DEFINE next == (b.last + 1) % SeqSpace
             e == [LeSeq(b, next) EXCEPT !.last = next]
  <2>1. FlushTimeout(b, a) = InOrder(e, next)
    BY <1>1 DEF FlushTimeout
  <2>2. next = Sn(L + 1) /\ L + 1 \in Int /\ L <= L + 1 /\ (L + 1) - L < Half
    <3>1. (Sn(L) + 1) % SeqSpace = Sn(L + 1)
      BY Shift
    <3>2. 1 < Half
      BY GoodNumbers, Reaches
    <3>3. QED
      BY <3>1, <3>2 DEF Good
  <2>3. Good([LeSeq(b, Sn(L + 1)) EXCEPT !.last = Sn(L + 1)], L + 1, t, h)
    BY <2>2, LeSeqGood
  <2>4. L + 1 <= h
    <3>1. 1 \in 1 .. Len(b.list)
      BY <1>1, GoodNumbers
    <3>2. L < b.list[1] /\ b.list[1] <= h /\ b.list[1] \in Int
      BY <3>1, GoodNumbers
    <3>3. QED
      BY <3>2
  <2> HIDE DEF next
  <2>5. Good(e, L + 1, t, h)
    BY <2>2, <2>3
  <2> HIDE DEF e
  <2>6. PICK M \in Int : /\ Good(InOrder(e, Sn(L + 1)), M, t, h)
                         /\ NotHeld(InOrder(e, Sn(L + 1)), M)
                         /\ L + 1 <= M /\ (M = L + 1 \/ M <= h)
    BY <2>2, <2>5, InOrderGood
  <2>7. QED
    BY <2>1, <2>2, <2>4, <2>6
<1>2. CASE ~(Len(b.list) > 0 /\ a # "recent")
  <2>1. FlushTimeout(b, a) = b
    BY <1>2 DEF FlushTimeout
  <2>2. QED
    BY <2>1
<1>3. QED
  BY <1>1, <1>2

\* CntlEnqueueForRecv: LastIndSeq becomes the number before the one the BAR
\* names, which may itself have been passed up.
LEMMA BarFlushGood ==
    ASSUME NEW b, NEW L \in Int, NEW t \in Int, NEW h \in Int, Good(b, L, t, h),
           NotHeld(b, L), NEW s \in Int, s - L < Half, L - s < Half
    PROVE  LET c == BarFlush(b, Sn(s))
           IN  /\ c \in Entries /\ c.win = b.win /\ c.cut = b.cut /\ c.fallback = b.fallback
               /\ SEQ_SMALLER(Sn(L), Sn(s)) <=> L < s
               /\ ~(L < s) => c = b
               /\ L < s =>
                     /\ Lined(c, t)
                     /\ c.last = Sn(s - 1)
                     /\ \A i \in 1 .. Len(c.up) : c.up[i] <= s
                     /\ \A j \in 1 .. Len(c.list) :
                          s < c.list[j] /\ c.list[j] <= (s - 1) + b.win /\ c.list[j] <= h
<1> DEFINE c == BarFlush(b, Sn(s))
           d == LeSeq(b, Sn(s))
           e == [d EXCEPT !.last = Sn(s)]
           p == IF Sn(s) = 0 THEN SeqSpace - 1 ELSE Sn(s) - 1
           f == [d EXCEPT !.last = p]
<1>1. /\ b \in Entries /\ b.win \in Int /\ b.last = Sn(L) /\ Len(b.list) \in Nat
      /\ \A i \in 1 .. Len(b.list) : b.list[i] \in Int /\ b.list[i] <= L + b.win
  BY GoodNumbers DEF Good
<1>2. SEQ_SMALLER(Sn(L), Sn(s)) <=> L < s
  BY Apart DEF Half
<1>3. Sn(s) \in Numbers
  BY SnRange DEF Numbers
<1>4. c.win = b.win /\ c.cut = b.cut /\ c.fallback = b.fallback /\ c \in Entries
  BY <1>1, <1>3, BarFlushAccounts DEF Accounts
<1>5. ~(L < s) => c = b
  BY <1>1, <1>2 DEF BarFlush
<1>6. ASSUME L < s
      PROVE  /\ Lined(c, t)
             /\ c.last = Sn(s - 1)
             /\ \A i \in 1 .. Len(c.up) : c.up[i] <= s
             /\ \A j \in 1 .. Len(c.list) :
                  s < c.list[j] /\ c.list[j] <= (s - 1) + b.win /\ c.list[j] <= h
  <2>1. c = f
    BY <1>1, <1>2, <1>6 DEF BarFlush
  <2>2. Good(e, s, t, h)
    <3>1. L <= s
      BY <1>6
    <3>2. QED
      BY <3>1, LeSeqGood
  <2>3. PICK k \in 0 .. Len(b.list) : d = Announce(b, k)
    <3> DEFINE due == {i \in DOMAIN b.list :
                         Sn(b.list[i]) = Sn(s) \/ SEQ_SMALLER(Sn(b.list[i]), Sn(s))}
    <3>1. Leading(b.list, due) \in 0 .. Len(b.list)
      BY <1>1, LeadingDue
    <3>2. QED
      BY <3>1 DEF LeSeq
  <2>4. /\ Len(Announce(b, k).list) = Len(b.list) - k
        /\ \A i \in 1 .. Len(Announce(b, k).list) : Announce(b, k).list[i] = b.list[i + k]
    BY <1>1, Moved
  <2>5. p = Sn(s - 1)
    BY SnBefore
  <2>6. d \in Entries /\ Sn(s - 1) \in Numbers
    <3>1. d \in Entries
      BY <1>1, LeSeqAccounts
    <3>2. s - 1 \in Int
      OBVIOUS
    <3>3. QED
      BY <3>1, <3>2, SnRange DEF Numbers
  <2> HIDE DEF d, p
  <2>7. /\ e.list = d.list /\ e.up = d.up
        /\ f.list = d.list /\ f.up = d.up /\ f.last = Sn(s - 1)
    BY <1>3, <2>5, <2>6, LastAccounts
  <2> HIDE DEF e, f
  <2>8. Lined(e, t) /\ (\A i \in 1 .. Len(e.up) : e.up[i] <= s)
        /\ \A j \in 1 .. Len(e.list) : s < e.list[j] /\ e.list[j] <= h
    BY <2>2 DEF Good
  <2>9. Lined(f, t)
    BY <2>7, <2>8 DEF Lined
  <2>10. ASSUME NEW j \in 1 .. Len(d.list) PROVE d.list[j] <= (s - 1) + b.win
    <3>1. j + k \in 1 .. Len(b.list) /\ d.list[j] = b.list[j + k]
      BY <1>1, <2>3, <2>4
    <3>2. QED
      BY <1>1, <1>6, <3>1
  <2>11. QED
    BY <2>1, <2>7, <2>8, <2>9, <2>10
<1>7. QED
  BY <1>2, <1>4, <1>5, <1>6
-----------------------------------------------------------------------------
(***************************************************************************)
(* The inductive invariant.                                                *)
(***************************************************************************)
\* Where the sender is: it numbers no MPDU too far beyond the last that arrived.
Sender ==
    /\ winO - newest <= MaxLoss + 1
    /\ newest <= winO \/ newest <= winO + Reach - 1

\* LastIndSeq is the number of MPDU L; the list, what was passed up and the
\* sender are where they should be around it.
Follows(L) ==
    /\ ba.last = Sn(L)
    /\ StrictlyAfter(ba.list, top)
    /\ \A j \in 1 .. Len(ba.list) :
          L < ba.list[j] /\ ba.list[j] <= L + ba.win /\ ba.list[j] <= newest
    /\ NotHeld(ba, L)
    /\ top <= L \/ (top = L + 1 /\ barred = top)
    /\ newest - L <= Reach
    /\ L <= newest \/ L <= winO - 1

\* The inductive invariant.  While LastIndSeq is reset nothing is pending and no
\* history is kept; until an MPDU takes the fallback, LastIndSeq is the number of
\* an MPDU that all else is around.
IInv ==
    /\ TInv
    /\ Sender
    /\ ba.last = RESET_RCV_SEQ => top = -1 /\ barred = -1 /\ ~fell
    /\ ba.last # RESET_RCV_SEQ /\ ~fell => \E L \in Int : Follows(L)

\* What InOrderButForBar says of a step.
Kept == fell \/ fell' \/ Continues(ba'.up, ba'.cut) \/ BarRepeat(ba'.up)

\* Types as numbers.
LEMMA Ints ==
    ASSUME TInv
    PROVE  /\ top \in Int /\ barred \in Int /\ newest \in Int /\ winO \in Int
           /\ -1 <= newest /\ -1 <= top /\ 0 <= winO
           /\ fell \in BOOLEAN /\ sess \in BOOLEAN
           /\ Reach \in Int /\ Half \in Int /\ MaxLoss \in Int /\ 0 <= MaxLoss
           /\ 2 * Reach + MaxLoss < Half
<1>1. /\ top \in Frames \cup {-1} /\ barred \in Frames \cup {-1}
      /\ newest \in Frames \cup {-1} /\ winO \in 0 .. NFrames
      /\ fell \in BOOLEAN /\ sess \in BOOLEAN
  BY DEF TInv, TypeOK
<1>2. \A f \in Frames \cup {-1} : f \in Int /\ -1 <= f
  BY SizesAssumption DEF Frames
<1>3. winO \in Int /\ 0 <= winO
  BY <1>1, SizesAssumption
<1>4. QED
  BY <1>1, <1>2, <1>3, Reaches

\* A session has a window.
LEMMA Window ==
    ASSUME TInv, sess
    PROVE  ba.win \in 1 .. Reach /\ 1 <= Reach
<1>1. ba.win \in WinSizes
  BY DEF TInv, TypeOK
<1>2. ba.win \in Nat /\ 1 <= ba.win /\ ba.win <= Reach /\ Reach \in Int
  BY <1>1, Reaches
<1>3. QED
  BY <1>2

\* The entry as a handler finds it.
LEMMA Found ==
    ASSUME IInv, ba.last # RESET_RCV_SEQ, NEW L \in Int, Follows(L),
           NEW h \in Int, newest <= h
    PROVE  Good(Begin(ba), L, top, h) /\ NotHeld(Begin(ba), L)
<1> DEFINE a == Begin(ba)
<1>1. /\ a \in Entries /\ a.list = ba.list /\ a.last = ba.last /\ a.win = ba.win
      /\ a.up = <<>>
  BY BeginAccounts DEF IInv, TInv
<1>2. sess /\ ba.win \in 1 .. Reach
  BY Window DEF IInv, TInv
<1>3. Len(a.up) = 0
  BY <1>1
<1> HIDE DEF a
<1>4. StrictlyAfter(a.up, top) /\ \A i \in 1 .. Len(a.up) : a.up[i] <= L
  BY <1>3 DEF StrictlyAfter
<1>5. top \in Int /\ newest \in Int
  BY Ints DEF IInv
<1>6. \A i \in 1 .. Len(a.list) : a.list[i] \in Int
  BY <1>1, ListsInt
<1>7. /\ \A i, j \in 1 .. Len(a.list) : i < j => a.list[i] < a.list[j]
      /\ \A j \in 1 .. Len(a.list) : a.list[j] > top
  BY <1>1 DEF Follows, StrictlyAfter
<1>8. ASSUME NEW j \in 1 .. Len(a.list)
      PROVE  L < a.list[j] /\ a.list[j] <= L + a.win /\ a.list[j] <= h /\ top < a.list[j]
  <2>1. a.list[j] \in Int /\ L < a.list[j] /\ a.list[j] <= L + a.win /\ a.list[j] <= newest
    BY <1>1, <1>6 DEF Follows
  <2>2. QED
    BY <1>5, <1>7, <2>1
<1>9. Good(a, L, top, h)
  BY <1>1, <1>2, <1>4, <1>5, <1>7, <1>8, GoodIntro DEF Follows
<1>10. NotHeld(a, L)
  BY <1>1 DEF Follows, NotHeld
<1>11. QED
  BY <1>9, <1>10 DEF a

\* A handler begins with its list after all that was passed up.
LEMMA LinedNow ==
    ASSUME IInv, ~fell
    PROVE  Lined(Begin(ba), top)
<1>1. CASE ba.last # RESET_RCV_SEQ
  <2>1. PICK L \in Int : Follows(L)
    BY <1>1 DEF IInv
  <2>2. newest \in Int /\ newest <= newest
    BY Ints DEF IInv
  <2>3. QED
    BY <1>1, <2>1, <2>2, Found DEF Good
<1>2. CASE ba.last = RESET_RCV_SEQ
  <2>1. Begin(ba).list = <<>> /\ Begin(ba).up = <<>>
    BY <1>2, BeginAccounts DEF IInv, TInv
  <2>2. Len(<<>>) = 0
    OBVIOUS
  <2>3. QED
    BY <2>1, <2>2 DEF Lined, StrictlyAfter
<1>3. QED
  BY <1>1, <1>2

\* After a reset of LastIndSeq only what follows the reset is remembered.
LEMMA Forgets ==
    ASSUME NEW up \in BOOLEAN, NEW bar, Remember(ba', up, bar),
           ba'.last = RESET_RCV_SEQ \/ ~up
    PROVE  top' = -1 /\ barred' = -1 /\ ~fell'
BY DEF Remember

\* Without one, top is at least as high as anything passed up.
LEMMA Topped ==
    ASSUME TInv, ba' \in Entries, NEW bar, Remember(ba', TRUE, bar),
           ba'.last # RESET_RCV_SEQ, ba'.cut = 0
    PROVE  /\ top' \in Int
           /\ top <= top'
           /\ \A i \in 1 .. Len(ba'.up) : ba'.up[i] <= top'
           /\ top' = top \/ \E i \in 1 .. Len(ba'.up) : top' = ba'.up[i]
           /\ barred' = bar
           /\ fell' = (ba'.fallback >= 0 \/ fell)
<1> DEFINE since == {ba'.up[i] : i \in (ba'.cut + 1) .. Len(ba'.up)}
           S == since \cup (IF ba'.cut > 0 THEN {} ELSE {top})
<1>1. ba'.up \in Seq(Frames) /\ top \in Frames \cup {-1}
  BY DEF Entries, TInv, TypeOK
<1>2. S = {ba'.up[i] : i \in 1 .. Len(ba'.up)} \cup {top}
  OBVIOUS
<1>3. top' = Highest(S) /\ barred' = bar /\ fell' = (ba'.fallback >= 0 \/ fell)
  BY DEF Remember
<1> HIDE DEF S
<1>4. S \subseteq Frames \cup {-1} /\ S # {}
  <2>1. \A i \in 1 .. Len(ba'.up) : ba'.up[i] \in Frames
    BY <1>1
  <2>2. QED
    BY <1>1, <1>2, <2>1
<1>5. Highest(S) \in Frames \cup {-1} /\ Highest(S) \in S /\ \A y \in S : y <= Highest(S)
  BY <1>4, HighestIs
<1>6. top' \in Int
  <2>1. -1 \in Int
    OBVIOUS
  <2>2. QED
    BY <1>3, <1>5, <2>1, FrameInt
<1>7. QED
  BY <1>2, <1>3, <1>5, <1>6

\* All that is passed up comes before the reset.
LEMMA WholeContinues ==
    ASSUME NEW u \in Seq(Int), StrictlyAfter(u, top)
    PROVE  Continues(u, Len(u))
<1>1. SubSeq(u, 1, Len(u)) = u
  OBVIOUS
<1>2. SubSeq(u, Len(u) + 1, Len(u)) = <<>> /\ Len(<<>>) = 0
  OBVIOUS
<1>3. StrictlyAfter(<<>>, -1)
  BY <1>2 DEF StrictlyAfter
<1>4. QED
  BY <1>1, <1>2, <1>3 DEF Continues

\* Flushing all continues the stream.
LEMMA RefreshContinues ==
    ASSUME NEW b \in Entries, Lined(b, top), top \in Int
    PROVE  Continues(Glued(b.up, b.list, Len(b.list)), Len(b.up) + Len(b.list))
<1> DEFINE k == Len(b.list)
           u == Glued(b.up, b.list, k)
<1>1. k \in 0 .. Len(b.list) /\ b.up \in Seq(Frames) /\ b.list \in Seq(Frames)
  BY LenNat DEF Entries
<1>2. Lined(Announce(b, k), top)
  BY <1>1, LinedAnnounce
<1>3. Announce(b, k).up = u
  BY <1>1, Announces
<1>4. StrictlyAfter(u, top)
  BY <1>2, <1>3 DEF Lined
<1>5. u \in Seq(Frames) /\ Len(u) = Len(b.up) + k
  <2> HIDE DEF k
  <2>1. QED
    BY <1>1, GluedIs DEF u
<1> HIDE DEF u
<1>6. u \in Seq(Int)
  <2>1. Seq(Frames) \subseteq Seq(Int)
    BY FrameInt, SeqMonotonic
  <2>2. QED
    BY <1>5, <2>1
<1>7. Continues(u, Len(u))
  BY <1>4, <1>6, WholeContinues
<1>8. QED
  BY <1>5, <1>7 DEF u

\* So does passing up nothing.
LEMMA NothingContinues == Continues(<<>>, 0)
<1>1. Len(<<>>) = 0
  OBVIOUS
<1>2. QED
  BY <1>1 DEF Continues, StrictlyAfter
-----------------------------------------------------------------------------
\* The invariant holds at first.
LEMMA OrderInit == Init => IInv
<1> SUFFICES ASSUME Init PROVE IInv
  OBVIOUS
<1>1. TInv
  BY TypesInit
<1>2. ba.last = RESET_RCV_SEQ
  BY DEF Init, Entry
<1>3. winO = 0 /\ newest = -1 /\ top = -1 /\ barred = -1 /\ fell = FALSE
  BY DEF Init
<1>4. MaxLoss \in Int /\ 0 <= MaxLoss
  BY <1>1, Ints
<1>5. Sender
  BY <1>3, <1>4 DEF Sender
<1>6. QED
  BY <1>1, <1>2, <1>3, <1>5 DEF IInv

\* The entry is reset: AddBa, TearDown, and a BAR that is not compressed.
LEMMA OrderReset ==
    ASSUME IInv, TInv', NEW up \in BOOLEAN, NEW bar, Remember(ba', up, bar),
           ba'.last = RESET_RCV_SEQ, UNCHANGED <<winO, newest>>
    PROVE  IInv'
<1>1. top' = -1 /\ barred' = -1 /\ ~fell'
  BY Forgets
<1>2. Sender'
  BY DEF IInv, Sender
<1>3. QED
  BY <1>1, <1>2 DEF IInv

\* BARecSessionAdd: the list is flushed and LastIndSeq reset.
LEMMA OrderAddBa == ASSUME IInv, NEW w \in WinSizes, AddBa(w) PROVE IInv' /\ Kept
<1> DEFINE a == Begin(ba)
           b == IF sess THEN Refresh(a) ELSE a
<1>1. TInv /\ TInv'
  BY TypesAddBa DEF IInv
<1>2. /\ a \in Entries /\ a.up = <<>> /\ a.cut = 0
  BY <1>1, BeginAccounts DEF TInv
<1>3. /\ b \in Entries
      /\ fell \/ Continues(b.up, b.cut)
  <2>1. CASE sess
    <3>1. /\ Refresh(a) \in Entries
          /\ Refresh(a).up = Glued(a.up, a.list, Len(a.list))
          /\ Refresh(a).cut = Len(a.up) + Len(a.list)
      BY <1>2, RefreshAccounts
    <3>2. ~fell => Continues(Glued(a.up, a.list, Len(a.list)), Len(a.up) + Len(a.list))
      BY <1>1, <1>2, LinedNow, RefreshContinues, Ints
    <3>3. QED
      BY <2>1, <3>1, <3>2
  <2>2. CASE ~sess
    BY <1>2, <2>2, NothingContinues
  <2>3. QED
    BY <1>1, <2>1, <2>2 DEF TInv, TypeOK
<1>4. ba' = [b EXCEPT !.win = w, !.last = RESET_RCV_SEQ]
  BY DEF AddBa
<1> HIDE DEF b
<1>5. ba'.last = RESET_RCV_SEQ /\ ba'.up = b.up /\ ba'.cut = b.cut
  BY <1>3, <1>4 DEF Entries
<1>6. Remember(ba', TRUE, -1) /\ UNCHANGED <<winO, newest>>
  BY DEF AddBa
<1>7. IInv'
  BY <1>1, <1>5, <1>6, OrderReset, Zenon
<1>8. QED
  BY <1>3, <1>5, <1>7 DEF Kept

\* BARecSessionTearDown: likewise.
LEMMA OrderTearDown == ASSUME IInv, TearDown PROVE IInv' /\ Kept
<1> DEFINE a == Begin(ba)
<1>1. TInv /\ TInv'
  BY TypesTearDown DEF IInv
<1>2. /\ a \in Entries /\ a.up = <<>> /\ a.cut = 0
  BY <1>1, BeginAccounts DEF TInv
<1>3. ba' = TornDown(a) /\ Remember(ba', FALSE, -1) /\ UNCHANGED <<winO, newest>>
  BY DEF TearDown
<1>4. /\ ba'.last = RESET_RCV_SEQ
      /\ ba'.up = Glued(a.up, a.list, Len(a.list))
      /\ ba'.cut = Len(a.up) + Len(a.list)
  BY <1>2, <1>3, TornDownAccounts
<1>5. ~fell => Continues(ba'.up, ba'.cut)
  BY <1>1, <1>2, <1>4, LinedNow, RefreshContinues, Ints
<1>6. IInv'
  BY <1>1, <1>3, <1>4, OrderReset, Zenon
<1>7. QED
  BY <1>5, <1>6 DEF Kept

\* Time, the sender and other sessions pass nothing up.
LEMMA OrderQuiet ==
    ASSUME IInv, Tick \/ SenderAdvance \/ OthersUse PROVE IInv' /\ Kept
<1>1. TInv /\ TInv'
  BY TypesQuiet DEF IInv
<1>2. /\ ba'.list = ba.list /\ ba'.last = ba.last /\ ba'.win = ba.win
      /\ ba'.up = <<>> /\ ba'.cut = 0
  <2> DEFINE a == Begin(ba)
  <2>1. /\ a \in Entries /\ a.list = ba.list /\ a.last = ba.last /\ a.win = ba.win
        /\ a.up = <<>> /\ a.cut = 0
    BY <1>1, BeginAccounts DEF TInv
  <2>2. ba' = a \/ ba' = [a EXCEPT !.free = @ + others - others']
    BY DEF Tick, SenderAdvance, OthersUse
  <2> HIDE DEF a
  <2>3. QED
    BY <2>1, <2>2 DEF Entries
<1>3. UNCHANGED <<newest, top, barred, fell>>
  BY DEF Tick, SenderAdvance, OthersUse, history
<1>4. winO' = winO \/ (winO' = winO + 1 /\ winO - newest <= MaxLoss)
  BY DEF Tick, SenderAdvance, OthersUse
<1>5. Sender'
  <2>1. newest \in Int /\ winO \in Int /\ MaxLoss \in Int /\ Reach \in Int
    BY <1>1, Ints
  <2>2. Sender
    BY DEF IInv
  <2>3. CASE winO' = winO
    BY <1>3, <2>2, <2>3 DEF Sender
  <2>4. CASE winO' = winO + 1 /\ winO - newest <= MaxLoss
    <3>1. winO' - newest' <= MaxLoss + 1
      BY <1>3, <2>1, <2>4
    <3>2. newest' <= winO' \/ newest' <= winO' + Reach - 1
      BY <1>3, <2>1, <2>2, <2>4 DEF Sender
    <3>3. QED
      BY <3>1, <3>2 DEF Sender
  <2>5. QED
    BY <1>4, <2>3, <2>4
<1>6. ASSUME NEW L \in Int, Follows(L) PROVE Follows(L)'
  <2>1. L <= newest' \/ L <= winO' - 1
    <3>1. L <= newest \/ L <= winO - 1
      BY <1>6 DEF Follows
    <3>2. winO \in Int /\ newest \in Int
      BY <1>1, Ints
    <3>3. QED
      BY <1>3, <1>4, <3>1, <3>2
  <2>2. QED
    BY <1>2, <1>3, <1>6, <2>1 DEF Follows, NotHeld
<1>7. IInv'
  BY <1>1, <1>2, <1>3, <1>5, <1>6 DEF IInv
<1>8. QED
  BY <1>2, <1>7, NothingContinues DEF Kept
-----------------------------------------------------------------------------
(***************************************************************************)
(* The BlockAckReq handler.                                                *)
(***************************************************************************)
\* A BAR finds the reset entry, whose list is empty: LastIndSeq may be set.
LEMMA OrderBarAtReset ==
    ASSUME IInv, NEW c \in BOOLEAN, BlockAckReq(c), ba.last = RESET_RCV_SEQ
    PROVE  LET b == BarFlush(Begin(ba), Sn(winO))
           IN  /\ b \in Entries /\ b.list = <<>> /\ b.up = <<>> /\ b.cut = 0
               /\ b.last = RESET_RCV_SEQ \/ b.last = Sn(winO - 1)
<1> DEFINE a == Begin(ba)
           s == Sn(winO)
           d == LeSeq(a, s)
           p == IF Sn(winO) = 0 THEN SeqSpace - 1 ELSE Sn(winO) - 1
           due == {i \in DOMAIN a.list : Sn(a.list[i]) = s \/ SEQ_SMALLER(Sn(a.list[i]), s)}
<1>1. /\ a \in Entries /\ a.list = <<>> /\ a.up = <<>> /\ a.cut = 0
      /\ a.last = RESET_RCV_SEQ
  BY BeginAccounts DEF IInv, TInv
<1>2. winO \in Int
  BY Ints DEF IInv
<1>3. p = Sn(winO - 1) /\ p \in Numbers
  BY <1>2, SnBefore, SnRange DEF Numbers
<1> HIDE DEF a, p
<1>4. d = Announce(a, Leading(a.list, due)) /\ Leading(a.list, due) \in 0 .. Len(a.list)
  BY <1>1, LeadingDue DEF LeSeq
<1>5. /\ d \in Entries /\ d.list = Cut(a.list, Leading(a.list, due))
      /\ d.up = Glued(a.up, a.list, Leading(a.list, due)) /\ d.cut = 0
  BY <1>1, <1>4, Announces
<1>6. Leading(a.list, due) = 0
  BY <1>1, <1>4
<1>7. d.list = <<>> /\ d.up = <<>>
  BY <1>1, <1>5, <1>6 DEF Cut, Glued
<1> HIDE DEF d
<1>8. /\ [d EXCEPT !.last = p] \in Entries /\ [d EXCEPT !.last = p].list = <<>>
      /\ [d EXCEPT !.last = p].up = <<>> /\ [d EXCEPT !.last = p].cut = 0
      /\ [d EXCEPT !.last = p].last = p
  BY <1>3, <1>5, <1>7, LastAccounts
<1>9. BarFlush(a, s) = a \/ BarFlush(a, s) = [d EXCEPT !.last = p]
  BY DEF BarFlush, d, p
<1>10. QED
  BY <1>1, <1>3, <1>8, <1>9 DEF a

\* CntlEnqueueForRecv: what it passes up is in order.
LEMMA OrderBarUp ==
    ASSUME IInv, ~fell, NEW c \in BOOLEAN, BlockAckReq(c)
    PROVE  LET b == BarFlush(Begin(ba), Sn(winO))
           IN  b \in Entries /\ Lined(b, top) /\ b.cut = 0
<1> DEFINE a == Begin(ba)
           b == BarFlush(a, Sn(winO))
<1>1. CASE ba.last = RESET_RCV_SEQ
  <2>1. b \in Entries /\ b.list = <<>> /\ b.up = <<>> /\ b.cut = 0
    BY <1>1, OrderBarAtReset
  <2>2. Len(<<>>) = 0
    OBVIOUS
  <2> HIDE DEF b
  <2>3. Lined(b, top)
    BY <2>1, <2>2 DEF Lined, StrictlyAfter
  <2>4. QED
    BY <2>1, <2>3 DEF b
<1>2. CASE ba.last # RESET_RCV_SEQ
  <2>1. PICK L \in Int : Follows(L)
    BY <1>2 DEF IInv
  <2>2. newest \in Int /\ newest <= newest /\ top \in Int
    BY Ints DEF IInv
  <2>3. Good(a, L, top, newest) /\ NotHeld(a, L)
    BY <1>2, <2>1, <2>2, Found
  <2>4. winO \in Int /\ winO - L < Half /\ L - winO < Half
    <3>1. sess
      BY DEF BlockAckReq
    <3>2. 1 <= Reach
      BY <3>1, Window DEF IInv
    <3>3. /\ winO \in Int /\ newest \in Int /\ Reach \in Int /\ Half \in Int /\ MaxLoss \in Int
          /\ 0 <= MaxLoss /\ 2 * Reach + MaxLoss < Half
      BY Ints DEF IInv
    <3>4. winO - newest <= MaxLoss + 1 /\ (newest <= winO \/ newest <= winO + Reach - 1)
      BY DEF IInv, Sender
    <3>5. newest - L <= Reach /\ (L <= newest \/ L <= winO - 1)
      BY <2>1 DEF Follows
    <3>6. QED
      BY <3>2, <3>3, <3>4, <3>5
  <2>5. /\ b \in Entries /\ b.cut = a.cut
        /\ ~(L < winO) => b = a
        /\ L < winO => Lined(b, top)
    BY <2>2, <2>3, <2>4, BarFlushGood
  <2>6. a.cut = 0
    BY BeginAccounts DEF IInv, TInv
  <2>7. Lined(a, top)
    BY <2>3 DEF Good
  <2>8. QED
    BY <2>5, <2>6, <2>7
<1>3. QED
  BY <1>1, <1>2

\* LastIndSeq after a compressed BAR.
LEMMA OrderBarFollows ==
    ASSUME IInv, TInv', BlockAckReq(TRUE), ba'.last # RESET_RCV_SEQ, ~fell'
    PROVE  \E L \in Int : Follows(L)'
<1> DEFINE a == Begin(ba)
           bar == IF SEQ_SMALLER(ba.last, Sn(winO)) THEN winO ELSE barred
<1>1. /\ ba' = BarFlush(a, Sn(winO)) /\ sess /\ Remember(ba', TRUE, bar)
      /\ UNCHANGED <<winO, newest>>
  BY DEF BlockAckReq
<1>2. 1 <= Reach /\ ba.win \in 1 .. Reach
  BY <1>1, Window DEF IInv
<1>3. /\ winO \in Int /\ newest \in Int /\ Reach \in Int /\ Half \in Int /\ MaxLoss \in Int
      /\ 0 <= MaxLoss /\ 2 * Reach + MaxLoss < Half /\ top \in Int /\ 0 <= winO /\ barred \in Int
  BY Ints DEF IInv
<1>4. winO - newest <= MaxLoss + 1 /\ (newest <= winO \/ newest <= winO + Reach - 1)
  BY DEF IInv, Sender
<1>5. newest - (winO - 1) <= Reach
  BY <1>2, <1>3, <1>4
<1>6. a \in Entries /\ a.cut = 0 /\ a.list = ba.list /\ a.last = ba.last /\ a.up = <<>>
      /\ a.win = ba.win
  BY BeginAccounts DEF IInv, TInv
<1> HIDE DEF a, bar
<1>6a. PICK M \in Int : M = winO - 1
  BY <1>3
<1>7. CASE ba.last = RESET_RCV_SEQ
  <2>1. /\ ba' \in Entries /\ ba'.list = <<>> /\ ba'.up = <<>> /\ ba'.cut = 0
        /\ ba'.last = Sn(winO - 1)
    BY <1>1, <1>7, OrderBarAtReset, Zenon DEF a
  <2>2. /\ top' = top \/ \E i \in 1 .. Len(ba'.up) : top' = ba'.up[i]
    BY <1>1, <2>1, Topped, Zenon DEF IInv
  <2>3. Len(<<>>) = 0
    OBVIOUS
  <2>4. top' = -1
    BY <1>7, <2>1, <2>2, <2>3 DEF IInv
  <2>5. StrictlyAfter(ba'.list, top') /\ NotHeld(ba', M)
    BY <2>1, <2>3 DEF StrictlyAfter, NotHeld
  <2>6. top' <= M /\ newest' - M <= Reach /\ M <= winO' - 1
    BY <1>1, <1>3, <1>5, <1>6a, <2>4
  <2>7. Follows(M)'
    BY <1>6a, <2>1, <2>3, <2>5, <2>6 DEF Follows
  <2>8. QED
    BY <2>7
<1>8. CASE ba.last # RESET_RCV_SEQ
  <2>0. ba'.cut = 0 /\ ba' \in Entries
    <3>1. Sn(winO) \in Numbers
      BY <1>3, SnRange DEF Numbers
    <3>2. QED
      BY <1>1, <1>6, <3>1, BarFlushAccounts
  <2>1. /\ top' \in Int
        /\ top <= top'
        /\ \A i \in 1 .. Len(ba'.up) : ba'.up[i] <= top'
        /\ top' = top \/ \E i \in 1 .. Len(ba'.up) : top' = ba'.up[i]
        /\ barred' = bar
        /\ fell' = (ba'.fallback >= 0 \/ fell)
    <3>1. TInv /\ Remember(ba', TRUE, bar)
      BY <1>1 DEF IInv
    <3>2. QED
      BY <2>0, <3>1, Topped, Zenon
  <2>2. ~fell
    BY <2>1
  <2>3. PICK L \in Int : Follows(L)
    BY <1>8, <2>2 DEF IInv
  <2>4. newest <= newest
    BY <1>3
  <2>5. Good(a, L, top, newest) /\ NotHeld(a, L)
    BY <1>3, <1>8, <2>3, <2>4, Found DEF a
  <2>6. newest - L <= Reach /\ (L <= newest \/ L <= winO - 1)
        /\ (top <= L \/ (top = L + 1 /\ barred = top)) /\ ba.last = Sn(L)
    BY <2>3 DEF Follows
  <2>7. winO - L < Half /\ L - winO < Half
    BY <1>2, <1>3, <1>4, <2>6
  <2>8. /\ ba'.win = a.win
        /\ SEQ_SMALLER(Sn(L), Sn(winO)) <=> L < winO
        /\ ~(L < winO) => ba' = a
        /\ L < winO =>
              /\ Lined(ba', top)
              /\ ba'.last = Sn(winO - 1)
              /\ \A i \in 1 .. Len(ba'.up) : ba'.up[i] <= winO
              /\ \A j \in 1 .. Len(ba'.list) :
                    /\ winO < ba'.list[j] /\ ba'.list[j] <= (winO - 1) + a.win
                    /\ ba'.list[j] <= newest
    <3> DEFINE d == BarFlush(a, Sn(winO))
    <3>1. /\ d.win = a.win
          /\ SEQ_SMALLER(Sn(L), Sn(winO)) <=> L < winO
          /\ ~(L < winO) => d = a
          /\ L < winO =>
                /\ Lined(d, top)
                /\ d.last = Sn(winO - 1)
                /\ \A i \in 1 .. Len(d.up) : d.up[i] <= winO
                /\ \A j \in 1 .. Len(d.list) :
                      /\ winO < d.list[j] /\ d.list[j] <= (winO - 1) + a.win
                      /\ d.list[j] <= newest
      BY <1>3, <2>5, <2>7, BarFlushGood
    <3> HIDE DEF d
    <3>2. ba' = d
      BY <1>1 DEF d
    <3>3. QED
      BY <3>1, <3>2
  <2>9. CASE L < winO
    <3>1. bar = winO
      BY <2>6, <2>8, <2>9 DEF bar
    <3>2. top' <= winO
      BY <1>3, <2>1, <2>6, <2>8, <2>9
    <3>3. \A j \in 1 .. Len(ba'.list) : ba'.list[j] \in Int
      BY <2>0, ListsInt
    <3>4. StrictlyAfter(ba'.list, top')
      <4>1. ASSUME NEW j \in 1 .. Len(ba'.list) PROVE ba'.list[j] > top'
        <5>1. winO < ba'.list[j]
          BY <2>8, <2>9
        <5>2. QED
          BY <1>3, <2>1, <3>2, <3>3, <5>1
      <4>2. \A i, j \in 1 .. Len(ba'.list) : i < j => ba'.list[i] < ba'.list[j]
        BY <2>8, <2>9 DEF Lined, StrictlyAfter
      <4>3. QED
        BY <4>1, <4>2 DEF StrictlyAfter
    <3>5. NotHeld(ba', M)
      <4> SUFFICES ASSUME ba'.list # <<>> PROVE ba'.list[1] # winO
        BY <1>3, <1>6a DEF NotHeld
      <4>1. ba'.list \in Seq(Frames)
        BY <2>0 DEF Entries
      <4>2. 1 \in 1 .. Len(ba'.list)
        BY <4>1
      <4>3. winO < ba'.list[1] /\ ba'.list[1] \in Int
        BY <2>8, <2>9, <3>3, <4>2
      <4>4. QED
        BY <1>3, <4>3
    <3>6. top' <= M \/ (top' = M + 1 /\ barred' = top')
      BY <1>3, <1>6a, <2>1, <3>1, <3>2
    <3>7. \A j \in 1 .. Len(ba'.list) :
             M < ba'.list[j] /\ ba'.list[j] <= M + ba'.win /\ ba'.list[j] <= newest
      <4> SUFFICES ASSUME NEW j \in 1 .. Len(ba'.list)
                   PROVE  M < ba'.list[j] /\ ba'.list[j] <= M + ba'.win /\ ba'.list[j] <= newest
        OBVIOUS
      <4>1. winO < ba'.list[j] /\ ba'.list[j] <= (winO - 1) + a.win /\ ba'.list[j] <= newest
            /\ ba'.list[j] \in Int
        BY <2>8, <2>9, <3>3
      <4>2. QED
        BY <1>3, <1>6a, <2>8, <4>1
    <3>8. ba'.last = Sn(winO - 1)
      BY <2>8, <2>9
    <3>9. newest' - M <= Reach /\ M <= winO' - 1
      BY <1>1, <1>3, <1>5, <1>6a
    <3>10. Follows(M)'
      BY <1>1, <1>6a, <3>4, <3>5, <3>6, <3>7, <3>8, <3>9 DEF Follows
    <3>11. QED
      BY <3>10
  <2>10. CASE ~(L < winO)
    <3>1. ba' = a /\ bar = barred
      BY <2>6, <2>8, <2>10 DEF bar
    <3>2. ba'.list = ba.list /\ ba'.last = ba.last /\ ba'.win = ba.win /\ ba'.up = <<>>
      BY <1>6, <3>1
    <3>3. top' = top /\ barred' = barred
      <4>1. Len(<<>>) = 0
        OBVIOUS
      <4>2. QED
        BY <2>1, <3>1, <3>2, <4>1
    <3>4. Follows(L)'
      BY <1>1, <2>3, <3>2, <3>3 DEF Follows, NotHeld
    <3>5. QED
      BY <3>4
  <2>11. QED
    BY <2>9, <2>10
<1>9. QED
  BY <1>7, <1>8

\* CntlEnqueueForRecv.
LEMMA OrderBlockAckReq ==
    ASSUME IInv, NEW c \in BOOLEAN, BlockAckReq(c) PROVE IInv' /\ Kept
<1> DEFINE b == BarFlush(Begin(ba), Sn(winO))
           bar == IF SEQ_SMALLER(ba.last, Sn(winO)) THEN winO ELSE barred
<1>1. TInv /\ TInv'
  BY TypesBlockAckReq DEF IInv
<1>2. /\ ba' = IF c THEN b ELSE TornDown(b)
      /\ Remember(ba', c, bar) /\ UNCHANGED <<winO, newest>>
  BY DEF BlockAckReq
<1>3. b \in Entries
  <2>1. Begin(ba) \in Entries
    BY <1>1, BeginAccounts DEF TInv
  <2>2. Sn(winO) \in Numbers
    BY <1>1, Ints, SnRange DEF Numbers
  <2>3. QED
    BY <2>1, <2>2, BarFlushAccounts
<1>4. ~fell => Lined(b, top) /\ b.cut = 0
  BY OrderBarUp
<1> HIDE DEF b, bar
<1>5. top \in Int /\ top' \in Int
  <2>1. top' \in Frames \cup {-1} /\ -1 \in Int
    BY <1>1 DEF TInv, TypeOK
  <2>2. QED
    BY <1>1, <2>1, Ints, FrameInt
<1>6. CASE c
  <2>1. ba' = b /\ c = TRUE
    BY <1>2, <1>6
  <2>2. Kept
    BY <1>4, <2>1 DEF Kept, Continues, Lined
  <2>3. Sender'
    BY <1>2 DEF IInv, Sender
  <2>4. CASE ba'.last = RESET_RCV_SEQ
    BY <1>1, <1>2, <2>2, <2>4, OrderReset, Zenon
  <2>5. CASE ba'.last # RESET_RCV_SEQ
    <3>1. ~fell' => \E L \in Int : Follows(L)'
      BY <1>1, <2>1, <2>5, OrderBarFollows
    <3>2. QED
      BY <1>1, <2>2, <2>3, <2>5, <3>1 DEF IInv
  <2>6. QED
    BY <2>4, <2>5
<1>7. CASE ~c
  <2>1. ba' = TornDown(b)
    BY <1>2, <1>7
  <2>2. /\ ba'.last = RESET_RCV_SEQ
        /\ ba'.up = Glued(b.up, b.list, Len(b.list))
        /\ ba'.cut = Len(b.up) + Len(b.list)
    BY <1>3, <2>1, TornDownAccounts
  <2>3. IInv'
    BY <1>1, <1>2, <2>2, OrderReset, Zenon
  <2>4. ~fell => Continues(Glued(b.up, b.list, Len(b.list)), Len(b.up) + Len(b.list))
    BY <1>3, <1>4, <1>5, RefreshContinues
  <2>5. QED
    BY <2>2, <2>3, <2>4 DEF Kept
<1>8. QED
  BY <1>6, <1>7
-----------------------------------------------------------------------------
(***************************************************************************)
(* The arrival of an MPDU.                                                 *)
(***************************************************************************)
\* A list with an MPDU after it, cut in two.
LEMMA LastPart ==
    ASSUME NEW F, NEW u \in Seq(F), NEW n \in F
    PROVE  /\ SubSeq(Append(u, n), 1, Len(u)) = u
           /\ SubSeq(Append(u, n), Len(u) + 1, Len(u) + 1) = <<n>>
<1>1. Append(u, n) \in Seq(F) /\ Len(Append(u, n)) = Len(u) + 1 /\ Len(u) \in Nat
  OBVIOUS
<1>2. SubSeq(Append(u, n), 1, Len(u)) = u
  BY <1>1
<1>3. SubSeq(Append(u, n), Len(u) + 1, Len(u) + 1) = <<n>>
  <2> DEFINE v == Append(u, n)  m == Len(u) + 1  t == SubSeq(v, m, m)
  <2>1. m \in Int /\ v[m] = n /\ m <= m /\ m - m + 1 = 1 /\ m + 1 - 1 = m
    BY <1>1
  <2>2. \A i \in m .. m : v[i] \in F
    BY <2>1
  <2> HIDE DEF v, m
  <2>3. /\ SubSeq(v, m, m) \in Seq(F)
        /\ Len(SubSeq(v, m, m)) = IF m <= m THEN m - m + 1 ELSE 0
        /\ \A i \in 1 .. m - m + 1 : SubSeq(v, m, m)[i] = v[m + i - 1]
    BY <2>1, <2>2, SubSeqProperties
  <2>4. t \in Seq(F) /\ Len(t) = 1 /\ t[1] = n
    BY <2>1, <2>3
  <2> HIDE DEF t
  <2>5. t = <<n>>
    BY <2>4
  <2>6. QED
    BY <2>5 DEF t, v, m
<1>4. QED
  BY <1>2, <1>3

\* The MPDU that finds LastIndSeq reset sets it.
LEMMA FreshGood ==
    ASSUME NEW d \in Entries, d.last = RESET_RCV_SEQ, d.list = <<>>, NEW n \in Frames
    PROVE  /\ Classify(d, n) \in Entries
           /\ Classify(d, n).last = Sn(n) /\ Classify(d, n).list = <<>>
           /\ Classify(d, n).up = Append(d.up, n)
           /\ Classify(d, n).cut = d.cut /\ Classify(d, n).fallback = d.fallback
<1> DEFINE f == [d EXCEPT !.last = Sn(n)]
<1>1. /\ f \in Entries /\ f.fallback = d.fallback /\ f.last = Sn(n) /\ f.list = d.list
      /\ f.up = d.up /\ f.cut = d.cut
  BY FrameSn, LastAccounts
<1>2. Classify(d, n) = Indicate(f, n)
  BY DEF Classify
<1> HIDE DEF f
<1>3. QED
  BY <1>1, <1>2, IndicateAccounts

\* What a Receive does to the sender's side.
LEMMA Arrives ==
    ASSUME IInv, NEW n \in Frames, Receive(n)
    PROVE  /\ n \in Int /\ winO <= n
           /\ sess => n <= newest + MaxLoss + Reach
           /\ newest' \in Int /\ n <= newest' /\ newest <= newest'
           /\ newest' = n \/ newest' = newest
           /\ Sender'
<1>1. /\ newest' = Highest({n, newest}) /\ winO' = winO
      /\ n \in winO .. winO + (IF ba.win = 0 THEN 1 ELSE ba.win) - 1
  BY DEF Receive
<1>2. /\ newest \in Int /\ winO \in Int /\ Reach \in Int /\ MaxLoss \in Int /\ sess \in BOOLEAN
      /\ TInv /\ 0 <= winO
  BY Ints DEF IInv
<1>3. n \in Int
  BY FrameInt
<1>4. {n, newest} \subseteq Frames \cup {-1}
  BY <1>2 DEF TInv, TypeOK
<1>5. newest' \in {n, newest} /\ n <= newest' /\ newest <= newest'
  BY <1>1, <1>4, HighestIs
<1>6. CASE sess
  <2>1. ba.win \in 1 .. Reach
    BY <1>2, <1>6, Window
  <2>2. ba.win \in Int /\ ba.win # 0 /\ ba.win <= Reach
    BY <1>2, <2>1
  <2>3. n \in winO .. winO + ba.win - 1
    BY <1>1, <2>2
  <2>4. winO <= n /\ n <= winO + Reach - 1
    BY <1>2, <1>3, <2>2, <2>3
  <2>5. winO - newest <= MaxLoss + 1 /\ (newest <= winO \/ newest <= winO + Reach - 1)
    BY DEF IInv, Sender
  <2>6. n <= newest + MaxLoss + Reach
    BY <1>2, <1>3, <2>4, <2>5
  <2>7. winO' - newest' <= MaxLoss + 1 /\ (newest' <= winO' \/ newest' <= winO' + Reach - 1)
    BY <1>1, <1>2, <1>3, <1>5, <2>4, <2>5
  <2>8. QED
    BY <1>2, <1>3, <1>5, <1>6, <2>4, <2>6, <2>7 DEF Sender
<1>7. CASE ~sess
  <2>1. ba.win = 0
    BY <1>2, <1>7 DEF TInv
  <2>2. n = winO
    BY <1>1, <1>2, <1>3, <2>1
  <2>3. winO - newest <= MaxLoss + 1 /\ (newest <= winO \/ newest <= winO + Reach - 1)
    BY DEF IInv, Sender
  <2>5. winO' - newest' <= MaxLoss + 1 /\ (newest' <= winO' \/ newest' <= winO' + Reach - 1)
    BY <1>1, <1>2, <1>3, <1>5, <2>2, <2>3
  <2>6. QED
    BY <1>2, <1>3, <1>5, <1>7, <2>2, <2>5 DEF Sender
<1>8. QED
  BY <1>2, <1>6, <1>7

\* The MPDU that arrives with LastIndSeq reset, or that the flush of all
\* pending MPDUs leaves it reset.
LEMMA OrderFresh ==
    ASSUME IInv, TInv', NEW n \in Frames, Receive(n), sess, NEW d \in Entries,
           d.last = RESET_RCV_SEQ, d.list = <<>>, d.fallback = -1,
           ba' = Classify(d, n),
           (d.cut = 0 /\ ba.last = RESET_RCV_SEQ /\ d.up = <<>>)
             \/ (d.cut > 0 /\ d.cut = Len(d.up) /\ (fell \/ StrictlyAfter(d.up, top)))
    PROVE  IInv' /\ Kept
<1>1. /\ ba' \in Entries /\ ba'.last = Sn(n) /\ ba'.list = <<>> /\ ba'.up = Append(d.up, n)
      /\ ba'.cut = d.cut /\ ba'.fallback = -1
  BY FreshGood
<1>2. /\ Remember(ba', TRUE, barred) /\ winO' = winO
  BY DEF Receive
<1>3. /\ n \in Int /\ winO <= n /\ newest' \in Int /\ n <= newest'
      /\ newest' = n \/ newest' = newest
      /\ Sender'
  BY Arrives
<1>4. n >= 0
  BY SizesAssumption DEF Frames
<1>5. d.up \in Seq(Frames) /\ d.cut \in Nat
  BY DEF Entries
<1>6. ba'.last # RESET_RCV_SEQ
  BY <1>1, <1>3, SnRange
<1>7. newest' - n <= Reach
  <2>1. /\ newest \in Int /\ winO \in Int /\ Reach \in Int
    BY Ints DEF IInv
  <2>2. newest <= winO \/ newest <= winO + Reach - 1
    BY DEF IInv, Sender
  <2>3. 1 <= Reach
    BY Window DEF IInv
  <2>4. CASE newest' = n
    BY <1>3, <2>1, <2>3, <2>4
  <2>5. CASE newest' = newest
    <3>1. newest - n <= Reach
      BY <1>3, <2>1, <2>2, <2>3
    <3>2. QED
      BY <2>5, <3>1
  <2>6. QED
    BY <1>3, <2>4, <2>5
<1>8. Len(ba'.up) = Len(d.up) + 1 /\ ba'.up[Len(d.up) + 1] = n
      /\ \A i \in 1 .. Len(d.up) : ba'.up[i] = d.up[i]
  BY <1>1, <1>5
<1>9. top' <= n /\ ~fell'
  <2>1. CASE d.cut = 0 /\ ba.last = RESET_RCV_SEQ /\ d.up = <<>>
    <3>1. top = -1 /\ ~fell
      BY <2>1 DEF IInv
    <3>2. Len(d.up) = 0
      BY <2>1
    <3>3. ba'.cut = 0 /\ TInv
      BY <1>1, <2>1 DEF IInv
    <3>4. /\ top' = top \/ \E i \in 1 .. Len(ba'.up) : top' = ba'.up[i]
          /\ fell' = (ba'.fallback >= 0 \/ fell)
      BY <1>1, <1>2, <1>6, <3>3, Topped, Zenon
    <3>5. \A i \in 1 .. Len(ba'.up) : ba'.up[i] = n
      BY <1>8, <3>2
    <3>6. top' <= n
      BY <1>3, <1>4, <3>1, <3>4, <3>5
    <3>7. ~(ba'.fallback >= 0)
      BY <1>1
    <3>8. QED
      BY <3>1, <3>4, <3>6, <3>7
  <2>2. CASE d.cut > 0 /\ d.cut = Len(d.up)
    <3> DEFINE S == {ba'.up[i] : i \in (ba'.cut + 1) .. Len(ba'.up)}
    <3>1. /\ top' = Highest(S \cup {})
          /\ fell' = (ba'.fallback >= 0 \/ (ba'.cut = 0 /\ fell))
      BY <1>1, <1>2, <1>6, <2>2 DEF Remember
    <3>2. S \cup {} = {n}
      <4>1. (ba'.cut + 1) .. Len(ba'.up) = {Len(d.up) + 1}
        BY <1>1, <1>5, <1>8, <2>2
      <4>2. QED
        BY <1>8, <4>1
    <3>3. Highest({n}) = n
      <4>1. {n} \subseteq Frames \cup {-1}
        OBVIOUS
      <4>2. QED
        BY <4>1, HighestIs
    <3>4. ~(ba'.fallback >= 0) /\ ba'.cut # 0
      BY <1>1, <2>2
    <3> HIDE DEF S
    <3>5. top' = n
      BY <3>1, <3>2, <3>3
    <3>6. ~fell'
      BY <3>1, <3>4, Zenon
    <3>7. QED
      BY <1>3, <3>5, <3>6
  <2>3. QED
    BY <2>1, <2>2
<1>10. Follows(n)'
  <2>1. Len(<<>>) = 0
    OBVIOUS
  <2>2. StrictlyAfter(ba'.list, top') /\ NotHeld(ba', n)
    BY <1>1, <2>1 DEF StrictlyAfter, NotHeld
  <2>3. QED
    BY <1>1, <1>3, <1>7, <1>9, <2>1, <2>2 DEF Follows
<1>11. IInv'
  BY <1>3, <1>6, <1>10 DEF IInv
<1>12. Kept
  <2>0. top \in Int /\ fell \in BOOLEAN
    BY Ints DEF IInv
  <2>1. CASE d.cut = 0 /\ ba.last = RESET_RCV_SEQ /\ d.up = <<>>
    <3>1. top = -1 /\ Len(d.up) = 0
      BY <2>1 DEF IInv
    <3>2. StrictlyAfter(ba'.up, top)
      BY <1>3, <1>4, <1>8, <3>1 DEF StrictlyAfter
    <3>3. QED
      BY <1>1, <2>1, <3>2 DEF Kept, Continues
  <2>2. CASE d.cut > 0 /\ d.cut = Len(d.up) /\ StrictlyAfter(d.up, top)
    <3>0. /\ SubSeq(Append(d.up, n), 1, Len(d.up)) = d.up
          /\ SubSeq(Append(d.up, n), Len(d.up) + 1, Len(d.up) + 1) = <<n>>
      BY <1>5, LastPart
    <3>1. SubSeq(ba'.up, 1, ba'.cut) = d.up
      BY <1>1, <2>2, <3>0
    <3>2. SubSeq(ba'.up, ba'.cut + 1, Len(ba'.up)) = <<n>>
      BY <1>1, <1>8, <2>2, <3>0
    <3>3. StrictlyAfter(<<n>>, -1)
      <4>1. Len(<<n>>) = 1 /\ <<n>>[1] = n
        OBVIOUS
      <4>2. QED
        BY <1>3, <1>4, <4>1 DEF StrictlyAfter
    <3>4. ba'.cut # 0
      BY <1>1, <1>5, <2>2
    <3>5. Continues(ba'.up, ba'.cut)
      BY <2>2, <3>1, <3>2, <3>3, <3>4, Zenon DEF Continues
    <3>6. QED
      BY <3>5 DEF Kept
  <2>3. CASE fell
    BY <2>3 DEF Kept
  <2>4. QED
    BY <2>1, <2>2, <2>3
<1>13. QED
  BY <1>11, <1>12

\* The MPDU that arrives with LastIndSeq set, unless all MPDUs are flushed.
LEMMA OrderArrival ==
    ASSUME IInv, TInv', NEW n \in Frames, Receive(n), sess, ba.last # RESET_RCV_SEQ,
           ~(Len(ba.list) > 1 /\ age = "over500ms")
    PROVE  IInv' /\ Kept
<1> DEFINE a == Begin(ba)
           d == FlushTimeout(a, age)
<1>1. /\ a \in Entries /\ a.list = ba.list /\ a.last = ba.last /\ a.win = ba.win
      /\ a.up = <<>> /\ a.cut = 0 /\ a.fallback = -1 /\ TInv
  BY BeginAccounts DEF IInv, TInv
<1>2. ba' = Classify(d, n) /\ Remember(ba', TRUE, barred) /\ winO' = winO
  BY DEF Receive, IndicateAmpdu
<1>3. /\ n \in Int /\ winO <= n /\ n <= newest + MaxLoss + Reach
      /\ newest' \in Int /\ n <= newest' /\ newest <= newest'
      /\ newest' = n \/ newest' = newest
      /\ Sender'
  BY Arrives
<1> HIDE DEF a
<1>4. d \in Entries /\ d.cut = 0 /\ d.fallback = -1
  BY <1>1, FlushTimeoutAccounts, FlushTimeoutCut
<1> HIDE DEF d
<1>5. /\ ba' \in Entries /\ ba'.cut = 0 /\ ba'.last \in Numbers /\ ba'.fallback >= -1
      /\ ba'.fallback \in Int
  BY <1>2, <1>4, ClassifyAccounts DEF Entries
<1>6. ba'.last # RESET_RCV_SEQ
  BY <1>5, SizesAssumption DEF Numbers, RESET_RCV_SEQ
<1>7. /\ top' \in Int
      /\ top <= top'
      /\ \A i \in 1 .. Len(ba'.up) : ba'.up[i] <= top'
      /\ top' = top \/ \E i \in 1 .. Len(ba'.up) : top' = ba'.up[i]
      /\ barred' = barred
      /\ fell' = (ba'.fallback >= 0 \/ fell)
  BY <1>1, <1>2, <1>5, <1>6, Topped, Zenon
<1>8. CASE fell'
  BY <1>3, <1>6, <1>8 DEF IInv, Kept
<1>9. CASE ~fell'
  <2>1. ~fell /\ ba'.fallback = -1
    <3>1. ~fell /\ ~(ba'.fallback >= 0)
      BY <1>7, <1>9, Zenon
    <3>2. QED
      BY <1>5, <3>1
  <2>2. PICK L \in Int : Follows(L)
    BY <2>1 DEF IInv
  <2>3. /\ top \in Int /\ newest \in Int /\ winO \in Int /\ Reach \in Int /\ Half \in Int
        /\ MaxLoss \in Int /\ 0 <= MaxLoss /\ 2 * Reach + MaxLoss < Half
    BY <1>1, Ints
  <2>4. 1 <= Reach
    BY <1>1, Window
  <2>5. /\ top <= L \/ (top = L + 1 /\ barred = top)
        /\ newest - L <= Reach
        /\ L <= newest \/ L <= winO - 1
    BY <2>2 DEF Follows
  <2>6. newest <= winO \/ newest <= winO + Reach - 1
    BY DEF IInv, Sender
  <2>7. Good(a, L, top, newest) /\ NotHeld(a, L)
    <3>1. newest <= newest
      BY <2>3
    <3>2. QED
      BY <2>2, <2>3, <3>1, Found DEF a
  <2>8. PICK M \in Int : /\ Good(d, M, top, newest)
                         /\ NotHeld(d, M)
                         /\ (M = L /\ d.up = <<>>) \/ (L + 1 <= M /\ M <= newest)
    <3>1. ~(Len(a.list) > 1 /\ age = "over500ms")
      BY <1>1
    <3>2. PICK M \in Int : /\ Good(FlushTimeout(a, age), M, top, newest)
                           /\ NotHeld(FlushTimeout(a, age), M)
                           /\ \/ M = L /\ FlushTimeout(a, age).up = a.up
                              \/ L + 1 <= M /\ M <= newest
      BY <2>3, <2>7, <3>1, FlushTimeoutGood
    <3>3. QED
      BY <1>1, <3>2 DEF d
  <2>9. Good(d, M, top, newest')
    <3>1. \A j \in 1 .. Len(d.list) : d.list[j] \in Int /\ d.list[j] <= newest
      BY <1>4, <2>8, ListsInt DEF Good
    <3>2. \A j \in 1 .. Len(d.list) : d.list[j] <= newest'
      BY <1>3, <2>3, <3>1
    <3>3. QED
      BY <2>8, <3>2 DEF Good
  <2>10. /\ L <= M /\ n - M < Half /\ (M + 1) - n < Half
         /\ top <= M \/ (top = M + 1 /\ d.up = <<>> /\ M = L)
    <3>1. L <= M
      BY <2>8
    <3>2. n - M < Half
      BY <1>3, <2>3, <2>5, <3>1
    <3>3. M <= newest \/ M <= winO - 1
      BY <2>5, <2>8
    <3>4. (M + 1) - n < Half
      BY <1>3, <2>3, <2>4, <2>6, <3>3
    <3>5. top <= M \/ (top = M + 1 /\ d.up = <<>> /\ M = L)
      BY <2>3, <2>5, <2>8
    <3>6. QED
      BY <3>1, <3>2, <3>4, <3>5
  <2>11. PICK N \in Int, u \in Int :
            /\ Good(ba', N, u, newest')
            /\ NotHeld(ba', N)
            /\ M <= N /\ (N = M \/ N <= newest') /\ n - N <= Reach
            /\ \/ u = top
               \/ /\ u = M /\ top = M + 1 /\ n = top /\ top <= N
                  /\ ba'.up # <<>> /\ ba'.up[1] = n
    <3>1. top <= M \/ (top = M + 1 /\ d.up = <<>>)
      BY <2>10
    <3>2. Classify(d, n).fallback = -1
      BY <1>2, <2>1
    <3>3. n - M < Half /\ (M + 1) - n < Half /\ n <= newest'
      BY <1>3, <2>10
    <3>4. \E N \in Int, u \in Int :
            /\ Good(Classify(d, n), N, u, newest')
            /\ NotHeld(Classify(d, n), N)
            /\ M <= N /\ (N = M \/ N <= newest') /\ n - N <= Reach
            /\ \/ u = top
               \/ /\ u = M /\ top = M + 1 /\ n = top /\ top <= N
                  /\ Classify(d, n).up # <<>> /\ Classify(d, n).up[1] = n
      BY <1>3, <1>4, <2>3, <2>8, <2>9, <3>1, <3>2, <3>3, ClassifyGood
    <3>5. QED
      BY <1>2, <3>4
  <2>12. Lined(ba', u) /\ ba'.last = Sn(N)
         /\ (\A j \in 1 .. Len(ba'.list) :
               N < ba'.list[j] /\ ba'.list[j] <= N + ba'.win /\ ba'.list[j] <= newest')
         /\ (\A i \in 1 .. Len(ba'.up) : ba'.up[i] <= N)
    BY <2>11 DEF Good
  <2>13. /\ \A i \in 1 .. Len(ba'.list) : ba'.list[i] \in Int
         /\ \A i \in 1 .. Len(ba'.up) : ba'.up[i] \in Int
    BY <1>5, ListsInt
  <2>14. Kept
    <3>1. CASE u = top
      BY <1>5, <2>12, <3>1 DEF Kept, Continues, Lined
    <3>2. CASE /\ u = M /\ top = M + 1 /\ n = top
               /\ ba'.up # <<>> /\ ba'.up[1] = n
      <4>1. barred = top
        BY <2>3, <2>5, <2>10, <3>2
      <4>2. barred - 1 = M
        BY <2>3, <3>2, <4>1
      <4>3. BarRepeat(ba'.up)
        BY <2>12, <3>2, <4>1, <4>2 DEF BarRepeat, Lined
      <4>4. QED
        BY <4>3 DEF Kept
    <3>3. QED
      BY <2>11, <3>1, <3>2
  <2>15. StrictlyAfter(ba'.list, top')
    <3>1. ASSUME NEW j \in 1 .. Len(ba'.list) PROVE top < ba'.list[j]
      <4>1. CASE u = top
        BY <2>3, <2>12, <2>13, <4>1 DEF Lined, StrictlyAfter
      <4>2. CASE top <= N
        <5>1. N < ba'.list[j] /\ ba'.list[j] \in Int
          BY <2>12, <2>13
        <5>2. QED
          BY <2>3, <4>2, <5>1
      <4>3. QED
        BY <2>11, <4>1, <4>2
    <3>2. ASSUME NEW j \in 1 .. Len(ba'.list) PROVE ba'.list[j] > top'
      <4>1. CASE top' = top
        BY <2>3, <2>13, <3>1, <4>1
      <4>2. ASSUME NEW i \in 1 .. Len(ba'.up), top' = ba'.up[i] PROVE ba'.list[j] > top'
        BY <2>12, <2>13, <4>2 DEF Lined
      <4>3. QED
        BY <1>7, <4>1, <4>2
    <3>3. \A i, j \in 1 .. Len(ba'.list) : i < j => ba'.list[i] < ba'.list[j]
      BY <2>12 DEF Lined, StrictlyAfter
    <3>4. QED
      BY <3>2, <3>3 DEF StrictlyAfter
  <2>16. top' <= N \/ (top' = N + 1 /\ barred' = top')
    <3>1. CASE top' = top
      <4>1. top <= L \/ (top = L + 1 /\ barred = top)
        BY <2>5
      <4>2. L <= N
        BY <2>10, <2>11
      <4>3. QED
        BY <1>7, <2>3, <3>1, <4>1, <4>2
    <3>2. ASSUME NEW i \in 1 .. Len(ba'.up), top' = ba'.up[i] PROVE top' <= N
      BY <2>12, <3>2
    <3>3. QED
      BY <1>7, <3>1, <3>2
  <2>17. newest' - N <= Reach /\ (N <= newest' \/ N <= winO' - 1)
    <3>1. L <= N
      BY <2>10, <2>11
    <3>2. newest' - N <= Reach
      BY <1>3, <2>3, <2>5, <2>11, <3>1
    <3>3. N <= newest' \/ N = L
      BY <1>3, <2>3, <2>8, <2>11
    <3>4. N <= newest' \/ N <= winO' - 1
      BY <1>2, <1>3, <2>3, <2>5, <3>3
    <3>5. QED
      BY <3>2, <3>4
  <2>18. Follows(N)'
    BY <2>11, <2>12, <2>15, <2>16, <2>17 DEF Follows
  <2>19. QED
    BY <1>3, <1>6, <2>14, <2>18 DEF IInv
<1>10. QED
  BY <1>8, <1>9

\* Indicate_AMPDU_Packet.
LEMMA OrderReceive == ASSUME IInv, NEW n \in Frames, Receive(n) PROVE IInv' /\ Kept
<1> DEFINE a == Begin(ba)
<1>1. /\ a \in Entries /\ a.list = ba.list /\ a.last = ba.last /\ a.win = ba.win
      /\ a.up = <<>> /\ a.cut = 0 /\ a.fallback = -1 /\ TInv /\ TInv'
  BY BeginAccounts, TypesReceive DEF IInv, TInv
<1>2. sess \in BOOLEAN /\ top \in Int
  BY <1>1, Ints
<1>3. CASE ~sess
  <2>1. ba' = Indicate(a, n) /\ Remember(ba', sess, barred) /\ winO' = winO
    BY <1>3 DEF Receive
  <2> HIDE DEF a
  <2>2. /\ ba'.last = a.last /\ ba'.up = Append(a.up, n) /\ ba'.cut = 0
    BY <1>1, <2>1, IndicateAccounts
  <2>3. ba.last = RESET_RCV_SEQ /\ top = -1
    BY <1>3 DEF IInv, TInv
  <2>4. top' = -1 /\ barred' = -1 /\ ~fell'
    BY <1>2, <1>3, <2>1, Forgets
  <2>5. Sender'
    BY Arrives
  <2>6. IInv'
    BY <1>1, <2>2, <2>3, <2>4, <2>5 DEF IInv
  <2>7. n \in Int /\ n >= 0
    BY SizesAssumption DEF Frames
  <2>8. ba'.up = <<n>>
    BY <1>1, <2>2
  <2>9. StrictlyAfter(<<n>>, -1)
    <3>1. Len(<<n>>) = 1 /\ <<n>>[1] = n
      OBVIOUS
    <3>2. QED
      BY <2>7, <3>1 DEF StrictlyAfter
  <2>10. QED
    BY <2>2, <2>3, <2>6, <2>8, <2>9 DEF Kept, Continues
<1>4. CASE sess /\ ba.last = RESET_RCV_SEQ
  <2>1. a.list = <<>>
    BY <1>1, <1>4 DEF TInv
  <2>2. FlushTimeout(a, age) = a
    <3>1. ~(Len(a.list) > 1) /\ ~(Len(a.list) > 0)
      BY <2>1
    <3>2. QED
      BY <3>1 DEF FlushTimeout
  <2>3. ba' = Classify(a, n)
    BY <1>4, <2>2 DEF Receive, IndicateAmpdu
  <2> HIDE DEF a
  <2>4. QED
    BY <1>1, <1>4, <2>1, <2>3, OrderFresh
<1>5. CASE sess /\ ba.last # RESET_RCV_SEQ /\ Len(ba.list) > 1 /\ age = "over500ms"
  <2> DEFINE d == Refresh(a)
  <2>1. FlushTimeout(a, age) = d
    BY <1>1, <1>5 DEF FlushTimeout
  <2>2. ba' = Classify(d, n)
    BY <1>5, <2>1 DEF Receive, IndicateAmpdu
  <2>3. /\ d \in Entries /\ d.fallback = a.fallback
        /\ d.last = RESET_RCV_SEQ /\ d.list = <<>>
        /\ d.up = Glued(a.up, a.list, Len(a.list))
        /\ d.cut = Len(a.up) + Len(a.list)
    BY <1>1, RefreshAccounts
  <2>4. /\ a.list \in Seq(Frames) /\ a.up \in Seq(Frames) /\ Len(a.list) \in Nat
        /\ Len(a.list) > 1 /\ Len(a.up) = 0 /\ Len(a.list) \in 0 .. Len(a.list)
    BY <1>1, <1>5 DEF Entries
  <2>5. Len(Glued(a.up, a.list, Len(a.list))) = Len(a.up) + Len(a.list)
    BY <2>4, GluedIs
  <2>6. d.cut > 0 /\ d.cut = Len(d.up)
    BY <2>3, <2>4, <2>5
  <2>7. fell \/ StrictlyAfter(d.up, top)
    <3> SUFFICES ASSUME ~fell PROVE StrictlyAfter(d.up, top)
      OBVIOUS
    <3>1. Lined(a, top)
      BY LinedNow
    <3>2. Lined(Announce(a, Len(a.list)), top)
      BY <1>1, <1>2, <2>4, <3>1, LinedAnnounce
    <3>3. Announce(a, Len(a.list)).up = d.up
      BY <1>1, <2>3, <2>4, Announces
    <3>4. QED
      BY <3>2, <3>3 DEF Lined
  <2> HIDE DEF d, a
  <2>8. QED
    BY <1>1, <1>5, <2>2, <2>3, <2>6, <2>7, OrderFresh
<1>6. CASE /\ sess /\ ba.last # RESET_RCV_SEQ
           /\ ~(Len(ba.list) > 1 /\ age = "over500ms")
  BY <1>1, <1>6, OrderArrival
<1>7. QED
  BY <1>2, <1>3, <1>4, <1>5, <1>6
-----------------------------------------------------------------------------
\* Every step keeps the invariant, and passes up what continues the stream.
LEMMA OrderStep == IInv /\ [Next]_vars => IInv' /\ (Kept \/ UNCHANGED vars)
<1> SUFFICES ASSUME IInv, [Next]_vars PROVE IInv' /\ (Kept \/ UNCHANGED vars)
  OBVIOUS
<1>1. ASSUME NEW w \in WinSizes, AddBa(w) PROVE IInv' /\ Kept
  BY <1>1, OrderAddBa
<1>2. CASE TearDown
  BY <1>2, OrderTearDown
<1>3. ASSUME NEW n \in Frames, Receive(n) PROVE IInv' /\ Kept
  BY <1>3, OrderReceive
<1>4. ASSUME NEW c \in BOOLEAN, BlockAckReq(c) PROVE IInv' /\ Kept
  BY <1>4, OrderBlockAckReq
<1>5. CASE Tick \/ SenderAdvance \/ OthersUse
  BY <1>5, OrderQuiet
<1>6. CASE UNCHANGED vars
  <2>1. TInv'
    BY <1>6, TypesKept DEF IInv
  <2>2. UNCHANGED <<ba, winO, newest, top, barred, fell>>
    BY <1>6 DEF vars
  <2>3. \A L \in Int : Follows(L) => Follows(L)'
    BY <2>2 DEF Follows, NotHeld
  <2>4. Sender'
    BY <2>2 DEF IInv, Sender
  <2>5. QED
    BY <1>6, <2>1, <2>2, <2>3, <2>4 DEF IInv
<1>7. QED
  BY <1>1, <1>2, <1>3, <1>4, <1>5, <1>6 DEF Next

\* So it holds always.
LEMMA OrderInvariant == Spec => []IInv
<1>1. IInv /\ [Next]_vars => IInv'
  BY OrderStep
<1>2. QED
  BY OrderInit, <1>1, PTL DEF Spec

\* What Follows says of the list's sequence numbers.
LEMMA Pending ==
    ASSUME IInv, ~fell
    PROVE  PendingInWindow /\ QlenBounded /\ InOrderNotHeld
<1>0. ba \in Entries /\ TInv
  BY DEF IInv, TInv
<1>1. CASE ba.last = RESET_RCV_SEQ
  <2>1. ba.list = <<>> /\ Len(<<>>) = 0
    BY <1>1 DEF IInv, TInv
  <2>2. ba.win \in Nat
    BY <1>0 DEF Entries
  <2>3. QED
    BY <2>1, <2>2 DEF PendingInWindow, QlenBounded, QlenAssert, InOrderNotHeld
<1>2. CASE ba.last # RESET_RCV_SEQ
  <2>1. PICK L \in Int : Follows(L)
    BY <1>2 DEF IInv
  <2>2. newest \in Int /\ newest <= newest /\ top \in Int /\ sess
    BY <1>0, <1>2, Ints DEF TInv
  <2> DEFINE a == Begin(ba)
  <2>3. a.list = ba.list /\ a.last = ba.last /\ a.win = ba.win
    BY <1>0, BeginAccounts
  <2>4. Good(a, L, top, newest)
    BY <1>2, <2>1, <2>2, Found
  <2> HIDE DEF a
  <2>5. /\ ba.win \in Int /\ ba.win <= Reach
        /\ Len(ba.list) <= ba.win
        /\ \A i, j \in 1 .. Len(ba.list) : i < j => ba.list[i] < ba.list[j]
        /\ \A i \in 1 .. Len(ba.list) :
              ba.list[i] \in Int /\ L < ba.list[i] /\ ba.list[i] <= L + ba.win
    BY <2>2, <2>3, <2>4, GoodNumbers
  <2>6. ba.last = Sn(L)
    BY <2>1 DEF Follows
  <2>7. Reach \in Int /\ Half \in Int /\ 2 * Reach + MaxLoss < Half /\ 0 <= MaxLoss
        /\ MaxLoss \in Int /\ SeqSpace = 2 * Half /\ 1 <= Reach
    BY <1>0, <2>2, Ints, Window, Reaches
  <2>8. ASSUME NEW i \in 1 .. Len(ba.list)
        PROVE  (Sn(ba.list[i]) - ba.last) % SeqSpace \in 1 .. ba.win
    <3>1. ba.list[i] \in Int /\ L <= ba.list[i] /\ ba.list[i] - L < SeqSpace
          /\ ba.list[i] - L \in 1 .. ba.win
      BY <2>5, <2>7
    <3>2. (Sn(ba.list[i]) - Sn(L)) % SeqSpace = ba.list[i] - L
      BY <3>1, Distance
    <3>3. QED
      BY <2>6, <3>1, <3>2
  <2>9. PendingInWindow
    BY <1>2, <2>5, <2>8 DEF PendingInWindow
  <2>10. QlenBounded
    BY <1>2, <2>5 DEF QlenBounded, QlenAssert
  <2>11. InOrderNotHeld
    <3> SUFFICES ASSUME ba.list # <<>> PROVE ~SEQ_STEPONE(Sn(ba.list[1]), ba.last)
      BY DEF InOrderNotHeld
    <3>1. 1 \in 1 .. Len(ba.list)
      BY <1>0 DEF Entries
    <3>2. ba.list[1] # L + 1
      BY <2>1 DEF Follows, NotHeld
    <3>3. ba.list[1] \in Int /\ ba.list[1] - (L + 1) < Half /\ (L + 1) - ba.list[1] < Half
      BY <2>5, <2>7, <3>1
    <3>4. Sn(ba.list[1]) # Sn(L + 1)
      BY <3>2, <3>3, Apart DEF Half
    <3>5. (Sn(L) + 1) % SeqSpace = Sn(L + 1)
      BY Shift
    <3>6. QED
      BY <2>6, <3>4, <3>5 DEF SEQ_STEPONE
  <2>12. QED
    BY <2>9, <2>10, <2>11
<1>3. QED
  BY <1>1, <1>2

\* The pending list is in the sender's order and within BAWinSize numbers after
\* LastIndSeq, across every wrap of the numbers, until an MPDU takes the fallback
\* of ba_enqueue_reordering_packet.
THEOREM InWindow == Spec => []PendingInWindow
<1>1. IInv => PendingInWindow
  BY Pending DEF PendingInWindow
<1>2. QED
  BY OrderInvariant, <1>1, PTL

\* Until then the ASSERT on list.qlen holds; and nothing is ever pending while
\* LastIndSeq is reset.
THEOREM QlenUntilFallback == Spec => []QlenBounded
<1>1. IInv => QlenBounded
  BY Pending DEF QlenBounded, IInv, TInv
<1>2. QED
  BY OrderInvariant, <1>1, PTL

\* Until then no MPDU that is next in order stays in the list.
THEOREM NextNotHeld == Spec => []InOrderNotHeld
<1>1. IInv => InOrderNotHeld
  BY Pending DEF InOrderNotHeld
<1>2. QED
  BY OrderInvariant, <1>1, PTL

\* Whatever is lost, repeated or late, and whenever sessions begin and end: until
\* then each handler passes up MPDUs of the sender's order, none twice, but for
\* the one that a BAR named.
THEOREM PassedUp == Spec => InOrderButForBar
<1>1. IInv /\ [Next]_vars
        => [fell \/ fell' \/ Continues(ba'.up, ba'.cut) \/ BarRepeat(ba'.up)]_vars
  BY OrderStep DEF Kept
<1>2. QED
  BY OrderInvariant, <1>1, PTL DEF Spec, InOrderButForBar
=============================================================================
