----------------------------- MODULE BaReorder -----------------------------
(***************************************************************************)
(* The block-ack receive reordering buffer of one BA_REC_ENTRY             *)
(* (common/ba_action.c): the sorted list of pending MPDUs, LastIndSeq, the *)
(* timeout flush, the BlockAckReq handler, and the shared pool of          *)
(* reordering_mpdu blocks.  Every handler runs whole: the data and BAR     *)
(* frames of one entry arrive in one receive tasklet.  The race of that    *)
(* tasklet with a tear-down on another CPU is in BaRxTearDown.             *)
(*                                                                         *)
(* MPDUs are named by their position 0, 1, 2, ... in the sender's stream;  *)
(* the code sees only Sn(n), the 12-bit sequence number.                   *)
(***************************************************************************)
EXTENDS Integers, Sequences, FiniteSets

CONSTANTS
    SeqSpace,    \* MAXSEQ + 1
    FirstSn,     \* the sequence number of the first MPDU
    WinSizes,    \* the window sizes an ADDBA can negotiate
    PoolSize,    \* MAX_REORDERING_MPDU_NUM
    OthersMax,   \* bound: blocks the other BA sessions may hold
    NFrames,     \* bound: MPDUs of the stream
    MaxCopies,   \* bound: receptions of one MPDU
    MaxLoss,     \* bound: consecutive MPDUs that never arrive
    Eapol        \* the MPDUs that carry EAPOL (fRX_EAP)

ASSUME SizesAssumption ==
    /\ SeqSpace \in {2, 4, 8, 16, 32, 64, 4096}
    /\ WinSizes \subseteq 1 .. (SeqSpace \div 2)
    /\ {FirstSn, PoolSize, OthersMax, NFrames, MaxCopies, MaxLoss} \subseteq Nat

\* Modular comparison needs fewer than half of the numbers between LastIndSeq
\* and an MPDU that arrives: up to a window of lag, the lost MPDUs, a window.
ASSUME LossAssumption ==
    \A w \in WinSizes : 2 * w + MaxLoss < SeqSpace \div 2

VARIABLES
    ba,      \* the entry and the pool: see Entry
    sess,    \* BARecWcidArray[TID] # 0
    age,     \* Now32 - LastIndSeqAtTimer: at most 100 ms, more, more than 500 ms
    others,  \* blocks of the pool held by other sessions
    winO,    \* sender: the lowest MPDU it still transmits
    copies,  \* sender: how many copies of each MPDU may still arrive
    newest,  \* sender: the highest MPDU that has arrived, or -1
    top,     \* history: highest MPDU passed up since LastIndSeq was last reset
    barred,  \* history: MPDU named by a BAR since then, or -1
    fell,    \* history: since then an MPDU took the branch of an exhausted pool
    leaked   \* history: blocks that branch was given and did not use

vars == <<ba, sess, age, others, winO, copies, newest, top, barred, fell, leaked>>
history == <<top, barred, fell, leaked>>

Frames == 0 .. NFrames - 1
Sn(n) == (FirstSn + n) % SeqSpace

\* 0xFFFF: no sequence number, all of whose low bits are set.
RESET_RCV_SEQ == 16 * SeqSpace - 1

SEQ_STEPONE(a, b) == a = (b + 1) % SeqSpace
SEQ_SMALLER(a, b) == (a - b) % SeqSpace >= SeqSpace \div 2

(***************************************************************************)
(* The entry.  up holds what the current handler passed up so far; cut is  *)
(* the length up had when the handler reset LastIndSeq, or 0; fallback is  *)
(* set when it took the branch that reports "Can't allocate reordering     *)
(* mpdu blk", with the number of free blocks it then found.                *)
(***************************************************************************)
Entry(list, last, free, win) ==
    [list |-> list, last |-> last, free |-> free, win |-> win,
     up |-> <<>>, cut |-> 0, fallback |-> -1]

Begin(b) == [b EXCEPT !.up = <<>>, !.cut = 0, !.fallback = -1]

\* How many of the positions of list, from the first on, are in at.
Leading(list, at) ==
    CHOOSE k \in 0 .. Len(list) :
        /\ 1 .. k \subseteq at
        /\ k < Len(list) => k + 1 \notin at

\* Mutant: two blocks come back for one MPDU.
AnnounceFreesTwice(b, k) ==
    [b EXCEPT !.up = @ \o SubSeq(b.list, 1, k),
              !.list = SubSeq(@, k + 1, Len(@)),
              !.free = @ + 2 * k]

\* ba_dequeue + ANNOUNCE_REORDERING_PACKET + ba_mpdu_blk_free, k times.
Announce(b, k) ==
    [b EXCEPT !.up = @ \o SubSeq(b.list, 1, k),
              !.list = SubSeq(@, k + 1, Len(@)),
              !.free = @ + k]

\* INDICATE_LEGACY_OR_AMSDU
Indicate(b, n) == [b EXCEPT !.up = Append(@, n)]

\* The caller's update of LastIndSeq with the value returned is part of it.
InOrder(b, start) ==
    LET due == {i \in DOMAIN b.list : Sn(b.list[i]) = (start + i) % SeqSpace}
        k == Leading(b.list, due)
    IN  IF k = 0 THEN b ELSE [Announce(b, k) EXCEPT !.last = Sn(b.list[k])]

LeSeq(b, s) ==
    LET due == {i \in DOMAIN b.list :
                  Sn(b.list[i]) = s \/ SEQ_SMALLER(Sn(b.list[i]), s)}
    IN  Announce(b, Leading(b.list, due))

Refresh(b) ==
    LET e == Announce(b, Len(b.list))
    IN  [e EXCEPT !.last = RESET_RCV_SEQ, !.cut = Len(e.up)]

\* Mutant: the flush of one MPDU does not go on with those that follow.
FlushTimeoutNoInOrder(b, a) ==
    LET next == (b.last + 1) % SeqSpace IN
    IF Len(b.list) > 1 /\ a = "over500ms" THEN Refresh(b)
    ELSE IF Len(b.list) > 0 /\ a # "recent"
         THEN [LeSeq(b, next) EXCEPT !.last = next]
    ELSE b

\* ba_flush_reordering_timeout_mpdus: flush all after 500 ms, or step over one
\* missing MPDU after 100 ms.
FlushTimeout(b, a) ==
    LET next == (b.last + 1) % SeqSpace IN
    IF Len(b.list) > 1 /\ a = "over500ms" THEN Refresh(b)
    ELSE IF Len(b.list) > 0 /\ a # "recent"
         THEN InOrder([LeSeq(b, next) EXCEPT !.last = next], next)
    ELSE b

\* Mutant: the block of a duplicate is not given back.
InsertSortedLeak(b, n) ==
    LET before == {i \in DOMAIN b.list : SEQ_SMALLER(Sn(b.list[i]), Sn(n))}
        k == Leading(b.list, before)
    IN  IF k < Len(b.list) /\ Sn(b.list[k + 1]) = Sn(n)
        THEN [b EXCEPT !.free = @ - 1]
        ELSE [b EXCEPT !.list = SubSeq(@, 1, k) \o <<n>> \o SubSeq(@, k + 1, Len(@)),
                       !.free = @ - 1]

\* Mutant: a duplicate is inserted.
InsertSortedTwice(b, n) ==
    LET before == {i \in DOMAIN b.list : SEQ_SMALLER(Sn(b.list[i]), Sn(n))}
        k == Leading(b.list, before)
    IN  [b EXCEPT !.list = SubSeq(@, 1, k) \o <<n>> \o SubSeq(@, k + 1, Len(@)),
                  !.free = @ - 1]

\* ba_mpdu_blk_alloc has taken a block; a duplicate gives it back.
InsertSorted(b, n) ==
    LET before == {i \in DOMAIN b.list : SEQ_SMALLER(Sn(b.list[i]), Sn(n))}
        k == Leading(b.list, before)
    IN  IF k < Len(b.list) /\ Sn(b.list[k + 1]) = Sn(n)
        THEN b
        ELSE [b EXCEPT !.list = SubSeq(@, 1, k) \o <<n>> \o SubSeq(@, k + 1, Len(@)),
                       !.free = @ - 1]

\* The fallback keeps the block it was given when the frame is EAPOL.
EnqueueReordering(b, n) ==
    IF b.free > 0 /\ n \notin Eapol
    THEN InsertSorted(b, n)
    ELSE LET taken == [b EXCEPT !.free = IF @ > 0 THEN @ - 1 ELSE 0,
                                !.fallback = b.free]
         IN  Indicate([LeSeq(taken, Sn(n)) EXCEPT !.last = Sn(n)], n)

\* Mutant: LastIndSeq = TmpSeq, one before WinStartSeq.
SurpassWindowTmpSeq(b, n) ==
    LET start == (Sn(n) - b.win - 1) % SeqSpace
        e == EnqueueReordering([LeSeq(b, start) EXCEPT !.last = start], n)
    IN  InOrder(e, e.last)

\* Case V: the window moves so that it ends with this MPDU.
SurpassWindow(b, n) ==
    LET start == (Sn(n) - b.win) % SeqSpace
        e == EnqueueReordering([LeSeq(b, start) EXCEPT !.last = start], n)
    IN  InOrder(e, e.last)

\* What becomes of an MPDU, after the timeout flush: LastIndSeq is reset, or
\* the MPDU is in order (I), old or duplicated (II, III), within the window
\* (IV), or beyond it (V).
Classify(b, n) ==
    LET s == Sn(n) IN
    IF b.last = RESET_RCV_SEQ THEN Indicate([b EXCEPT !.last = s], n)
    ELSE IF SEQ_STEPONE(s, b.last)
         THEN InOrder(Indicate([b EXCEPT !.last = s], n), s)
    ELSE IF s = b.last \/ SEQ_SMALLER(s, b.last) THEN b
    ELSE IF SEQ_SMALLER(s, (b.last + b.win + 1) % SeqSpace)
         THEN EnqueueReordering(b, n)
    ELSE SurpassWindow(b, n)

IndicateAmpdu(b, n, a) == Classify(FlushTimeout(Begin(b), a), n)
-----------------------------------------------------------------------------
Highest(S) == IF S = {} THEN -1 ELSE CHOOSE x \in S : \A y \in S : y <= x

\* The history variables after a handler left the entry as b.
Remember(b, isUp, bar) ==
    LET since == {b.up[i] : i \in (b.cut + 1) .. Len(b.up)}
        none == b.last = RESET_RCV_SEQ \/ ~isUp
    IN  /\ top' = IF none THEN -1
                  ELSE Highest(since \cup (IF b.cut > 0 THEN {} ELSE {top}))
        /\ barred' = IF none \/ b.cut > 0 THEN -1 ELSE bar
        /\ fell' = (~none /\ (b.fallback >= 0 \/ (b.cut = 0 /\ fell)))
        /\ leaked' = IF b.fallback > 0 THEN leaked + 1 ELSE leaked

Init ==
    /\ ba = Entry(<<>>, RESET_RCV_SEQ, PoolSize, 0)
    /\ sess = FALSE
    /\ age = "recent"
    /\ others = 0
    /\ winO = 0
    /\ copies = [n \in Frames |-> MaxCopies]
    /\ newest = -1
    /\ top = -1
    /\ barred = -1
    /\ fell = FALSE
    /\ leaked = 0

\* BARecSessionAdd, for a new session or one that exists.
AddBa(w) ==
    /\ ba' = LET b == IF sess THEN Refresh(Begin(ba)) ELSE Begin(ba)
             IN  [b EXCEPT !.win = w, !.last = RESET_RCV_SEQ]
    /\ sess' = TRUE
    /\ Remember(ba', TRUE, -1)
    /\ UNCHANGED <<age, others, winO, copies, newest>>

\* Mutant: the session ends and its pending MPDUs stay.
TornDownKeepsPending(b) == [b EXCEPT !.win = 0, !.last = RESET_RCV_SEQ]

\* BARecSessionTearDown: what is pending goes up first.
TornDown(b) == [Refresh(b) EXCEPT !.win = 0]

TearDown ==
    /\ sess
    /\ ba' = TornDown(Begin(ba))
    /\ sess' = FALSE
    /\ Remember(ba', FALSE, -1)
    /\ UNCHANGED <<age, others, winO, copies, newest>>

\* An MPDU of the sender's window arrives; with no session it goes straight up.
Receive(n) ==
    /\ n \in winO .. winO + (IF ba.win = 0 THEN 1 ELSE ba.win) - 1
    /\ copies[n] > 0
    /\ copies' = [copies EXCEPT ![n] = @ - 1]
    /\ newest' = Highest({n, newest})
    /\ ba' = IF sess THEN IndicateAmpdu(ba, n, age) ELSE Indicate(Begin(ba), n)
    /\ age' = IF sess THEN "recent" ELSE age
    /\ Remember(ba', sess, barred)
    /\ UNCHANGED <<sess, others, winO>>

\* CntlEnqueueForRecv on one entry; a BAR that is not compressed also ends the
\* session (dev_rx_ctrl_frm).
BarFlush(b, start) ==
    IF SEQ_SMALLER(b.last, start)
    THEN [LeSeq(b, start) EXCEPT
             !.last = IF start = 0 THEN SeqSpace - 1 ELSE start - 1]
    ELSE b

BlockAckReq(compressed) ==
    /\ sess
    /\ winO \in Frames
    /\ ba' = LET b == BarFlush(Begin(ba), Sn(winO))
             IN  IF compressed THEN b ELSE TornDown(b)
    /\ sess' = compressed
    /\ Remember(ba', compressed, IF SEQ_SMALLER(ba.last, Sn(winO)) THEN winO ELSE barred)
    /\ UNCHANGED <<age, others, winO, copies, newest>>

\* Time passes; it matters to the code only while MPDUs are pending.
Tick ==
    /\ ba.list # <<>>
    /\ age # "over500ms"
    /\ age' = IF age = "recent" THEN "over100ms" ELSE "over500ms"
    /\ ba' = Begin(ba)
    /\ UNCHANGED <<sess, others, winO, copies, newest, history>>

\* The sender is done with MPDU winO: acknowledged, or given up.
SenderAdvance ==
    /\ winO < NFrames
    /\ winO - newest <= MaxLoss
    /\ winO' = winO + 1
    /\ copies' = [copies EXCEPT ![winO] = 0]
    /\ ba' = Begin(ba)
    /\ UNCHANGED <<sess, age, others, newest, history>>

\* Other sessions take blocks of the pool and give them back.
OthersUse ==
    /\ others' \in 0 .. OthersMax
    /\ others' # others
    /\ others' - others <= ba.free
    /\ ba' = [Begin(ba) EXCEPT !.free = @ + others - others']
    /\ UNCHANGED <<sess, age, winO, copies, newest, history>>

Next ==
    \/ \E w \in WinSizes : AddBa(w)
    \/ TearDown
    \/ \E n \in Frames : Receive(n)
    \/ \E c \in BOOLEAN : BlockAckReq(c)
    \/ Tick
    \/ SenderAdvance
    \/ OthersUse

Spec == Init /\ [][Next]_vars

\* Time passes, the sender keeps transmitting and moving its window on.
FairSpec ==
    /\ Spec
    /\ WF_vars(Tick)
    /\ WF_vars(SenderAdvance)
    /\ WF_vars(\E n \in Frames : Receive(n))
-----------------------------------------------------------------------------
\* Types of the buffer, the session and the sender.
TypeOK ==
    /\ ba.list \in Seq(Frames) /\ ba.up \in Seq(Frames)
    /\ ba.last \in 0 .. SeqSpace - 1 \cup {RESET_RCV_SEQ}
    /\ ba.free \in 0 .. PoolSize
    /\ ba.win \in WinSizes \cup {0}
    /\ sess \in BOOLEAN
    /\ age \in {"recent", "over100ms", "over500ms"}
    /\ others \in 0 .. OthersMax
    /\ winO \in 0 .. NFrames
    /\ copies \in [Frames -> 0 .. MaxCopies]
    /\ newest \in Frames \cup {-1}
    /\ top \in Frames \cup {-1}
    /\ barred \in Frames \cup {-1}
    /\ fell \in BOOLEAN /\ leaked \in Nat

\* The ASSERT of ba_enqueue_reordering_packet: at most BAWinSize MPDUs are
\* pending.  Its fallback, taken by an EAPOL MPDU or with the pool exhausted,
\* can leave MPDUs that stay pending behind LastIndSeq, next to a whole window.
QlenAssert == Len(ba.list) <= ba.win

\* What the code does keep of it: the ASSERT holds until an MPDU takes the
\* fallback, and nothing is ever pending while LastIndSeq is reset (the ASSERTs
\* of ba_refresh_reordering_mpdus and of the session's end).
QlenBounded ==
    /\ fell \/ QlenAssert
    /\ ba.last = RESET_RCV_SEQ => ba.list = <<>>

\* The pending list is in the sender's order, and lies in the window of
\* BAWinSize numbers after LastIndSeq, across every wrap of the 12-bit numbers,
\* until an MPDU takes the fallback.
PendingInWindow ==
    ~fell =>
        /\ \A i, j \in 1 .. Len(ba.list) : i < j => ba.list[i] < ba.list[j]
        /\ \A i \in 1 .. Len(ba.list) :
              /\ ba.last # RESET_RCV_SEQ
              /\ (Sn(ba.list[i]) - ba.last) % SeqSpace \in 1 .. ba.win

StrictlyAfter(s, t) ==
    /\ \A i \in 1 .. Len(s) : s[i] > t
    /\ \A i, j \in 1 .. Len(s) : i < j => s[i] < s[j]

\* u, passed up with LastIndSeq reset after its first c MPDUs, continues the
\* stream: it repeats and reorders nothing passed up since the last reset.
Continues(u, c) ==
    IF c = 0 THEN StrictlyAfter(u, top)
    ELSE /\ StrictlyAfter(SubSeq(u, 1, c), top)
         /\ StrictlyAfter(SubSeq(u, c + 1, Len(u)), -1)

\* Between two resets of LastIndSeq the MPDUs passed up are in the sender's
\* order and none comes twice ("Drop Duplicated Packet", "give up this
\* duplicated frame").
PassedUpInOrder == [][Continues(ba'.up, ba'.cut)]_vars

\* The MPDU that a BAR named as its starting sequence comes up once more.
BarRepeat(u) == u # <<>> /\ u[1] = barred /\ StrictlyAfter(u, barred - 1)

\* What the code does keep of PassedUpInOrder until an MPDU takes the fallback:
\* nothing is ever reordered, and an MPDU comes twice only if a BAR named it.
InOrderButForBar ==
    [][fell \/ fell' \/ Continues(ba'.up, ba'.cut) \/ BarRepeat(ba'.up)]_vars

\* An MPDU that is next in order is never left in the pending list ("indicate
\* in-order mpdus"), until an MPDU takes the fallback.
InOrderNotHeld ==
    ba.list # <<>> => fell \/ ~SEQ_STEPONE(Sn(ba.list[1]), ba.last)

\* Every block of the pool is free, in the pending list, or used by another
\* session; the only ones that leak are those EAPOL frames are given.
PoolConserved == ba.free + Len(ba.list) + others + leaked = PoolSize

\* A pending MPDU is passed up sooner or later, at the latest by
\* REORDERING_PACKET_TIMEOUT.
PendingPassedUp ==
    \A n \in Frames :
        (\E i \in 1 .. Len(ba.list) : ba.list[i] = n)
            ~> ~(\E i \in 1 .. Len(ba.list) : ba.list[i] = n)
=============================================================================
