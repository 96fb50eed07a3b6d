---------------------------- MODULE BaRxTearDown ----------------------------
(***************************************************************************)
(* The receive tasklet and the MLME thread on one BA_REC_ENTRY.  The       *)
(* tasklet finds the entry through BARecWcidArray without a lock and holds *)
(* RxReRingLock only while it changes the list; BARecSessionTearDown and   *)
(* BARecSessionAdd go through steps of their own meanwhile.  What          *)
(* BaReorder decides from sequence numbers is left open here.              *)
(***************************************************************************)
EXTENDS Integers, Sequences

CONSTANTS
    Keys,      \* stations and TIDs that use the entry one after the other
    NFrames    \* bound: MPDUs that arrive

ASSUME FramesAssumption == NFrames \in Nat

VARIABLES
    map,     \* the key whose BARecWcidArray names the entry, or "none"
    used,    \* REC_BA_Status # Recipient_NONE
    numRec,  \* numAsRecipient
    last,    \* LastIndSeq: "reset" or "set"
    list,    \* pending MPDUs
    up,      \* MPDUs passed up
    gone,    \* MPDUs dropped as old or duplicated
    cur,     \* the MPDU the tasklet works on; also how many have arrived
    key,     \* the key the MLME thread adds a session for
    pc       \* the step of the tasklet, Rx, and of the MLME thread

vars == <<map, used, numRec, last, list, up, gone, cur, key, pc>>

Rx == "rx"
Mlme == "mlme"

Init ==
    /\ map = "none" /\ used = FALSE /\ numRec = 0 /\ last = "reset"
    /\ list = <<>> /\ up = <<>> /\ gone = {}
    /\ cur = 0 /\ key \in Keys
    /\ pc = [p \in {Rx, Mlme} |-> "idle"]

Step(p, from, to) == pc[p] = from /\ pc' = [pc EXCEPT ![p] = to]

\* The first n pending MPDUs go up, after or before those of s.
PassUp(before, n, after) ==
    /\ up' = up \o before \o SubSeq(list, 1, n) \o after
    /\ list' = SubSeq(list, n + 1, Len(list))

Prefixes == 0 .. Len(list)
-----------------------------------------------------------------------------
(***************************************************************************)
(* Indicate_AMPDU_Packet                                                   *)
(***************************************************************************)
\* Without a session the MPDU goes straight up.
Arrive(k) ==
    /\ cur < NFrames
    /\ cur' = cur + 1
    /\ \/ map = k /\ Step(Rx, "idle", "entry") /\ UNCHANGED up
       \/ map # k /\ Step(Rx, "idle", "idle") /\ up' = Append(up, cur')
    /\ UNCHANGED <<map, used, numRec, last, list, gone, key>>

\* The first MPDU of a session, or the first after all were flushed.
First ==
    /\ Step(Rx, "entry", "idle")
    /\ last = "reset"
    /\ last' = "set"
    /\ up' = Append(up, cur)
    /\ UNCHANGED <<map, used, numRec, list, gone, cur, key>>

\* ba_flush_reordering_timeout_mpdus, after 500 ms and after 100 ms.
FlushTimeout ==
    /\ Step(Rx, "entry", "entry")
    /\ \/ Len(list) > 1 /\ PassUp(<<>>, Len(list), <<>>) /\ last' = "reset"
       \/ Len(list) > 0 /\ last' = "set"
             /\ \E n \in Prefixes : PassUp(<<>>, n, <<>>)
    /\ UNCHANGED <<map, used, numRec, gone, cur, key>>

\* I. In order: up it goes, and what follows it in the list.
InOrder ==
    /\ Step(Rx, "entry", "idle")
    /\ last = "set"
    /\ \E n \in Prefixes : PassUp(<<cur>>, n, <<>>)
    /\ UNCHANGED <<map, used, numRec, last, gone, cur, key>>

\* II, III. A duplicate, or old.
Drop ==
    /\ Step(Rx, "entry", "idle")
    /\ last = "set"
    /\ gone' = gone \cup {cur}
    /\ UNCHANGED <<map, used, numRec, last, list, up, cur, key>>

\* IV, V. Within the window, or beyond it so that the window moves on.
Hold ==
    /\ last = "set"
    /\ \/ Step(Rx, "entry", "enqueue") /\ UNCHANGED <<up, list>>
       \/ Step(Rx, "entry", "surpass") /\ \E n \in Prefixes : PassUp(<<>>, n, <<>>)
    /\ UNCHANGED <<map, used, numRec, last, gone, cur, key>>

\* ba_enqueue_reordering_packet: in the list, already there, or no block left.
Enqueue ==
    /\ Step(Rx, "enqueue", "idle") \/ Step(Rx, "surpass", "drain")
    /\ \/ list' = Append(list, cur) /\ UNCHANGED <<up, gone, last>>
       \/ list # <<>> /\ gone' = gone \cup {cur} /\ UNCHANGED <<list, up, last>>
       \/ /\ \E n \in Prefixes : PassUp(<<>>, n, <<cur>>)
          /\ last' = "set"
          /\ UNCHANGED gone
    /\ UNCHANGED <<map, used, numRec, cur, key>>

Drain ==
    /\ Step(Rx, "drain", "idle")
    /\ \E n \in Prefixes : PassUp(<<>>, n, <<>>)
    /\ last' = IF up' = up THEN last ELSE "set"
    /\ UNCHANGED <<map, used, numRec, gone, cur, key>>
-----------------------------------------------------------------------------
(***************************************************************************)
(* BARecSessionTearDown: in the MLME thread, and in the tasklet after a    *)
(* BlockAckReq that is not compressed.                                     *)
(***************************************************************************)
TearDown(p) ==
    /\ map # "none"
    /\ Step(p, "idle", "flush")
    /\ UNCHANGED <<map, used, numRec, last, list, up, gone, cur, key>>

\* Mutant: the list is walked but not emptied.
RefreshKeeps(p) ==
    /\ Step(p, "flush", "unmap") \/ Step(p, "renew", "fill")
    /\ up' = up \o list
    /\ last' = "reset"
    /\ UNCHANGED <<map, used, numRec, list, gone, cur, key>>

\* ba_refresh_reordering_mpdus
Refresh(p) ==
    /\ Step(p, "flush", "unmap") \/ Step(p, "renew", "fill")
    /\ PassUp(<<>>, Len(list), <<>>)
    /\ last' = "reset"
    /\ UNCHANGED <<map, used, numRec, gone, cur, key>>

Unmap(p) ==
    /\ Step(p, "unmap", "free")
    /\ last' = "reset"
    /\ map' = "none"
    /\ UNCHANGED <<used, numRec, list, up, gone, cur, key>>

\* BATableFreeRecEntry looks at the status before it takes the lock.
FreeTest(p) ==
    /\ Step(p, "free", IF used THEN "lock" ELSE "idle")
    /\ map' = IF used THEN "none" ELSE map
    /\ UNCHANGED <<used, numRec, last, list, up, gone, cur, key>>

FreeLocked(p) ==
    /\ Step(p, "lock", "idle")
    /\ numRec' = numRec - 1
    /\ used' = FALSE
    /\ UNCHANGED <<map, last, list, up, gone, cur, key>>
-----------------------------------------------------------------------------
\* BARecSessionAdd: a new session takes the entry, one that exists is renewed.
Add(k) ==
    /\ \/ map = k /\ Step(Mlme, "idle", "renew") /\ UNCHANGED <<used, numRec>>
       \/ /\ map = "none" /\ ~used /\ numRec = 0
          /\ Step(Mlme, "idle", "fill")
          /\ used' = TRUE /\ numRec' = numRec + 1
    /\ key' = k
    /\ UNCHANGED <<map, last, list, up, gone, cur>>

Fill ==
    /\ Step(Mlme, "fill", "idle")
    /\ last' = "reset"
    /\ map' = key
    /\ UNCHANGED <<used, numRec, list, up, gone, cur, key>>

Receive ==
    \/ \E k \in Keys : Arrive(k)
    \/ First \/ FlushTimeout \/ InOrder \/ Drop \/ Hold \/ Enqueue \/ Drain

TearDownStep(p) ==
    TearDown(p) \/ Refresh(p) \/ Unmap(p) \/ FreeTest(p) \/ FreeLocked(p)

Next ==
    \/ Receive
    \/ \E p \in {Rx, Mlme} : TearDownStep(p)
    \/ \E k \in Keys : Add(k)
    \/ Fill

Spec == Init /\ [][Next]_vars
-----------------------------------------------------------------------------
Members(s) == {s[i] : i \in 1 .. Len(s)}
Distinct(s) == \A i, j \in 1 .. Len(s) : s[i] = s[j] => i = j
InHand == IF pc[Rx] \in {"entry", "enqueue", "surpass"} THEN {cur} ELSE {}

\* Whatever tear-downs run meanwhile, no MPDU is passed up twice, none is
\* freed twice, and none vanishes: each is up, pending, dropped, or in the
\* tasklet's hand.
EachOnce ==
    /\ Distinct(up \o list)
    /\ gone \cap Members(up \o list) = {}
    /\ (1 .. cur) \ (Members(up \o list) \cup gone) = InHand

\* ASSERT(pBAEntry->list.qlen == 0), where BARecSessionAdd fills the entry.
AddAssert == pc[Mlme] = "fill" => list = <<>>
=============================================================================
