----------------------------- MODULE BaOriRace -----------------------------
(***************************************************************************)
(* The originator's half of BaSession at the grain of its shared accesses, *)
(* for one station: threads that transmit, the MLME thread, and the timer  *)
(* of every entry run at once.  Only BATableAllocOriEntry and a part of    *)
(* BATableFreeOriEntry hold BATabLock; cancelling a timer does not wait    *)
(* for a callback that has begun.  With one processor the transmit path    *)
(* and the timers, which run with bottom halves off, are not interrupted;  *)
(* the MLME thread is, anywhere.  With more, all of them are.              *)
(*                                                                         *)
(* Four meetings of two threads at one entry break the code; each sets     *)
(* raced at the step that makes it, and after it nothing is claimed.       *)
(***************************************************************************)
EXTENDS Integers, FiniteSets

CONSTANTS
    Tids,       \* traffic identifiers of the station
    OriLen,     \* MAX_LEN_OF_BA_ORI_TABLE; slot 0 is never used
    MaxRetry,   \* ORI_SESSION_MAX_RETRY
    Senders,    \* threads in the transmit path
    Mlme,       \* the MLME thread
    Smp         \* more than one processor

ASSUME RaceAssumption ==
    OriLen \in Nat \ {0} /\ MaxRetry \in Nat \ {0} /\ Smp \in BOOLEAN

VARIABLES
    st, key, token,   \* of the entries: ORI_BA_Status, TID, Token
    armed,            \* ORIBATimer is pending
    oriMap, txBa,     \* BAOriWcidArray and TXBAbitmap of the station
    numOri, numDone,  \* the counters of the table
    pc, at, tid,      \* of every thread: its step, entry and TID
    seen, bits,       \* numDone and txBa as the MLME thread has loaded them
    raced             \* history: two threads have met at one entry

entries == <<st, key, token>>
station == <<oriMap, txBa>>
locals == <<tid, seen, bits>>
vars == <<st, key, token, armed, oriMap, txBa, numOri, numDone,
          pc, at, tid, seen, bits, raced>>

OriIdx == 1 .. OriLen - 1
Threads == Senders \cup {Mlme} \cup OriIdx   \* a timer is named by its entry
Used == {i \in OriIdx : st[i] # "NONE"}
Granted == {i \in OriIdx : st[i] = "Done"}

\* Threads that transmit, the MLME thread and timers are different threads.
ASSUME ThreadAssumption == Mlme \notin Senders \cup OriIdx /\ Senders \cap OriIdx = {}

Init ==
    /\ st = [i \in OriIdx |-> "NONE"]
    /\ \E t \in Tids : key = [i \in OriIdx |-> t] /\ tid = [p \in Threads |-> t]
    /\ token = [i \in OriIdx |-> 0]
    /\ armed = [i \in OriIdx |-> FALSE]
    /\ oriMap = [t \in Tids |-> 0]
    /\ txBa = {} /\ bits = {}
    /\ numOri = 0 /\ numDone = 0 /\ seen = 0
    /\ pc = [p \in Threads |-> "idle"]
    /\ at = [p \in Threads |-> 0]
    /\ raced = FALSE

Goto(p, step) == pc' = [pc EXCEPT ![p] = step] /\ UNCHANGED at
Open(p, i, step) == pc' = [pc EXCEPT ![p] = step] /\ at' = [at EXCEPT ![p] = i]
Return(p) == Open(p, 0, "idle")
Meeting(m) == raced' = (raced \/ m)

\* p has a processor: with only one, not while another thread that cannot be
\* interrupted is under way.
Runs(p) == Smp \/ \A q \in Threads \ {Mlme, p} : pc[q] = "idle"

\* The MLME thread has entry i in hand.
Busy(i) == at[Mlme] = i

\* A sender has read index 0 for TID t, and the status does not tell yet that
\* the set-up is under way.
SettingUp(s) ==
    \/ pc[s] \in {"alloc", "map", "wait"}
    \/ pc[s] = "status" /\ st[at[s]] = "USED"

\* The index names entry i, but a sender still writes it, ...
Filling(s, i) == pc[s] \in {"wait", "key", "arm"} /\ at[s] = i

\* ... or its timeout is under way.
InHand(i) == pc[i] # "idle" \/ \E s \in Senders : Filling(s, i)
-----------------------------------------------------------------------------
(***************************************************************************)
(* RTMP_BASetup and BAOriSessionSetUp for a frame of TID t.                *)
(***************************************************************************)
Test(s, t) ==
    /\ pc[s] = "idle"
    /\ t \notin txBa
    /\ tid' = [tid EXCEPT ![s] = t]
    /\ Goto(s, "look")
    /\ UNCHANGED <<entries, armed, station, numOri, numDone, seen, bits, raced>>

\* Mutant: a new entry is taken although the TID has one.
LookAnew(s) ==
    /\ pc[s] = "look"
    /\ Meeting(\E q \in Senders : tid[q] = tid[s] /\ SettingUp(q))
    /\ Goto(s, "alloc")
    /\ UNCHANGED <<entries, armed, station, numOri, numDone, locals>>

\* Meeting: two set-ups of one TID.
Look(s) ==
    /\ pc[s] = "look"
    /\ Meeting(\E q \in Senders : tid[q] = tid[s] /\ SettingUp(q))
    /\ Open(s, oriMap[tid[s]], IF oriMap[tid[s]] = 0 THEN "alloc" ELSE "status")
    /\ UNCHANGED <<entries, armed, station, numOri, numDone, locals>>

\* Mutant: the counter is not raised.
AllocUncounted(s) ==
    /\ pc[s] = "alloc"
    /\ numOri < OriLen - 1
    /\ \E i \in OriIdx \ Used :
          /\ \A j \in OriIdx \ Used : i <= j
          /\ st' = [st EXCEPT ![i] = "USED"]
          /\ Open(s, i, "status")
    /\ UNCHANGED <<key, token, armed, station, numOri, numDone, locals, raced>>

\* BATableAllocOriEntry, under BATabLock.
Alloc(s) ==
    /\ pc[s] = "alloc"
    /\ numOri < OriLen - 1
    /\ \E i \in OriIdx \ Used :
          /\ \A j \in OriIdx \ Used : i <= j
          /\ st' = [st EXCEPT ![i] = "USED"]
          /\ Open(s, i, "status")
    /\ numOri' = numOri + 1
    /\ UNCHANGED <<key, token, armed, station, numDone, locals, raced>>

AllocFails(s) ==
    /\ pc[s] = "alloc"
    /\ numOri >= OriLen - 1
    /\ Return(s)
    /\ UNCHANGED <<entries, armed, station, numOri, numDone, locals, raced>>

\* Mutant: the status is not looked at.
StatusIgnored(s) ==
    /\ pc[s] = "status"
    /\ Goto(s, "map")
    /\ UNCHANGED <<entries, armed, station, numOri, numDone, locals, raced>>

\* "if (pBAEntry->ORI_BA_Status >= Originator_WaitRes) return"
Status(s) ==
    /\ pc[s] = "status"
    /\ IF st[at[s]] \in {"WaitRes", "Done"} THEN Return(s) ELSE Goto(s, "map")
    /\ UNCHANGED <<entries, armed, station, numOri, numDone, locals, raced>>

Map(s) ==
    /\ pc[s] = "map"
    /\ oriMap' = [oriMap EXCEPT ![tid[s]] = at[s]]
    /\ Goto(s, "wait")
    /\ UNCHANGED <<entries, armed, txBa, numOri, numDone, locals, raced>>

Wait(s) ==
    /\ pc[s] = "wait"
    /\ st' = [st EXCEPT ![at[s]] = "WaitRes"]
    /\ Goto(s, "key")
    /\ UNCHANGED <<key, token, armed, station, numOri, numDone, locals, raced>>

Key(s) ==
    /\ pc[s] = "key"
    /\ token' = [token EXCEPT ![at[s]] = 1]
    /\ key' = [key EXCEPT ![at[s]] = tid[s]]
    /\ Goto(s, "arm")
    /\ UNCHANGED <<st, armed, station, numOri, numDone, locals, raced>>

\* The timer is initialised, or cancelled, and set.
Arm(s) ==
    /\ pc[s] = "arm"
    /\ armed' = [armed EXCEPT ![at[s]] = TRUE]
    /\ Return(s)
    /\ UNCHANGED <<entries, station, numOri, numDone, locals, raced>>
-----------------------------------------------------------------------------
(***************************************************************************)
(* BATableFreeOriEntry of entry at[p]: the status is read and the index    *)
(* cleared before the lock is taken.                                       *)
(***************************************************************************)

\* Meeting: a sender has read the index, and not yet the status behind it.
FreeTest(p) ==
    /\ pc[p] = "free"
    /\ IF at[p] = 0 \/ st[at[p]] = "NONE"
       THEN Return(p) /\ UNCHANGED <<oriMap, raced>>
       ELSE /\ Goto(p, "lock")
            /\ oriMap' = [oriMap EXCEPT ![key[at[p]]] = 0]
            /\ Meeting(\E s \in Senders : pc[s] = "status" /\ at[s] = at[p])
    /\ UNCHANGED <<entries, armed, txBa, numOri, numDone, locals>>

\* Mutant: the bit of the session stays.
FreeLockedMasked(p) ==
    /\ pc[p] = "lock"
    /\ numDone' = IF st[at[p]] = "Done" THEN numDone - 1 ELSE numDone
    /\ numOri' = numOri - 1
    /\ st' = [st EXCEPT ![at[p]] = "NONE"]
    /\ token' = [token EXCEPT ![at[p]] = 0]
    /\ Return(p)
    /\ UNCHANGED <<key, armed, station, locals, raced>>

FreeLocked(p) ==
    /\ pc[p] = "lock"
    /\ LET done == st[at[p]] = "Done"
       IN  /\ numDone' = IF done THEN numDone - 1 ELSE numDone
           /\ txBa' = IF done THEN txBa \ {key[at[p]]} ELSE txBa
    /\ numOri' = numOri - 1
    /\ st' = [st EXCEPT ![at[p]] = "NONE"]
    /\ token' = [token EXCEPT ![at[p]] = 0]
    /\ Return(p)
    /\ UNCHANGED <<key, armed, oriMap, locals, raced>>
-----------------------------------------------------------------------------
(***************************************************************************)
(* BAOriSessionSetupTimeout: the timer of entry i.                         *)
(***************************************************************************)

\* Mutant: the number of retries is not limited.
FireForEver(i) ==
    /\ armed[i] /\ pc[i] = "idle"
    /\ armed' = [armed EXCEPT ![i] = FALSE]
    /\ Meeting(Busy(i))
    /\ Goto(i, IF st[i] = "WaitRes" THEN "retry" ELSE "index")
    /\ UNCHANGED <<entries, station, numOri, numDone, locals>>

\* Meeting: the MLME thread has the entry in hand.
Fire(i) ==
    /\ armed[i] /\ pc[i] = "idle"
    /\ armed' = [armed EXCEPT ![i] = FALSE]
    /\ Meeting(Busy(i))
    /\ Goto(i, IF st[i] = "WaitRes" /\ token[i] < MaxRetry THEN "retry" ELSE "index")
    /\ UNCHANGED <<entries, station, numOri, numDone, locals>>

\* The request is sent again.
Retry(i) ==
    /\ pc[i] = "retry"
    /\ token' = [token EXCEPT ![i] = @ + 1]
    /\ armed' = [armed EXCEPT ![i] = TRUE]
    /\ Return(i)
    /\ UNCHANGED <<st, key, station, numOri, numDone, locals, raced>>

\* The set-up is given up: what the TID's index names is freed.
GiveUp(i) ==
    /\ pc[i] = "index"
    /\ Open(i, oriMap[key[i]], "free")
    /\ UNCHANGED <<entries, armed, station, numOri, numDone, locals, raced>>
-----------------------------------------------------------------------------
(***************************************************************************)
(* The MLME thread: BAOriSessionAdd for the peer's answer, which adds one  *)
(* to numDoneOriginator and a bit to TXBAbitmap without the lock, and      *)
(* BAOriSessionTearDown.                                                   *)
(***************************************************************************)

\* The entry of TID t is looked up.  Meeting: it is in another thread's hands.
Take(t, step) ==
    /\ pc[Mlme] = "idle"
    /\ oriMap[t] # 0
    /\ tid' = [tid EXCEPT ![Mlme] = t]
    /\ Meeting(InHand(oriMap[t]))
    /\ Open(Mlme, oriMap[t], step)
    /\ UNCHANGED <<entries, armed, station, numOri, numDone, seen, bits>>

AddStart(t) == Take(t, "check")

AddCheck ==
    /\ pc[Mlme] = "check"
    /\ IF key[at[Mlme]] = tid[Mlme] /\ st[at[Mlme]] = "WaitRes"
       THEN Goto(Mlme, "grant")
       ELSE Return(Mlme)
    /\ UNCHANGED <<entries, armed, station, numOri, numDone, locals, raced>>

AddGrant ==
    /\ pc[Mlme] = "grant"
    /\ st' = [st EXCEPT ![at[Mlme]] = "Done"]
    /\ seen' = numDone
    /\ Goto(Mlme, "count")
    /\ UNCHANGED <<key, token, armed, station, numOri, numDone, tid, bits, raced>>

AddCount ==
    /\ pc[Mlme] = "count"
    /\ numDone' = seen + 1 /\ seen' = 0
    /\ bits' = txBa
    /\ Goto(Mlme, "mark")
    /\ UNCHANGED <<entries, armed, station, numOri, tid, raced>>

AddMark ==
    /\ pc[Mlme] = "mark"
    /\ txBa' = bits \cup {tid[Mlme]} /\ bits' = {}
    /\ Goto(Mlme, "stop")
    /\ UNCHANGED <<entries, armed, oriMap, numOri, numDone, tid, seen, raced>>

AddStop ==
    /\ pc[Mlme] = "stop"
    /\ armed' = [armed EXCEPT ![at[Mlme]] = FALSE]
    /\ Return(Mlme)
    /\ UNCHANGED <<entries, station, numOri, numDone, locals, raced>>

TearDown(t) == Take(t, "cancel")

\* No memory for the DELBA: the session is kept.
TearDownFails ==
    /\ pc[Mlme] = "cancel"
    /\ st[at[Mlme]] = "Done"
    /\ Return(Mlme)
    /\ UNCHANGED <<entries, armed, station, numOri, numDone, locals, raced>>

Cancel ==
    /\ pc[Mlme] = "cancel"
    /\ armed' = [armed EXCEPT ![at[Mlme]] = FALSE]
    /\ Goto(Mlme, "free")
    /\ UNCHANGED <<entries, station, numOri, numDone, locals, raced>>

Send(s) ==
    \/ \E t \in Tids : Test(s, t)
    \/ Look(s) \/ Alloc(s) \/ AllocFails(s) \/ Status(s)
    \/ Map(s) \/ Wait(s) \/ Key(s) \/ Arm(s)

Timer(i) == Fire(i) \/ Retry(i) \/ GiveUp(i) \/ FreeTest(i) \/ FreeLocked(i)

MlmeThread ==
    \/ \E t \in Tids : AddStart(t) \/ TearDown(t)
    \/ AddCheck \/ AddGrant \/ AddCount \/ AddMark \/ AddStop
    \/ TearDownFails \/ Cancel \/ FreeTest(Mlme) \/ FreeLocked(Mlme)

Next ==
    \/ \E s \in Senders : Runs(s) /\ Send(s)
    \/ \E i \in OriIdx : Runs(i) /\ Timer(i)
    \/ Runs(Mlme) /\ MlmeThread

Spec == Init /\ [][Next]_vars
-----------------------------------------------------------------------------
\* Types of the entries, the station and the threads; Token stays in its range.
TypeOK ==
    /\ st \in [OriIdx -> {"NONE", "USED", "WaitRes", "Done"}]
    /\ key \in [OriIdx -> Tids]
    /\ token \in [OriIdx -> Nat]
    /\ armed \in [OriIdx -> BOOLEAN]
    /\ oriMap \in [Tids -> OriIdx \cup {0}]
    /\ txBa \subseteq Tids /\ bits \subseteq Tids
    /\ {numOri, numDone, seen} \subseteq Int
    /\ pc \in [Threads -> {"idle", "look", "alloc", "status", "map", "wait", "key",
                           "arm", "free", "lock", "retry", "index", "check", "grant",
                           "count", "mark", "stop", "cancel"}]
    /\ at \in [Threads -> OriIdx \cup {0}]
    /\ tid \in [Threads -> Tids]
    /\ raced \in BOOLEAN
    /\ raced \/ \A i \in OriIdx : token[i] <= MaxRetry

\* Nothing is claimed after a meeting: TLC need not go on from there.
Unraced == ~raced

\* ASSERT(pAd->BATable.numAsOriginator != 0), where an entry is freed.
FreeAssert == \A p \in Threads : pc[p] = "lock" => numOri # 0

\* "I am originator of numAsOriginator clients. These clients are in the
\* BAOriEntry[]": at every access the counter is their number, and
\* numDoneOriginator that of the sessions granted, but for the one whose
\* answer is being taken in.
CountOri ==
    raced \/ /\ numOri = Cardinality(Used)
             /\ numDone = Cardinality(Granted) - (IF pc[Mlme] = "count" THEN 1 ELSE 0)

\* An entry in use is the one its TID's index names, or a thread has it in
\* hand: none is lost to the table for good.
NoneLost ==
    raced \/ \A i \in Used : \/ oriMap[key[i]] = i
                             \/ \E p \in Threads : at[p] = i

\* "The mapping wcid of originator session. if TXBAbitmap bit is masked": when
\* no thread is under way, a TID sent as A-MPDU has a session.
MasksHaveSession ==
    (\A p \in Threads : pc[p] = "idle") => \A t \in txBa : oriMap[t] # 0
MaskedMapped == raced \/ MasksHaveSession

\* The one station is 0.
Keys == {0} \X Tids
AgreementOf ==
    [k \in Keys |-> IF oriMap[k[2]] = 0 THEN "Idle"
                    ELSE IF st[oriMap[k[2]]] = "Done" THEN "Active"
                    ELSE "Asking"]

\* What BaSession promises holds at this grain, too, until a meeting.
Agreement == INSTANCE BaAgreement WITH
    Capacity <- OriLen - 1, agreement <- AgreementOf
ImplementsAgreement ==
    Agreement!Init /\ [][Agreement!Next \/ raced']_AgreementOf
=============================================================================
