----------------------------- MODULE MlmeQueue -----------------------------
(***************************************************************************)
(* The ring of messages for the MLME thread (common/mlme.c).  Receive      *)
(* tasklets and other callers look whether it is full in one critical      *)
(* section and put their message in with the next; the thread takes a      *)
(* POINTER to the oldest element, counts it out, and frees the element     *)
(* after the state machine has worked on it in place.                      *)
(*                                                                         *)
(* MlmeQueueFull counts neither the messages of callers that have passed   *)
(* it nor the element in work.  A caller that passes it although these     *)
(* take what is left sets overbooked; nothing is claimed from then on,     *)
(* until the interface is opened again.                                    *)
(***************************************************************************)
EXTENDS Integers, FiniteSets

CONSTANTS
    Max,        \* MAX_LEN_OF_MLME_QUEUE
    Tasklets,   \* callers of MlmeEnqueueForRecv
    Callers,    \* callers of MlmeEnqueue: timers, user commands, state machines
    Limit,      \* bound: a ring that is overrun counts on, without end
    Msgs,       \* messages
    None        \* no message, no element

ASSUME MaxAssumption == Max \in Nat /\ Max >= 2
ASSUME LimitAssumption == Limit \in Nat
ASSUME CallersAssumption ==
    /\ IsFiniteSet(Tasklets) /\ IsFiniteSet(Callers)
    /\ Tasklets \cap Callers = {}
ASSUME NoneAssumption == None \notin Msgs /\ None \notin 0 .. Max - 1

VARIABLES
    Num, QHead, QTail, \* Num, Head and Tail of MLME_QUEUE
    Entry,             \* its elements; None is written MsgLen = 0 in the code
    pc,                \* callers: about to check, insert, or wake the thread
    thread,            \* MlmeThread: waits, is in MlmeHandler's loop, or works
    Elem,              \* the element the thread works on
    wake,              \* the thread's semaphore is up
    up,                \* "up", "halting" (HALT_IN_PROGRESS), or "down"
    overbooked         \* history: more callers passed the test than there was room

vars == <<Num, QHead, QTail, Entry, pc, thread, Elem, wake, up, overbooked>>

Slots == 0 .. Max - 1
Procs == Tasklets \cup Callers

\* Mutant: the index wraps one too late.
AfterMax(i) == IF i = Max THEN 0 ELSE i + 1

After(i) == IF i + 1 = Max THEN 0 ELSE i + 1

\* The elements from QHead on, Num of them.
Pending(i) ==
    \/ QHead <= i /\ i < QHead + Num
    \/ i + Max < QHead + Num

Free == [Occupied |-> FALSE, msg |-> None]

\* MlmeQueueInit
Init ==
    /\ Num = 0 /\ QHead = 0 /\ QTail = 0
    /\ Entry = [i \in Slots |-> Free]
    /\ pc = [p \in Procs |-> "idle"]
    /\ thread = "wait"
    /\ Elem = None
    /\ wake = FALSE
    /\ up = "up"
    /\ overbooked = FALSE
-----------------------------------------------------------------------------
\* Mutant: received frames may use all of the ring.
MlmeQueueFullForAll(p) == Num = Max

\* MlmeQueueFull: received frames may use half of the ring, and never the
\* element that is being worked on.
MlmeQueueFull(p) ==
    IF p \in Tasklets
    THEN Num >= Max \div 2 \/ Entry[QTail].Occupied
    ELSE Num = Max

Checked == {p \in Procs : pc[p] = "checked"}

\* Elements spoken for that Num does not count.
Unseen == Cardinality(Checked) + (IF Elem = None THEN 0 ELSE 1)

\* They leave none for p, which MlmeQueueFull lets pass.
Crowded(p) ==
    IF p \in Tasklets
    THEN Cardinality(Checked) >= Max - Max \div 2
    ELSE Unseen > 0 /\ Num + Unseen >= Max

\* The first half of MlmeEnqueue, MlmeEnqueueForRecv and MlmeEnqueueForWsc.
Check(p) ==
    /\ pc[p] = "idle"
    /\ up = "up"
    /\ Num + Cardinality(Checked) < Limit
    /\ ~MlmeQueueFull(p)
    /\ overbooked' = (overbooked \/ Crowded(p))
    /\ pc' = [pc EXCEPT ![p] = "checked"]
    /\ UNCHANGED <<Num, QHead, QTail, Entry, thread, Elem, wake, up>>

\* The second half.
Insert(p, m) ==
    /\ pc[p] = "checked"
    /\ Entry' = [Entry EXCEPT ![QTail] = [Occupied |-> TRUE, msg |-> m]]
    /\ QTail' = After(QTail)
    /\ Num' = Num + 1
    /\ pc' = [pc EXCEPT ![p] = "inserted"]
    /\ UNCHANGED <<QHead, thread, Elem, wake, up, overbooked>>

\* Mutant: a caller that is not a tasklet forgets RTMP_MLME_HANDLER.
WakeUpForgotten(p) ==
    /\ pc[p] = "inserted"
    /\ pc' = [pc EXCEPT ![p] = "idle"]
    /\ wake' = (wake \/ p \in Tasklets)
    /\ UNCHANGED <<Num, QHead, QTail, Entry, thread, Elem, up, overbooked>>

\* RTMP_MLME_HANDLER
WakeUp(p) ==
    /\ pc[p] = "inserted"
    /\ pc' = [pc EXCEPT ![p] = "idle"]
    /\ wake' = (wake \/ up # "down")
    /\ UNCHANGED <<Num, QHead, QTail, Entry, thread, Elem, up, overbooked>>
-----------------------------------------------------------------------------
\* MlmeThread gets the semaphore and calls MlmeHandler.
Start ==
    /\ thread = "wait" /\ wake
    /\ thread' = "loop"
    /\ wake' = FALSE
    /\ UNCHANGED <<Num, QHead, QTail, Entry, pc, Elem, up, overbooked>>

\* Only this thread takes messages out, so that nothing comes between
\* MlmeQueueEmpty and MlmeDequeue.
MlmeDequeue ==
    /\ thread = "loop"
    /\ up = "up" /\ Num # 0
    /\ Elem' = QHead
    /\ Num' = Num - 1
    /\ QHead' = After(QHead)
    /\ thread' = "work"
    /\ UNCHANGED <<QTail, Entry, pc, wake, up, overbooked>>

\* Mutant: the element stays Occupied.
FinishKeepsOccupied ==
    /\ thread = "work"
    /\ Entry' = [Entry EXCEPT ![Elem].msg = None]
    /\ Elem' = None
    /\ thread' = "loop"
    /\ UNCHANGED <<Num, QHead, QTail, pc, wake, up, overbooked>>

\* The state machine has run: "free MLME element".
Finish ==
    /\ thread = "work"
    /\ Entry' = [Entry EXCEPT ![Elem] = Free]
    /\ Elem' = None
    /\ thread' = "loop"
    /\ UNCHANGED <<Num, QHead, QTail, pc, wake, up, overbooked>>

Leave ==
    /\ thread = "loop"
    /\ up # "up" \/ Num = 0
    /\ thread' = "wait"
    /\ UNCHANGED <<Num, QHead, QTail, Entry, pc, Elem, wake, up, overbooked>>
-----------------------------------------------------------------------------
\* The interface is closed: first the flag ...
Halt ==
    /\ up = "up"
    /\ up' = "halting"
    /\ UNCHANGED <<Num, QHead, QTail, Entry, pc, thread, Elem, wake, overbooked>>

\* ... then MlmeHalt, which waits for the thread to end, and MlmeQueueDestroy,
\* which leaves the elements as they are.
MlmeHalt ==
    /\ up = "halting" /\ thread = "wait"
    /\ up' = "down"
    /\ Num' = 0 /\ QHead' = 0 /\ QTail' = 0
    /\ wake' = FALSE
    /\ UNCHANGED <<Entry, pc, thread, Elem, overbooked>>

\* The interface is opened again, after tasklets and timers have ended.
Open ==
    /\ up = "down"
    /\ \A p \in Procs : pc[p] = "idle"
    /\ up' = "up"
    /\ Num' = 0 /\ QHead' = 0 /\ QTail' = 0
    /\ overbooked' = FALSE
    /\ Entry' = [i \in Slots |-> Free]
    /\ UNCHANGED <<pc, thread, Elem, wake>>

Next ==
    \/ \E p \in Procs : Check(p) \/ (\E m \in Msgs : Insert(p, m)) \/ WakeUp(p)
    \/ Start \/ MlmeDequeue \/ Finish \/ Leave
    \/ Halt \/ MlmeHalt \/ Open

Spec == Init /\ [][Next]_vars

\* The thread is scheduled, and a caller that has put in its message goes on
\* to wake it.
FairSpec ==
    /\ Spec
    /\ WF_vars(Start \/ MlmeDequeue \/ Finish \/ Leave)
    /\ \A p \in Procs : WF_vars(WakeUp(p))
-----------------------------------------------------------------------------
\* Types of the ring, the callers and the thread; the ring holds no more than Max.
TypeOK ==
    /\ Num \in Nat /\ QHead \in Slots /\ QTail \in Slots
    /\ Entry \in [Slots -> [Occupied : BOOLEAN, msg : Msgs \cup {None}]]
    /\ pc \in [Procs -> {"idle", "checked", "inserted"}]
    /\ thread \in {"wait", "loop", "work"}
    /\ Elem \in Slots \cup {None}
    /\ wake \in BOOLEAN
    /\ up \in {"up", "halting", "down"}
    /\ overbooked \in BOOLEAN
    /\ overbooked \/ Num <= Max

\* The element that the state machine works on is not in the ring: no message
\* can be written over it, and freeing it frees no message that waits.
ElemApart ==
    Elem # None /\ ~overbooked => ~Pending(Elem) /\ (QTail = Elem => Checked = {})

\* Occupied marks the elements that wait and the one that is worked on.
OccupiedExact ==
    up = "up" /\ ~overbooked =>
        \A i \in Slots : Entry[i].Occupied <=> Pending(i) \/ i = Elem

\* Put in, handled whole, in order, none lost, until the ring is overbooked.
Waiting == [k \in 1 .. Num |-> Entry[(QHead + k - 1) % Max].msg]
InWork == IF Elem = None THEN None ELSE Entry[Elem].msg
Fifo == INSTANCE MlmeFifo WITH q <- Waiting, busy <- InWork
ImplementsFifo == Fifo!Init /\ [][overbooked' \/ Fifo!Next]_<<Waiting, InWork>>

\* A message that was put in is taken out, unless the interface is closed.
Handled ==
    \A i \in Slots :
        Pending(i) /\ up = "up" ~> ~Pending(i) \/ up # "up" \/ overbooked

\* "TRUE if enqueue is successful": a message that waits stays what it is.
WaitingKept ==
    [][\A i \in Slots : Pending(i) /\ Pending(i)' /\ up' # "down" => Entry'[i] = Entry[i]]_vars
=============================================================================
