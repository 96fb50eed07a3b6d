----------------------------- MODULE PowerSave -----------------------------
(***************************************************************************)
(* Frames for stations that sleep (common/ps.c and its users in ap/ap.c,   *)
(* ap/ap_data.c, common/cmm_data.c, os/linux/rt_profile.c): PsQueue of     *)
(* every station, McastPsQueue for group frames, and the TIM bits that     *)
(* announce them in the beacon.  One processor: the transmit path, the     *)
(* receive and beacon tasklets and the timers run with bottom halves off   *)
(* and are whole steps; the MLME thread, which queues action frames, is    *)
(* interrupted between its accesses.  Stations without U-APSD.             *)
(***************************************************************************)
EXTENDS Integers, Sequences

CONSTANTS
    Stations,   \* slots of the MAC table; the AID is the slot
    Group,      \* the bit of group frames, in the TIM's first byte
    MaxPs,      \* MAX_PACKETS_IN_PS_QUEUE
    MaxMcast,   \* MAX_PACKETS_IN_MCAST_PS_QUEUE
    MaxFrames,  \* bound: data frames sent in a behaviour
    Rmw         \* "|=" on a TIM byte: {"whole"}, {"torn"} or both

ASSUME PsAssumption ==
    /\ {MaxPs, MaxMcast, MaxFrames} \subseteq Nat \ {0}
    /\ Group \notin Stations
    /\ Rmw # {} /\ Rmw \subseteq {"whole", "torn"}

VARIABLES
    sst,      \* of every slot: Sst, or "NONE" if it is not in use
    mode,     \* PsMode
    psq,      \* PsQueue: data frames by number, 0 for a management frame
    idle,     \* PsQIdleCount of a station
    tim,      \* bits set in TimBitmaps, all in one byte
    mcast,    \* number of frames in McastPsQueue
    mcastIdle,\* PsQIdleCount of the MAC table
    anyPsm,   \* fAnyStationInPsm
    job,      \* the MLME thread: its step, station, and the byte it has read
    rmw,      \* what "|=" is on this machine
    next,     \* data frames given to the driver so far
    passed,   \* history: data frames of a station that went to TxSwQueue
    stale     \* history: stations that associated again with frames queued

staVars == <<sst, mode, psq, idle, passed, stale>>
groupVars == <<mcast, mcastIdle, anyPsm>>
vars == <<sst, mode, psq, idle, tim, mcast, mcastIdle, anyPsm, job, rmw, next,
          passed, stale>>

Idle == [pc |-> "idle", sta |-> Group, byte |-> {}]

Init ==
    /\ sst = [w \in Stations |-> "NONE"]
    /\ mode = [w \in Stations |-> "ACTIVE"]
    /\ psq = [w \in Stations |-> <<>>]
    /\ idle = [w \in Stations |-> 0]
    /\ tim = {}
    /\ mcast = 0 /\ mcastIdle = 0 /\ anyPsm = FALSE
    /\ job = Idle
    /\ rmw \in Rmw
    /\ next = 0
    /\ passed = [w \in Stations |-> {}]
    /\ stale = {}

Data(s) == {s[i] : i \in DOMAIN s} \ {0}
Present(w) == sst[w] # "NONE"

\* What RemoveHeadQueue takes, if anything, and leaves.
First(s) == IF s = <<>> THEN <<>> ELSE <<Head(s)>>
Rest(s) == IF s = <<>> THEN <<>> ELSE Tail(s)

\* The frames of s go to TxSwQueue.
Pass(w, s) == passed' = [passed EXCEPT ![w] = @ \cup Data(s)]
-----------------------------------------------------------------------------
(***************************************************************************)
(* The transmit path: APSendPacket for a frame of the stack.               *)
(***************************************************************************)

\* Mutant: the queue is not bounded.
InsertPsQueueUnbounded(w, n) ==
    psq' = [psq EXCEPT ![w] = Append(@, n)] /\ tim' = tim \cup {w}

\* APInsertPsQueue, whole: a full queue drops the frame.
InsertPsQueue(w, n) ==
    IF Len(psq[w]) >= MaxPs
    THEN UNCHANGED <<psq, tim>>
    ELSE psq' = [psq EXCEPT ![w] = Append(@, n)] /\ tim' = tim \cup {w}

SendPacket(w) ==
    /\ sst[w] = "ASSOC" /\ next < MaxFrames
    /\ next' = next + 1
    /\ IF mode[w] = "SAVE"
       THEN InsertPsQueue(w, next') /\ UNCHANGED passed
       ELSE Pass(w, <<next'>>) /\ UNCHANGED <<psq, tim>>
    /\ UNCHANGED <<sst, mode, idle, stale, groupVars, job, rmw>>

\* A group frame waits for the DTIM while any station sleeps.
SendGroup ==
    /\ anyPsm /\ mcast < MaxMcast
    /\ mcast' = mcast + 1
    /\ tim' = tim \cup {Group}
    /\ UNCHANGED <<staVars, mcastIdle, anyPsm, job, rmw, next>>
-----------------------------------------------------------------------------
(***************************************************************************)
(* The receive tasklet.                                                    *)
(***************************************************************************)

\* Mutant: the bit is cleared whatever is left.
ClearIfEmptyAlways(w, s) ==
    /\ tim' = tim \ {w}
    /\ idle' = [idle EXCEPT ![w] = 0]

\* The end of RtmpHandleRxPsPoll, with s left in the queue.
ClearIfEmpty(w, s) ==
    IF s = <<>>
    THEN tim' = tim \ {w} /\ idle' = [idle EXCEPT ![w] = 0]
    ELSE UNCHANGED <<tim, idle>>

\* RtmpHandleRxPsPoll for a PS-Poll: one frame, or a null frame if there is
\* none, whatever the mode.
PsPoll(w) ==
    /\ Present(w)
    /\ psq' = [psq EXCEPT ![w] = Rest(@)]
    /\ Pass(w, First(psq[w]))
    /\ ClearIfEmpty(w, Rest(psq[w]))
    /\ stale' = IF Rest(psq[w]) = <<>> THEN stale \ {w} ELSE stale
    /\ UNCHANGED <<sst, mode, groupVars, job, rmw, next>>

\* Mutant: a station that wakes is given one frame, as if it had polled.
PsIndicateOne(w, psm) ==
    /\ Present(w)
    /\ mode' = [mode EXCEPT ![w] = psm]
    /\ IF mode[w] = "SAVE" /\ psm = "ACTIVE"
       THEN /\ psq' = [psq EXCEPT ![w] = Rest(@)]
            /\ Pass(w, First(psq[w]))
            /\ ClearIfEmpty(w, Rest(psq[w]))
            /\ stale' = stale \ {w}
       ELSE UNCHANGED <<psq, tim, idle, passed, stale>>
    /\ UNCHANGED <<sst, groupVars, job, rmw, next>>

\* RtmpPsIndicate: the power management bit of a frame; a station that wakes
\* is given all its frames.
PsIndicate(w, psm) ==
    /\ Present(w)
    /\ mode' = [mode EXCEPT ![w] = psm]
    /\ IF mode[w] = "SAVE" /\ psm = "ACTIVE"
       THEN /\ psq' = [psq EXCEPT ![w] = <<>>]
            /\ Pass(w, psq[w])
            /\ ClearIfEmpty(w, <<>>)
            /\ stale' = stale \ {w}
       ELSE UNCHANGED <<psq, tim, idle, passed, stale>>
    /\ UNCHANGED <<sst, groupVars, job, rmw, next>>
-----------------------------------------------------------------------------
(***************************************************************************)
(* Timers.                                                                 *)
(***************************************************************************)

\* The beacon tasklet when DtimCount is 0: group frames go to TxSwQueue as far
\* as it has room.
Dtim ==
    /\ \E left \in 0 .. mcast :
          /\ mcast' = left
          /\ tim' = IF left = 0 THEN tim \ {Group} ELSE tim
    /\ mcastIdle' = 0
    /\ UNCHANGED <<staVars, anyPsm, job, rmw, next>>

\* Queues dropped because they were not empty in three passes.
Collect == {w \in Stations : Present(w) /\ psq[w] # <<>> /\ idle[w] >= 2}

\* Mutant: a pass that finds the station asleep counts anew.
IdleCountAwake(w) ==
    IF ~Present(w) THEN idle[w]
    ELSE IF psq[w] = <<>> \/ w \in Collect \/ mode[w] = "SAVE" THEN 0 ELSE idle[w] + 1

\* PsQIdleCount after a pass.
IdleCount(w) ==
    IF ~Present(w) THEN idle[w]
    ELSE IF psq[w] = <<>> \/ w \in Collect THEN 0 ELSE idle[w] + 1

\* MacTableMaintenance, each second; keep are stations reminded by their TIM
\* bit that they are to show themselves.
Maintenance ==
    /\ anyPsm' = \E w \in Stations : Present(w) /\ mode[w] = "SAVE"
    /\ psq' = [w \in Stations |-> IF w \in Collect THEN <<>> ELSE psq[w]]
    /\ idle' = [w \in Stations |-> IdleCount(w)]
    /\ mcast' = IF mcastIdle >= 1 THEN 0 ELSE mcast
    /\ mcastIdle' = IF mcast = 0 \/ mcastIdle >= 1 THEN 0 ELSE mcastIdle + 1
    /\ \E keep \in SUBSET {w \in Stations : Present(w) /\ mode[w] = "SAVE"} :
          tim' = ((tim \cup keep) \ Collect)
                 \ (IF mcast > 0 /\ mcastIdle >= 1 THEN {Group} ELSE {})
    /\ stale' = stale \ Collect
    /\ UNCHANGED <<sst, mode, job, rmw, next, passed>>
-----------------------------------------------------------------------------
(***************************************************************************)
(* Stations come and go in the MLME thread; MacTableMaintenance deletes    *)
(* the silent ones, also while the thread is at work.                      *)
(***************************************************************************)
Insert(w) ==
    /\ ~Present(w) /\ job = Idle
    /\ sst' = [sst EXCEPT ![w] = "AUTH"]
    /\ mode' = [mode EXCEPT ![w] = "ACTIVE"]
    /\ psq' = [psq EXCEPT ![w] = <<>>]
    /\ idle' = [idle EXCEPT ![w] = 0]
    /\ passed' = [passed EXCEPT ![w] = {}]
    /\ UNCHANGED <<tim, stale, groupVars, job, rmw, next>>

\* A station that is known authenticates again: neither its queue nor PsMode is
\* looked at.
Authenticate(w) ==
    /\ Present(w) /\ job = Idle
    /\ sst' = [sst EXCEPT ![w] = "AUTH"]
    /\ UNCHANGED <<mode, psq, idle, passed, stale, tim, groupVars, job, rmw, next>>

\* A station that associates is taken to be awake; its queue is not looked at.
Associate(w) ==
    /\ Present(w) /\ job = Idle
    /\ sst' = [sst EXCEPT ![w] = "ASSOC"]
    /\ mode' = [mode EXCEPT ![w] = "ACTIVE"]
    /\ stale' = IF psq[w] = <<>> THEN stale ELSE stale \cup {w}
    /\ UNCHANGED <<psq, idle, passed, tim, groupVars, job, rmw, next>>

\* Mutant: a station that leaves takes its queue with it.
DeleteKeepsQueue(w) ==
    /\ Present(w)
    /\ sst' = [sst EXCEPT ![w] = "NONE"]
    /\ stale' = stale \ {w}
    /\ UNCHANGED <<psq, mode, idle, passed, tim, groupVars, job, rmw, next>>

\* MacTableDeleteEntry; the TIM bit stays.
Delete(w) ==
    /\ Present(w)
    /\ sst' = [sst EXCEPT ![w] = "NONE"]
    /\ psq' = [psq EXCEPT ![w] = <<>>]
    /\ stale' = stale \ {w}
    /\ UNCHANGED <<mode, idle, passed, tim, groupVars, job, rmw, next>>
-----------------------------------------------------------------------------
(***************************************************************************)
(* An action frame sent by the MLME thread: MlmeHardTransmit looks at      *)
(* PsMode, AP_QueuePsActionPacket at the bound; the frame is inserted      *)
(* under irq_lock and the TIM bit set after it.                            *)
(***************************************************************************)
Step(pc, w, byte) == job' = [pc |-> pc, sta |-> w, byte |-> byte]

HardTransmit(w) ==
    /\ job = Idle
    /\ Present(w) /\ mode[w] = "SAVE"
    /\ Step("bound", w, {})
    /\ UNCHANGED <<staVars, tim, groupVars, rmw, next>>

ActionBound ==
    /\ job.pc = "bound"
    /\ IF Len(psq[job.sta]) >= MaxPs
       THEN job' = Idle
       ELSE Step("insert", job.sta, {})
    /\ UNCHANGED <<staVars, tim, groupVars, rmw, next>>

ActionInsert ==
    /\ job.pc = "insert"
    /\ psq' = [psq EXCEPT ![job.sta] = Append(@, 0)]
    /\ Step("announce", job.sta, {})
    /\ UNCHANGED <<sst, mode, idle, passed, stale, tim, groupVars, rmw, next>>

ActionAnnounce ==
    /\ job.pc = "announce"
    /\ IF rmw = "whole"
       THEN tim' = tim \cup {job.sta} /\ job' = Idle
       ELSE Step("store", job.sta, tim) /\ UNCHANGED tim
    /\ UNCHANGED <<staVars, groupVars, rmw, next>>

ActionStore ==
    /\ job.pc = "store"
    /\ tim' = job.byte \cup {job.sta}
    /\ job' = Idle
    /\ UNCHANGED <<staVars, groupVars, rmw, next>>

ActionFrame == ActionBound \/ ActionInsert \/ ActionAnnounce \/ ActionStore

Next ==
    \/ \E w \in Stations :
          \/ SendPacket(w) \/ PsPoll(w) \/ HardTransmit(w)
          \/ \E psm \in {"ACTIVE", "SAVE"} : PsIndicate(w, psm)
          \/ Insert(w) \/ Authenticate(w) \/ Associate(w) \/ Delete(w)
    \/ SendGroup \/ Dtim \/ Maintenance \/ ActionFrame

\* The periodic timer goes on firing; of the rest nothing is assumed.
Spec == Init /\ [][Next]_vars /\ WF_vars(Maintenance)
-----------------------------------------------------------------------------
\* Types; the bound of PsQueue, tested outside irq_lock (ps.c:61,
\* cmm_data.c:578), is exceeded by at most the thread's one frame.
TypeOK ==
    /\ sst \in [Stations -> {"NONE", "AUTH", "ASSOC"}]
    /\ mode \in [Stations -> {"ACTIVE", "SAVE"}]
    /\ psq \in [Stations -> Seq(0 .. next)]
    /\ \A w \in Stations :
          Len(psq[w]) > MaxPs => Len(psq[w]) = MaxPs + 1 /\ psq[w][MaxPs + 1] = 0
    /\ idle \in [Stations -> 0 .. 2]
    /\ tim \subseteq Stations \cup {Group}
    /\ mcast \in 0 .. MaxMcast /\ mcastIdle \in 0 .. 1 /\ anyPsm \in BOOLEAN
    /\ job \in [pc : {"idle", "bound", "insert", "announce", "store"},
                sta : Stations \cup {Group}, byte : SUBSET (Stations \cup {Group})]
    /\ rmw \in Rmw /\ next \in 0 .. MaxFrames
    /\ passed \in [Stations -> SUBSET (1 .. next)] /\ stale \subseteq Stations

\* "mark corresponding TIM bit in outgoing BEACON frame": a station that sleeps
\* learns of what is queued for it, and all learn of group frames.
TimMarks ==
    /\ \A w \in Stations :
          mode[w] = "SAVE" /\ Present(w) /\ psq[w] # <<>> =>
             w \in tim \/ (job.sta = w /\ job.pc \in {"announce", "store"})
    /\ mcast > 0 => Group \in tim

\* The TIM is right where "|=" on one of its bytes is not interrupted, whatever
\* the order of frames queued, polls, wake-ups, collections and departures.
Announced == rmw = "whole" => TimMarks

\* Data frames of a station reach TxSwQueue in the order in which the stack
\* sent them, over any number of sleeps and polls: none waits that is older than
\* one passed on.  Only a station that associated again with frames queued, and
\* is then taken to be awake, may be sent a newer frame first.
InOrder ==
    \A w \in Stations \ stale :
       /\ \A i, j \in DOMAIN psq[w] :
             i < j /\ psq[w][i] # 0 /\ psq[w][j] # 0 => psq[w][i] < psq[w][j]
       /\ \A n \in Data(psq[w]), m \in passed[w] : m < n

\* A slot that is not in use holds no data frame: the next station of the slot
\* would clear the queue and lose its memory.
NoLeak == \A w \in Stations : ~Present(w) => Data(psq[w]) = {}

\* No data frame stays queued for ever, whatever the station does: at the
\* latest it is dropped with the queue in three passes of MacTableMaintenance.
HeldLeaves ==
    \A w \in Stations, n \in 1 .. MaxFrames :
       n \in Data(psq[w]) ~> n \notin Data(psq[w])
=============================================================================
