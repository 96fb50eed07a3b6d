------------------------------- MODULE Timer -------------------------------
(***************************************************************************)
(* One RALINK_TIMER_STRUCT (common/rtmp_init.c, include/rtmp_timer.h):     *)
(* RTMPSetTimer, RTMPModTimer, RTMPCancelTimer and RTMPReleaseTimer, from  *)
(* threads and from the timer's own callback, against the callback that    *)
(* BUILD_TIMER_FUNCTION makes, which re-arms a periodic timer without      *)
(* TimerSemLock.  With one processor a callback runs whole, and not while  *)
(* the lock, which turns bottom halves off, is held; with more it runs     *)
(* beside everything.  After add_timer on a pending timer, a BUG_ON of the *)
(* kernel, nothing runs any more.                                          *)
(***************************************************************************)
EXTENDS Integers, FiniteSets

CONSTANTS
    Callers,   \* threads that use the timer
    Cb,        \* the timer's callback
    None       \* TimerSemLock is free

ASSUME TimerAssumption == Cb \notin Callers /\ None \notin Callers \cup {Cb}

VARIABLES
    smp,       \* more than one processor
    periodic,  \* PeriodicType
    halt,      \* fRTMP_ADAPTER_HALT_IN_PROGRESS | fRTMP_ADAPTER_NIC_NOT_EXIST
    valid, repeat,   \* Valid, Repeat
    state,     \* State: the timer was cancelled
    pending,   \* the kernel's timer is pending
    lock,      \* who holds TimerSemLock
    at,        \* of every thread and the callback: its step, the function it is
               \* in, *pCancelled, and (history) if its call met one to undo it
    want,      \* history: "on" after a set, "off" after a cancel, or open
    again,     \* history: a periodic timer was set while it was pending
    double     \* history: add_timer was called on a pending timer

machine == <<smp, periodic, halt>>
timer == <<valid, repeat, state, pending>>
history == <<want, again, double>>
vars == <<smp, periodic, halt, valid, repeat, state, pending, lock, at, want, again, double>>

Procs == Callers \cup {Cb}
Inner == {"add", "cancel", "set", "del", "sync", "mark"}
Outside(step) == [pc |-> step, op |-> "none", found |-> FALSE, crossed |-> FALSE]

Init ==
    /\ smp \in BOOLEAN /\ periodic \in BOOLEAN /\ halt = FALSE
    /\ valid = TRUE /\ repeat = FALSE /\ state = FALSE /\ pending = FALSE
    /\ lock = None
    /\ at = [p \in Procs |-> Outside("idle")]
    /\ want = "open" /\ again = FALSE /\ double = FALSE

At(p, step) == at[p].pc = step
Running == ~At(Cb, "idle")

\* A thread is not interrupted by the callback while it holds the lock, nor the
\* callback by anything, unless there is another processor.
Runs(p) == ~double /\ (smp \/ IF p = Cb THEN lock \in {None, Cb} ELSE ~Running)

\* A thread calls from "idle", the callback's function once, from "func".
MayCall(p) == At(p, IF p = Cb THEN "func" ELSE "idle")

\* The calls under way that p's call of f may undo, or that may undo it: of two
\* that overlap, neither is last.
Clash(f, g) == ~({f, g} \subseteq {"cancel", "release"}) /\ ~({f, g} \subseteq {"set"})
Met(p, f) == {q \in Procs \ {p} : at[q].pc \in Inner /\ Clash(at[q].op, f)}

Becomes(p, f, here) ==
    at' = [q \in Procs |-> IF q = p THEN here
                           ELSE [at[q] EXCEPT !.crossed = @ \/ q \in Met(p, f)]]

\* A cancel by the callback when State was left TRUE by a cancel that overlapped
\* a set: Repeat is not cleared, and the callback re-arms the timer.
Survives(p, f) == f \in {"cancel", "release"} /\ p = Cb /\ state /\ repeat

Enter(p, f, step) ==
    Becomes(p, f, [pc |-> step, op |-> f, found |-> FALSE,
                   crossed |-> Met(p, f) # {} \/ Survives(p, f)])

Back(p) == Outside(IF p = Cb THEN "end" ELSE "idle")
Return(p) == at' = [at EXCEPT ![p] = Back(p)]
Goto(p, step) == at' = [at EXCEPT ![p].pc = step]

\* The timer is now as the call wanted, unless another one interfered.
Wants(w, crossed) == want' = IF crossed THEN "open" ELSE w
-----------------------------------------------------------------------------
(***************************************************************************)
(* RTMPSetTimer: all under the lock; __RTMP_OS_Add_Timer looks whether the *)
(* timer is pending and then adds it, RTMP_SetPeriodicTimer does not look. *)
(***************************************************************************)
SetTimer(p) ==
    /\ state' = FALSE
    /\ repeat' = periodic
    /\ again' = (again \/ (periodic /\ pending))
    /\ UNCHANGED <<machine, valid, pending, double>>

Set(p) ==
    /\ MayCall(p) /\ lock = None /\ valid /\ ~halt
    /\ SetTimer(p)
    /\ IF pending /\ ~periodic
       THEN Becomes(p, "set", Back(p)) /\ Wants("on", Met(p, "set") # {}) /\ UNCHANGED lock
       ELSE Enter(p, "set", "add") /\ want' = "open" /\ lock' = p

Add(p) ==
    /\ At(p, "add")
    /\ double' = pending
    /\ pending' = TRUE
    /\ lock' = None
    /\ Wants("on", at[p].crossed)
    /\ Return(p)
    /\ UNCHANGED <<machine, valid, repeat, state, again>>

\* RTMPModTimer: mod_timer at once, or cancel and set if the timer is periodic.
Mod(p) ==
    /\ MayCall(p) /\ lock = None /\ valid
    /\ state' = FALSE
    /\ IF periodic
       THEN Enter(p, "mod", "cancel") /\ want' = "open" /\ UNCHANGED pending
       ELSE /\ pending' = TRUE
            /\ Becomes(p, "mod", Back(p)) /\ Wants("on", Met(p, "mod") # {})
    /\ UNCHANGED <<machine, valid, repeat, lock, again, double>>

ModSet(p) ==
    /\ At(p, "set") /\ lock = None
    /\ IF valid /\ ~halt
       THEN SetTimer(p) /\ Goto(p, "add") /\ lock' = p /\ UNCHANGED want
       ELSE Return(p) /\ UNCHANGED <<machine, timer, lock, history>>
-----------------------------------------------------------------------------
(***************************************************************************)
(* RTMPCancelTimer: Repeat under the lock, the kernel's timer without it,  *)
(* State under it again.                                                   *)
(***************************************************************************)
\* Mutant: Repeat is left to the callback.
ClearRepeatNot == UNCHANGED repeat

ClearRepeat == repeat' = IF state THEN repeat ELSE FALSE

Cancel(p) ==
    /\ MayCall(p) /\ lock = None /\ valid
    /\ ClearRepeat
    /\ Enter(p, "cancel", "del")
    /\ want' = "open"
    /\ UNCHANGED <<machine, valid, state, pending, lock, again, double>>

ModCancel(p) ==
    /\ At(p, "cancel") /\ lock = None
    /\ IF valid THEN ClearRepeat /\ Goto(p, "del")
       ELSE Goto(p, "set") /\ UNCHANGED repeat
    /\ UNCHANGED <<machine, valid, state, pending, lock, history>>

\* __RTMP_OS_Del_Timer: del_timer_sync, but only if the timer is pending, which
\* it is not while its callback runs on another processor.
DelTest(p) ==
    /\ At(p, "del")
    /\ at' = [at EXCEPT ![p].pc = IF pending THEN "sync" ELSE "mark",
                        ![p].found = TRUE,
                        ![p].crossed = @ \/ (p # Cb /\ Running)]
    /\ UNCHANGED <<machine, timer, lock, history>>

\* Mutant: the timer stays with the kernel.
DelSyncNot(p) ==
    /\ At(p, "sync") /\ ~Running
    /\ at' = [at EXCEPT ![p].pc = "mark", ![p].found = pending]
    /\ UNCHANGED <<machine, timer, lock, history>>

\* del_timer_sync waits for the callback and takes the timer from the kernel.
DelSync(p) ==
    /\ At(p, "sync") /\ ~Running
    /\ at' = [at EXCEPT ![p].pc = "mark", ![p].found = pending]
    /\ pending' = FALSE
    /\ UNCHANGED <<machine, valid, repeat, state, lock, history>>

Mark(p) ==
    /\ At(p, "mark") /\ at[p].op # "release" /\ lock = None
    /\ state' = (state \/ at[p].found)
    /\ IF at[p].op = "mod" THEN Goto(p, "set") /\ UNCHANGED want
       ELSE Return(p) /\ Wants("off", at[p].crossed)
    /\ UNCHANGED <<machine, valid, repeat, pending, lock, again, double>>
-----------------------------------------------------------------------------
(***************************************************************************)
(* RTMPReleaseTimer: the same, with the lock held throughout.              *)
(***************************************************************************)
Release(p) ==
    /\ MayCall(p) /\ lock = None /\ valid
    /\ ClearRepeat
    /\ Enter(p, "release", "del")
    /\ lock' = p
    /\ want' = "open"
    /\ UNCHANGED <<machine, valid, state, pending, again, double>>

\* Mutant: the lock is not given back.
ReleaseEndLocked(p) ==
    /\ At(p, "mark") /\ at[p].op = "release"
    /\ state' = (state \/ at[p].found)
    /\ valid' = FALSE
    /\ Return(p) /\ Wants("off", at[p].crossed)
    /\ UNCHANGED <<machine, repeat, pending, lock, again, double>>

ReleaseEnd(p) ==
    /\ At(p, "mark") /\ at[p].op = "release"
    /\ state' = (state \/ at[p].found)
    /\ valid' = FALSE
    /\ lock' = None
    /\ Return(p) /\ Wants("off", at[p].crossed)
    /\ UNCHANGED <<machine, repeat, pending, again, double>>

\* RTMPInitTimer, by a thread, of a timer that was released.
InitTimer(p) ==
    /\ MayCall(p) /\ p # Cb /\ lock = None /\ ~valid
    /\ valid' = TRUE /\ state' = FALSE
    /\ UNCHANGED <<machine, repeat, pending, lock, at, history>>
-----------------------------------------------------------------------------
(***************************************************************************)
(* The callback: rtmp_timer_<func>.                                        *)
(***************************************************************************)
Fire ==
    /\ pending /\ ~Running
    /\ pending' = FALSE
    /\ Goto(Cb, "func")
    /\ want' = IF want = "on" /\ ~periodic THEN "open" ELSE want
    /\ UNCHANGED <<machine, valid, repeat, state, lock, again, double>>

\* "if (pTimer->Repeat)"
FuncEnd ==
    /\ at[Cb].pc \in {"func", "end"}
    /\ Goto(Cb, IF repeat THEN "rearm" ELSE "idle")
    /\ UNCHANGED <<machine, timer, lock, history>>

\* Mutant: a timer found pending is added again.
RearmBlindly ==
    /\ At(Cb, "rearm")
    /\ Goto(Cb, "readd")
    /\ UNCHANGED <<machine, timer, lock, history>>

Rearm ==
    /\ At(Cb, "rearm")
    /\ Goto(Cb, IF pending THEN "idle" ELSE "readd")
    /\ UNCHANGED <<machine, timer, lock, history>>

Readd ==
    /\ At(Cb, "readd")
    /\ double' = pending
    /\ pending' = TRUE
    /\ Goto(Cb, "idle")
    /\ UNCHANGED <<machine, valid, repeat, state, lock, want, again>>

\* The adapter is halted, or started again; a timer that runs is not stopped.
Halt ==
    /\ ~double
    /\ halt' = ~halt
    /\ UNCHANGED <<smp, periodic, timer, lock, at, history>>

\* The rest of a function that was called.
Continue(p) ==
    /\ Runs(p)
    /\ \/ Add(p) \/ ModSet(p) \/ ModCancel(p) \/ DelTest(p) \/ DelSync(p)
       \/ Mark(p) \/ ReleaseEnd(p)

Callback == Runs(Cb) /\ (FuncEnd \/ Rearm \/ Readd)

Next ==
    \/ \E p \in Procs : Runs(p) /\ (Set(p) \/ Mod(p) \/ Cancel(p) \/ Release(p))
    \/ \E p \in Callers : Runs(p) /\ InitTimer(p)
    \/ Runs(Cb) /\ Fire
    \/ \E p \in Procs : Continue(p)
    \/ Callback \/ Halt

\* What has begun goes on; the lock is a ticket lock, and del_timer_sync looks
\* again and again.
Fairness == WF_vars(Callback) /\ \A p \in Procs : SF_vars(Continue(p))
Spec == Init /\ [][Next]_vars /\ Fairness
-----------------------------------------------------------------------------
TypeOK ==
    /\ {smp, periodic, halt, valid, repeat, state, pending, again, double} \subseteq BOOLEAN
    /\ lock \in Procs \cup {None}
    /\ at \in [Procs -> [pc : Inner \cup {"idle", "func", "end", "rearm", "readd"},
                         op : {"none", "set", "mod", "cancel", "release"},
                         found : BOOLEAN, crossed : BOOLEAN]]
    /\ want \in {"on", "off", "open"}
    /\ At(Cb, "end") => lock # Cb
    /\ \A p \in Procs : lock = p => at[p].pc \in Inner

\* A timer that was set fires, a periodic one again and again, until it is
\* cancelled; one that was cancelled or released does not, until it is set
\* again.  Left open are calls that overlap, a cancel that found the callback
\* running on another processor, which may re-arm the timer after it, and one
\* by the callback itself when State does not tell that the timer was set.
KeepsPromise ==
    /\ want = "on" => pending \/ Running
    /\ want = "off" => ~pending /\ at[Cb].pc \notin {"rearm", "readd"}

\* add_timer is never called on a pending timer, which the kernel treats as a
\* bug, unless a caller sets a periodic timer that is still pending, or its
\* unlocked re-arming meets a set on another processor.
AddedOnce == double => periodic /\ (smp \/ again)

\* del_timer_sync waits for a callback which waits for the lock of the release
\* that deletes the timer, or which is itself the one that deletes it.
Hung == \/ At(Cb, "sync")
        \/ /\ lock # None /\ at[lock].op = "release" /\ At(lock, "sync")
           /\ at[Cb].pc \in {"func", "cancel", "mark", "set"}

\* Every call returns and every callback ends: with one processor always, with
\* more unless a release, or the callback itself, waits for the callback.
Returns == \A p \in Procs : ~At(p, "idle") ~> (At(p, "idle") \/ (smp /\ Hung) \/ double)
=============================================================================
