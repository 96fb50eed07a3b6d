---------------------------- MODULE TimerProofs ----------------------------
(***************************************************************************)
(* Proofs about Timer, for any number of threads, with one processor and   *)
(* with more: the timer keeps the promise of the last call, and add_timer  *)
(* is called on a pending timer in the known cases only.                   *)
(***************************************************************************)
EXTENDS Timer, TLAPS

Ends == {"cancel", "release"}   \* the functions that stop the timer
StepSet == [pc : Inner \cup {"idle", "func", "end", "rearm", "readd"},
            op : {"none", "set", "mod", "cancel", "release"},
            found : BOOLEAN, crossed : BOOLEAN]

Types ==
    /\ smp \in BOOLEAN /\ periodic \in BOOLEAN /\ halt \in BOOLEAN /\ valid \in BOOLEAN
    /\ repeat \in BOOLEAN /\ state \in BOOLEAN /\ pending \in BOOLEAN
    /\ again \in BOOLEAN /\ double \in BOOLEAN
    /\ lock \in Procs \cup {None}
    /\ at \in [Procs -> StepSet]
    /\ want \in {"on", "off", "open"}

\* What a thread or the callback does inside a function.
InStep(p) ==
    /\ at[p].pc \in {"cancel", "set"} => at[p].op = "mod"
    /\ at[p].pc \in {"del", "sync", "mark"} => at[p].op \in Ends \cup {"mod"}
    /\ at[p].pc = "add" => at[p].op \in {"set", "mod"}
    /\ lock = p => at[p].pc \in Inner
    /\ at[p].pc \in Inner /\ at[p].op = "release" => lock = p
    /\ at[p].pc \in Inner /\ at[p].op = "mod" => periodic
Steps == \A p \in Procs : InStep(p)

\* Who adds the timer holds the lock and has set Repeat; a timer that is not
\* periodic it found not pending.
Adding(p) ==
    at[p].pc = "add" => /\ lock = p /\ repeat = periodic
                        /\ ~periodic => ~pending
                        /\ ~smp /\ pending => again
Periods ==
    /\ repeat => periodic
    /\ at[Cb].pc \in {"rearm", "readd"} => periodic
    /\ ~smp /\ at[Cb].pc = "readd" => ~pending
    /\ \A p \in Procs : Adding(p)
    /\ double => periodic /\ (smp \/ again)

\* Calls that overlap and may undo each other both know of it.
Crossing ==
    \A p, q \in Procs :
       /\ p # q /\ at[p].pc \in Inner /\ at[q].pc \in Inner
       /\ Clash(at[p].op, at[q].op)
       => at[p].crossed /\ at[q].crossed

\* The timer is stopped for good: it is not pending, and the callback, if it
\* runs, does not re-arm it.
Stopped ==
    /\ ~pending /\ at[Cb].pc \notin {"rearm", "readd"}
    /\ at[Cb].pc # "idle" => ~repeat

\* A cancel that met nobody stops the timer before it returns.
Stopping(p) ==
    at[p].op \in Ends /\ ~at[p].crossed =>
       /\ at[p].pc = "mark" => Stopped
       /\ p = Cb /\ at[p].pc \in Inner => ~repeat

\* After the last call only calls that ask for the same are under way.
Promise ==
    /\ want = "on" =>
          /\ \A p \in Procs : at[p].pc \in Inner => at[p].op = "set"
          /\ IF periodic THEN repeat /\ (pending \/ at[Cb].pc # "idle") ELSE pending
    /\ want = "off" =>
          /\ \A p \in Procs : at[p].pc \in Inner => at[p].op \in Ends
          /\ Stopped

Calls == Crossing /\ Promise /\ \A p \in Procs : Stopping(p)

IInv == Types /\ Steps /\ Periods /\ Calls
-----------------------------------------------------------------------------
LEMMA ClashIff ==
    ASSUME NEW f, NEW g
    PROVE  /\ Clash(f, g) <=> ~(f \in Ends /\ g \in Ends) /\ ~(f = "set" /\ g = "set")
           /\ Clash(f, g) <=> Clash(g, f)
BY DEF Clash, Ends

\* What a step of p leaves of the others.
Others(p) ==
    \A q \in Procs : q # p => /\ at'[q].pc = at[q].pc /\ at'[q].op = at[q].op
                              /\ at[q].crossed => at'[q].crossed

\* A call of f is noted by those that it may undo.
LEMMA Becoming ==
    ASSUME Types, NEW p \in Procs, NEW f, NEW here \in StepSet, Becomes(p, f, here)
    PROVE  /\ at' \in [Procs -> StepSet] /\ at'[p] = here /\ Others(p)
           /\ \A q \in Procs : q # p /\ at[q].pc \in Inner /\ Clash(at[q].op, f) =>
                 q \in Met(p, f) /\ at'[q].crossed
<1>1. at' = [q \in Procs |-> IF q = p THEN here
                             ELSE [at[q] EXCEPT !.crossed = @ \/ q \in Met(p, f)]]
  BY DEF Becomes
<1>2. \A q \in Procs : at[q] \in StepSet
  BY DEF Types
<1>3. ASSUME NEW q \in Procs, q # p
      PROVE  /\ at'[q] \in StepSet
             /\ at'[q].pc = at[q].pc /\ at'[q].op = at[q].op
             /\ at'[q].crossed = (at[q].crossed \/ q \in Met(p, f))
  <2>1. at'[q] = [at[q] EXCEPT !.crossed = @ \/ q \in Met(p, f)]
    BY <1>1, <1>3
  <2>2. (at[q].crossed \/ q \in Met(p, f)) \in BOOLEAN
    OBVIOUS
  <2>3. QED
    BY <1>2, <2>1, <2>2 DEF StepSet
<1>4. at'[p] = here
  BY <1>1
<1>5. at' \in [Procs -> StepSet]
  BY <1>1, <1>3, <1>4
<1>6. Others(p)
  BY <1>3 DEF Others
<1>7. \A q \in Procs : q # p /\ at[q].pc \in Inner /\ Clash(at[q].op, f) => q \in Met(p, f)
  BY DEF Met
<1>8. QED
  BY <1>3, <1>4, <1>5, <1>6, <1>7

\* A step within a call, or its end, adds no pair of calls.
LEMMA CrossingKept ==
    ASSUME Types, Crossing, NEW p \in Procs, Others(p),
           at'[p].pc \in Inner => /\ at[p].pc \in Inner /\ at'[p].op = at[p].op
                                  /\ at[p].crossed => at'[p].crossed
    PROVE  Crossing'
BY DEF Crossing, Others, Clash

\* A call that begins is in step here, and knows of those that it crosses.
LEMMA Entering ==
    ASSUME Types, Crossing, NEW p \in Procs, MayCall(p),
           NEW f \in {"set", "mod", "cancel", "release"}, NEW step \in Inner,
           Enter(p, f, step)
    PROVE  /\ at' \in [Procs -> StepSet] /\ Others(p) /\ Crossing'
           /\ at'[p].pc = step /\ at'[p].op = f
           /\ Survives(p, f) => at'[p].crossed
           /\ \A q \in Procs : q # p /\ at[q].pc \in Inner /\ Clash(at[q].op, f) =>
                 at'[q].crossed
<1> DEFINE here == [pc |-> step, op |-> f, found |-> FALSE,
                    crossed |-> Met(p, f) # {} \/ Survives(p, f)]
<1>1. here \in StepSet /\ here.pc = step /\ here.op = f
  BY DEF StepSet, Inner
<1>2. here.crossed = (Met(p, f) # {} \/ Survives(p, f))
  OBVIOUS
<1>3. Becomes(p, f, here)
  BY DEF Enter
<1> HIDE DEF here
<1>4. /\ at' \in [Procs -> StepSet] /\ at'[p] = here /\ Others(p)
      /\ \A q \in Procs : q # p /\ at[q].pc \in Inner /\ Clash(at[q].op, f) =>
            q \in Met(p, f) /\ at'[q].crossed
  BY <1>1, <1>3, Becoming
<1>5. \A q \in Procs : q # p /\ at[q].pc \in Inner /\ Clash(at[q].op, f) => at'[p].crossed
  BY <1>2, <1>4
<1>6. Crossing'
  BY <1>1, <1>4, <1>5, ClashIff DEF Crossing, Others
<1>7. QED
  BY <1>1, <1>2, <1>4, <1>6

\* A call that returns at once.
LEMMA Returning ==
    ASSUME Types, Crossing, NEW p \in Procs, NEW f, Becomes(p, f, Back(p))
    PROVE  /\ at' \in [Procs -> StepSet] /\ Others(p) /\ Crossing'
           /\ at'[p].pc = (IF p = Cb THEN "end" ELSE "idle")
           /\ \A q \in Procs : q # p /\ at[q].pc \in Inner /\ Clash(at[q].op, f) =>
                 q \in Met(p, f) /\ at'[q].crossed
<1>1. Back(p) \in StepSet /\ Back(p).pc = (IF p = Cb THEN "end" ELSE "idle")
  BY DEF Back, Outside, StepSet
<1>2. /\ at' \in [Procs -> StepSet] /\ at'[p] = Back(p) /\ Others(p)
      /\ \A q \in Procs : q # p /\ at[q].pc \in Inner /\ Clash(at[q].op, f) =>
            q \in Met(p, f) /\ at'[q].crossed
  BY <1>1, Becoming
<1>3. at'[p].pc \notin Inner
  BY <1>1, <1>2 DEF Inner
<1>4. Crossing'
  BY <1>2, <1>3, CrossingKept
<1>5. QED
  BY <1>1, <1>2, <1>4

\* A call goes on, or returns; the others do not see it.
LEMMA Going ==
    ASSUME Types, Crossing, NEW p \in Procs, NEW step \in Inner, at[p].pc \in Inner,
           Goto(p, step)
    PROVE  /\ at' \in [Procs -> StepSet] /\ Others(p) /\ Crossing'
           /\ at'[p].pc = step /\ at'[p].op = at[p].op /\ at'[p].crossed = at[p].crossed
<1>1. at' = [at EXCEPT ![p].pc = step] /\ at[p] \in StepSet /\ at \in [Procs -> StepSet]
  BY DEF Goto, Types
<1>2. /\ at'[p].pc = step /\ at'[p].op = at[p].op /\ at'[p].crossed = at[p].crossed
      /\ at'[p] \in StepSet
  BY <1>1 DEF StepSet
<1>3. \A q \in Procs : q # p => at'[q] = at[q]
  BY <1>1
<1>4. at' \in [Procs -> StepSet] /\ Others(p)
  BY <1>1, <1>2, <1>3 DEF Others
<1>5. QED
  BY <1>2, <1>4, CrossingKept

LEMMA Leaving ==
    ASSUME Types, Crossing, NEW p \in Procs, Return(p)
    PROVE  /\ at' \in [Procs -> StepSet] /\ Others(p) /\ Crossing'
           /\ at'[p].pc = (IF p = Cb THEN "end" ELSE "idle")
<1>1. at' = [at EXCEPT ![p] = Back(p)] /\ at \in [Procs -> StepSet]
  BY DEF Return, Types
<1>2. Back(p) \in StepSet /\ Back(p).pc = (IF p = Cb THEN "end" ELSE "idle")
  BY DEF Back, Outside, StepSet
<1>3. at'[p] = Back(p) /\ \A q \in Procs : q # p => at'[q] = at[q]
  BY <1>1
<1>4. at' \in [Procs -> StepSet] /\ Others(p) /\ at'[p].pc \notin Inner
  BY <1>1, <1>2, <1>3 DEF Others, Inner
<1>5. QED
  BY <1>2, <1>3, <1>4, CrossingKept
-----------------------------------------------------------------------------
LEMMA InitHolds == Init => IInv
<1>1. SUFFICES ASSUME Init
               PROVE  IInv
  OBVIOUS
<1>2. Outside("idle") \in StepSet /\ Outside("idle").pc = "idle"
  BY DEF Outside, StepSet
<1>3. at \in [Procs -> StepSet] /\ \A p \in Procs : at[p].pc = "idle"
  BY <1>1, <1>2 DEF Init
<1>4. Types
  BY <1>1, <1>3 DEF Init, Types
<1>5. Steps
  BY <1>1, <1>3, TimerAssumption DEF Init, Steps, InStep, Procs, Inner
<1>6. Cb \in Procs
  BY DEF Procs
<1>7. Periods
  BY <1>1, <1>3, <1>6 DEF Init, Periods, Adding
<1>8. Crossing /\ Promise
  BY <1>1, <1>3 DEF Init, Crossing, Promise, Inner
<1>9. \A p \in Procs : Stopping(p)
  BY <1>3 DEF Stopping, Inner
<1>10. QED
  BY <1>4, <1>5, <1>7, <1>8, <1>9 DEF IInv, Calls

\* With one processor a thread does not run beside the callback.
LEMMA Alone ==
    ASSUME NEW p \in Procs, Runs(p), ~smp, p # Cb
    PROVE  at[Cb].pc = "idle"
BY DEF Runs, Running, At

\* A call that begins: no thread is done yet.
LEMMA SetLongKeeps ==
    ASSUME IInv, NEW p \in Procs, Runs(p), Set(p), ~(pending /\ ~periodic)
    PROVE  IInv'
<1>1. /\ Types /\ Steps /\ Periods /\ Crossing /\ \A q \in Procs : Stopping(q)
      /\ Cb \in Procs
  BY DEF IInv, Calls, Procs
<1>2. /\ MayCall(p) /\ lock = None /\ lock' = p /\ want' = "open" /\ state' = FALSE
      /\ repeat' = periodic /\ again' = (again \/ (periodic /\ pending))
      /\ UNCHANGED <<smp, periodic, halt, valid, pending, double>>
      /\ Enter(p, "set", "add")
  BY DEF Set, SetTimer, machine
<1>3. /\ at' \in [Procs -> StepSet] /\ Others(p) /\ Crossing'
      /\ at'[p].pc = "add" /\ at'[p].op = "set"
      /\ \A q \in Procs : q # p /\ at[q].pc \in Inner /\ Clash(at[q].op, "set") =>
            at'[q].crossed
  BY <1>1, <1>2, Entering DEF Inner
<1>4. Types'
  BY <1>1, <1>2, <1>3 DEF Types
<1>5. Steps'
  BY <1>1, <1>2, <1>3, TimerAssumption DEF Steps, InStep, Others, Inner, Procs
<1>6. Periods'
  BY <1>1, <1>2, <1>3, TimerAssumption DEF Periods, Adding, Others, Procs
<1>7. Promise'
  BY <1>2 DEF Promise
<1>8. \A q \in Procs : Stopping(q)'
  BY <1>1, <1>2, <1>3, ClashIff DEF Stopping, Others, Ends, Steps, InStep, Inner
<1>9. QED
  BY <1>3, <1>4, <1>5, <1>6, <1>7, <1>8 DEF IInv, Calls

\* A timer that is pending and not periodic is left as it is.
LEMMA SetShortKeeps ==
    ASSUME IInv, NEW p \in Procs, Runs(p), Set(p), pending, ~periodic
    PROVE  IInv'
<1>1. /\ Types /\ Steps /\ Periods /\ Crossing /\ \A q \in Procs : Stopping(q)
      /\ Cb \in Procs
  BY DEF IInv, Calls, Procs
<1>2. /\ MayCall(p) /\ lock = None /\ state' = FALSE
      /\ repeat' = periodic /\ again' = (again \/ (periodic /\ pending))
      /\ UNCHANGED <<smp, periodic, halt, valid, pending, double, lock>>
      /\ Becomes(p, "set", Back(p)) /\ want' = IF Met(p, "set") # {} THEN "open" ELSE "on"
  BY DEF Set, SetTimer, Wants, machine
<1>3. /\ at' \in [Procs -> StepSet] /\ Others(p) /\ Crossing'
      /\ at'[p].pc = (IF p = Cb THEN "end" ELSE "idle")
      /\ \A q \in Procs : q # p /\ at[q].pc \in Inner /\ Clash(at[q].op, "set") =>
            q \in Met(p, "set") /\ at'[q].crossed
  BY <1>1, <1>2, Returning
<1>4. Types'
  BY <1>1, <1>2, <1>3 DEF Types
<1>5. Steps'
  BY <1>1, <1>2, <1>3, TimerAssumption DEF Steps, InStep, Others, Inner, Procs
<1>6. Periods'
  BY <1>1, <1>2, <1>3, TimerAssumption DEF Periods, Adding, Others, Procs
<1>7. Promise'
  <2>1. SUFFICES ASSUME Met(p, "set") = {}, want' = "on"
                 PROVE  /\ \A q \in Procs : at'[q].pc \in Inner => at'[q].op = "set"
                        /\ pending'
    BY <1>2 DEF Promise
  <2>2. \A q \in Procs : at'[q].pc \in Inner => at'[q].op = "set"
    BY <1>3, <2>1, ClashIff DEF Others, Inner, Ends
  <2>3. QED
    BY <1>2, <2>2
<1>8. \A q \in Procs : Stopping(q)'
  BY <1>1, <1>2, <1>3, ClashIff DEF Stopping, Others, Ends, Steps, InStep, Inner
<1>9. QED
  BY <1>3, <1>4, <1>5, <1>6, <1>7, <1>8 DEF IInv, Calls

LEMMA AddKeeps ==
    ASSUME IInv, NEW p \in Procs, Runs(p), Add(p)
    PROVE  IInv'
<1>1. /\ Types /\ Steps /\ Periods /\ Crossing /\ Promise /\ \A q \in Procs : Stopping(q)
      /\ Cb \in Procs
  BY DEF IInv, Calls, Procs
<1>2. /\ at[p].pc = "add" /\ at[p].op \in {"set", "mod"} /\ lock = p /\ repeat = periodic
      /\ ~periodic => ~pending
      /\ ~smp /\ pending => again
  BY <1>1 DEF Add, At, Steps, InStep, Periods, Adding
<1>3. /\ double' = pending /\ pending' = TRUE /\ lock' = None /\ Return(p)
      /\ want' = IF at[p].crossed THEN "open" ELSE "on"
      /\ UNCHANGED <<smp, periodic, halt, valid, repeat, state, again>>
  BY DEF Add, Wants, machine
<1>4. /\ at' \in [Procs -> StepSet] /\ Others(p) /\ Crossing'
      /\ at'[p].pc = (IF p = Cb THEN "end" ELSE "idle")
      /\ \A q \in Procs : q # p => at'[q] = at[q]
  BY <1>1, <1>3, Leaving DEF Return, Types
<1>5. Types'
  BY <1>1, <1>3, <1>4 DEF Types
<1>6. Steps'
  BY <1>1, <1>2, <1>3, <1>4, TimerAssumption DEF Steps, InStep, Others, Inner, Procs
<1>7. Periods'
  <2>1. \A q \in Procs : q # p => at[q].pc # "add"
    BY <1>1, <1>2 DEF Periods, Adding
  <2>2. at'[Cb].pc \in {"rearm", "readd"} => at[Cb].pc = at'[Cb].pc /\ Cb # p
    BY <1>1, <1>4
  <2>3. ~smp => at'[Cb].pc # "readd"
    BY <2>2, Alone
  <2>4. \A q \in Procs : Adding(q)'
    BY <1>4, <2>1 DEF Adding
  <2>5. QED
    BY <1>1, <1>2, <1>3, <2>2, <2>3, <2>4 DEF Periods
<1>8. Promise'
  <2>1. SUFFICES ASSUME ~at[p].crossed
                 PROVE  /\ \A q \in Procs : at'[q].pc \in Inner => at'[q].op = "set"
                        /\ periodic => repeat
    BY <1>3 DEF Promise
  <2>2. ASSUME NEW q \in Procs, at'[q].pc \in Inner
        PROVE  at'[q].op = "set"
    <3>1. q # p
      BY <1>4, <2>2 DEF Inner
    <3>2. at[q].pc \in Inner /\ at[p].pc \in Inner
      BY <1>2, <1>4, <2>2, <3>1 DEF Inner
    <3>3. ~Clash(at[p].op, at[q].op)
      BY <1>1, <2>1, <3>1, <3>2 DEF Crossing
    <3>4. QED
      BY <1>2, <1>4, <3>1, <3>3, ClashIff DEF Ends
  <2>3. QED
    BY <1>2, <2>2
<1>9. \A q \in Procs : Stopping(q)'
  <2>1. SUFFICES ASSUME NEW q \in Procs, at'[q].op \in Ends, ~at'[q].crossed,
                        at'[q].pc \in Inner
                 PROVE  FALSE
    BY <1>3 DEF Stopping, Inner
  <2>2. q # p /\ at'[q] = at[q]
    BY <1>4, <2>1 DEF Inner
  <2>3. Clash(at[p].op, at[q].op)
    BY <1>2, <2>1, <2>2, ClashIff DEF Ends
  <2>4. QED
    BY <1>1, <1>2, <2>1, <2>2, <2>3 DEF Crossing, Inner
<1>10. QED
  BY <1>4, <1>5, <1>6, <1>7, <1>8, <1>9 DEF IInv, Calls

LEMMA ModShortKeeps ==
    ASSUME IInv, NEW p \in Procs, Runs(p), Mod(p), ~periodic
    PROVE  IInv'
<1>1. /\ Types /\ Steps /\ Periods /\ Crossing /\ \A q \in Procs : Stopping(q)
      /\ Cb \in Procs
  BY DEF IInv, Calls, Procs
<1>2. /\ lock = None /\ pending' = TRUE /\ state' = FALSE /\ Becomes(p, "mod", Back(p))
      /\ want' = IF Met(p, "mod") # {} THEN "open" ELSE "on"
      /\ UNCHANGED <<smp, periodic, halt, valid, repeat, lock, again, double>>
  BY DEF Mod, Wants, machine
<1>3. /\ at' \in [Procs -> StepSet] /\ Others(p) /\ Crossing'
      /\ at'[p].pc = (IF p = Cb THEN "end" ELSE "idle")
      /\ \A q \in Procs : q # p /\ at[q].pc \in Inner /\ Clash(at[q].op, "mod") =>
            q \in Met(p, "mod") /\ at'[q].crossed
  BY <1>1, <1>2, Returning
<1>4. Types'
  BY <1>1, <1>2, <1>3 DEF Types
<1>5. Steps'
  BY <1>1, <1>2, <1>3, TimerAssumption DEF Steps, InStep, Others, Inner, Procs
<1>6. Periods'
  <2>1. \A q \in Procs : at'[q].pc # "add"
    BY <1>1, <1>2, <1>3, TimerAssumption DEF Periods, Adding, Others, Procs
  <2>2. at'[Cb].pc \notin {"rearm", "readd"}
    BY <1>1, <1>3 DEF Periods, Others
  <2>3. QED
    BY <1>1, <1>2, <2>1, <2>2 DEF Periods, Adding
<1>7. Promise'
  <2>1. SUFFICES ASSUME Met(p, "mod") = {}, want' = "on"
                 PROVE  \A q \in Procs : at'[q].pc \in Inner => at'[q].op = "set"
    BY <1>2 DEF Promise
  <2>2. QED
    BY <1>3, <2>1, ClashIff DEF Others, Inner, Ends
<1>8. \A q \in Procs : Stopping(q)'
  BY <1>1, <1>2, <1>3, ClashIff DEF Stopping, Others, Ends, Steps, InStep, Inner
<1>9. QED
  BY <1>3, <1>4, <1>5, <1>6, <1>7, <1>8 DEF IInv, Calls

LEMMA ModLongKeeps ==
    ASSUME IInv, NEW p \in Procs, Runs(p), Mod(p), periodic
    PROVE  IInv'
<1>1. /\ Types /\ Steps /\ Periods /\ Crossing /\ \A q \in Procs : Stopping(q)
      /\ Cb \in Procs
  BY DEF IInv, Calls, Procs
<1>2. /\ MayCall(p) /\ lock = None /\ want' = "open" /\ state' = FALSE
      /\ Enter(p, "mod", "cancel")
      /\ UNCHANGED <<smp, periodic, halt, valid, repeat, pending, lock, again, double>>
  BY DEF Mod, machine
<1>3. /\ at' \in [Procs -> StepSet] /\ Others(p) /\ Crossing'
      /\ at'[p].pc = "cancel" /\ at'[p].op = "mod"
      /\ \A q \in Procs : q # p /\ at[q].pc \in Inner /\ Clash(at[q].op, "mod") =>
            at'[q].crossed
  BY <1>1, <1>2, Entering DEF Inner
<1>4. Types'
  BY <1>1, <1>2, <1>3 DEF Types
<1>5. Steps'
  BY <1>1, <1>2, <1>3, TimerAssumption DEF Steps, InStep, Others, Inner, Procs
<1>6. Periods'
  BY <1>1, <1>2, <1>3, TimerAssumption DEF Periods, Adding, Others, Procs
<1>7. Promise'
  BY <1>2 DEF Promise
<1>8. \A q \in Procs : Stopping(q)'
  BY <1>1, <1>2, <1>3, ClashIff DEF Stopping, Others, Ends, Steps, InStep, Inner
<1>9. QED
  BY <1>3, <1>4, <1>5, <1>6, <1>7, <1>8 DEF IInv, Calls

\* RTMPModTimer's second half: a call of "mod" is under way, so nothing is
\* promised.
LEMMA ModSetKeeps ==
    ASSUME IInv, NEW p \in Procs, Runs(p), ModSet(p)
    PROVE  IInv'
<1>1. /\ Types /\ Steps /\ Periods /\ Crossing /\ Promise /\ \A q \in Procs : Stopping(q)
      /\ Cb \in Procs
  BY DEF IInv, Calls, Procs
<1>2. at[p].pc = "set" /\ at[p].op = "mod" /\ at[p].pc \in Inner /\ lock = None
  BY <1>1 DEF ModSet, At, Steps, InStep, Inner
<1>3. want = "open"
  BY <1>1, <1>2 DEF Promise, Types, Ends
<1>4. \A q \in Procs : q # p /\ at[q].pc \in Inner /\ at[q].op \in Ends => at[q].crossed
  BY <1>1, <1>2, ClashIff DEF Crossing, Ends
<1>5. CASE valid /\ ~halt
  <2>1. /\ lock' = p /\ state' = FALSE /\ Goto(p, "add")
        /\ repeat' = periodic /\ again' = (again \/ (periodic /\ pending))
        /\ UNCHANGED <<smp, periodic, halt, valid, pending, double, want>>
    BY <1>5 DEF ModSet, SetTimer, machine
  <2>2. /\ at' \in [Procs -> StepSet] /\ Others(p) /\ Crossing'
        /\ at'[p].pc = "add" /\ at'[p].op = "mod"
    BY <1>1, <1>2, <2>1, Going DEF Inner
  <2>3. Types'
    BY <1>1, <2>1, <2>2 DEF Types
  <2>4. Steps'
    BY <1>1, <1>2, <2>1, <2>2, TimerAssumption DEF Steps, InStep, Others, Inner, Procs
  <2>5. Periods'
    <3>1. periodic
      BY <1>1, <1>2 DEF Steps, InStep
    <3>2. QED
      BY <1>1, <1>2, <2>1, <2>2, <3>1, TimerAssumption DEF Periods, Adding, Others, Procs
  <2>6. Promise' /\ \A q \in Procs : Stopping(q)'
    BY <1>1, <1>2, <1>3, <1>4, <2>1, <2>2 DEF Promise, Stopping, Others, Ends, Inner
  <2>7. QED
    BY <2>2, <2>3, <2>4, <2>5, <2>6 DEF IInv, Calls
<1>6. CASE ~(valid /\ ~halt)
  <2>1. /\ Return(p)
        /\ UNCHANGED <<smp, periodic, halt, valid, repeat, state, pending, lock, want,
                       again, double>>
    BY <1>6 DEF ModSet, machine, timer, history
  <2>2. /\ at' \in [Procs -> StepSet] /\ Others(p) /\ Crossing'
        /\ at'[p].pc = (IF p = Cb THEN "end" ELSE "idle")
        /\ \A q \in Procs : q # p => at'[q] = at[q]
    BY <1>1, <2>1, Leaving DEF Return, Types
  <2>3. Types'
    BY <1>1, <2>1, <2>2 DEF Types
  <2>4. Steps'
    BY <1>1, <1>2, <2>1, <2>2, TimerAssumption DEF Steps, InStep, Others, Inner, Procs
  <2>5. Periods'
    BY <1>1, <1>2, <2>1, <2>2, TimerAssumption DEF Periods, Adding, Others, Procs
  <2>6. Promise' /\ \A q \in Procs : Stopping(q)'
    BY <1>1, <1>2, <1>3, <1>4, <2>1, <2>2 DEF Promise, Stopping, Others, Ends, Inner
  <2>7. QED
    BY <2>2, <2>3, <2>4, <2>5, <2>6 DEF IInv, Calls
<1>7. QED
  BY <1>5, <1>6

\* A cancel or release begins.
LEMMA StopKeeps ==
    ASSUME IInv, NEW p \in Procs, Runs(p), NEW f \in Ends, MayCall(p), lock = None,
           ClearRepeat, Enter(p, f, "del"), want' = "open",
           lock' = IF f = "release" THEN p ELSE lock,
           UNCHANGED <<smp, periodic, halt, valid, state, pending, again, double>>
    PROVE  IInv'
<1>1. /\ Types /\ Steps /\ Periods /\ Crossing /\ \A q \in Procs : Stopping(q)
      /\ Cb \in Procs
  BY DEF IInv, Calls, Procs
<1>2. /\ repeat' \in BOOLEAN
      /\ repeat' => repeat
      /\ repeat' => state
  BY <1>1 DEF ClearRepeat, Types
<1>3. /\ at' \in [Procs -> StepSet] /\ Others(p) /\ Crossing'
      /\ at'[p].pc = "del" /\ at'[p].op = f
      /\ Survives(p, f) => at'[p].crossed
      /\ \A q \in Procs : q # p /\ at[q].pc \in Inner /\ Clash(at[q].op, f) =>
            at'[q].crossed
  BY <1>1, Entering DEF Inner, Ends
<1>4. Types'
  <2>1. lock' \in Procs \cup {None}
    BY <1>1 DEF Types
  <2>2. repeat' \in BOOLEAN /\ at' \in [Procs -> StepSet] /\ want' \in {"on", "off", "open"}
    BY <1>2, <1>3
  <2>3. Types
    BY <1>1
  <2>4. QED
    BY <2>1, <2>2, <2>3 DEF Types
<1>5. Steps'
  BY <1>1, <1>3, TimerAssumption DEF Steps, InStep, Others, Inner, Procs, Ends
<1>6. Periods'
  <2>1. \A q \in Procs : at'[q].pc # "add"
    BY <1>1, <1>3, TimerAssumption DEF Periods, Adding, Others, Procs
  <2>2. at'[Cb].pc \in {"rearm", "readd"} => at[Cb].pc = at'[Cb].pc
    BY <1>1, <1>3 DEF Others
  <2>3. QED
    BY <1>1, <1>2, <2>1, <2>2 DEF Periods, Adding
<1>7. Promise'
  BY DEF Promise
<1>8. ASSUME NEW q \in Procs, at'[q].op \in Ends, ~at'[q].crossed
      PROVE  /\ at'[q].pc = "mark" => Stopped'
             /\ q = Cb /\ at'[q].pc \in Inner => ~repeat'
  <2>1. CASE q = p
    BY <1>2, <1>3, <1>8, <2>1 DEF Survives, Ends
  <2>2. CASE q # p
    <3>1. at'[q].pc = at[q].pc /\ at'[q].op = at[q].op /\ ~at[q].crossed
      BY <1>3, <1>8, <2>2 DEF Others
    <3>2. /\ at[q].pc = "mark" => Stopped
          /\ q = Cb /\ at[q].pc \in Inner => ~repeat
      BY <1>1, <1>8, <3>1 DEF Stopping
    <3>3. at'[Cb].pc = IF p = Cb THEN "del" ELSE at[Cb].pc
      BY <1>1, <1>3 DEF Others
    <3>4. p = Cb => at[Cb].pc = "func"
      BY DEF MayCall, At
    <3>5. Stopped => Stopped'
      BY <1>1, <1>2, <3>3, <3>4 DEF Stopped
    <3>6. QED
      BY <1>2, <3>1, <3>2, <3>5
  <2>3. QED
    BY <2>1, <2>2
<1>9. \A q \in Procs : Stopping(q)'
  BY <1>8 DEF Stopping
<1>10. QED
  BY <1>3, <1>4, <1>5, <1>6, <1>7, <1>9 DEF IInv, Calls

\* The first half of a periodic timer's RTMPModTimer.
LEMMA ModCancelKeeps ==
    ASSUME IInv, NEW p \in Procs, Runs(p), ModCancel(p)
    PROVE  IInv'
<1>1. /\ Types /\ Steps /\ Periods /\ Crossing /\ Promise /\ \A q \in Procs : Stopping(q)
      /\ Cb \in Procs
  BY DEF IInv, Calls, Procs
<1>2. at[p].pc = "cancel" /\ at[p].op = "mod" /\ at[p].pc \in Inner
  BY <1>1 DEF ModCancel, At, Steps, InStep, Inner
<1>3. want = "open"
  BY <1>1, <1>2 DEF Promise, Types, Ends
<1>4. /\ UNCHANGED <<smp, periodic, halt, valid, state, pending, lock, want, again, double>>
      /\ repeat' \in BOOLEAN /\ (repeat' => repeat) /\ lock = None
      /\ Goto(p, "del") \/ Goto(p, "set")
  BY <1>1 DEF ModCancel, ClearRepeat, machine, history, Types
<1>5. /\ at' \in [Procs -> StepSet] /\ Others(p) /\ Crossing'
      /\ at'[p].pc \in {"del", "set"} /\ at'[p].op = "mod"
  BY <1>1, <1>2, <1>4, Going DEF Inner
<1>6. Types'
  BY <1>1, <1>4, <1>5 DEF Types
<1>7. Steps'
  BY <1>1, <1>2, <1>4, <1>5, TimerAssumption DEF Steps, InStep, Others, Inner, Procs
<1>8. Periods'
  <2>1. \A q \in Procs : at'[q].pc # "add"
    BY <1>1, <1>4, <1>5, TimerAssumption DEF Periods, Adding, Others, Procs
  <2>2. at'[Cb].pc \in {"rearm", "readd"} => at[Cb].pc = at'[Cb].pc
    BY <1>1, <1>5 DEF Others
  <2>3. QED
    BY <1>1, <1>4, <2>1, <2>2 DEF Periods, Adding
<1>9. Promise'
  BY <1>3, <1>4 DEF Promise
<1>10. \A q \in Procs : Stopping(q)'
  <2>1. \A q \in Procs : q # p /\ at[q].pc \in Inner /\ at[q].op \in Ends => at[q].crossed
    BY <1>1, <1>2, ClashIff DEF Crossing, Ends
  <2>2. QED
    BY <1>2, <1>5, <2>1 DEF Stopping, Others, Ends, Inner
<1>11. QED
  BY <1>5, <1>6, <1>7, <1>8, <1>9, <1>10 DEF IInv, Calls

\* The kernel's timer is looked at: if the callback does not run, or is the
\* caller, no pending timer means that it has stopped.
LEMMA DelTestKeeps ==
    ASSUME IInv, NEW p \in Procs, Runs(p), DelTest(p)
    PROVE  IInv'
<1>1. /\ Types /\ Steps /\ Periods /\ Crossing /\ Promise /\ \A q \in Procs : Stopping(q)
      /\ Cb \in Procs
  BY DEF IInv, Calls, Procs
<1>2. /\ at[p].pc = "del" /\ at[p].pc \in Inner /\ at[p] \in StepSet
      /\ UNCHANGED <<smp, periodic, halt, valid, repeat, state, pending, lock, want,
                     again, double>>
  BY <1>1 DEF DelTest, At, Inner, machine, timer, history, Types
<1>3. /\ at'[p] \in StepSet /\ at'[p].op = at[p].op
      /\ at'[p].pc = (IF pending THEN "sync" ELSE "mark")
      /\ at'[p].crossed = (at[p].crossed \/ (p # Cb /\ Running))
      /\ at' \in [Procs -> StepSet] /\ \A q \in Procs : q # p => at'[q] = at[q]
  <2>1. at' = [at EXCEPT ![p].pc = IF pending THEN "sync" ELSE "mark",
                         ![p].found = TRUE,
                         ![p].crossed = @ \/ (p # Cb /\ Running)]
    BY DEF DelTest
  <2>2. /\ (at[p].crossed \/ (p # Cb /\ Running)) \in BOOLEAN
        /\ (IF pending THEN "sync" ELSE "mark") \in Inner
    BY DEF Inner
  <2>3. QED
    BY <1>1, <1>2, <2>1, <2>2 DEF Types, StepSet
<1>4. Others(p)
  BY <1>3 DEF Others
<1>5. Crossing'
  BY <1>1, <1>2, <1>3, <1>4, CrossingKept
<1>6. Types'
  BY <1>1, <1>2, <1>3 DEF Types
<1>7. Steps'
  BY <1>1, <1>2, <1>3, TimerAssumption DEF Steps, InStep, Inner, Procs
<1>8. Periods'
  BY <1>1, <1>2, <1>3 DEF Periods, Adding
<1>9. Promise'
  BY <1>1, <1>2, <1>3 DEF Promise, Stopped, Inner
<1>10. ASSUME NEW q \in Procs, at'[q].op \in Ends, ~at'[q].crossed
       PROVE  /\ at'[q].pc = "mark" => Stopped'
              /\ q = Cb /\ at'[q].pc \in Inner => ~repeat'
  <2>1. Stopped => Stopped'
    BY <1>1, <1>2, <1>3 DEF Stopped
  <2>2. CASE q # p
    BY <1>1, <1>2, <1>3, <1>10, <2>1, <2>2 DEF Stopping
  <2>3. CASE q = p /\ p = Cb
    <3>1. ~repeat
      BY <1>1, <1>2, <1>3, <1>10, <2>3 DEF Stopping
    <3>2. QED
      BY <1>2, <1>3, <2>3, <3>1 DEF Stopped
  <2>4. CASE q = p /\ p # Cb
    <3>1. at[Cb].pc = "idle" /\ at'[Cb] = at[Cb]
      BY <1>1, <1>3, <1>10, <2>4 DEF Running, At
    <3>2. QED
      BY <1>2, <1>3, <2>4, <3>1 DEF Stopped
  <2>5. QED
    BY <2>2, <2>3, <2>4
<1>11. \A q \in Procs : Stopping(q)'
  BY <1>10 DEF Stopping
<1>12. QED
  BY <1>5, <1>6, <1>7, <1>8, <1>9, <1>11 DEF IInv, Calls

\* del_timer_sync returns when the callback does not run: the timer is stopped.
LEMMA DelSyncKeeps ==
    ASSUME IInv, NEW p \in Procs, Runs(p), DelSync(p)
    PROVE  IInv'
<1>1. /\ Types /\ Steps /\ Periods /\ Crossing /\ Promise /\ \A q \in Procs : Stopping(q)
      /\ Cb \in Procs
  BY DEF IInv, Calls, Procs
<1>2. /\ at[p].pc = "sync" /\ at[p].pc \in Inner /\ at[p] \in StepSet /\ pending' = FALSE
      /\ at[Cb].pc = "idle" /\ p # Cb /\ at[p].op \in Ends \cup {"mod"}
      /\ UNCHANGED <<smp, periodic, halt, valid, repeat, state, lock, want, again, double>>
  BY <1>1 DEF DelSync, At, Running, Inner, machine, history, Types, Steps, InStep
<1>3. /\ at'[p].pc = "mark" /\ at'[p].op = at[p].op /\ at'[p].crossed = at[p].crossed
      /\ at' \in [Procs -> StepSet] /\ \A q \in Procs : q # p => at'[q] = at[q]
  <2>1. at' = [at EXCEPT ![p].pc = "mark", ![p].found = pending]
    BY DEF DelSync
  <2>2. pending \in BOOLEAN /\ "mark" \in Inner
    BY <1>1 DEF Types, Inner
  <2>3. QED
    BY <1>1, <1>2, <2>1, <2>2 DEF Types, StepSet
<1>4. Others(p)
  BY <1>3 DEF Others
<1>5. Crossing'
  BY <1>1, <1>2, <1>3, <1>4, CrossingKept
<1>6. Types'
  BY <1>1, <1>2, <1>3 DEF Types
<1>7. Steps'
  BY <1>1, <1>2, <1>3, TimerAssumption DEF Steps, InStep, Inner, Procs
<1>8. Periods'
  BY <1>1, <1>2, <1>3 DEF Periods, Adding
<1>9. Stopped'
  BY <1>1, <1>2, <1>3 DEF Stopped
<1>10. Promise'
  BY <1>1, <1>2, <1>3, <1>9 DEF Promise, Ends, Inner
<1>11. \A q \in Procs : Stopping(q)'
  BY <1>1, <1>2, <1>3, <1>9 DEF Stopping, Inner
<1>12. QED
  BY <1>5, <1>6, <1>7, <1>8, <1>10, <1>11 DEF IInv, Calls

\* A cancel or release returns.
LEMMA EndKeeps ==
    ASSUME IInv, NEW p \in Procs, Runs(p), at[p].pc = "mark", at[p].op \in Ends,
           lock \in {None, p}, at[p].op = "cancel" => lock = None,
           state' = (state \/ at[p].found), valid' \in BOOLEAN, lock' = None,
           Return(p), want' = IF at[p].crossed THEN "open" ELSE "off",
           UNCHANGED <<smp, periodic, halt, repeat, pending, again, double>>
    PROVE  IInv'
<1>1. /\ Types /\ Steps /\ Periods /\ Crossing /\ \A q \in Procs : Stopping(q)
      /\ Cb \in Procs /\ at[p].pc \in Inner
  BY DEF IInv, Calls, Procs, Inner
<1>2. /\ at' \in [Procs -> StepSet] /\ Others(p) /\ Crossing'
      /\ at'[p].pc = (IF p = Cb THEN "end" ELSE "idle")
      /\ \A q \in Procs : q # p => at'[q] = at[q]
  BY <1>1, Leaving DEF Return, Types
<1>3. Types'
  <2>1. state' \in BOOLEAN
    OBVIOUS
  <2>2. lock' \in Procs \cup {None} /\ want' \in {"on", "off", "open"}
    OBVIOUS
  <2>3. QED
    BY <1>1, <1>2, <2>1, <2>2 DEF Types
<1>4. \A q \in Procs : q # p => lock # q
  BY TimerAssumption DEF Procs
<1>5. Steps'
  BY <1>1, <1>2, <1>4, TimerAssumption DEF Steps, InStep, Inner, Procs
<1>6. Periods'
  <2>1. \A q \in Procs : at'[q].pc # "add"
    BY <1>1, <1>2, <1>4 DEF Periods, Adding
  <2>2. at'[Cb].pc \in {"rearm", "readd"} => at[Cb].pc = at'[Cb].pc
    BY <1>1, <1>2
  <2>3. QED
    BY <1>1, <2>1, <2>2 DEF Periods, Adding
<1>7. Stopped => Stopped'
  BY <1>1, <1>2 DEF Stopped
<1>8. Promise'
  <2>1. SUFFICES ASSUME ~at[p].crossed
                 PROVE  /\ \A q \in Procs : at'[q].pc \in Inner => at'[q].op \in Ends
                        /\ Stopped'
    BY DEF Promise
  <2>2. ASSUME NEW q \in Procs, at'[q].pc \in Inner
        PROVE  at'[q].op \in Ends
    <3>1. q # p
      BY <1>2, <2>2 DEF Inner
    <3>2. ~Clash(at[p].op, at[q].op)
      BY <1>1, <1>2, <2>1, <2>2, <3>1 DEF Crossing
    <3>3. QED
      BY <1>2, <3>1, <3>2, ClashIff DEF Ends
  <2>3. Stopped
    BY <1>1, <2>1 DEF Stopping
  <2>4. QED
    BY <1>7, <2>2, <2>3
<1>9. \A q \in Procs : Stopping(q)'
  BY <1>1, <1>2, <1>7 DEF Stopping, Inner
<1>10. QED
  BY <1>2, <1>3, <1>5, <1>6, <1>8, <1>9 DEF IInv, Calls

LEMMA MarkKeeps ==
    ASSUME IInv, NEW p \in Procs, Runs(p), Mark(p) \/ ReleaseEnd(p)
    PROVE  IInv'
<1>1. /\ Types /\ Steps /\ Periods /\ Crossing /\ Promise /\ \A q \in Procs : Stopping(q)
      /\ Cb \in Procs /\ at[p].pc = "mark" /\ at[p].pc \in Inner
      /\ at[p].op \in {"cancel", "release", "mod"}
  BY DEF IInv, Calls, Procs, Mark, ReleaseEnd, At, Inner, Steps, InStep, Ends
<1>2. CASE ReleaseEnd(p)
  <2>1. at[p].op = "release" /\ lock = p
    BY <1>1, <1>2 DEF ReleaseEnd, Steps, InStep
  <2>2. QED
    BY <1>1, <1>2, <2>1, EndKeeps DEF ReleaseEnd, Wants, machine, Ends
<1>3. CASE Mark(p) /\ at[p].op # "mod"
  <2>1. at[p].op = "cancel" /\ valid \in BOOLEAN
    BY <1>1, <1>3 DEF Mark, Types
  <2>2. QED
    BY <1>1, <1>3, <2>1, EndKeeps DEF Mark, Wants, machine, Ends
<1>4. CASE Mark(p) /\ at[p].op = "mod"
  <2>1. /\ state' = (state \/ at[p].found) /\ Goto(p, "set")
        /\ UNCHANGED <<smp, periodic, halt, valid, repeat, pending, lock, want, again, double>>
    BY <1>4 DEF Mark, machine
  <2>2. /\ at' \in [Procs -> StepSet] /\ Others(p) /\ Crossing'
        /\ at'[p].pc = "set" /\ at'[p].op = "mod"
        /\ \A q \in Procs : q # p => at'[q] = at[q]
    BY <1>1, <1>4, <2>1, Going DEF Inner, Goto, Types
  <2>3. Types'
    <3>1. state' \in BOOLEAN
      BY <2>1
    <3>2. QED
      BY <1>1, <2>1, <2>2, <3>1 DEF Types
  <2>4. Steps'
    BY <1>1, <1>4, <2>1, <2>2, TimerAssumption DEF Steps, InStep, Inner, Procs
  <2>5. Periods'
    BY <1>1, <1>4, <2>1, <2>2 DEF Periods, Adding
  <2>6. want = "open"
    BY <1>1, <1>4 DEF Promise, Types, Ends
  <2>7. Promise'
    BY <2>1, <2>6 DEF Promise
  <2>8. Stopped => Stopped'
    BY <1>1, <2>1, <2>2 DEF Stopped
  <2>9. \A q \in Procs : Stopping(q)'
    BY <1>1, <2>1, <2>2, <2>8 DEF Stopping, Ends
  <2>10. QED
    BY <2>2, <2>3, <2>4, <2>5, <2>7, <2>9 DEF IInv, Calls
<1>5. QED
  BY <1>2, <1>3, <1>4

\* The timer is initialised again, or the adapter halted or started: no call
\* and no timer is touched.
LEMMA AsideKeeps ==
    ASSUME IInv, (\E p \in Callers : InitTimer(p)) \/ Halt
    PROVE  IInv'
<1>1. /\ Types /\ Steps /\ Periods /\ Crossing /\ Promise /\ \A q \in Procs : Stopping(q)
  BY DEF IInv, Calls
<1>2. /\ UNCHANGED <<smp, periodic, repeat, pending, lock, at, want, again, double>>
      /\ halt' \in BOOLEAN /\ valid' \in BOOLEAN /\ state' \in BOOLEAN
  BY <1>1 DEF InitTimer, Halt, machine, timer, history, Types
<1>3. Types'
  BY <1>1, <1>2 DEF Types
<1>4. Steps' /\ Periods' /\ Crossing'
  BY <1>1, <1>2 DEF Steps, InStep, Periods, Adding, Crossing
<1>5. Stopped <=> Stopped'
  BY <1>2 DEF Stopped
<1>6. Promise' /\ \A q \in Procs : Stopping(q)'
  BY <1>1, <1>2, <1>5 DEF Promise, Stopping
<1>7. QED
  BY <1>3, <1>4, <1>6 DEF IInv, Calls

\* The callback itself goes from one of its own steps to another.
LEMMA CallbackSteps ==
    ASSUME Types, Steps, Crossing, NEW step \in {"idle", "func", "rearm", "readd"},
           at[Cb].pc \notin Inner, Goto(Cb, step), UNCHANGED lock, periodic' = periodic
    PROVE  /\ at' \in [Procs -> StepSet] /\ at'[Cb].pc = step /\ step \notin Inner
           /\ \A q \in Procs : q # Cb => at'[q] = at[q]
           /\ Crossing' /\ Steps'
<1>1. at' = [at EXCEPT ![Cb].pc = step] /\ Cb \in Procs /\ at \in [Procs -> StepSet]
  BY DEF Goto, Types, Procs
<1>2. step \notin Inner
  BY DEF Inner
<1>3. /\ at'[Cb].pc = step /\ at' \in [Procs -> StepSet]
      /\ \A q \in Procs : q # Cb => at'[q] = at[q]
  BY <1>1 DEF StepSet
<1>4. Crossing'
  BY <1>1, <1>2, <1>3, CrossingKept DEF Others
<1>5. Steps'
  BY <1>1, <1>2, <1>3 DEF Steps, InStep, Inner
<1>6. QED
  BY <1>2, <1>3, <1>4, <1>5

LEMMA FireKeeps ==
    ASSUME IInv, Runs(Cb), Fire
    PROVE  IInv'
<1>1. /\ Types /\ Steps /\ Periods /\ Crossing /\ Promise /\ \A q \in Procs : Stopping(q)
      /\ Cb \in Procs /\ at[Cb].pc = "idle" /\ at[Cb].pc \notin Inner
  BY DEF IInv, Calls, Procs, Fire, Running, At, Inner
<1>2. /\ pending /\ pending' = FALSE /\ Goto(Cb, "func")
      /\ want' = IF want = "on" /\ ~periodic THEN "open" ELSE want
      /\ UNCHANGED <<smp, periodic, halt, valid, repeat, state, lock, again, double>>
  BY DEF Fire, machine
<1>3. /\ at' \in [Procs -> StepSet] /\ at'[Cb].pc = "func" /\ "func" \notin Inner
      /\ \A q \in Procs : q # Cb => at'[q] = at[q]
      /\ Crossing' /\ Steps'
  BY <1>1, <1>2, CallbackSteps
<1>4. Types'
  BY <1>1, <1>2, <1>3 DEF Types
<1>5. Periods'
  BY <1>1, <1>2, <1>3 DEF Periods, Adding
<1>6. Promise'
  BY <1>1, <1>2, <1>3 DEF Promise, Stopped
<1>7. \A q \in Procs : Stopping(q)'
  BY <1>1, <1>2, <1>3 DEF Stopping, Stopped, Inner
<1>8. QED
  BY <1>3, <1>4, <1>5, <1>6, <1>7 DEF IInv, Calls

LEMMA CallbackKeeps ==
    ASSUME IInv, Callback
    PROVE  IInv'
<1>1. /\ Types /\ Steps /\ Periods /\ Crossing /\ Promise /\ \A q \in Procs : Stopping(q)
      /\ Cb \in Procs /\ Runs(Cb)
      /\ at[Cb].pc \in {"func", "end", "rearm", "readd"} /\ at[Cb].pc \notin Inner
  BY DEF IInv, Calls, Procs, Callback, FuncEnd, Rearm, Readd, At, Inner
<1>2. UNCHANGED <<smp, periodic, halt, valid, repeat, state, lock, want, again>>
  BY DEF Callback, FuncEnd, Rearm, Readd, machine, timer, history
<1>3. CASE FuncEnd
  <2>1. /\ Goto(Cb, IF repeat THEN "rearm" ELSE "idle") /\ UNCHANGED <<pending, double>>
        /\ at[Cb].pc \in {"func", "end"}
    BY <1>3 DEF FuncEnd, timer, history
  <2>2. /\ at' \in [Procs -> StepSet] /\ Crossing' /\ Steps'
        /\ at'[Cb].pc = IF repeat THEN "rearm" ELSE "idle"
        /\ at'[Cb].pc \notin Inner
        /\ \A q \in Procs : q # Cb => at'[q] = at[q]
    BY <1>1, <1>2, <2>1, CallbackSteps
  <2>3. Types'
    BY <1>1, <1>2, <2>1, <2>2 DEF Types
  <2>4. Periods'
    BY <1>1, <1>2, <2>1, <2>2 DEF Periods, Adding
  <2>5. Stopped => Stopped'
    BY <1>1, <1>2, <2>1, <2>2 DEF Stopped
  <2>6. Promise'
    BY <1>1, <1>2, <2>1, <2>2, <2>5 DEF Promise
  <2>7. \A q \in Procs : Stopping(q)'
    BY <1>1, <1>2, <2>2, <2>5 DEF Stopping, Inner
  <2>8. QED
    BY <2>2, <2>3, <2>4, <2>6, <2>7 DEF IInv, Calls
<1>4. CASE Rearm
  <2>1. /\ Goto(Cb, IF pending THEN "idle" ELSE "readd") /\ UNCHANGED <<pending, double>>
        /\ at[Cb].pc = "rearm"
    BY <1>4 DEF Rearm, At, timer, history
  <2>2. /\ at' \in [Procs -> StepSet] /\ Crossing' /\ Steps'
        /\ at'[Cb].pc = IF pending THEN "idle" ELSE "readd"
        /\ at'[Cb].pc \notin Inner
        /\ \A q \in Procs : q # Cb => at'[q] = at[q]
    BY <1>1, <1>2, <2>1, CallbackSteps
  <2>3. Types'
    BY <1>1, <1>2, <2>1, <2>2 DEF Types
  <2>4. Periods'
    BY <1>1, <1>2, <2>1, <2>2 DEF Periods, Adding
  <2>5. ~Stopped
    BY <2>1 DEF Stopped
  <2>6. Promise'
    BY <1>1, <1>2, <2>1, <2>2, <2>5 DEF Promise
  <2>7. \A q \in Procs : Stopping(q)'
    BY <1>1, <1>2, <2>2, <2>5 DEF Stopping, Inner
  <2>8. QED
    BY <2>2, <2>3, <2>4, <2>6, <2>7 DEF IInv, Calls
<1>5. CASE Readd
  <2>1. /\ Goto(Cb, "idle") /\ pending' = TRUE /\ double' = pending
        /\ at[Cb].pc = "readd"
    BY <1>5 DEF Readd, At
  <2>2. /\ at' \in [Procs -> StepSet] /\ Crossing' /\ Steps'
        /\ at'[Cb].pc = "idle" /\ at'[Cb].pc \notin Inner
        /\ \A q \in Procs : q # Cb => at'[q] = at[q]
    BY <1>1, <1>2, <2>1, CallbackSteps
  <2>3. Types'
    BY <1>1, <1>2, <2>1, <2>2 DEF Types
  <2>4. ASSUME NEW q \in Procs, at'[q].pc = "add"
        PROVE  smp /\ periodic /\ lock = q /\ repeat
    <3>1. q # Cb /\ at[q].pc = "add"
      BY <2>2, <2>4
    <3>2. lock = q /\ periodic /\ repeat = periodic
      BY <1>1, <2>1, <3>1 DEF Periods, Adding
    <3>3. smp
      BY <1>1, <3>1, <3>2, TimerAssumption DEF Runs, Procs
    <3>4. QED
      BY <3>2, <3>3
  <2>5. Periods'
    BY <1>1, <1>2, <2>1, <2>2, <2>4 DEF Periods, Adding
  <2>6. ~Stopped
    BY <2>1 DEF Stopped
  <2>7. Promise'
    BY <1>1, <1>2, <2>1, <2>2, <2>6 DEF Promise
  <2>8. \A q \in Procs : Stopping(q)'
    BY <1>1, <1>2, <2>2, <2>6 DEF Stopping, Inner
  <2>9. QED
    BY <2>2, <2>3, <2>5, <2>7, <2>8 DEF IInv, Calls
<1>6. QED
  BY <1>3, <1>4, <1>5 DEF Callback

LEMMA StepKeeps == IInv /\ [Next]_vars => IInv'
<1>1. SUFFICES ASSUME IInv, [Next]_vars
               PROVE  IInv'
  OBVIOUS
<1>2. ASSUME NEW p \in Procs, Runs(p), Set(p)
      PROVE  IInv'
  BY <1>1, <1>2, SetLongKeeps, SetShortKeeps
<1>3. ASSUME NEW p \in Procs, Runs(p), Mod(p)
      PROVE  IInv'
  BY <1>1, <1>3, ModShortKeeps, ModLongKeeps
<1>4. ASSUME NEW p \in Procs, Runs(p), Cancel(p) \/ Release(p)
      PROVE  IInv'
  <2>1. CASE Cancel(p)
    BY <1>1, <1>4, <2>1, StopKeeps DEF Cancel, Ends, machine
  <2>2. CASE Release(p)
    BY <1>1, <1>4, <2>2, StopKeeps DEF Release, Ends, machine
  <2>3. QED
    BY <1>4, <2>1, <2>2
<1>5. ASSUME NEW p \in Procs, Continue(p)
      PROVE  IInv'
  BY <1>1, <1>5, AddKeeps, ModSetKeeps, ModCancelKeeps, DelTestKeeps, DelSyncKeeps,
     MarkKeeps DEF Continue
<1>6. CASE Runs(Cb) /\ Fire
  BY <1>1, <1>6, FireKeeps
<1>7. CASE Callback
  BY <1>1, <1>7, CallbackKeeps
<1>8. CASE (\E p \in Callers : InitTimer(p)) \/ Halt
  BY <1>1, <1>8, AsideKeeps
<1>9. CASE UNCHANGED vars
  BY <1>1, <1>9 DEF vars, IInv, Types, Steps, InStep, Periods, Adding, Calls, Crossing,
                    Promise, Stopping, Stopped
<1>10. QED
  BY <1>1, <1>2, <1>3, <1>4, <1>5, <1>6, <1>7, <1>8, <1>9 DEF Next

LEMMA Inductive == Spec => []IInv
BY InitHolds, StepKeeps, PTL DEF Spec
-----------------------------------------------------------------------------
\* The types, and who holds TimerSemLock is inside a function that takes it.
THEOREM Typing == Spec => []TypeOK
<1>1. IInv => TypeOK
  <2>1. SUFFICES ASSUME IInv
                 PROVE  TypeOK
    OBVIOUS
  <2>2. Types /\ Steps
    BY <2>1 DEF IInv
  <2>3. {smp, periodic, halt, valid, repeat, state, pending, again, double} \subseteq BOOLEAN
    BY <2>2, Zenon DEF Types
  <2>4. \A p \in Procs : lock = p => at[p].pc \in Inner
    BY <2>2 DEF Steps, InStep
  <2>5. At(Cb, "end") => lock # Cb
    BY <2>4 DEF At, Inner, Procs
  <2>6. QED
    BY <2>2, <2>3, <2>4, <2>5, Zenon DEF Types, StepSet, TypeOK
<1>2. QED
  BY <1>1, Inductive, PTL

\* The timer does what the last call asked for, with any number of threads and
\* with one processor or more: set, it stays with the kernel or in its callback
\* until it fires or is stopped; stopped, nothing arms it again.
THEOREM Promised == Spec => []KeepsPromise
<1>1. IInv => KeepsPromise
  BY DEF IInv, Calls, Promise, Stopped, KeepsPromise, Running, At
<1>2. QED
  BY <1>1, Inductive, PTL

\* add_timer finds the timer pending only if a periodic timer was set while it
\* was pending, or meets its own re-arming on another processor.
THEOREM AddsOnce == Spec => []AddedOnce
<1>1. IInv => AddedOnce
  BY DEF IInv, Periods, AddedOnce
<1>2. QED
  BY <1>1, Inductive, PTL
=============================================================================
