-------------------------- MODULE BaOriRaceProofs --------------------------
(***************************************************************************)
(* Theorems about BaOriRace, for any number of processors, of TIDs, of     *)
(* entries and of threads that transmit.                                   *)
(***************************************************************************)
EXTENDS BaOriRace, FiniteSetTheorems, TLAPS

Live(i) == st[i] \in {"WaitRes", "Done"}

SenderSteps == {"idle", "look", "alloc", "status", "map", "wait", "key", "arm"}
TimerSteps == {"idle", "retry", "index", "free", "lock"}
MlmeSteps == {"idle", "check", "grant", "count", "mark", "stop", "cancel", "free", "lock"}

Steps ==
    /\ \A s \in Senders : pc[s] \in SenderSteps
    /\ \A i \in OriIdx : pc[i] \in TimerSteps
    /\ pc[Mlme] \in MlmeSteps

\* The sender has entry at[s] to itself.
Owns(s) == \/ pc[s] \in {"map", "wait", "key", "arm"}
           \/ pc[s] = "status" /\ st[at[s]] = "USED"
Writes(s, i) == pc[s] \in {"wait", "key"} /\ at[s] = i

Apart ==
    \A s, q \in Senders :
        s # q => /\ SettingUp(s) /\ SettingUp(q) => tid[s] # tid[q]
                 /\ Owns(s) /\ Owns(q) => at[s] # at[q]

\* An index leads to an entry that a sender of that TID writes, or that has the
\* TID and is asked for or granted.
Mapped ==
    \A t \in Tids :
        oriMap[t] # 0 =>
            \/ \E s \in Senders : Writes(s, oriMap[t]) /\ tid[s] = t
            \/ /\ key[oriMap[t]] = t /\ Live(oriMap[t])
               /\ \A s \in Senders : ~Writes(s, oriMap[t])

\* A timer runs for an entry its index names, until the answer is taken in.
Answered(i) == Busy(i) /\ pc[Mlme] \in {"count", "mark", "stop"}
Armed ==
    \A i \in OriIdx : armed[i] => /\ oriMap[key[i]] = i
                                  /\ st[i] = "WaitRes" \/ Answered(i)

\* What a sender knows of the entry it has in hand.
Sending(s) ==
    /\ pc[s] \in {"idle", "look", "alloc"} => at[s] = 0
    /\ pc[s] \in {"status", "map", "wait", "key", "arm"} => at[s] # 0
    /\ pc[s] = "alloc" => oriMap[tid[s]] = 0
    /\ pc[s] = "status" => \/ st[at[s]] = "USED" /\ oriMap[tid[s]] = 0
                           \/ Live(at[s]) /\ oriMap[tid[s]] = at[s]
    /\ pc[s] = "map" => st[at[s]] = "USED" /\ oriMap[tid[s]] = 0
    /\ pc[s] = "wait" => st[at[s]] = "USED"
    /\ pc[s] \in {"key", "arm"} => st[at[s]] = "WaitRes"
    /\ pc[s] \in {"wait", "key", "arm"} => /\ oriMap[tid[s]] = at[s]
                                           /\ ~Busy(at[s]) /\ pc[at[s]] = "idle"
                                           /\ ~armed[at[s]]
    /\ pc[s] = "arm" => key[at[s]] = tid[s]

\* The same of a timer ...
Firing(i) ==
    /\ pc[i] \in {"idle", "retry", "index"} => at[i] = 0
    /\ pc[i] # "idle" => ~Busy(i) /\ st[i] = "WaitRes" /\ ~armed[i]
    /\ pc[i] \in {"retry", "index", "free"} => oriMap[key[i]] = i
    /\ pc[i] = "retry" => token[i] < MaxRetry
    /\ pc[i] \in {"free", "lock"} => at[i] = i
    /\ pc[i] = "lock" => oriMap[key[i]] # i

\* ... and of the MLME thread.
Handling ==
    LET i == at[Mlme] IN
    /\ pc[Mlme] = "idle" => i = 0
    /\ pc[Mlme] # "idle" => /\ i # 0 /\ Live(i) /\ key[i] = tid[Mlme]
                            /\ ~InHand(i)
    /\ pc[Mlme] \notin {"idle", "lock"} => oriMap[tid[Mlme]] = i
    /\ pc[Mlme] = "lock" => oriMap[tid[Mlme]] # i
    /\ pc[Mlme] \in {"free", "lock"} => ~armed[i]
    /\ pc[Mlme] = "grant" => st[i] = "WaitRes"
    /\ pc[Mlme] \in {"count", "mark", "stop"} => st[i] = "Done"
    /\ pc[Mlme] = "count" => seen = numDone
    /\ pc[Mlme] = "mark" => bits = txBa

\* Every entry in use is named by its index, or a thread is about to write its
\* TID or to free it.
Held ==
    \A i \in OriIdx :
        /\ Live(i) => \/ oriMap[key[i]] = i
                      \/ \E s \in Senders : pc[s] = "key" /\ at[s] = i
                      \/ \E p \in {i, Mlme} : pc[p] = "lock" /\ at[p] = i
        /\ st[i] = "USED" =>
               \E s \in Senders : pc[s] \in {"status", "map", "wait"} /\ at[s] = i

\* A TID that is sent as A-MPDU has a granted session, or one about to be freed.
Masked ==
    \A t \in txBa : \/ oriMap[t] # 0 /\ st[oriMap[t]] = "Done"
                    \/ pc[Mlme] = "lock" /\ tid[Mlme] = t /\ st[at[Mlme]] = "Done"

Counts ==
    /\ numOri = Cardinality(Used)
    /\ numDone = Cardinality(Granted) - (IF pc[Mlme] = "count" THEN 1 ELSE 0)

Careful ==
    /\ Apart /\ Mapped /\ Armed
    /\ \A s \in Senders : Sending(s)
    /\ \A i \in OriIdx : Firing(i)
    /\ Handling /\ Held /\ Masked /\ Counts

IInv == TypeOK /\ Steps /\ (raced \/ Careful)
-----------------------------------------------------------------------------
\* Senders, timers and the MLME thread are different, and 0 is no entry.
LEMMA Distinct ==
    /\ Mlme \notin Senders /\ Mlme \notin OriIdx /\ Mlme \in Threads
    /\ \A s \in Senders : s \notin OriIdx /\ s \in Threads
    /\ \A i \in OriIdx : i \in Threads
    /\ 0 \notin OriIdx
BY ThreadAssumption DEF Threads, OriIdx

\* The entries can be counted.
LEMMA UsedFinite ==
    /\ IsFiniteSet(Used) /\ IsFiniteSet(Granted) /\ IsFiniteSet(OriIdx)
    /\ Cardinality(OriIdx) = OriLen - 1
<1>1. IsFiniteSet(OriIdx) /\ Cardinality(OriIdx) = OriLen - 1
  BY FS_Interval, RaceAssumption DEF OriIdx
<1>2. IsFiniteSet(Used) /\ IsFiniteSet(Granted) BY <1>1, FS_Subset DEF Used, Granted
<1> QED BY <1>1, <1>2

\* RTMP_BASetup looks at the TID's bit.
LEMMA TestKeeps ==
    ASSUME IInv, NEW s \in Senders, NEW t \in Tids, ~raced', Test(s, t)
    PROVE  Careful'
<1>0. ~raced /\ Careful BY DEF IInv, Test
<1>1. Apart'
  BY <1>0 DEF Careful, Test, entries, Goto, SettingUp, Owns, Apart
<1>2. Mapped'
  BY <1>0 DEF Careful, Test, entries, station, Goto, Writes, Live, Mapped
<1>3. Armed'
  BY <1>0 DEF Careful, Test, entries, station, Goto, Busy, Answered, Armed
<1>4. (\A q \in Senders : Sending(q))'
  BY <1>0, Distinct DEF IInv, TypeOK, Careful, Test, entries, station, Goto, Live,
     Busy, Sending
<1>5. (\A j \in OriIdx : Firing(j))'
  BY <1>0, Distinct DEF Careful, Test, entries, station, Goto, Busy, Firing
<1>6. Handling'
  BY <1>0, Distinct DEF IInv, TypeOK, Careful, Test, entries, station, Goto, InHand,
     Filling, Live, Handling
<1>7. Held'
  BY <1>0 DEF Careful, Test, entries, station, Goto, Live, Held
<1>8. Masked'
  BY <1>0 DEF Careful, Test, entries, station, Goto, Masked
<1>9. Counts'
  BY <1>0 DEF Careful, Test, entries, Goto, Used, Granted, Counts
<1> QED BY <1>1, <1>2, <1>3, <1>4, <1>5, <1>6, <1>7, <1>8, <1>9 DEF Careful

\* The index is read: no other sender sets the TID up.
LEMMA LookKeeps ==
    ASSUME IInv, NEW s \in Senders, ~raced', Look(s)
    PROVE  Careful'
<1>0. ~raced /\ Careful BY DEF IInv, Look, Meeting
<1>1. Apart'
  <2>1. \A q \in Senders : tid[q] = tid[s] => ~SettingUp(q)
    BY <1>0 DEF Look, Meeting
  <2>2. oriMap[tid[s]] # 0 => Live(oriMap[tid[s]])
    BY <1>0, <2>1, Distinct DEF Careful, Mapped, Writes, SettingUp, Live, Sending,
       IInv, TypeOK
  <2>3. SettingUp(s)' => pc'[s] = "alloc"
    BY <1>0, <2>2, Distinct DEF Look, Open, SettingUp, Live, IInv, TypeOK, entries
  <2>4. \A q \in Senders \ {s} : SettingUp(q)' = SettingUp(q) /\ Owns(q)' = Owns(q)
    BY Distinct DEF Look, Open, SettingUp, Owns, IInv, TypeOK, entries
  <2>5. ~Owns(s)'
    BY <2>2, Distinct DEF Look, Open, Owns, Live, IInv, TypeOK, entries
  <2> QED BY <1>0, <2>1, <2>4, <2>5, Distinct
        DEF Look, Open, Apart, Careful, IInv, TypeOK, locals
<1>2. Mapped'
  BY <1>0 DEF Careful, Look, entries, station, locals, Meeting, Open, Writes, Live,
     Mapped
<1>3. Armed'
  BY <1>0 DEF Careful, Look, entries, station, Meeting, Open, Busy, Answered, Armed
<1>4. (\A q \in Senders : Sending(q))'
  <2>1. \A q \in Senders : tid[q] = tid[s] => ~SettingUp(q)
    BY <1>0 DEF Look, Meeting
  <2>2. oriMap[tid[s]] # 0 => Live(oriMap[tid[s]])
    BY <1>0, <2>1, Distinct DEF Careful, Mapped, Writes, SettingUp, Live, Sending,
       IInv, TypeOK
  <2>3. Sending(s)'
    BY <1>0, <2>2, Distinct
       DEF Look, Open, Sending, Live, IInv, TypeOK, entries, station, locals, Busy
  <2>4. ASSUME NEW q \in Senders, q # s PROVE Sending(q)'
    BY <1>0, <2>4, Distinct DEF Look, Open, Sending, Careful, Live, Busy, IInv,
       TypeOK, entries,
       station, locals
  <2> QED BY <2>3, <2>4
<1>5. (\A j \in OriIdx : Firing(j))'
  BY <1>0, Distinct DEF Careful, Look, entries, station, Meeting, Open, Busy, Firing
<1>6. Handling'
  BY <1>0 DEF Careful, Look, entries, station, locals, Meeting, Open, InHand, Filling,
     Live, Handling
<1>7. Held'
  BY <1>0 DEF Careful, Look, entries, station, Meeting, Open, Live, Held
<1>8. Masked'
  BY <1>0 DEF Careful, Look, entries, station, locals, Meeting, Open, Masked
<1>9. Counts'
  BY <1>0 DEF Careful, Look, entries, Meeting, Open, Used, Granted, Counts
<1> QED BY <1>1, <1>2, <1>3, <1>4, <1>5, <1>6, <1>7, <1>8, <1>9 DEF Careful

\* BATableAllocOriEntry takes an entry nobody has.
LEMMA AllocKeeps ==
    ASSUME IInv, NEW s \in Senders, ~raced', Alloc(s)
    PROVE  Careful'
<1>0. ~raced /\ Careful BY DEF IInv, Alloc
<1>1. Apart'
  BY <1>0 DEF Careful, Alloc, locals, Open, SettingUp, Owns, Apart, Sending, Used, Live
<1>2. Mapped'
  BY <1>0 DEF Careful, Alloc, station, locals, Open, Writes, Live, Mapped, Used, Sending
<1>3. Armed'
  BY <1>0 DEF Careful, Alloc, station, Open, Busy, Answered, Armed, Used, Handling
<1>4. (\A q \in Senders : Sending(q))'
  BY <1>0, Distinct DEF IInv, TypeOK, Careful, Alloc, station, locals, Open, Live,
     Busy, Sending, Used, Owns
<1>5. (\A j \in OriIdx : Firing(j))'
  BY <1>0 DEF Careful, Alloc, station, Open, Busy, Firing, Used
<1>6. Handling'
  BY <1>0, Distinct DEF Careful, Alloc, station, locals, Open, InHand, Filling, Live,
     Handling, Used
<1>7. Held'
  BY <1>0, Distinct DEF IInv, TypeOK, Careful, Alloc, station, Open, Live, Held
<1>8. Masked'
  BY <1>0 DEF Careful, Alloc, station, locals, Open, Masked, Used, Handling
<1>9. Counts'
  <2>1. PICK j \in OriIdx \ Used : st' = [st EXCEPT ![j] = "USED"] BY DEF Alloc
  <2>2. Used' = Used \cup {j} /\ Granted' = Granted
    BY <2>1 DEF Used, Granted, IInv, TypeOK
  <2>3. Cardinality(Used') = Cardinality(Used) + 1 BY <2>1, <2>2, UsedFinite,
      FS_AddElement
  <2>4. pc'[Mlme] = pc[Mlme] BY Distinct DEF Alloc, Open, IInv, TypeOK
  <2> QED BY <1>0, <2>2, <2>3, <2>4 DEF Careful, Counts, Alloc
<1> QED BY <1>1, <1>2, <1>3, <1>4, <1>5, <1>6, <1>7, <1>8, <1>9 DEF Careful

\* The table is full.
LEMMA AllocFailsKeeps ==
    ASSUME IInv, NEW s \in Senders, ~raced', AllocFails(s)
    PROVE  Careful'
<1>0. ~raced /\ Careful BY DEF IInv, AllocFails
<1>1. Apart'
  BY <1>0 DEF Careful, AllocFails, entries, locals, Open, Return, SettingUp, Owns, Apart
<1>2. Mapped'
  BY <1>0 DEF Careful, AllocFails, entries, station, locals, Open, Return, Writes,
     Live, Mapped
<1>3. Armed'
  BY <1>0 DEF Careful, AllocFails, entries, station, Open, Return, Busy, Answered, Armed
<1>4. (\A q \in Senders : Sending(q))'
  BY <1>0 DEF Careful, AllocFails, entries, station, locals, Open, Return, Live, Busy,
     Sending
<1>5. (\A j \in OriIdx : Firing(j))'
  BY <1>0, Distinct DEF Careful, AllocFails, entries, station, Open, Return, Busy,
     Firing
<1>6. Handling'
  BY <1>0, Distinct DEF Careful, AllocFails, entries, station, locals, Open, Return,
     InHand, Filling, Live, Handling
<1>7. Held'
  BY <1>0 DEF Careful, AllocFails, entries, station, Open, Return, Live, Held
<1>8. Masked'
  BY <1>0 DEF Careful, AllocFails, entries, station, locals, Open, Return, Masked
<1>9. Counts'
  BY <1>0 DEF Careful, AllocFails, entries, Open, Return, Used, Granted, Counts
<1> QED BY <1>1, <1>2, <1>3, <1>4, <1>5, <1>6, <1>7, <1>8, <1>9 DEF Careful

\* A set-up that is under way or granted is left alone.
LEMMA StatusKeeps ==
    ASSUME IInv, NEW s \in Senders, ~raced', Status(s)
    PROVE  Careful'
<1>0. ~raced /\ Careful BY DEF IInv, Status
<1>1. Apart'
  BY <1>0, Distinct DEF IInv, TypeOK, Careful, Status, entries, locals, Open, Return,
     Goto, SettingUp, Owns, Apart, Sending, Live
<1>2. Mapped'
  BY <1>0, Distinct DEF IInv, TypeOK, Careful, Status, entries, station, locals, Open,
     Return, Goto, Writes, Live, Mapped
<1>3. Armed'
  BY <1>0, Distinct DEF IInv, TypeOK, Careful, Status, entries, station, Open, Return,
     Goto, Busy, Answered, Armed
<1>4. (\A q \in Senders : Sending(q))'
  BY <1>0, Distinct DEF IInv, TypeOK, Careful, Status, entries, station, locals, Open,
     Return, Goto, Live, Busy, Sending
<1>5. (\A j \in OriIdx : Firing(j))'
  BY <1>0, Distinct DEF IInv, TypeOK, Careful, Status, entries, station, Open, Return,
     Goto, Busy, Firing
<1>6. Handling'
  BY <1>0, Distinct DEF IInv, TypeOK, Careful, Status, entries, station, locals, Open,
     Return, Goto, InHand, Filling, Live, Handling
<1>7. Held'
  BY <1>0, Distinct DEF IInv, TypeOK, Careful, Status, entries, station, Open, Return,
     Goto, Live, Held
<1>8. Masked'
  BY <1>0, Distinct DEF IInv, TypeOK, Careful, Status, entries, station, locals, Open,
     Return, Goto, Masked
<1>9. Counts'
  BY <1>0, Distinct DEF IInv, TypeOK, Careful, Status, entries, Open, Return, Goto,
     Used, Granted, Counts
<1> QED BY <1>1, <1>2, <1>3, <1>4, <1>5, <1>6, <1>7, <1>8, <1>9 DEF Careful

\* The index names the entry; nobody but its sender knows it.
LEMMA MapKeeps ==
    ASSUME IInv, NEW s \in Senders, ~raced', Map(s)
    PROVE  Careful'
<1>0. ~raced /\ Careful BY DEF IInv, Map
<1>1. Apart'
  BY <1>0 DEF Careful, Map, entries, locals, Goto, SettingUp, Owns, Apart
<1>2. Mapped'
  BY <1>0, Distinct DEF IInv, TypeOK, Careful, Map, entries, locals, Goto, Writes,
     Live, Mapped, Sending, Apart, Owns
<1>3. Armed'
  BY <1>0, Distinct DEF Careful, Map, entries, Goto, Busy, Answered, Armed, Sending
<1>4. (\A q \in Senders : Sending(q))'
  BY <1>0, Distinct DEF IInv, TypeOK, Careful, Map, entries, locals, Goto, Live, Busy,
     Sending, Apart, Owns, SettingUp, Handling, Firing, Armed, Answered
<1>5. (\A j \in OriIdx : Firing(j))'
  BY <1>0, Distinct DEF Careful, Map, entries, Goto, Busy, Firing, Sending
<1>6. Handling'
  BY <1>0 DEF Careful, Map, entries, locals, Goto, InHand, Filling, Live, Handling,
     Sending
<1>7. Held'
  BY <1>0, Distinct DEF Careful, Map, entries, Goto, Live, Held, Sending
<1>8. Masked'
  BY <1>0 DEF Careful, Map, entries, locals, Goto, Masked, Sending
<1>9. Counts'
  BY <1>0 DEF Careful, Map, entries, Goto, Used, Granted, Counts
<1> QED BY <1>1, <1>2, <1>3, <1>4, <1>5, <1>6, <1>7, <1>8, <1>9 DEF Careful

\* The entry is asked for, its TID not yet written.
LEMMA WaitKeeps ==
    ASSUME IInv, NEW s \in Senders, ~raced', Wait(s)
    PROVE  Careful'
<1>0. ~raced /\ Careful BY DEF IInv, Wait
<1>1. Apart'
  BY <1>0 DEF Careful, Wait, locals, Goto, SettingUp, Owns, Apart
<1>2. Mapped'
  BY <1>0 DEF Careful, Wait, station, locals, Goto, Writes, Live, Mapped
<1>3. Armed'
  BY <1>0 DEF Careful, Wait, station, Goto, Busy, Answered, Armed
<1>4. (\A q \in Senders : Sending(q))'
  BY <1>0, Distinct DEF IInv, TypeOK, Careful, Wait, station, locals, Goto, Live,
     Busy, Sending, Apart, Owns
<1>5. (\A j \in OriIdx : Firing(j))'
  BY <1>0 DEF Careful, Wait, station, Goto, Busy, Firing
<1>6. Handling'
  BY <1>0 DEF Careful, Wait, station, locals, Goto, InHand, Filling, Live, Handling
<1>7. Held'
  BY <1>0, Distinct DEF IInv, TypeOK, Careful, Wait, station, Goto, Live, Held
<1>8. Masked'
  BY <1>0 DEF Careful, Wait, station, locals, Goto, Masked, Sending, Handling
<1>9. Counts'
  <2>1. at[s] \in OriIdx /\ st[at[s]] = "USED"
    BY <1>0, Distinct DEF Wait, Careful, Sending, IInv, TypeOK
  <2>2. Used' = Used /\ Granted' = Granted
    BY <2>1 DEF Wait, Used, Granted, IInv, TypeOK
  <2>3. pc'[Mlme] = pc[Mlme] BY Distinct DEF Wait, Goto, IInv, TypeOK
  <2> QED BY <1>0, <2>2, <2>3 DEF Careful, Counts, Wait
<1> QED BY <1>1, <1>2, <1>3, <1>4, <1>5, <1>6, <1>7, <1>8, <1>9 DEF Careful

\* The entry gets its TID.
LEMMA KeyKeeps ==
    ASSUME IInv, NEW s \in Senders, ~raced', Key(s)
    PROVE  Careful'
<1>0. ~raced /\ Careful BY DEF IInv, Key
<1>1. Apart'
  BY <1>0 DEF Careful, Key, locals, Goto, SettingUp, Owns, Apart
<1>2. Mapped'
  BY <1>0 DEF IInv, TypeOK, Careful, Key, station, locals, Goto, Writes, Live, Mapped,
     Sending, Apart, Owns
<1>3. Armed'
  BY <1>0 DEF Careful, Key, station, Goto, Busy, Answered, Armed, Sending
<1>4. (\A q \in Senders : Sending(q))'
  BY <1>0 DEF IInv, TypeOK, Careful, Key, station, locals, Goto, Live, Busy, Sending,
     Apart, Owns
<1>5. (\A j \in OriIdx : Firing(j))'
  BY <1>0 DEF Careful, Key, station, Goto, Busy, Firing, Sending
<1>6. Handling'
  BY <1>0 DEF Careful, Key, station, locals, Goto, InHand, Filling, Live, Handling
<1>7. Held'
  BY <1>0 DEF IInv, TypeOK, Careful, Key, station, Goto, Live, Held, Sending, Apart,
     Owns
<1>8. Masked'
  BY <1>0 DEF Careful, Key, station, locals, Goto, Masked
<1>9. Counts'
  BY <1>0 DEF Careful, Key, Goto, Used, Granted, Counts
<1> QED BY <1>1, <1>2, <1>3, <1>4, <1>5, <1>6, <1>7, <1>8, <1>9 DEF Careful

\* The entry gets its timer.
LEMMA ArmKeeps ==
    ASSUME IInv, NEW s \in Senders, ~raced', Arm(s)
    PROVE  Careful'
<1>0. ~raced /\ Careful BY DEF IInv, Arm
<1>1. Apart'
  BY <1>0 DEF IInv, TypeOK, Careful, Arm, entries, locals, Open, Return, SettingUp,
     Owns, Apart
<1>2. Mapped'
  BY <1>0 DEF Careful, Arm, entries, station, locals, Open, Return, Writes, Live, Mapped
<1>3. Armed'
  BY <1>0 DEF Careful, Arm, entries, station, Open, Return, Busy, Answered, Armed,
     Sending
<1>4. (\A q \in Senders : Sending(q))'
  BY <1>0, Distinct DEF IInv, TypeOK, Careful, Arm, entries, station, locals, Open,
     Return, Live, Busy, Sending, Apart, Owns
<1>5. (\A j \in OriIdx : Firing(j))'
  BY <1>0, Distinct DEF Careful, Arm, entries, station, Open, Return, Busy, Firing,
     Sending
<1>6. Handling'
  BY <1>0 DEF Careful, Arm, entries, station, locals, Open, Return, InHand, Filling,
     Live, Handling
<1>7. Held'
  BY <1>0 DEF Careful, Arm, entries, station, Open, Return, Live, Held
<1>8. Masked'
  BY <1>0 DEF Careful, Arm, entries, station, locals, Open, Return, Masked
<1>9. Counts'
  BY <1>0 DEF Careful, Arm, entries, Open, Return, Used, Granted, Counts
<1> QED BY <1>1, <1>2, <1>3, <1>4, <1>5, <1>6, <1>7, <1>8, <1>9 DEF Careful

\* A timeout finds an entry nobody has in hand.
LEMMA FireKeeps ==
    ASSUME IInv, NEW i \in OriIdx, ~raced', Fire(i)
    PROVE  Careful'
<1>0. ~raced /\ Careful BY DEF IInv, Fire, Meeting
<1>1. Apart'
  BY <1>0 DEF Careful, Fire, entries, locals, Meeting, Goto, SettingUp, Owns, Apart
<1>2. Mapped'
  BY <1>0 DEF Careful, Fire, entries, station, locals, Meeting, Goto, Writes, Live,
     Mapped
<1>3. Armed'
  BY <1>0 DEF Careful, Fire, entries, station, Meeting, Goto, Busy, Answered, Armed
<1>4. (\A q \in Senders : Sending(q))'
  BY <1>0 DEF Careful, Fire, entries, station, locals, Meeting, Goto, Live, Busy,
     Sending
<1>5. (\A j \in OriIdx : Firing(j))'
  BY <1>0 DEF IInv, TypeOK, Careful, Fire, entries, station, Meeting, Goto, Busy,
     Firing, Armed, Answered
<1>6. Handling'
  BY <1>0, Distinct DEF IInv, TypeOK, Careful, Fire, entries, station, locals,
     Meeting, Goto, InHand, Filling, Live, Handling, Busy, Armed
<1>7. Held'
  BY <1>0 DEF Careful, Fire, entries, station, Meeting, Goto, Live, Held
<1>8. Masked'
  BY <1>0 DEF Careful, Fire, entries, station, locals, Meeting, Goto, Masked
<1>9. Counts'
  BY <1>0 DEF Careful, Fire, entries, Meeting, Goto, Used, Granted, Counts
<1> QED BY <1>1, <1>2, <1>3, <1>4, <1>5, <1>6, <1>7, <1>8, <1>9 DEF Careful

\* It asks again and arms the timer again.
LEMMA RetryKeeps ==
    ASSUME IInv, NEW i \in OriIdx, ~raced', Retry(i)
    PROVE  Careful'
<1>0. ~raced /\ Careful BY DEF IInv, Retry
<1>1. Apart'
  BY <1>0 DEF Careful, Retry, locals, Open, Return, SettingUp, Owns, Apart
<1>2. Mapped'
  BY <1>0 DEF Careful, Retry, station, locals, Open, Return, Writes, Live, Mapped
<1>3. Armed'
  BY <1>0 DEF Careful, Retry, station, Open, Return, Busy, Answered, Armed, Firing
<1>4. (\A q \in Senders : Sending(q))'
  BY <1>0, Distinct DEF Careful, Retry, station, locals, Open, Return, Live, Busy,
     Sending
<1>5. (\A j \in OriIdx : Firing(j))'
  BY <1>0, Distinct DEF IInv, TypeOK, Careful, Retry, station, Open, Return, Busy,
     Firing
<1>6. Handling'
  BY <1>0, Distinct DEF Careful, Retry, station, locals, Open, Return, InHand,
     Filling, Live, Handling
<1>7. Held'
  BY <1>0 DEF Careful, Retry, station, Open, Return, Live, Held
<1>8. Masked'
  BY <1>0 DEF Careful, Retry, station, locals, Open, Return, Masked
<1>9. Counts'
  BY <1>0 DEF Careful, Retry, Open, Return, Used, Granted, Counts
<1> QED BY <1>1, <1>2, <1>3, <1>4, <1>5, <1>6, <1>7, <1>8, <1>9 DEF Careful

\* What its TID's index names is the timer's own entry.
LEMMA GiveUpKeeps ==
    ASSUME IInv, NEW i \in OriIdx, ~raced', GiveUp(i)
    PROVE  Careful'
<1>0. ~raced /\ Careful BY DEF IInv, GiveUp
<1>1. Apart'
  BY <1>0 DEF Careful, GiveUp, entries, locals, Open, SettingUp, Owns, Apart
<1>2. Mapped'
  BY <1>0 DEF Careful, GiveUp, entries, station, locals, Open, Writes, Live, Mapped
<1>3. Armed'
  BY <1>0 DEF Careful, GiveUp, entries, station, Open, Busy, Answered, Armed
<1>4. (\A q \in Senders : Sending(q))'
  BY <1>0, Distinct DEF Careful, GiveUp, entries, station, locals, Open, Live, Busy,
     Sending
<1>5. (\A j \in OriIdx : Firing(j))'
  BY <1>0, Distinct DEF IInv, TypeOK, Careful, GiveUp, entries, station, Open, Busy,
     Firing
<1>6. Handling'
  BY <1>0, Distinct DEF Careful, GiveUp, entries, station, locals, Open, InHand,
     Filling, Live, Handling
<1>7. Held'
  BY <1>0 DEF Careful, GiveUp, entries, station, Open, Live, Held
<1>8. Masked'
  BY <1>0 DEF Careful, GiveUp, entries, station, locals, Open, Masked
<1>9. Counts'
  BY <1>0 DEF Careful, GiveUp, entries, Open, Used, Granted, Counts
<1> QED BY <1>1, <1>2, <1>3, <1>4, <1>5, <1>6, <1>7, <1>8, <1>9 DEF Careful

\* The index lets go of the entry.
LEMMA FreeTestKeeps ==
    ASSUME IInv, NEW p \in OriIdx \cup {Mlme}, ~raced', FreeTest(p)
    PROVE  Careful'
<1>0. ~raced /\ Careful BY DEF IInv, FreeTest, Meeting
<1>1. Apart'
  BY <1>0, Distinct DEF IInv, TypeOK, Careful, FreeTest, entries, locals, Meeting,
     Open, Return, Goto, SettingUp, Owns, Apart
<1>2. Mapped'
  BY <1>0, Distinct DEF IInv, TypeOK, Careful, FreeTest, entries, locals, Meeting,
     Open, Return, Goto, Writes, Live, Mapped
<1>3. Armed'
  BY <1>0, Distinct DEF IInv, TypeOK, Careful, FreeTest, entries, Meeting, Open,
     Return, Goto, Busy, Answered, Armed, Firing, Handling
<1>4. (\A q \in Senders : Sending(q))'
  <2>1. CASE at[p] = 0 \/ st[at[p]] = "NONE"
    <3>1. /\ oriMap' = oriMap /\ pc' = [pc EXCEPT ![p] = "idle"]
          /\ at' = [at EXCEPT ![p] = 0]
      BY <2>1 DEF FreeTest, Return, Open
    <3>2. ASSUME NEW q \in Senders PROVE Sending(q)'
      BY <1>0, <3>1, Distinct DEF FreeTest, Careful, Sending, Live, Busy, IInv, TypeOK,
         entries, locals
    <3> QED BY <3>2
  <2>2. CASE ~(at[p] = 0 \/ st[at[p]] = "NONE")
    <3>1. /\ at[p] \in OriIdx /\ pc' = [pc EXCEPT ![p] = "lock"] /\ at' = at
          /\ oriMap' = [oriMap EXCEPT ![key[at[p]]] = 0]
          /\ \A q \in Senders : ~(pc[q] = "status" /\ at[q] = at[p])
      BY <1>0, <2>2, Distinct DEF FreeTest, Goto, Meeting, IInv, TypeOK
    <3>2. oriMap[key[at[p]]] = at[p] /\ \A q \in Senders : ~Filling(q, at[p])
      BY <1>0, <3>1, Distinct
         DEF FreeTest, Careful, Firing, Handling, Sending, InHand, Filling, IInv, TypeOK
    <3>3. ASSUME NEW q \in Senders PROVE Sending(q)'
      <4>1. pc[q] \in {"status", "wait", "key", "arm"} /\ at[q] # 0
              => oriMap[tid[q]] = 0 \/ oriMap'[tid[q]] = oriMap[tid[q]]
        BY <1>0, <3>1, <3>2, Distinct
           DEF Careful, Sending, Filling, IInv, TypeOK
      <4> QED BY <1>0, <3>1, <4>1, Distinct
            DEF FreeTest, Careful, Sending, Live, Busy, IInv, TypeOK, entries, locals
    <3> QED BY <3>3
  <2> QED BY <2>1, <2>2
<1>5. (\A j \in OriIdx : Firing(j))'
  BY <1>0, Distinct DEF IInv, TypeOK, Careful, FreeTest, entries, Meeting, Open,
     Return, Goto, Busy, Firing, Handling
<1>6. Handling'
  BY <1>0, Distinct DEF IInv, TypeOK, Careful, FreeTest, entries, locals, Meeting,
     Open, Return, Goto, InHand, Filling, Live, Handling, Firing
<1>7. Held'
  BY <1>0, Distinct DEF IInv, TypeOK, Careful, FreeTest, entries, Meeting, Open,
     Return, Goto, Live, Held, Firing, Handling
<1>8. Masked'
  BY <1>0, Distinct DEF IInv, TypeOK, Careful, FreeTest, entries, locals, Meeting,
     Open, Return, Goto, Masked, Firing, Handling
<1>9. Counts'
  BY <1>0, Distinct DEF IInv, TypeOK, Careful, FreeTest, entries, Meeting, Open,
     Return, Goto, Used, Granted, Counts
<1> QED BY <1>1, <1>2, <1>3, <1>4, <1>5, <1>6, <1>7, <1>8, <1>9 DEF Careful

\* The entry is free.
LEMMA FreeLockedKeeps ==
    ASSUME IInv, NEW p \in OriIdx \cup {Mlme}, ~raced', FreeLocked(p)
    PROVE  Careful'
<1>0. ~raced /\ Careful BY DEF IInv, FreeLocked
<1>1. Apart'
  BY <1>0 DEF Careful, FreeLocked, locals, Open, Return, SettingUp, Owns, Apart
<1>2. Mapped'
  BY <1>0 DEF Careful, FreeLocked, locals, Open, Return, Writes, Live, Mapped, Firing,
     Handling, InHand, Filling
<1>3. Armed'
  BY <1>0 DEF Careful, FreeLocked, Open, Return, Busy, Answered, Armed, Firing, Handling
<1>4. (\A q \in Senders : Sending(q))'
  BY <1>0, Distinct DEF IInv, TypeOK, Careful, FreeLocked, locals, Open, Return, Live,
     Busy, Sending, Firing, Handling, InHand, Filling, Mapped, Writes
<1>5. (\A j \in OriIdx : Firing(j))'
  BY <1>0, Distinct DEF IInv, TypeOK, Careful, FreeLocked, Open, Return, Busy, Firing
<1>6. Handling'
  BY <1>0, Distinct DEF IInv, TypeOK, Careful, FreeLocked, locals, Open, Return,
     InHand, Filling, Live, Handling, Firing
<1>7. Held'
  BY <1>0 DEF IInv, TypeOK, Careful, FreeLocked, Open, Return, Live, Held
<1>8. Masked'
  <2> DEFINE i == at[p]
  <2>1. /\ i \in OriIdx /\ oriMap[key[i]] # i /\ Live(i)
        /\ st' = [st EXCEPT ![i] = "NONE"] /\ oriMap' = oriMap
    BY <1>0, Distinct DEF FreeLocked, station, Careful, Firing, Handling, Live, IInv,
       TypeOK
  <2>2. \A u \in Tids : oriMap[u] # i
    BY <1>0, <2>1, Distinct
       DEF FreeLocked, Careful, Mapped, Writes, Firing, Handling, Sending, InHand, Filling,
             IInv, TypeOK
  <2>3. p = Mlme \/ st[i] = "WaitRes" BY <1>0, Distinct DEF FreeLocked, Careful, Firing
  <2>4. p # Mlme => /\ pc'[Mlme] = pc[Mlme] /\ at'[Mlme] = at[Mlme] /\ at[Mlme] # i
    BY <1>0, Distinct DEF FreeLocked, Return, Open, Careful, Firing, Busy, IInv, TypeOK
  <2>5. ASSUME NEW u \in txBa'
        PROVE  \/ oriMap'[u] # 0 /\ st'[oriMap'[u]] = "Done"
               \/ pc'[Mlme] = "lock" /\ tid'[Mlme] = u /\ st'[at'[Mlme]] = "Done"
    <3>1. u \in txBa /\ u \in Tids /\ (st[i] = "Done" => u # key[i]) BY
            DEF FreeLocked, IInv, TypeOK
    <3>2. CASE oriMap[u] # 0 /\ st[oriMap[u]] = "Done"
      BY <2>1, <2>2, <3>1, <3>2 DEF IInv, TypeOK
    <3>3. CASE pc[Mlme] = "lock" /\ tid[Mlme] = u /\ st[at[Mlme]] = "Done"
      <4>1. p # Mlme
        BY <1>0, <3>1, <3>3 DEF Careful, Handling
      <4> QED BY <2>1, <2>4, <3>3, <4>1, Distinct DEF FreeLocked, locals, IInv, TypeOK
    <3> QED BY <1>0, <3>1, <3>2, <3>3 DEF Careful, Masked
  <2> QED BY <2>5 DEF Masked
<1>9. Counts'
  <2> DEFINE i == at[p]
  <2>1. i \in OriIdx /\ Live(i) /\ pc[p] = "lock" /\ st' = [st EXCEPT ![i] = "NONE"]
    BY <1>0, Distinct DEF FreeLocked, Careful, Firing, Handling, Live, IInv, TypeOK
  <2>2. Used' = Used \ {i} /\ i \in Used /\ Granted' = Granted \ {i}
    BY <2>1 DEF Used, Granted, Live, IInv, TypeOK
  <2>3. Cardinality(Used') = Cardinality(Used) - 1
    BY <2>2, UsedFinite, FS_RemoveElement
  <2>4. Cardinality(Granted') = Cardinality(Granted) - (IF st[i] = "Done" THEN 1 ELSE 0)
    <3>1. CASE st[i] = "Done"
      <4>1. i \in Granted BY <2>1, <3>1 DEF Granted
      <4> QED BY <2>2, <3>1, <4>1, UsedFinite, FS_RemoveElement
    <3>2. CASE st[i] # "Done"
      <4>1. Granted' = Granted BY <2>2, <3>2 DEF Granted
      <4> QED BY <4>1, <3>2, UsedFinite, FS_CardinalityType
    <3> QED BY <3>1, <3>2
  <2>5. \/ pc'[Mlme] # "count" /\ pc[Mlme] # "count"
        \/ st[i] # "Done" /\ pc'[Mlme] = pc[Mlme]
    <3>1. CASE p = Mlme
      BY <2>1, <3>1, Distinct DEF FreeLocked, Return, Open, IInv, TypeOK
    <3>2. CASE p # Mlme
      BY <1>0, <2>1, <3>2, Distinct DEF FreeLocked, Return, Open, Careful, Firing,
         IInv, TypeOK
    <3> QED BY <3>1, <3>2
  <2>6. /\ numOri' = numOri - 1
        /\ numDone' = numDone - (IF st[i] = "Done" THEN 1 ELSE 0)
    BY DEF FreeLocked, IInv, TypeOK
  <2>7. Cardinality(Granted) \in Nat BY UsedFinite, FS_CardinalityType
  <2> QED BY <1>0, <2>3, <2>4, <2>5, <2>6, <2>7 DEF Careful, Counts, IInv, TypeOK
<1> QED BY <1>1, <1>2, <1>3, <1>4, <1>5, <1>6, <1>7, <1>8, <1>9 DEF Careful

\* The MLME thread gets an entry nobody has in hand.
LEMMA TakeKeeps ==
    ASSUME IInv, NEW t \in Tids, NEW step \in {"check", "cancel"}, ~raced', Take(t, step)
    PROVE  Careful'
<1>0. ~raced /\ Careful BY DEF IInv, Take, Meeting
<1>1. Apart'
  BY <1>0 DEF Careful, Take, entries, Meeting, Open, SettingUp, Owns, Apart
<1>2. Mapped'
  BY <1>0 DEF Careful, Take, entries, station, Meeting, Open, Writes, Live, Mapped
<1>3. Armed'
  BY <1>0 DEF Careful, Take, entries, station, Busy, Answered, Armed, Handling
<1>4. (\A q \in Senders : Sending(q))'
  <2>1. ASSUME NEW q \in Senders PROVE Sending(q)'
    <3>1. oriMap[t] \in OriIdx /\ ~Filling(q, oriMap[t]) BY <1>0 DEF Take, Meeting,
        InHand, IInv, TypeOK
    <3> QED BY <1>0, <3>1, Distinct
          DEF Filling, Take, Open, Sending, Careful, Live, Busy, IInv, TypeOK, entries, station
  <2> QED BY <2>1
<1>5. (\A j \in OriIdx : Firing(j))'
  <2>1. oriMap[t] \in OriIdx /\ pc[oriMap[t]] = "idle"
    BY <1>0 DEF Take, Meeting, InHand, IInv, TypeOK
  <2> QED BY <1>0, <2>1, Distinct
        DEF Take, Open, Firing, Careful, Busy, IInv, TypeOK, entries, station
<1>6. Handling'
  <2>1. /\ oriMap[t] \in OriIdx /\ ~InHand(oriMap[t])
        /\ \A q \in Senders : ~Filling(q, oriMap[t])
    BY <1>0 DEF Take, Meeting, InHand, IInv, TypeOK
  <2>2. key[oriMap[t]] = t /\ Live(oriMap[t])
    BY <1>0, <2>1, Distinct DEF Careful, Mapped, Filling, Writes
  <2>3. ~InHand(oriMap[t])'
    BY <2>1, Distinct DEF Take, Open, station, InHand, Filling, IInv, TypeOK
  <2> QED BY <2>1, <2>2, <2>3, Distinct
        DEF Take, Open, Handling, Live, IInv, TypeOK, entries, station
<1>7. Held'
  BY <1>0 DEF Careful, Take, entries, station, Meeting, Open, Live, Held
<1>8. Masked'
  BY <1>0 DEF Careful, Take, entries, station, Masked
<1>9. Counts'
  BY <1>0 DEF Careful, Take, entries, Meeting, Open, Used, Granted, Counts
<1> QED BY <1>1, <1>2, <1>3, <1>4, <1>5, <1>6, <1>7, <1>8, <1>9 DEF Careful

\* The answer is for the request that waits, or it is left.
LEMMA AddCheckKeeps ==
    ASSUME IInv, ~raced', AddCheck
    PROVE  Careful'
<1>0. ~raced /\ Careful BY DEF IInv, AddCheck
<1>1. Apart'
  BY <1>0, Distinct DEF IInv, TypeOK, Careful, AddCheck, entries, locals, Open,
     Return, Goto, SettingUp, Owns, Apart
<1>2. Mapped'
  BY <1>0, Distinct DEF IInv, TypeOK, Careful, AddCheck, entries, station, locals,
     Open, Return, Goto, Writes, Live, Mapped
<1>3. Armed'
  BY <1>0 DEF Careful, AddCheck, entries, station, Busy, Answered, Armed
<1>4. (\A q \in Senders : Sending(q))'
  BY <1>0, Distinct DEF IInv, TypeOK, Careful, AddCheck, entries, station, locals,
     Open, Return, Goto, Live, Busy, Sending
<1>5. (\A j \in OriIdx : Firing(j))'
  BY <1>0, Distinct DEF IInv, TypeOK, Careful, AddCheck, entries, station, Open,
     Return, Goto, Busy, Firing
<1>6. Handling'
  BY <1>0, Distinct DEF IInv, TypeOK, Careful, AddCheck, entries, station, locals,
     Open, Return, Goto, InHand, Filling, Live, Handling
<1>7. Held'
  BY <1>0, Distinct DEF IInv, TypeOK, Careful, AddCheck, entries, station, Open,
     Return, Goto, Live, Held
<1>8. Masked'
  BY <1>0 DEF Careful, AddCheck, entries, station, locals, Masked
<1>9. Counts'
  BY <1>0 DEF IInv, TypeOK, Careful, AddCheck, entries, Open, Return, Goto, Used,
     Granted, Counts
<1> QED BY <1>1, <1>2, <1>3, <1>4, <1>5, <1>6, <1>7, <1>8, <1>9 DEF Careful

\* The session is granted.
LEMMA AddGrantKeeps ==
    ASSUME IInv, ~raced', AddGrant
    PROVE  Careful'
<1>0. ~raced /\ Careful BY DEF IInv, AddGrant
<1>1. Apart'
  BY <1>0 DEF Careful, AddGrant, Goto, SettingUp, Owns, Apart
<1>2. Mapped'
  BY <1>0 DEF Careful, AddGrant, station, Goto, Writes, Live, Mapped
<1>3. Armed'
  BY <1>0, Distinct DEF IInv, TypeOK, Careful, AddGrant, station, Goto, Busy,
     Answered, Armed
<1>4. (\A q \in Senders : Sending(q))'
  BY <1>0 DEF Careful, AddGrant, station, Goto, Live, Busy, Sending, Handling, InHand,
     Filling
<1>5. (\A j \in OriIdx : Firing(j))'
  BY <1>0 DEF Careful, AddGrant, station, Goto, Busy, Firing
<1>6. Handling'
  BY <1>0, Distinct DEF IInv, TypeOK, Careful, AddGrant, station, Goto, InHand,
     Filling, Live, Handling
<1>7. Held'
  BY <1>0 DEF Careful, AddGrant, station, Goto, Live, Held, Handling
<1>8. Masked'
  BY <1>0 DEF Careful, AddGrant, station, Masked
<1>9. Counts'
  <2>1. at[Mlme] \in OriIdx /\ st[at[Mlme]] = "WaitRes"
    BY <1>0, Distinct DEF AddGrant, Careful, Handling, IInv, TypeOK
  <2>2. Used' = Used /\ Granted' = Granted \cup {at[Mlme]} /\ at[Mlme] \notin Granted
    BY <2>1 DEF AddGrant, Used, Granted, IInv, TypeOK
  <2>3. Cardinality(Granted') = Cardinality(Granted) + 1 /\ Cardinality(Granted) \in Nat
    BY <2>2, UsedFinite, FS_AddElement, FS_CardinalityType
  <2>4. pc[Mlme] = "grant" /\ pc'[Mlme] = "count" BY Distinct DEF AddGrant, Goto,
      IInv, TypeOK
  <2> QED BY <1>0, <2>2, <2>3, <2>4 DEF Careful, Counts, AddGrant, IInv, TypeOK
<1> QED BY <1>1, <1>2, <1>3, <1>4, <1>5, <1>6, <1>7, <1>8, <1>9 DEF Careful

\* It is counted with the number loaded before.
LEMMA AddCountKeeps ==
    ASSUME IInv, ~raced', AddCount
    PROVE  Careful'
<1>0. ~raced /\ Careful BY DEF IInv, AddCount
<1>1. Apart'
  BY <1>0 DEF Careful, AddCount, entries, Goto, SettingUp, Owns, Apart
<1>2. Mapped'
  BY <1>0 DEF Careful, AddCount, entries, station, Goto, Writes, Live, Mapped
<1>3. Armed'
  BY <1>0 DEF Careful, AddCount, entries, station, Goto, Busy, Answered, Armed
<1>4. (\A q \in Senders : Sending(q))'
  BY <1>0 DEF Careful, AddCount, entries, station, Goto, Live, Busy, Sending
<1>5. (\A j \in OriIdx : Firing(j))'
  BY <1>0 DEF Careful, AddCount, entries, station, Goto, Busy, Firing
<1>6. Handling'
  BY <1>0, Distinct DEF IInv, TypeOK, Careful, AddCount, entries, station, Goto,
     InHand, Filling, Live, Handling
<1>7. Held'
  BY <1>0 DEF Careful, AddCount, entries, station, Goto, Live, Held
<1>8. Masked'
  BY <1>0 DEF Careful, AddCount, entries, station, Masked
<1>9. Counts'
  <2>1. Used' = Used /\ Granted' = Granted BY DEF AddCount, entries, Used, Granted
  <2>2. pc[Mlme] = "count" /\ pc'[Mlme] = "mark" BY Distinct DEF AddCount, Goto, IInv,
      TypeOK
  <2>3. numDone' = numDone + 1 /\ numOri' = numOri
    BY <1>0 DEF AddCount, Careful, Handling
  <2>4. Cardinality(Granted) \in Nat BY UsedFinite, FS_CardinalityType
  <2> QED BY <1>0, <2>1, <2>2, <2>3, <2>4 DEF Careful, Counts, IInv, TypeOK
<1> QED BY <1>1, <1>2, <1>3, <1>4, <1>5, <1>6, <1>7, <1>8, <1>9 DEF Careful

\* Its bit is set in the bitmap loaded before.
LEMMA AddMarkKeeps ==
    ASSUME IInv, ~raced', AddMark
    PROVE  Careful'
<1>0. ~raced /\ Careful BY DEF IInv, AddMark
<1>1. Apart'
  BY <1>0 DEF Careful, AddMark, entries, Goto, SettingUp, Owns, Apart
<1>2. Mapped'
  BY <1>0 DEF Careful, AddMark, entries, Goto, Writes, Live, Mapped
<1>3. Armed'
  BY <1>0 DEF Careful, AddMark, entries, Goto, Busy, Answered, Armed
<1>4. (\A q \in Senders : Sending(q))'
  BY <1>0 DEF Careful, AddMark, entries, Goto, Live, Busy, Sending
<1>5. (\A j \in OriIdx : Firing(j))'
  BY <1>0 DEF Careful, AddMark, entries, Goto, Busy, Firing
<1>6. Handling'
  BY <1>0, Distinct DEF IInv, TypeOK, Careful, AddMark, entries, Goto, InHand,
     Filling, Live, Handling
<1>7. Held'
  BY <1>0 DEF Careful, AddMark, entries, Goto, Live, Held
<1>8. Masked'
  BY <1>0 DEF Careful, AddMark, entries, Masked, Handling
<1>9. Counts'
  BY <1>0 DEF Careful, AddMark, entries, Goto, Used, Granted, Counts
<1> QED BY <1>1, <1>2, <1>3, <1>4, <1>5, <1>6, <1>7, <1>8, <1>9 DEF Careful

\* Its timer is cancelled.
LEMMA AddStopKeeps ==
    ASSUME IInv, ~raced', AddStop
    PROVE  Careful'
<1>0. ~raced /\ Careful BY DEF IInv, AddStop
<1>1. Apart'
  BY <1>0 DEF Careful, AddStop, entries, locals, Open, Return, SettingUp, Owns, Apart
<1>2. Mapped'
  BY <1>0 DEF Careful, AddStop, entries, station, locals, Open, Return, Writes, Live,
     Mapped
<1>3. Armed'
  BY <1>0 DEF IInv, TypeOK, Careful, AddStop, entries, station, Busy, Answered, Armed
<1>4. (\A q \in Senders : Sending(q))'
  BY <1>0, Distinct DEF Careful, AddStop, entries, station, locals, Open, Return,
     Live, Busy, Sending
<1>5. (\A j \in OriIdx : Firing(j))'
  BY <1>0, Distinct DEF Careful, AddStop, entries, station, Open, Return, Busy, Firing
<1>6. Handling'
  BY <1>0 DEF IInv, TypeOK, Careful, AddStop, entries, station, locals, Open, Return,
     InHand, Filling, Live, Handling
<1>7. Held'
  BY <1>0 DEF Careful, AddStop, entries, station, Open, Return, Live, Held
<1>8. Masked'
  BY <1>0 DEF Careful, AddStop, entries, station, locals, Masked
<1>9. Counts'
  BY <1>0 DEF Careful, AddStop, entries, Open, Return, Used, Granted, Counts
<1> QED BY <1>1, <1>2, <1>3, <1>4, <1>5, <1>6, <1>7, <1>8, <1>9 DEF Careful

\* The session is kept.
LEMMA TearDownFailsKeeps ==
    ASSUME IInv, ~raced', TearDownFails
    PROVE  Careful'
<1>0. ~raced /\ Careful BY DEF IInv, TearDownFails
<1>1. Apart'
  BY <1>0 DEF Careful, TearDownFails, entries, locals, Open, Return, SettingUp, Owns,
     Apart
<1>2. Mapped'
  BY <1>0 DEF Careful, TearDownFails, entries, station, locals, Open, Return, Writes,
     Live, Mapped
<1>3. Armed'
  BY <1>0 DEF Careful, TearDownFails, entries, station, Busy, Answered, Armed
<1>4. (\A q \in Senders : Sending(q))'
  BY <1>0, Distinct DEF Careful, TearDownFails, entries, station, locals, Open,
     Return, Live, Busy, Sending
<1>5. (\A j \in OriIdx : Firing(j))'
  BY <1>0, Distinct DEF Careful, TearDownFails, entries, station, Open, Return, Busy,
     Firing
<1>6. Handling'
  BY <1>0 DEF IInv, TypeOK, Careful, TearDownFails, entries, station, locals, Open,
     Return, InHand, Filling, Live, Handling
<1>7. Held'
  BY <1>0 DEF Careful, TearDownFails, entries, station, Open, Return, Live, Held
<1>8. Masked'
  BY <1>0 DEF Careful, TearDownFails, entries, station, locals, Masked
<1>9. Counts'
  BY <1>0 DEF Careful, TearDownFails, entries, Open, Return, Used, Granted, Counts
<1> QED BY <1>1, <1>2, <1>3, <1>4, <1>5, <1>6, <1>7, <1>8, <1>9 DEF Careful

\* The timer of the entry to be freed is cancelled.
LEMMA CancelKeeps ==
    ASSUME IInv, ~raced', Cancel
    PROVE  Careful'
<1>0. ~raced /\ Careful BY DEF IInv, Cancel
<1>1. Apart'
  BY <1>0 DEF Careful, Cancel, entries, locals, Goto, SettingUp, Owns, Apart
<1>2. Mapped'
  BY <1>0 DEF Careful, Cancel, entries, station, locals, Goto, Writes, Live, Mapped
<1>3. Armed'
  BY <1>0 DEF Careful, Cancel, entries, station, Busy, Answered, Armed
<1>4. (\A q \in Senders : Sending(q))'
  BY <1>0 DEF Careful, Cancel, entries, station, locals, Goto, Live, Busy, Sending
<1>5. (\A j \in OriIdx : Firing(j))'
  BY <1>0, Distinct DEF Careful, Cancel, entries, station, Goto, Busy, Firing
<1>6. Handling'
  BY <1>0 DEF IInv, TypeOK, Careful, Cancel, entries, station, locals, Goto, InHand,
     Filling, Live, Handling
<1>7. Held'
  BY <1>0 DEF Careful, Cancel, entries, station, Goto, Live, Held
<1>8. Masked'
  BY <1>0 DEF Careful, Cancel, entries, station, locals, Masked
<1>9. Counts'
  BY <1>0 DEF Careful, Cancel, entries, Goto, Used, Granted, Counts
<1> QED BY <1>1, <1>2, <1>3, <1>4, <1>5, <1>6, <1>7, <1>8, <1>9 DEF Careful

-----------------------------------------------------------------------------
\* The values keep their types, met or not, and every thread its own steps.
LEMMA TypesKept == ASSUME IInv, [Next]_vars PROVE TypeOK' /\ Steps'
<1> USE DEF entries, station, locals
<1>1. ASSUME NEW s \in Senders, Send(s) PROVE TypeOK' /\ Steps'
  <2>1. CASE \E t \in Tids : Test(s, t)
    BY <2>1, Distinct DEF Test, Goto, IInv, TypeOK, Steps, SenderSteps
  <2>2. CASE Look(s)
    BY <2>2, Distinct DEF Look, Meeting, Open, IInv, TypeOK, Steps, SenderSteps
  <2>6. CASE Alloc(s)
    BY <2>6, Distinct DEF Alloc, Open, IInv, TypeOK, Steps, SenderSteps
  <2>7. CASE AllocFails(s)
    BY <2>7, Distinct DEF AllocFails, Open, Return, IInv, TypeOK, Steps, SenderSteps
  <2>3. CASE Status(s) \/ Map(s)
    BY <2>3, Distinct DEF Status, Map, Goto, Open, Return, IInv, TypeOK, Steps,
       SenderSteps
  <2>4. CASE Wait(s)
    BY <2>4, Distinct DEF Wait, Goto, IInv, TypeOK, Steps, SenderSteps
  <2>8. CASE Arm(s)
    BY <2>8, Distinct DEF Arm, Open, Return, IInv, TypeOK, Steps, SenderSteps
  <2>5. CASE Key(s)
    <3>1. raced \/ \A j \in OriIdx : token'[j] <= MaxRetry
      BY <2>5, RaceAssumption DEF Key, IInv, TypeOK
    <3>2. token' \in [OriIdx -> Nat] BY <2>5 DEF Key, IInv, TypeOK
    <3> QED BY <2>5, <3>1, <3>2, Distinct DEF Key, Goto, IInv, TypeOK, Steps,
        SenderSteps
  <2> QED BY <1>1, <2>1, <2>2, <2>3, <2>4, <2>5, <2>6, <2>7, <2>8 DEF Send
<1>2. ASSUME NEW i \in OriIdx, Fire(i) \/ Retry(i) \/ GiveUp(i) PROVE TypeOK' /\ Steps'
  <2>1. CASE Fire(i)
    BY <2>1, Distinct DEF Fire, Meeting, Goto, IInv, TypeOK, Steps, TimerSteps
  <2>2. CASE Retry(i)
    <3>1. raced \/ token[i] < MaxRetry BY <2>2 DEF Retry, IInv, Careful, Firing
    <3>2. raced \/ \A j \in OriIdx : token'[j] <= MaxRetry
      BY <2>2, <3>1, RaceAssumption DEF Retry, IInv, TypeOK
    <3> QED BY <2>2, <3>2, Distinct DEF Retry, Open, Return, IInv, TypeOK, Steps,
        TimerSteps
  <2>3. CASE GiveUp(i)
    BY <2>3, Distinct DEF GiveUp, Open, IInv, TypeOK, Steps, TimerSteps
  <2> QED BY <1>2, <2>1, <2>2, <2>3
<1>3. ASSUME NEW p \in OriIdx \cup {Mlme}, FreeTest(p) PROVE TypeOK' /\ Steps'
  <2>1. TypeOK'
    BY <1>3, Distinct DEF FreeTest, Meeting, Open, Return, Goto, IInv, TypeOK
  <2>2. Steps'
    <3>1. pc' \in {[pc EXCEPT ![p] = "idle"], [pc EXCEPT ![p] = "lock"]}
      BY <1>3 DEF FreeTest, Open, Return, Goto
    <3> QED BY <3>1, Distinct DEF IInv, TypeOK, Steps, TimerSteps, MlmeSteps
  <2> QED BY <2>1, <2>2
<1>4. ASSUME NEW p \in OriIdx \cup {Mlme}, FreeLocked(p) PROVE TypeOK' /\ Steps'
  <2>1. TypeOK'
    <3>1. token' \in [OriIdx -> Nat] /\ (raced \/ \A j \in OriIdx : token'[j] <= MaxRetry)
      <4>1. token' = [token EXCEPT ![at[p]] = 0] /\ raced' = raced BY <1>4 DEF FreeLocked
      <4>2. token \in [OriIdx -> Nat] /\ (raced \/ \A j \in OriIdx : token[j] <= MaxRetry)
        BY DEF IInv, TypeOK
      <4>3. 0 <= MaxRetry /\ 0 \in Nat BY RaceAssumption
      <4>4. \A j \in OriIdx : token'[j] = token[j] \/ token'[j] = 0 BY <4>1, <4>2
      <4> QED BY <4>1, <4>2, <4>3, <4>4
    <3>2. numDone' \in Int /\ numOri' \in Int /\ txBa' \subseteq Tids
      BY <1>4 DEF FreeLocked, IInv, TypeOK
    <3> QED BY <1>4, <3>1, <3>2, Distinct DEF FreeLocked, Open, Return, IInv, TypeOK
  <2>2. Steps'
    BY <1>4, Distinct DEF FreeLocked, Open, Return, IInv, TypeOK, Steps, TimerSteps,
       MlmeSteps
  <2> QED BY <2>1, <2>2
<1>5. ASSUME MlmeThread PROVE TypeOK' /\ Steps'
  <2>1. CASE \E t \in Tids : AddStart(t) \/ TearDown(t)
    <3>1. PICK t \in Tids, step \in {"check", "cancel"} : Take(t, step)
      BY <2>1 DEF AddStart, TearDown
    <3> QED BY <3>1, Distinct DEF Take, Meeting, Open, IInv, TypeOK, Steps, MlmeSteps
  <2>2. CASE AddCheck \/ AddGrant
    BY <2>2, Distinct DEF AddCheck, AddGrant, Goto, Open, Return, IInv, TypeOK, Steps,
       MlmeSteps
  <2>3. CASE AddCount \/ AddMark
    BY <2>3, Distinct DEF AddCount, AddMark, Goto, IInv, TypeOK, Steps, MlmeSteps
  <2>4. CASE AddStop \/ TearDownFails \/ Cancel
    BY <2>4, Distinct
       DEF AddStop, TearDownFails, Cancel, Goto, Open, Return, IInv, TypeOK, Steps, MlmeSteps
  <2> QED BY <1>3, <1>4, <1>5, <2>1, <2>2, <2>3, <2>4 DEF MlmeThread
<1>6. CASE UNCHANGED vars
  BY <1>6 DEF vars, IInv, TypeOK, Steps
<1> QED BY <1>1, <1>2, <1>3, <1>4, <1>5, <1>6 DEF Next, Timer

\* Nothing is in use and nobody under way.
LEMMA InitHolds == Init => IInv
<1> SUFFICES ASSUME Init PROVE IInv OBVIOUS
<1>1. PICK t \in Tids : key = [i \in OriIdx |-> t] /\ tid = [p \in Threads |-> t]
  BY DEF Init
<1>2. TypeOK
  <2>1. key \in [OriIdx -> Tids] /\ tid \in [Threads -> Tids] BY <1>1
  <2>2. token \in [OriIdx -> Nat] /\ \A i \in OriIdx : token[i] <= MaxRetry
    BY RaceAssumption DEF Init
  <2>3. /\ st \in [OriIdx -> {"NONE", "USED", "WaitRes", "Done"}]
        /\ armed \in [OriIdx -> BOOLEAN] /\ oriMap \in [Tids -> OriIdx \cup {0}]
    BY DEF Init
  <2>6. txBa \subseteq Tids /\ bits \subseteq Tids /\ raced \in BOOLEAN
    BY DEF Init
  <2>7. {numOri, numDone, seen} \subseteq Int BY DEF Init
  <2>4. at \in [Threads -> OriIdx \cup {0}] /\ \A p \in Threads : pc[p] = "idle"
    BY DEF Init
  <2>5. pc = [p \in Threads |-> "idle"] BY DEF Init
  <2> QED BY <2>1, <2>2, <2>3, <2>4, <2>5, <2>6, <2>7 DEF TypeOK
<1>3. /\ \A p \in Threads : pc[p] = "idle" /\ at[p] = 0
      /\ \A i \in OriIdx : st[i] = "NONE" /\ ~armed[i]
      /\ txBa = {} /\ \A u \in Tids : oriMap[u] = 0
  BY DEF Init
<1>4. Steps
  BY <1>3, Distinct DEF Steps, SenderSteps, TimerSteps, MlmeSteps
<1>5. Apart /\ Mapped /\ Armed /\ Held /\ Masked
  BY <1>3, Distinct DEF Apart, SettingUp, Owns, Mapped, Armed, Held, Masked, Live
<1>6. (\A s \in Senders : Sending(s)) /\ (\A i \in OriIdx : Firing(i)) /\ Handling
  BY <1>3, Distinct DEF Sending, Firing, Handling
<1>7. Counts
  <2>1. Used = {} /\ Granted = {} BY <1>3 DEF Used, Granted
  <2> QED BY <1>3, <2>1, Distinct, FS_EmptySet DEF Counts, Init
<1> QED BY <1>2, <1>4, <1>5, <1>6, <1>7 DEF IInv, Careful

\* Every access that is not such a meeting keeps the invariant.
LEMMA StepKeeps == ASSUME IInv, [Next]_vars PROVE IInv'
<1>1. TypeOK' /\ Steps' BY TypesKept
<1>2. ASSUME ~raced' PROVE Careful'
  <2>1. CASE \E s \in Senders : Runs(s) /\ Send(s)
    BY <1>2, <2>1, TestKeeps, LookKeeps, AllocKeeps, AllocFailsKeeps, StatusKeeps,
       MapKeeps,
       WaitKeeps, KeyKeeps, ArmKeeps DEF Send
  <2>2. CASE \E i \in OriIdx : Runs(i) /\ Timer(i)
    BY <1>2, <2>2, FireKeeps, RetryKeeps, GiveUpKeeps, FreeTestKeeps,
       FreeLockedKeeps DEF Timer
  <2>3. CASE Runs(Mlme) /\ MlmeThread
    BY <1>2, <2>3, TakeKeeps, AddCheckKeeps, AddGrantKeeps, AddCountKeeps, AddMarkKeeps,
       AddStopKeeps, TearDownFailsKeeps, CancelKeeps, FreeTestKeeps, FreeLockedKeeps
       DEF MlmeThread, AddStart, TearDown
  <2>4. CASE UNCHANGED vars
    <3> USE <2>4 DEF vars
    <3>0. Careful BY <1>2 DEF IInv
    <3>1. Apart' /\ Mapped' /\ Armed'
      BY <3>0 DEF Careful, Apart, SettingUp, Owns, Mapped, Writes, Live, Armed,
         Answered, Busy
    <3>2. (\A s \in Senders : Sending(s))' /\ (\A i \in OriIdx : Firing(i))'
      BY <3>0 DEF Careful, Sending, Firing, Live, Busy
    <3>3. Handling' BY <3>0 DEF Careful, Handling, Live, InHand, Filling
    <3>4. Held' /\ Masked' /\ Counts'
      BY <3>0 DEF Careful, Held, Live, Masked, Counts, Used, Granted
    <3> QED BY <3>1, <3>2, <3>3, <3>4 DEF Careful
  <2> QED BY <2>1, <2>2, <2>3, <2>4 DEF Next
<1> QED BY <1>1, <1>2 DEF IInv

\* The inductive invariant.
LEMMA Invariance == Spec => []IInv
<1>1. IInv /\ [Next]_vars => IInv' BY StepKeeps
<1> QED BY <1>1, InitHolds, PTL DEF Spec

\* Entries, indexes, bitmaps and the threads' steps keep their types whatever the
\* order of accesses, and Token its range until a meeting.
THEOREM Typing == Spec => []TypeOK
<1>1. IInv => TypeOK BY DEF IInv
<1> QED BY <1>1, Invariance, PTL

\* Though only a part of each function holds BATabLock, both counters of the table
\* are exact at every access, until one of the four meetings.
THEOREM Counting == Spec => []CountOri
<1>1. IInv => CountOri BY DEF IInv, Careful, Counts, CountOri
<1> QED BY <1>1, Invariance, PTL

\* No entry is in use that neither an index names nor a thread has in hand, until
\* a meeting: none is lost to the table.
THEOREM NothingLost == Spec => []NoneLost
<1>1. IInv => NoneLost
  <2> SUFFICES ASSUME IInv, ~raced, NEW i \in Used
               PROVE  oriMap[key[i]] = i \/ \E p \in Threads : at[p] = i
    BY DEF NoneLost
  <2>1. i \in OriIdx /\ (Live(i) \/ st[i] = "USED") BY DEF IInv, TypeOK, Used, Live
  <2> QED BY <2>1, Distinct DEF IInv, Careful, Held
<1> QED BY <1>1, Invariance, PTL

\* When no thread is under way, a TID whose bit in TXBAbitmap is set has a session,
\* until a meeting.
THEOREM MasksMapped == Spec => []MaskedMapped
<1>1. IInv => MaskedMapped
  BY Distinct DEF IInv, Careful, Masked, MaskedMapped, MasksHaveSession
<1> QED BY <1>1, Invariance, PTL

-----------------------------------------------------------------------------
(***************************************************************************)
(* Whatever the order of accesses, the threads implement the agreements.   *)
(***************************************************************************)
\* No TID is asked for.
LEMMA AgreementInit == Init => Agreement!Init
<1> SUFFICES ASSUME Init PROVE AgreementOf = [k \in Keys |-> "Idle"]
  BY DEF Agreement!Init, Keys, AgreementOf
<1> QED BY DEF Init, AgreementOf, Keys

\* Two TIDs have different entries.
LEMMA OneTid ==
    ASSUME IInv, ~raced, NEW t \in Tids, NEW u \in Tids, oriMap[t] # 0, oriMap[t] = oriMap[u]
    PROVE  t = u
<1>1. Mapped /\ Apart BY DEF IInv, Careful
<1>2. \A s, q \in Senders : Writes(s, oriMap[t]) /\ Writes(q, oriMap[t]) => s = q
  BY <1>1 DEF Apart, Owns, Writes
<1> QED BY <1>1, <1>2 DEF Mapped

\* Every agreement has an entry in use of its own; an entry that is not named is left.
LEMMA Room ==
    ASSUME IInv, ~raced, NEW i \in OriIdx, \A t \in Tids : oriMap[t] # i
    PROVE  Cardinality({k \in Keys : AgreementOf[k] # "Idle"}) < OriLen - 1
<1> DEFINE Asked == {k \in Keys : AgreementOf[k] # "Idle"}
           f == [k \in Asked |-> oriMap[k[2]]]
<1>1. \A k \in Asked : k[2] \in Tids /\ k = <<0, k[2]>> /\ oriMap[k[2]] # 0
  BY DEF AgreementOf, Keys
<1>2. \A k \in Asked : oriMap[k[2]] \in OriIdx \ {i}
  BY <1>1 DEF IInv, TypeOK
<1>3. f \in Injection(Asked, OriIdx \ {i})
  <2>1. \A j, k \in Asked : oriMap[j[2]] = oriMap[k[2]] => j = k
    BY <1>1, OneTid
  <2> QED BY <1>2, <2>1 DEF Injection, IsInjective
<1>4. IsFiniteSet(OriIdx \ {i}) /\ Cardinality(OriIdx \ {i}) = OriLen - 2
  BY UsedFinite, FS_RemoveElement, RaceAssumption
<1> HIDE DEF Asked, f
<1>5. IsFiniteSet(Asked) /\ Cardinality(Asked) <= Cardinality(OriIdx \ {i})
  BY <1>3, <1>4, FS_Injection
<1>6. Cardinality(Asked) \in Nat BY <1>5, FS_CardinalityType
<1> QED BY <1>4, <1>5, <1>6, RaceAssumption DEF Asked

\* No index leads to an entry whose status becomes or ceases to be granted, ...
LEMMA SameAgreement ==
    ASSUME UNCHANGED oriMap,
           \A t \in Tids : oriMap[t] # 0
               => (st'[oriMap[t]] = "Done" <=> st[oriMap[t]] = "Done")
    PROVE  AgreementOf' = AgreementOf
BY DEF AgreementOf, Keys

\* ... or the index of one TID alone does, or is written.
LEMMA OneAgreement ==
    ASSUME NEW t \in Tids,
           \A u \in Tids : u # t => /\ oriMap'[u] = oriMap[u]
                                    /\ oriMap[u] # 0 => st'[oriMap[u]] = st[oriMap[u]]
    PROVE  AgreementOf' = [AgreementOf EXCEPT ![<<0, t>>] = AgreementOf'[<<0, t>>]]
<1>1. \A k \in Keys : k = <<0, k[2]>> /\ k[2] \in Tids BY DEF Keys
<1>2. \A k \in Keys \ {<<0, t>>} : AgreementOf'[k] = AgreementOf[k]
  BY <1>1 DEF AgreementOf
<1>3. AgreementOf' = [k \in Keys |-> AgreementOf'[k]] BY DEF AgreementOf
<1>4. AgreementOf = [k \in Keys |-> AgreementOf[k]] BY DEF AgreementOf
<1> QED BY <1>2, <1>3, <1>4

\* Every access asks for, grants or drops one agreement, or changes none, or is a
\* meeting.
LEMMA AgreementNext ==
    ASSUME IInv, ~raced', [Next]_vars
    PROVE  [Agreement!Next]_AgreementOf
<1>0. ASSUME Next PROVE ~raced /\ Careful
  <2>1. raced => raced'
    <3>1. ASSUME NEW s \in Senders, Send(s), raced PROVE raced'
      BY <3>1 DEF Send, Test, Look, Alloc, AllocFails, Status, Map, Wait, Key, Arm,
         Meeting
    <3>2. ASSUME NEW i \in OriIdx, Timer(i), raced PROVE raced'
      BY <3>2 DEF Timer, Fire, Retry, GiveUp, FreeTest, FreeLocked, Meeting
    <3>3. ASSUME MlmeThread, raced PROVE raced'
      BY <3>3 DEF MlmeThread, AddStart, TearDown, Take, AddCheck, AddGrant, AddCount,
         AddMark,
         AddStop, TearDownFails, Cancel, FreeTest, FreeLocked, Meeting
    <3> QED BY <1>0, <3>1, <3>2, <3>3 DEF Next
  <2> QED BY <2>1 DEF IInv
<1>1. ASSUME NEW s \in Senders, Map(s), ~raced, Careful PROVE [Agreement!Next]_AgreementOf
  <2> DEFINE t == tid[s]
             k == <<0, t>>
  <2>1. t \in Tids /\ k \in Keys /\ at[s] \in OriIdx /\ st[at[s]] = "USED" /\ oriMap[t] = 0
    BY <1>1, Distinct DEF IInv, TypeOK, Careful, Sending, Map, Keys
  <2>2. oriMap' = [oriMap EXCEPT ![t] = at[s]] /\ st' = st BY <1>1 DEF Map, entries
  <2>3. AgreementOf[k] = "Idle" BY <2>1 DEF AgreementOf
  <2>4. \A u \in Tids : oriMap[u] # at[s]
    BY <1>1, <2>1, Distinct DEF Careful, Mapped, Writes, Apart, Owns, Live, Map
  <2>5. Cardinality({j \in Keys : AgreementOf[j] # "Idle"}) < OriLen - 1
    BY <1>1, <2>1, <2>4, Room
  <2>6. AgreementOf'[k] = "Asking" BY <2>1, <2>2, Distinct DEF AgreementOf, IInv, TypeOK
  <2>7. AgreementOf' = [AgreementOf EXCEPT ![k] = "Asking"]
    BY <2>1, <2>2, <2>6, OneAgreement DEF IInv, TypeOK
  <2>8. Agreement!Ask(k)
    BY <2>3, <2>5, <2>7 DEF Agreement!Ask, Agreement!Cardinality, Cardinality
  <2> QED BY <2>1, <2>8 DEF Agreement!Next
<1>2. ASSUME AddGrant, ~raced, Careful PROVE [Agreement!Next]_AgreementOf
  <2> DEFINE t == tid[Mlme]
             k == <<0, t>>
  <2>1. /\ t \in Tids /\ k \in Keys /\ at[Mlme] \in OriIdx /\ at[Mlme] # 0
        /\ oriMap[t] = at[Mlme] /\ st[at[Mlme]] = "WaitRes"
    BY <1>2, Distinct DEF IInv, TypeOK, Careful, Handling, AddGrant, Keys
  <2>2. oriMap' = oriMap /\ st' = [st EXCEPT ![at[Mlme]] = "Done"] BY <1>2 DEF AddGrant, station
  <2>3. AgreementOf[k] = "Asking" /\ AgreementOf'[k] = "Active"
    BY <2>1, <2>2 DEF AgreementOf, IInv, TypeOK
  <2>4. \A u \in Tids : u # t => /\ oriMap'[u] = oriMap[u]
                                 /\ oriMap[u] # 0 => st'[oriMap[u]] = st[oriMap[u]]
    BY <1>2, <2>1, <2>2, OneTid DEF IInv, TypeOK
  <2>5. AgreementOf' = [AgreementOf EXCEPT ![k] = "Active"]
    BY <2>1, <2>3, <2>4, OneAgreement
  <2>6. Agreement!Grant(k) BY <2>3, <2>5 DEF Agreement!Grant
  <2> QED BY <2>1, <2>6 DEF Agreement!Next
<1>3. ASSUME NEW p \in OriIdx \cup {Mlme}, FreeTest(p) PROVE [Agreement!Next]_AgreementOf
  <2>1. CASE at[p] = 0 \/ st[at[p]] = "NONE"
    <3>1. AgreementOf' = AgreementOf
      BY <1>3, <2>1, SameAgreement DEF FreeTest, entries
    <3> QED BY <3>1
  <2>2. CASE ~(at[p] = 0 \/ st[at[p]] = "NONE")
    <3> DEFINE t == key[at[p]]
               k == <<0, t>>
    <3>1. /\ at[p] \in OriIdx /\ t \in Tids /\ k \in Keys
          /\ oriMap' = [oriMap EXCEPT ![t] = 0] /\ st' = st
      BY <1>3, <2>2, Distinct DEF FreeTest, entries, IInv, TypeOK, Keys
    <3>2. oriMap'[t] = 0 /\ AgreementOf'[k] = "Idle"
      BY <3>1 DEF AgreementOf, IInv, TypeOK
    <3>3. AgreementOf' = [AgreementOf EXCEPT ![k] = "Idle"]
      BY <3>1, <3>2, OneAgreement DEF IInv, TypeOK
    <3>4. AgreementOf = [j \in Keys |-> AgreementOf[j]] BY DEF AgreementOf
    <3>5. AgreementOf' = [j \in Keys |-> IF j \in {k} THEN "Idle" ELSE AgreementOf[j]]
      BY <3>1, <3>3, <3>4
    <3>6. Agreement!Drop({k}) BY <3>5 DEF Agreement!Drop
    <3>7. {k} \in SUBSET Agreement!Station(k) BY <3>1 DEF Agreement!Station
    <3> QED BY <3>1, <3>6, <3>7 DEF Agreement!Next
  <2> QED BY <2>1, <2>2
<1>4. ASSUME NEW s \in Senders, Alloc(s) \/ Wait(s), ~raced, Careful
      PROVE  AgreementOf' = AgreementOf
  <2>1. CASE Alloc(s)
    <3>1. PICK i \in OriIdx \ Used : st' = [st EXCEPT ![i] = "USED"] BY <2>1 DEF Alloc
    <3> QED BY <2>1, <3>1, SameAgreement, <1>4
          DEF Alloc, station, Used, IInv, TypeOK, Careful, Mapped, Live, Sending, Writes
  <2>2. CASE Wait(s)
    BY <2>2, <1>4, Distinct, SameAgreement DEF Wait, station, IInv, TypeOK, Careful,
       Sending
  <2> QED BY <1>4, <2>1, <2>2
<1>5. ASSUME NEW p \in OriIdx \cup {Mlme}, FreeLocked(p), ~raced, Careful
      PROVE  AgreementOf' = AgreementOf
  <2>1. at[p] \in OriIdx /\ oriMap[key[at[p]]] # at[p]
    BY <1>5, Distinct DEF FreeLocked, IInv, TypeOK, Careful, Firing, Handling
  <2>2. \A t \in Tids : oriMap[t] # at[p]
    BY <1>5, <2>1, Distinct
       DEF FreeLocked, Careful, Mapped, Writes, Firing, Handling, Sending, InHand, Filling, IInv,
           TypeOK
  <2> QED BY <1>5, <2>1, <2>2, SameAgreement DEF FreeLocked, IInv, TypeOK
<1>6. ASSUME UNCHANGED <<st, oriMap>> PROVE AgreementOf' = AgreementOf
  BY <1>6 DEF AgreementOf
<1>7. ASSUME NEW s \in Senders,
             \/ \E t \in Tids : Test(s, t)
             \/ Look(s) \/ AllocFails(s) \/ Status(s) \/ Key(s) \/ Arm(s)
      PROVE  UNCHANGED <<st, oriMap>>
  BY <1>7 DEF Test, Look, AllocFails, Status, Key, Arm, entries, station
<1>8. ASSUME NEW i \in OriIdx, Fire(i) \/ Retry(i) \/ GiveUp(i) PROVE UNCHANGED <<st, oriMap>>
  BY <1>8 DEF Fire, Retry, GiveUp, entries, station
<1>9. ASSUME \/ \E t \in Tids : AddStart(t) \/ TearDown(t)
             \/ AddCheck \/ AddCount \/ AddMark \/ AddStop \/ TearDownFails \/ Cancel
      PROVE  UNCHANGED <<st, oriMap>>
  BY <1>9 DEF AddStart, TearDown, Take, AddCheck, AddCount, AddMark, AddStop,
     TearDownFails,
     Cancel, entries, station
<1>10. CASE \E s \in Senders : Runs(s) /\ Send(s)
  BY <1>10, <1>0, <1>1, <1>4, <1>6, <1>7 DEF Next, Send
<1>11. CASE \E i \in OriIdx : Runs(i) /\ Timer(i)
  BY <1>11, <1>0, <1>3, <1>5, <1>6, <1>8 DEF Next, Timer
<1>12. CASE Runs(Mlme) /\ MlmeThread
  BY <1>12, <1>0, <1>2, <1>3, <1>5, <1>6, <1>9 DEF Next, MlmeThread
<1>13. CASE UNCHANGED vars BY <1>13, <1>6 DEF vars
<1> QED BY <1>10, <1>11, <1>12, <1>13 DEF Next

\* The accesses, in any order and on any number of processors, amount to one
\* agreement per TID that is asked for, granted and dropped, of which there are
\* never more than the table has usable entries, until a meeting.
THEOREM Refinement == Spec => ImplementsAgreement
<1>1. IInv /\ [Next]_vars => [Agreement!Next \/ raced']_AgreementOf BY AgreementNext
<1> QED BY <1>1, AgreementInit, Invariance, PTL DEF Spec, ImplementsAgreement
=============================================================================
