-------------------------- MODULE BaSessionProofs --------------------------
(***************************************************************************)
(* Every invariant of BaSession, for any number of stations, TIDs, table   *)
(* entries and retries.  The inductive invariant is IInv: the typing, the  *)
(* four properties of the tables, and that the stations whose set-up still *)
(* waits for an answer are in the MAC table.                               *)
(***************************************************************************)
EXTENDS BaSession, FiniteSetTheorems, TLAPS

\* What FreeOri preserves: typing, ownership, timers and bitmap.
OriInv ==
    /\ ori \in [OriIdx -> OriEntry]
    /\ oriMap \in [Keys -> OriIdx \cup {0}]
    /\ txBa \subseteq Keys
    /\ \A k \in Keys : oriMap[k] # 0 =>
          ori[oriMap[k]].st # "NONE" /\ ori[oriMap[k]].key = k
    /\ \A k \in txBa : oriMap[k] # 0 /\ ori[oriMap[k]].st = "Done"
    /\ TimersMatch

RecInv ==
    /\ rec \in [RecIdx -> RecEntry]
    /\ recMap \in [Keys -> RecIdx \cup {0}]
    /\ rxBa = {k \in Keys : recMap[k] # 0}
    /\ \A k \in Keys : recMap[k] # 0 =>
          rec[recMap[k]].st # "NONE" /\ rec[recMap[k]].key = k

\* A set-up waits for an answer only while its station is in the MAC table.
AskersPresent == \A i \in OriIdx : ori[i].armed => ori[i].key[1] \in present

OriCounts ==
    /\ numOri = Cardinality(UsedOri)
    /\ numDone = Cardinality(DoneOri)
RecCount == numRec = Cardinality(UsedRec)

Others == decline \subseteq Keys /\ present \subseteq Wcids /\ asked \subseteq Keys

IInv == OriInv /\ RecInv /\ AskersPresent /\ OriCounts /\ RecCount /\ Others
-----------------------------------------------------------------------------
\* Both tables have finitely many entries.
LEMMA IdxFinite == IsFiniteSet(OriIdx) /\ IsFiniteSet(RecIdx)
BY FS_Interval, LenAssumption DEF OriIdx, RecIdx

\* Index 0, which means no session, names no entry.
LEMMA ZeroNotIdx == 0 \notin OriIdx /\ 0 \notin RecIdx
BY LenAssumption DEF OriIdx, RecIdx

\* Taking a part away from a finite set takes its size away.
LEMMA CardMinus ==
    ASSUME NEW S, IsFiniteSet(S), NEW T \in SUBSET S, NEW R, R = S \ T
    PROVE  Cardinality(R) = Cardinality(S) - Cardinality(T)
  <1>1. S \cap T = T
    OBVIOUS
  <1>2. Cardinality(S \ T) = Cardinality(S) - Cardinality(S \cap T)
    BY FS_Difference
  <1> QED  BY <1>1, <1>2

\* What BATableFreeOriEntry makes of an entry.
LEMMA FreedEntry ==
    ASSUME NEW r \in OriEntry, NEW f,
           f = [r EXCEPT !.st = "NONE", !.token = 0, !.armed = FALSE]
    PROVE  f \in OriEntry /\ f.st = "NONE" /\ f.key = r.key /\ ~f.armed
  <1>1. f = [st |-> "NONE", key |-> r.key, token |-> 0, armed |-> FALSE]
    BY DEF OriEntry
  <1>2. 0 \in 0 .. MaxRetry /\ r.key \in Keys
    BY RetryAssumption DEF OriEntry
  <1> QED  BY <1>1, <1>2 DEF OriEntry

\* Freeing entries keeps what the originator's tables owe each other.
LEMMA FreeOriKeeps ==
    ASSUME NEW F \in SUBSET OriIdx, NEW fired \in SUBSET F,
           \A i \in F : oriMap[ori[i].key] = i,
           OriInv, FreeOri(F, fired)
    PROVE  /\ OriInv'
           /\ \A i \in OriIdx :
                 /\ ori'[i].armed => ori[i].armed /\ i \notin F
                 /\ ori'[i].key = ori[i].key
                 /\ ori'[i].st = IF i \in F THEN "NONE" ELSE ori[i].st
  <1> DEFINE used == {i \in F : ori[i].st # "NONE"}
             done == {i \in F : ori[i].st = "Done"}
  <1>1. /\ ori' = [i \in OriIdx |->
                     IF i \in used
                     THEN [ori[i] EXCEPT !.st = "NONE", !.token = 0, !.armed = FALSE]
                     ELSE [ori[i] EXCEPT !.armed = @ /\ i \notin fired]]
        /\ oriMap' = [k \in Keys |->
                        IF \E i \in used : ori[i].key = k THEN 0 ELSE oriMap[k]]
        /\ txBa' = txBa \ {ori[i].key : i \in done}
    BY DEF FreeOri
  <1>2. \A i \in OriIdx : /\ ori[i] \in OriEntry
                          /\ ori[i].armed <=> ori[i].st = "WaitRes"
                          /\ ori[i].armed => oriMap[ori[i].key] = i
    BY DEF OriInv, TimersMatch
  <1>3. \A i \in OriIdx : i \in used =>
           /\ ori'[i] \in OriEntry
           /\ ori'[i].st = "NONE" /\ ori'[i].key = ori[i].key
           /\ ~ori'[i].armed
    <2> TAKE i \in OriIdx
    <2> HAVE i \in used
    <2>1. ori'[i] = [ori[i] EXCEPT !.st = "NONE", !.token = 0, !.armed = FALSE]
      BY <1>1
    <2>2. ori[i] \in OriEntry
      BY <1>2
    <2> HIDE DEF used
    <2> QED  BY <2>1, <2>2, FreedEntry
  <1>4. \A i \in OriIdx : i \notin used =>
           /\ ori'[i] \in OriEntry
           /\ ori'[i].st = ori[i].st /\ ori'[i].key = ori[i].key
           /\ ori'[i].armed <=> ori[i].armed /\ i \notin fired
    BY <1>1, <1>2 DEF OriEntry
  <1>5. \A i \in OriIdx : i \in F /\ i \notin used => ori[i].st = "NONE"
    OBVIOUS
  <1>6. ori' \in [OriIdx -> OriEntry] /\ oriMap' \in [Keys -> OriIdx \cup {0}]
    <2>1. ori' \in [OriIdx -> OriEntry]
      BY <1>1, <1>3, <1>4
    <2> QED  BY <2>1, <1>1 DEF OriInv
  <1>7. ASSUME NEW k \in Keys, oriMap'[k] # 0
        PROVE  /\ oriMap[k] = oriMap'[k] /\ oriMap[k] \in OriIdx
               /\ oriMap[k] \notin used /\ ori[oriMap[k]].key = k
    BY <1>1, <1>7 DEF OriInv
  <1>8. \A k \in Keys : oriMap'[k] # 0 =>
          ori'[oriMap'[k]].st # "NONE" /\ ori'[oriMap'[k]].key = k
    BY <1>4, <1>7 DEF OriInv
  <1>9. \A k \in txBa' : oriMap'[k] # 0 /\ ori'[oriMap'[k]].st = "Done"
    <2> TAKE k \in txBa'
    <2>1. k \in Keys /\ k \in txBa /\ oriMap[k] # 0 /\ oriMap[k] \in OriIdx
          /\ ori[oriMap[k]].st = "Done" /\ ori[oriMap[k]].key = k
      BY <1>1 DEF OriInv
    <2>2. oriMap[k] \notin used
      BY <2>1, <1>1
    <2>3. ~ \E i \in used : ori[i].key = k
      BY <2>1, <2>2
    <2>4. oriMap'[k] = oriMap[k]
      BY <1>1, <2>1, <2>3
    <2> QED  BY <1>4, <2>1, <2>2, <2>4
  <1>10. TimersMatch'
    <2> SUFFICES ASSUME NEW i \in OriIdx
                 PROVE  /\ ori'[i].armed <=> ori'[i].st = "WaitRes"
                        /\ ori'[i].armed => oriMap'[ori'[i].key] = i
      BY DEF TimersMatch
    <2>1. CASE i \in used
      BY <2>1, <1>3
    <2>2. CASE i \notin used
      <3>1. ori'[i].armed <=> ori'[i].st = "WaitRes"
        BY <2>2, <1>2, <1>4, <1>5
      <3>2. ASSUME ori[i].armed
            PROVE  oriMap'[ori[i].key] = i
        <4>1. ori[i].key \in Keys /\ oriMap[ori[i].key] = i
          BY <3>2, <1>2 DEF OriEntry
        <4>2. ~ \E j \in used : ori[j].key = ori[i].key
          BY <4>1, <2>2
        <4> QED  BY <1>1, <4>1, <4>2
      <3> QED  BY <2>2, <1>4, <3>1, <3>2
    <2> QED  BY <2>1, <2>2
  <1>11. txBa' \subseteq Keys
    BY <1>1 DEF OriInv
  <1>12. \A i \in OriIdx : ori'[i].st = IF i \in F THEN "NONE" ELSE ori[i].st
    <2> TAKE i \in OriIdx
    <2>1. CASE i \in used
      BY <2>1, <1>3
    <2>2. CASE i \notin used
      BY <2>2, <1>4, <1>5
    <2> QED  BY <2>1, <2>2
  <1> HIDE DEF used, done
  <1> QED  BY <1>3, <1>4, <1>5, <1>6, <1>8, <1>9, <1>10, <1>11, <1>12, <1>2 DEF OriInv

\* ... and what the counters count.
LEMMA FreeOriCounts ==
    ASSUME NEW F \in SUBSET OriIdx, NEW fired \in SUBSET F,
           \A i \in F : oriMap[ori[i].key] = i,
           OriInv, OriCounts, FreeOri(F, fired)
    PROVE  OriCounts'
  <1> DEFINE used == {i \in F : ori[i].st # "NONE"}
             done == {i \in F : ori[i].st = "Done"}
  <1>1. \A i \in OriIdx : ori'[i].st = IF i \in F THEN "NONE" ELSE ori[i].st
    BY FreeOriKeeps
  <1>2. UsedOri' = UsedOri \ used /\ used \in SUBSET UsedOri
    BY <1>1 DEF UsedOri
  <1>3. DoneOri' = DoneOri \ done /\ done \in SUBSET DoneOri
    BY <1>1 DEF DoneOri
  <1>4. IsFiniteSet(UsedOri) /\ IsFiniteSet(DoneOri)
    BY IdxFinite, FS_Subset DEF UsedOri, DoneOri
  <1>5. numOri' = numOri - Cardinality(used) /\ numDone' = numDone - Cardinality(done)
    BY DEF FreeOri
  <1> HIDE DEF used, done
  <1>6. Cardinality(UsedOri') = Cardinality(UsedOri) - Cardinality(used)
    BY <1>2, <1>4, CardMinus
  <1>7. Cardinality(DoneOri') = Cardinality(DoneOri) - Cardinality(done)
    BY <1>3, <1>4, CardMinus
  <1> QED  BY <1>5, <1>6, <1>7 DEF OriCounts

\* The same for the recipient's tables.
LEMMA FreeRecKeeps ==
    ASSUME NEW F \in SUBSET RecIdx,
           \A i \in F : recMap[rec[i].key] = i,
           RecInv, RecCount, FreeRec(F)
    PROVE  RecInv' /\ RecCount'
  <1> DEFINE used == {i \in F : rec[i].st # "NONE"}
  <1>1. /\ rec' = [i \in RecIdx |->
                     IF i \in used THEN [rec[i] EXCEPT !.st = "NONE"] ELSE rec[i]]
        /\ recMap' = [k \in Keys |->
                        IF \E i \in used : rec[i].key = k THEN 0 ELSE recMap[k]]
        /\ rxBa' = rxBa \ {rec[i].key : i \in used}
        /\ numRec' = numRec - Cardinality(used)
    BY DEF FreeRec
  <1>2. \A i \in RecIdx : /\ rec'[i] \in RecEntry /\ rec'[i].key = rec[i].key
                          /\ rec'[i].st = IF i \in used THEN "NONE" ELSE rec[i].st
    BY <1>1 DEF RecInv, RecEntry
  <1>3. rec' \in [RecIdx -> RecEntry] /\ recMap' \in [Keys -> RecIdx \cup {0}]
    <2>1. rec' \in [RecIdx -> RecEntry]
      BY <1>1, <1>2
    <2> QED  BY <2>1, <1>1 DEF RecInv
  <1>4. rxBa' = {k \in Keys : recMap'[k] # 0}
    <2>1. \A i \in used : rec[i].key \in Keys
      BY DEF RecInv, RecEntry
    <2> QED  BY <1>1, <2>1 DEF RecInv
  <1>5. ASSUME NEW k \in Keys, recMap'[k] # 0
        PROVE  rec'[recMap'[k]].st # "NONE" /\ rec'[recMap'[k]].key = k
    <2>1. /\ recMap[k] = recMap'[k] /\ recMap[k] \in RecIdx
          /\ rec[recMap[k]].st # "NONE" /\ rec[recMap[k]].key = k
          /\ recMap[k] \notin used
      BY <1>1, <1>5 DEF RecInv
    <2> QED  BY <1>2, <2>1
  <1>6. RecCount'
    <2>1. UsedRec' = UsedRec \ used /\ used \in SUBSET UsedRec
      BY <1>2 DEF UsedRec
    <2>2. IsFiniteSet(UsedRec)
      BY IdxFinite, FS_Subset DEF UsedRec
    <2> HIDE DEF used
    <2>3. Cardinality(UsedRec') = Cardinality(UsedRec) - Cardinality(used)
      BY <2>1, <2>2, CardMinus
    <2> QED  BY <1>1, <2>3 DEF RecCount
  <1> QED  BY <1>3, <1>4, <1>5, <1>6 DEF RecInv

\* One entry is taken, or changes its state: the counts follow.
LEMMA CountAfter ==
    ASSUME NEW S, IsFiniteSet(S), NEW i, i \notin S
    PROVE  IsFiniteSet(S \cup {i}) /\ Cardinality(S \cup {i}) = Cardinality(S) + 1
BY FS_AddElement
-----------------------------------------------------------------------------
\* Freeing entries that their stations' indexes name.
LEMMA FreeOriAll ==
    ASSUME NEW F \in SUBSET OriIdx, NEW fired \in SUBSET F,
           \A i \in F : oriMap[ori[i].key] = i,
           OriInv, OriCounts, AskersPresent, FreeOri(F, fired), present' = present
    PROVE  OriInv' /\ OriCounts' /\ AskersPresent'
  <1>1. OriInv' /\ OriCounts'
    BY FreeOriKeeps, FreeOriCounts
  <1>2. \A i \in OriIdx : /\ ori'[i].armed => ori[i].armed
                          /\ ori'[i].key = ori[i].key
    BY FreeOriKeeps
  <1> QED  BY <1>1, <1>2 DEF AskersPresent

\* The originator index of a key names at most one entry, and that one its own.
LEMMA OriAtOwned ==
    ASSUME OriInv, NEW k \in Keys
    PROVE  OriAt(k) \in SUBSET OriIdx /\ \A i \in OriAt(k) : oriMap[ori[i].key] = i
BY DEF OriInv, OriAt

\* The recipient index of a key names at most one entry, and that one its own.
LEMMA RecAtOwned ==
    ASSUME RecInv, NEW k \in Keys
    PROVE  RecAt(k) \in SUBSET RecIdx /\ \A i \in RecAt(k) : recMap[rec[i].key] = i
BY DEF RecInv, RecAt

\* BAOriSessionSetUp takes a free entry, which no index names, for the key.
LEMMA SetUpStep ==
    ASSUME IInv, NEW k \in Keys, NEW i \in OriIdx, OriSetUp(k, i)
    PROVE  OriInv' /\ OriCounts' /\ AskersPresent'
  <1> DEFINE e == [st |-> "WaitRes", key |-> k, token |-> 1, armed |-> TRUE]
  <1>1. /\ k[1] \in present /\ oriMap[k] = 0 /\ ori[i].st = "NONE"
        /\ ori' = [ori EXCEPT ![i] = e]
        /\ oriMap' = [oriMap EXCEPT ![k] = i]
        /\ numOri' = numOri + 1 /\ txBa' = txBa /\ numDone' = numDone
        /\ present' = present
    BY DEF OriSetUp, IsFreeOri
  <1>2. /\ ori \in [OriIdx -> OriEntry] /\ oriMap \in [Keys -> OriIdx \cup {0}]
        /\ txBa \subseteq Keys
        /\ \A j \in Keys : oriMap[j] # 0 =>
              ori[oriMap[j]].st # "NONE" /\ ori[oriMap[j]].key = j
        /\ \A j \in txBa : oriMap[j] # 0 /\ ori[oriMap[j]].st = "Done"
    BY DEF IInv, OriInv
  <1>3. e \in OriEntry /\ e.st = "WaitRes" /\ e.key = k /\ e.armed
    BY RetryAssumption DEF OriEntry
  <1>4. ori'[i] = e /\ \A j \in OriIdx \ {i} : ori'[j] = ori[j]
    BY <1>1, <1>2
  <1> HIDE DEF e
  <1>5. oriMap'[k] = i /\ \A j \in Keys \ {k} : oriMap'[j] = oriMap[j] /\ oriMap[j] # i
    BY <1>1, <1>2, ZeroNotIdx
  <1>6. ori' \in [OriIdx -> OriEntry] /\ oriMap' \in [Keys -> OriIdx \cup {0}]
    BY <1>1, <1>2, <1>3
  <1>7. \A j \in Keys : oriMap'[j] # 0 =>
              ori'[oriMap'[j]].st # "NONE" /\ ori'[oriMap'[j]].key = j
    BY <1>2, <1>3, <1>4, <1>5
  <1>8. \A j \in txBa' : oriMap'[j] # 0 /\ ori'[oriMap'[j]].st = "Done"
    BY <1>1, <1>2, <1>4, <1>5
  <1>9. TimersMatch'
    <2> SUFFICES ASSUME NEW j \in OriIdx
                 PROVE  /\ ori'[j].armed <=> ori'[j].st = "WaitRes"
                        /\ ori'[j].armed => oriMap'[ori'[j].key] = j
      BY DEF TimersMatch
    <2>1. CASE j = i
      BY <2>1, <1>3, <1>4, <1>5
    <2>2. CASE j # i
      <3>1. ori[j].key \in Keys
        BY <1>2 DEF OriEntry
      <3>2. /\ ori[j].armed <=> ori[j].st = "WaitRes"
            /\ ori[j].armed => oriMap[ori[j].key] = j
        BY DEF IInv, OriInv, TimersMatch
      <3> QED  BY <2>2, <3>1, <3>2, <1>1, <1>4, <1>5, ZeroNotIdx
    <2> QED  BY <2>1, <2>2
  <1>10. OriInv'
    BY <1>1, <1>2, <1>6, <1>7, <1>8, <1>9 DEF OriInv
  <1>11. AskersPresent'
    BY <1>1, <1>3, <1>4 DEF AskersPresent, IInv
  <1>12. OriCounts'
    <2>1. UsedOri' = UsedOri \cup {i} /\ i \notin UsedOri
      BY <1>1, <1>3, <1>4 DEF UsedOri
    <2>2. DoneOri' = DoneOri
      BY <1>1, <1>3, <1>4 DEF DoneOri
    <2>3. IsFiniteSet(UsedOri)
      BY IdxFinite, FS_Subset DEF UsedOri
    <2>4. Cardinality(UsedOri') = Cardinality(UsedOri) + 1
      BY <2>1, <2>3, CountAfter
    <2> QED  BY <1>1, <2>2, <2>4 DEF OriCounts, IInv
  <1> QED  BY <1>10, <1>11, <1>12

\* A retry only raises the token, which the test keeps within its limit.
LEMMA RetryStep ==
    ASSUME IInv, NEW i \in OriIdx, OriRetry(i)
    PROVE  OriInv' /\ OriCounts' /\ AskersPresent'
  <1>1. /\ ori[i].st = "WaitRes" /\ ori[i].token < MaxRetry /\ ori[i] \in OriEntry
        /\ ori' = [ori EXCEPT ![i] = [ori[i] EXCEPT !.token = ori[i].token + 1]]
        /\ UNCHANGED <<oriMap, txBa, numOri, numDone, present>>
    BY DEF OriRetry, IInv, OriInv
  <1>2. ori[i].token + 1 \in 0 .. MaxRetry
    BY <1>1, RetryAssumption DEF OriEntry
  <1>3. \A j \in OriIdx : /\ ori'[j] \in OriEntry
                          /\ ori'[j].st = ori[j].st
                          /\ ori'[j].key = ori[j].key
                          /\ ori'[j].armed = ori[j].armed
    BY <1>1, <1>2 DEF OriEntry, IInv, OriInv
  <1>4. ori' \in [OriIdx -> OriEntry]
    BY <1>1, <1>3 DEF IInv, OriInv
  <1>5. UsedOri' = UsedOri /\ DoneOri' = DoneOri
    BY <1>3 DEF UsedOri, DoneOri
  <1>6. OriInv'
    BY <1>1, <1>3, <1>4 DEF IInv, OriInv, TimersMatch
  <1> QED  BY <1>1, <1>3, <1>5, <1>6 DEF IInv, OriCounts, AskersPresent

\* BAOriSessionAdd stops the timer of the one entry it moves to Originator_Done.
LEMMA AcceptedStep ==
    ASSUME IInv, NEW k \in Keys, OriAccepted(k)
    PROVE  OriInv' /\ OriCounts' /\ AskersPresent'
  <1> DEFINE i == oriMap[k]
  <1>1. /\ i \in OriIdx /\ ori[i].st = "WaitRes" /\ ori[i].key = k
        /\ ori[i] \in OriEntry
        /\ ori' = [ori EXCEPT ![i].st = "Done", ![i].armed = FALSE]
        /\ txBa' = txBa \cup {k} /\ numDone' = numDone + 1
        /\ UNCHANGED <<oriMap, numOri, present>>
    BY DEF OriAccepted, IInv, OriInv
  <1>2. /\ ori'[i] \in OriEntry /\ ori'[i].st = "Done" /\ ori'[i].key = k
        /\ ~ori'[i].armed
    BY <1>1 DEF OriEntry, IInv, OriInv
  <1>3. \A j \in OriIdx \ {i} : ori'[j] = ori[j]
    BY <1>1 DEF IInv, OriInv
  <1> HIDE DEF i
  <1>4. ori' \in [OriIdx -> OriEntry]
    BY <1>1, <1>2 DEF IInv, OriInv
  <1>5. UsedOri' = UsedOri
    BY <1>1, <1>2, <1>3 DEF UsedOri
  <1>6. DoneOri' = DoneOri \cup {i} /\ i \notin DoneOri
    BY <1>1, <1>2, <1>3 DEF DoneOri
  <1>7. Cardinality(DoneOri') = Cardinality(DoneOri) + 1
    BY <1>6, CountAfter, IdxFinite, FS_Subset DEF DoneOri
  <1>8. OriInv'
    <2>1. \A j \in Keys : oriMap'[j] # 0 =>
              ori'[oriMap'[j]].st # "NONE" /\ ori'[oriMap'[j]].key = j
      BY <1>1, <1>2, <1>3 DEF IInv, OriInv
    <2>2. \A j \in txBa' : oriMap'[j] # 0 /\ ori'[oriMap'[j]].st = "Done"
      BY <1>1, <1>2, <1>3, ZeroNotIdx DEF IInv, OriInv, i
    <2>3. TimersMatch'
      BY <1>1, <1>2, <1>3 DEF IInv, OriInv, TimersMatch
    <2> QED  BY <1>1, <1>4, <2>1, <2>2, <2>3 DEF IInv, OriInv
  <1>9. AskersPresent'
    <2> SUFFICES ASSUME NEW j \in OriIdx, ori'[j].armed
                 PROVE  ori'[j].key[1] \in present'
      BY DEF AskersPresent
    <2>1. j # i /\ ori'[j] = ori[j] /\ present' = present
      BY <1>1, <1>2, <1>3
    <2> QED  BY <2>1 DEF IInv, AskersPresent
  <1> QED  BY <1>1, <1>5, <1>7, <1>8, <1>9 DEF IInv, OriCounts

\* BASessionTearDownALL leaves a station no set-up that waits, whatever it
\* keeps for want of memory.
LEMMA TearDownAllStep ==
    ASSUME IInv, NEW w \in Wcids, NEW noMem, TearDownAll(w, noMem)
    PROVE  /\ OriInv' /\ OriCounts' /\ RecInv' /\ RecCount'
           /\ \A i \in OriIdx : /\ ori'[i].armed => ori[i].armed /\ ori[i].key[1] # w
                                /\ ori'[i].key = ori[i].key
  <1> DEFINE F == {oriMap[<<w, t>>] : t \in
                 {t \in Tids : oriMap[<<w, t>>] # 0 /\
                    ~(<<w, t>> \in noMem /\ ori[oriMap[<<w, t>>]].st = "Done")}}
             G == {recMap[<<w, t>>] : t \in
                 {t \in Tids : recMap[<<w, t>>] # 0 /\ <<w, t>> \notin noMem}}
  <1>1. FreeOri(F, {}) /\ FreeRec(G)
    BY DEF TearDownAll
  <1>2. \A t \in Tids : <<w, t>> \in Keys
    BY DEF Keys
  <1>3. F \in SUBSET OriIdx /\ \A i \in F : oriMap[ori[i].key] = i
    <2>1. \A i \in F : \E t \in Tids : i = oriMap[<<w, t>>] /\ i # 0
      OBVIOUS
    <2> HIDE DEF F
    <2>2. \A i \in F : \E k \in Keys : i = oriMap[k] /\ i # 0
      BY <2>1, <1>2
    <2> QED  BY <2>2 DEF IInv, OriInv
  <1>4. G \in SUBSET RecIdx /\ \A i \in G : recMap[rec[i].key] = i
    <2>1. \A i \in G : \E t \in Tids : i = recMap[<<w, t>>] /\ i # 0
      OBVIOUS
    <2> HIDE DEF G
    <2>2. \A i \in G : \E k \in Keys : i = recMap[k] /\ i # 0
      BY <2>1, <1>2
    <2> QED  BY <2>2 DEF IInv, RecInv
  <1>5. ASSUME NEW i \in OriIdx, ori[i].armed, ori[i].key[1] = w
        PROVE  i \in F
    <2>1. ori[i].st = "WaitRes" /\ oriMap[ori[i].key] = i /\ ori[i].key \in Keys
      BY <1>5 DEF IInv, OriInv, TimersMatch, OriEntry
    <2>2. PICK t \in Tids : ori[i].key = <<w, t>>
      BY <1>5, <2>1 DEF Keys
    <2> QED  BY <2>1, <2>2, ZeroNotIdx
  <1> HIDE DEF F, G
  <1>6. OriInv' /\ OriCounts'
    BY <1>1, <1>3, FreeOriKeeps, FreeOriCounts DEF IInv
  <1>7. \A i \in OriIdx : /\ ori'[i].armed => ori[i].armed /\ i \notin F
                          /\ ori'[i].key = ori[i].key
    BY <1>1, <1>3, FreeOriKeeps DEF IInv
  <1>8. RecInv' /\ RecCount'
    BY <1>1, <1>4, FreeRecKeeps DEF IInv
  <1> QED  BY <1>5, <1>6, <1>7, <1>8

\* A cleared slot had no set-up under way, so that its indexes may be cleared.
LEMMA InsertStep ==
    ASSUME IInv, NEW w \in Wcids, Insert(w)
    PROVE  IInv'
  <1>1. /\ w \notin present /\ present' = present \cup {w}
        /\ oriMap' = [k \in Keys |-> IF k[1] = w THEN 0 ELSE oriMap[k]]
        /\ recMap' = [k \in Keys |-> IF k[1] = w THEN 0 ELSE recMap[k]]
        /\ txBa' = {k \in txBa : k[1] # w}
        /\ rxBa' = {k \in rxBa : k[1] # w}
        /\ decline' = {k \in decline : k[1] # w}
        /\ UNCHANGED <<ori, numOri, numDone, rec, numRec, asked>>
    BY DEF Insert
  <1>2. \A i \in OriIdx : ori[i].armed => ori[i].key[1] # w
    BY <1>1 DEF IInv, AskersPresent
  <1>3. oriMap' \in [Keys -> OriIdx \cup {0}] /\ recMap' \in [Keys -> RecIdx \cup {0}]
    BY <1>1 DEF IInv, OriInv, RecInv
  <1>4. TimersMatch'
    <2>1. \A i \in OriIdx : ori[i].key \in Keys
      BY DEF IInv, OriInv, OriEntry
    <2> QED  BY <1>1, <1>2, <2>1 DEF IInv, OriInv, TimersMatch
  <1>5. OriInv'
    BY <1>1, <1>3, <1>4 DEF IInv, OriInv
  <1>6. RecInv'
    BY <1>1, <1>3 DEF IInv, RecInv
  <1>7. OriCounts' /\ RecCount'
    BY <1>1 DEF IInv, OriCounts, RecCount, UsedOri, DoneOri, UsedRec
  <1> QED  BY <1>1, <1>5, <1>6, <1>7 DEF IInv, AskersPresent, Others

\* BARecSessionAdd takes a free entry, which no index names, for the key.
LEMMA RecAddStep ==
    ASSUME IInv, NEW k \in Keys, NEW i \in RecIdx, RecAdd(k, i)
    PROVE  RecInv' /\ RecCount'
  <1> DEFINE e == [st |-> "Accept", key |-> k]
  <1>1. /\ recMap[k] = 0 /\ rec[i].st = "NONE"
        /\ rec' = [rec EXCEPT ![i] = e]
        /\ recMap' = [recMap EXCEPT ![k] = i]
        /\ rxBa' = rxBa \cup {k} /\ numRec' = numRec + 1
    BY DEF RecAdd, IsFreeRec
  <1>2. /\ rec \in [RecIdx -> RecEntry] /\ recMap \in [Keys -> RecIdx \cup {0}]
        /\ rxBa = {j \in Keys : recMap[j] # 0}
        /\ \A j \in Keys : recMap[j] # 0 =>
              rec[recMap[j]].st # "NONE" /\ rec[recMap[j]].key = j
    BY DEF IInv, RecInv
  <1>3. e \in RecEntry /\ e.st = "Accept" /\ e.key = k
    BY DEF RecEntry
  <1>4. rec'[i] = e /\ \A j \in RecIdx \ {i} : rec'[j] = rec[j]
    BY <1>1, <1>2
  <1> HIDE DEF e
  <1>5. recMap'[k] = i /\ \A j \in Keys \ {k} : recMap'[j] = recMap[j] /\ recMap[j] # i
    BY <1>1, <1>2, ZeroNotIdx
  <1>6. rec' \in [RecIdx -> RecEntry] /\ recMap' \in [Keys -> RecIdx \cup {0}]
    BY <1>1, <1>2, <1>3
  <1>7. rxBa' = {j \in Keys : recMap'[j] # 0}
    BY <1>1, <1>2, <1>5, ZeroNotIdx
  <1>8. \A j \in Keys : recMap'[j] # 0 =>
              rec'[recMap'[j]].st # "NONE" /\ rec'[recMap'[j]].key = j
    BY <1>2, <1>3, <1>4, <1>5
  <1>9. RecCount'
    <2>1. UsedRec' = UsedRec \cup {i} /\ i \notin UsedRec
      BY <1>1, <1>3, <1>4 DEF UsedRec
    <2>2. Cardinality(UsedRec') = Cardinality(UsedRec) + 1
      BY <2>1, CountAfter, IdxFinite, FS_Subset DEF UsedRec
    <2> QED  BY <1>1, <2>2 DEF RecCount, IInv
  <1> QED  BY <1>6, <1>7, <1>8, <1>9 DEF RecInv

\* BARecSessionAdd for a session that exists changes no count and no index.
LEMMA RecRenewStep ==
    ASSUME IInv, NEW k \in Keys, RecRenew(k)
    PROVE  RecInv' /\ RecCount'
  <1>1. /\ recMap[k] \in RecIdx /\ rec[recMap[k]].st # "NONE"
        /\ rec[recMap[k]].key = k /\ rec[recMap[k]] \in RecEntry
        /\ rec' = [rec EXCEPT ![recMap[k]] = [st |-> "Accept", key |-> k]]
        /\ rxBa' = rxBa \cup {k}
        /\ UNCHANGED <<recMap, numRec>>
    BY DEF RecRenew, IInv, RecInv
  <1>2. \A j \in RecIdx : /\ rec'[j] \in RecEntry /\ rec'[j].key = rec[j].key
                          /\ rec'[j].st = "NONE" <=> rec[j].st = "NONE"
    BY <1>1 DEF RecEntry, IInv, RecInv
  <1>3. rec' \in [RecIdx -> RecEntry]
    BY <1>1, <1>2 DEF IInv, RecInv
  <1>4. UsedRec' = UsedRec
    BY <1>2 DEF UsedRec
  <1>5. rxBa' = rxBa
    BY <1>1, ZeroNotIdx DEF IInv, RecInv
  <1> QED  BY <1>1, <1>2, <1>3, <1>4, <1>5 DEF IInv, RecInv, RecCount
-----------------------------------------------------------------------------
\* BATableInit.
LEMMA Establishes == Init => IInv
  <1> SUFFICES ASSUME Init PROVE IInv
    OBVIOUS
  <1>1. PICK k \in Keys :
          /\ ori = [i \in OriIdx |->
                      [st |-> "NONE", key |-> k, token |-> 0, armed |-> FALSE]]
          /\ rec = [i \in RecIdx |-> [st |-> "NONE", key |-> k]]
    BY DEF Init
  <1>2. 0 \in 0 .. MaxRetry
    BY RetryAssumption
  <1>3. OriInv
    BY <1>1, <1>2 DEF Init, OriInv, OriEntry, TimersMatch
  <1>4. RecInv
    BY <1>1 DEF Init, RecInv, RecEntry
  <1>5. UsedOri = {} /\ DoneOri = {} /\ UsedRec = {}
    BY <1>1 DEF UsedOri, DoneOri, UsedRec
  <1>6. OriCounts /\ RecCount
    BY <1>5, FS_EmptySet DEF Init, OriCounts, RecCount
  <1>7. AskersPresent
    BY <1>1 DEF AskersPresent
  <1> QED  BY <1>3, <1>4, <1>6, <1>7 DEF Init, IInv, Others

\* A step that leaves a half of the tables alone keeps what it owes.
LEMMA OriUnchanged ==
    ASSUME IInv, UNCHANGED oriVars, UNCHANGED present
    PROVE  OriInv' /\ OriCounts' /\ AskersPresent'
BY DEF IInv, oriVars, OriInv, OriCounts, AskersPresent, TimersMatch, UsedOri, DoneOri

\* The steps of the originator leave the recipient's half alone.
LEMMA RecUnchanged ==
    ASSUME IInv, UNCHANGED recVars
    PROVE  RecInv' /\ RecCount'
BY DEF IInv, recVars, RecInv, RecCount, UsedRec

\* Every step keeps the inductive invariant.
LEMMA Preserves == IInv /\ [Next]_vars => IInv'
  <1> SUFFICES ASSUME IInv, [Next]_vars PROVE IInv'
    OBVIOUS
  <1> USE DEF IInv
  <1>1. ASSUME NEW k \in Keys, NEW i \in OriIdx, OriSetUp(k, i)
        PROVE  IInv'
    BY <1>1, SetUpStep, RecUnchanged DEF OriSetUp, Others
  <1>2. ASSUME NEW k \in Keys, OriAccepted(k)
        PROVE  IInv'
    BY <1>2, AcceptedStep, RecUnchanged DEF OriAccepted, Others
  <1>3. ASSUME NEW k \in Keys, NEW declined \in BOOLEAN, OriRefused(k, declined)
        PROVE  IInv'
    <2>1. OriAt(k) \in SUBSET OriIdx /\ \A i \in OriAt(k) : oriMap[ori[i].key] = i
      BY OriAtOwned
    <2>2. OriInv' /\ OriCounts' /\ AskersPresent'
      BY <1>3, <2>1, FreeOriAll DEF OriRefused
    <2> QED  BY <1>3, <2>2, RecUnchanged DEF OriRefused, Others
  <1>4. ASSUME NEW k \in Keys, OriTearDown(k)
        PROVE  IInv'
    <2>1. OriAt(k) \in SUBSET OriIdx /\ \A i \in OriAt(k) : oriMap[ori[i].key] = i
      BY OriAtOwned
    <2>2. OriInv' /\ OriCounts' /\ AskersPresent'
      BY <1>4, <2>1, FreeOriAll DEF OriTearDown
    <2> QED  BY <1>4, <2>2, RecUnchanged DEF OriTearDown, Others
  <1>5. ASSUME NEW k \in Keys, RecAsk(k)
        PROVE  IInv'
    BY <1>5, OriUnchanged, RecUnchanged DEF RecAsk, Others
  <1>6. ASSUME NEW k \in Keys, NEW i \in RecIdx, RecAdd(k, i)
        PROVE  IInv'
    BY <1>6, RecAddStep, OriUnchanged DEF RecAdd, Others
  <1>7. ASSUME NEW k \in Keys, RecRenew(k)
        PROVE  IInv'
    BY <1>7, RecRenewStep, OriUnchanged DEF RecRenew, Others
  <1>8. ASSUME NEW k \in Keys, RecRefuse(k)
        PROVE  IInv'
    BY <1>8, OriUnchanged, RecUnchanged DEF RecRefuse, Others
  <1>9. ASSUME NEW k \in Keys, RecTearDown(k)
        PROVE  IInv'
    <2>1. RecAt(k) \in SUBSET RecIdx /\ \A i \in RecAt(k) : recMap[rec[i].key] = i
      BY RecAtOwned
    <2>2. RecInv' /\ RecCount'
      BY <1>9, <2>1, FreeRecKeeps DEF RecTearDown
    <2> QED  BY <1>9, <2>2, OriUnchanged DEF RecTearDown, Others
  <1>10. ASSUME NEW i \in OriIdx, OriRetry(i)
         PROVE  IInv'
    BY <1>10, RetryStep, RecUnchanged DEF OriRetry, Others
  <1>11. ASSUME NEW i \in OriIdx, OriGiveUp(i)
         PROVE  IInv'
    <2>1. ori[i].key \in Keys /\ oriMap[ori[i].key] = i
      BY <1>11 DEF OriGiveUp, OriInv, TimersMatch, OriEntry
    <2>2. OriAt(ori[i].key) = {i}
      BY <2>1, ZeroNotIdx DEF OriAt
    <2>3. OriInv' /\ OriCounts' /\ AskersPresent'
      BY <1>11, <2>1, <2>2, FreeOriAll DEF OriGiveUp
    <2> QED  BY <1>11, <2>3, RecUnchanged DEF OriGiveUp, Others
  <1>12. ASSUME NEW w \in Wcids, Insert(w)
         PROVE  IInv'
    BY <1>12, InsertStep
  <1>13. ASSUME NEW w \in Wcids, NEW noMem, Delete(w, noMem)
         PROVE  IInv'
    <2>1. TearDownAll(w, noMem) /\ present' = present \ {w} /\ UNCHANGED <<decline, asked>>
      BY <1>13 DEF Delete
    <2>2. /\ OriInv' /\ OriCounts' /\ RecInv' /\ RecCount'
          /\ \A i \in OriIdx : /\ ori'[i].armed => ori[i].armed /\ ori[i].key[1] # w
                               /\ ori'[i].key = ori[i].key
      BY <2>1, TearDownAllStep
    <2>3. AskersPresent'
      BY <2>1, <2>2 DEF AskersPresent
    <2> QED  BY <2>1, <2>2, <2>3 DEF Others
  <1>14. ASSUME NEW w \in Wcids, NEW noMem, Authenticate(w, noMem)
         PROVE  IInv'
    <2>1. TearDownAll(w, noMem) /\ UNCHANGED <<decline, present, asked>>
      BY <1>14 DEF Authenticate
    <2>2. /\ OriInv' /\ OriCounts' /\ RecInv' /\ RecCount'
          /\ \A i \in OriIdx : /\ ori'[i].armed => ori[i].armed
                               /\ ori'[i].key = ori[i].key
      BY <2>1, TearDownAllStep
    <2>3. AskersPresent'
      BY <2>1, <2>2 DEF AskersPresent
    <2> QED  BY <2>1, <2>2, <2>3 DEF Others
  <1>15. ASSUME NEW w \in Wcids, Associate(w)
         PROVE  IInv'
    <2>1. OriInv' /\ OriCounts' /\ AskersPresent'
      BY <1>15 DEF Associate, OriInv, OriCounts, AskersPresent, TimersMatch,
                   UsedOri, DoneOri
    <2> QED  BY <1>15, <2>1, RecUnchanged DEF Associate, Others
  <1>16. CASE UNCHANGED vars
    <2>1. UNCHANGED oriVars /\ UNCHANGED recVars /\ UNCHANGED <<decline, present, asked>>
      BY <1>16 DEF vars, oriVars, recVars
    <2> QED  BY <2>1, OriUnchanged, RecUnchanged DEF Others
  <1> QED
    BY <1>1, <1>2, <1>3, <1>4, <1>5, <1>6, <1>7, <1>8, <1>9, <1>10, <1>11,
       <1>12, <1>13, <1>14, <1>15, <1>16 DEF Next, Timeout
-----------------------------------------------------------------------------
\* The invariant that the theorems rest on.
THEOREM Invariance == Spec => []IInv
  <1> QED  BY Establishes, Preserves, PTL DEF Spec

\* The invariant has all that the runs check.
LEMMA Implications ==
    IInv => TypeOK /\ IndexesOwned /\ CountsExact /\ BitmapsBacked /\ TimersMatch
  <1> SUFFICES ASSUME IInv
               PROVE  TypeOK /\ IndexesOwned /\ CountsExact /\ BitmapsBacked /\ TimersMatch
    OBVIOUS
  <1> USE DEF IInv
  <1>1. CountsExact
    BY DEF OriCounts, RecCount, CountsExact
  <1>2. IsFiniteSet(UsedOri) /\ IsFiniteSet(DoneOri) /\ IsFiniteSet(UsedRec)
    BY IdxFinite, FS_Subset DEF UsedOri, DoneOri, UsedRec
  <1>3. numOri \in Nat /\ numDone \in Nat /\ numRec \in Nat
    BY <1>1, <1>2, FS_CardinalityType DEF CountsExact
  <1>4. TypeOK
    BY <1>3 DEF TypeOK, OriInv, RecInv, Others
  <1>5. IndexesOwned /\ BitmapsBacked /\ TimersMatch
    BY DEF IndexesOwned, BitmapsBacked, OriInv, RecInv
  <1> QED  BY <1>1, <1>4, <1>5

\* The typing of every variable, the counters included.
THEOREM Typing == Spec => []TypeOK
BY Invariance, Implications, PTL

\* BAOriWcidArray and BARecWcidArray lead to entries of their own station and
\* TID, for tables of any size.
THEOREM Ownership == Spec => []IndexesOwned
BY Invariance, Implications, PTL

\* numAsOriginator, numDoneOriginator and numAsRecipient count the entries in
\* use: allocation is refused exactly when the table is full, and no counter
\* is 0 when an entry is freed.
THEOREM Counting == Spec => []CountsExact
BY Invariance, Implications, PTL

\* No A-MPDU goes out without an agreement, and RXBAbitmap marks the sessions.
THEOREM Bitmaps == Spec => []BitmapsBacked
BY Invariance, Implications, PTL

\* ORIBATimer is pending exactly while an answer is awaited.
THEOREM Timers == Spec => []TimersMatch
BY Invariance, Implications, PTL

-----------------------------------------------------------------------------
(***************************************************************************)
(* The tables implement the agreements.                                    *)
(***************************************************************************)
\* Every agreement has an entry of its own, so that there are at most as many
\* as the counter says.
LEMMA AtMostNumOri ==
    ASSUME IInv
    PROVE  LET asking == {k \in Keys : AgreementOf[k] # "Idle"}
           IN  Cardinality(asking) \in Nat /\ numOri \in Nat /\ Cardinality(asking) <= numOri
  <1> DEFINE asking == {k \in Keys : AgreementOf[k] # "Idle"}
             f == [k \in asking |-> oriMap[k]]
  <1>1. \A k \in asking : oriMap[k] # 0 /\ k \in Keys
    BY DEF AgreementOf
  <1>2. \A k \in asking : oriMap[k] \in UsedOri /\ ori[oriMap[k]].key = k
    BY <1>1 DEF IInv, OriInv, UsedOri
  <1>3. f \in Injection(asking, UsedOri)
    BY <1>2 DEF Injection, IsInjective
  <1>4. IsFiniteSet(UsedOri)
    BY IdxFinite, FS_Subset DEF UsedOri
  <1> HIDE DEF asking, f
  <1>5. IsFiniteSet(asking) /\ Cardinality(asking) <= Cardinality(UsedOri)
    BY <1>3, <1>4, FS_Injection
  <1>6. Cardinality(asking) \in Nat /\ Cardinality(UsedOri) \in Nat
    BY <1>4, <1>5, FS_CardinalityType
  <1> QED  BY <1>5, <1>6 DEF IInv, OriCounts, asking

\* Freeing entries drops the agreements of their keys, and no others.
LEMMA FreeOriDrops ==
    ASSUME IInv, NEW F \in SUBSET OriIdx, NEW fired \in SUBSET F,
           \A i \in F : oriMap[ori[i].key] = i,
           FreeOri(F, fired)
    PROVE  AgreementOf' = [k \in Keys |-> IF k \in {ori[i].key : i \in F}
                                          THEN "Idle" ELSE AgreementOf[k]]
  <1>1. \A i \in OriIdx : ori'[i].st = IF i \in F THEN "NONE" ELSE ori[i].st
    BY FreeOriKeeps DEF IInv
  <1>2. oriMap' = [k \in Keys |-> IF \E i \in {i \in F : ori[i].st # "NONE"} : ori[i].key = k
                                  THEN 0 ELSE oriMap[k]]
    BY DEF FreeOri
  <1>3. ASSUME NEW k \in Keys
        PROVE  AgreementOf'[k] = IF k \in {ori[i].key : i \in F}
                                 THEN "Idle" ELSE AgreementOf[k]
    <2>1. CASE k \in {ori[i].key : i \in F}
      <3>1. PICK i \in F : ori[i].key = k /\ oriMap[k] = i /\ i # 0 /\ ori[i].st # "NONE"
        BY <2>1, ZeroNotIdx DEF IInv, OriInv
      <3>2. oriMap'[k] = 0
        BY <1>2, <3>1
      <3> QED  BY <2>1, <3>2 DEF AgreementOf
    <2>2. CASE k \notin {ori[i].key : i \in F}
      <3>1. oriMap'[k] = oriMap[k]
        BY <1>2, <2>2
      <3>2. ASSUME oriMap[k] # 0
            PROVE  ori'[oriMap[k]].st = ori[oriMap[k]].st
        BY <3>2, <1>1, <2>2 DEF IInv, OriInv
      <3> QED  BY <2>2, <3>1, <3>2 DEF AgreementOf
    <2> QED  BY <2>1, <2>2
  <1> QED  BY <1>3 DEF AgreementOf

\* With empty tables every agreement is idle.
LEMMA AgreementInit == Init => Agreement!Init
  <1> SUFFICES ASSUME Init PROVE AgreementOf = [k \in Keys |-> "Idle"]
    BY DEF Agreement!Init
  <1> QED  BY DEF Init, AgreementOf

\* Freeing entries of one station is a Drop.
LEMMA DropStep ==
    ASSUME IInv, NEW F \in SUBSET OriIdx, NEW fired \in SUBSET F,
           \A i \in F : oriMap[ori[i].key] = i,
           FreeOri(F, fired),
           NEW w, \A i \in F : ori[i].key[1] = w
    PROVE  [Agreement!Next]_AgreementOf
  <1> DEFINE K == {ori[i].key : i \in F}
  <1>1. AgreementOf' = [k \in Keys |-> IF k \in K THEN "Idle" ELSE AgreementOf[k]]
    BY FreeOriDrops
  <1>2. K \subseteq Keys /\ \A k \in K : k[1] = w
    BY DEF IInv, OriInv, OriEntry
  <1> HIDE DEF K
  <1>3. CASE K = {}
    <2>1. AgreementOf' = AgreementOf
      BY <1>1, <1>3 DEF AgreementOf
    <2> QED  BY <2>1
  <1>4. ASSUME NEW k \in K
        PROVE  Agreement!Next
    <2>1. k \in Keys /\ K \in SUBSET Agreement!Station(k)
      BY <1>2 DEF Agreement!Station
    <2>2. Agreement!Drop(K)
      BY <1>1 DEF Agreement!Drop
    <2> QED  BY <2>1, <2>2 DEF Agreement!Next
  <1> QED  BY <1>3, <1>4

\* Every step of the tables asks for, grants or drops agreements of one station,
\* or changes none.
LEMMA AgreementNext ==
    ASSUME IInv, IInv', [Next]_vars
    PROVE  [Agreement!Next]_AgreementOf
  <1>1. ASSUME NEW k \in Keys, NEW i \in OriIdx, OriSetUp(k, i)
        PROVE  [Agreement!Next]_AgreementOf
    <2>1. /\ oriMap[k] = 0 /\ numOri < OriLen - 1 /\ ori[i].st = "NONE"
          /\ ori' = [ori EXCEPT ![i] =
                 [st |-> "WaitRes", key |-> k, token |-> 1, armed |-> TRUE]]
          /\ oriMap' = [oriMap EXCEPT ![k] = i]
      BY <1>1 DEF OriSetUp, IsFreeOri
    <2>2. AgreementOf[k] = "Idle"
      BY <2>1 DEF AgreementOf
    <2>3. Cardinality({j \in Keys : AgreementOf[j] # "Idle"}) < OriLen - 1
      BY <2>1, AtMostNumOri, LenAssumption
    <2>4. AgreementOf' = [AgreementOf EXCEPT ![k] = "Asking"]
      <3>1. ori'[i].st = "WaitRes" /\ \A j \in OriIdx \ {i} : ori'[j] = ori[j]
        BY <2>1 DEF IInv, OriInv
      <3>2. oriMap'[k] = i /\ i # 0
        BY <2>1, ZeroNotIdx DEF IInv, OriInv
      <3>3. ASSUME NEW j \in Keys, j # k
            PROVE  /\ oriMap'[j] = oriMap[j]
                   /\ oriMap[j] # 0 => ori'[oriMap[j]] = ori[oriMap[j]]
        BY <2>1, <3>1, <3>3 DEF IInv, OriInv
      <3>4. AgreementOf'[k] = "Asking"
        BY <3>1, <3>2 DEF AgreementOf
      <3>5. \A j \in Keys : j # k => AgreementOf'[j] = AgreementOf[j]
        BY <3>3 DEF AgreementOf
      <3> QED  BY <3>4, <3>5 DEF AgreementOf
    <2>5. Agreement!Ask(k)
      BY <2>2, <2>3, <2>4 DEF Agreement!Ask, Agreement!Cardinality, Cardinality
    <2> QED  BY <2>5 DEF Agreement!Next
  <1>2. ASSUME NEW k \in Keys, OriAccepted(k)
        PROVE  [Agreement!Next]_AgreementOf
    <2>1. /\ oriMap[k] \in OriIdx /\ oriMap[k] # 0 /\ ori[oriMap[k]].st = "WaitRes"
          /\ ori[oriMap[k]] \in OriEntry
          /\ ori' = [ori EXCEPT ![oriMap[k]].st = "Done", ![oriMap[k]].armed = FALSE]
          /\ oriMap' = oriMap
      BY <1>2 DEF OriAccepted, IInv, OriInv
    <2>2. ori'[oriMap[k]].st = "Done"
      BY <2>1 DEF IInv, OriInv, OriEntry
    <2>3. \A j \in Keys : j # k /\ oriMap[j] # 0 => ori'[oriMap[j]] = ori[oriMap[j]]
      BY <2>1 DEF IInv, OriInv
    <2>4. AgreementOf[k] = "Asking" /\ AgreementOf' = [AgreementOf EXCEPT ![k] = "Active"]
      BY <2>1, <2>2, <2>3 DEF AgreementOf
    <2>5. Agreement!Grant(k)
      BY <2>4 DEF Agreement!Grant
    <2> QED  BY <2>5 DEF Agreement!Next
  <1>3. ASSUME NEW k \in Keys, NEW fired \in SUBSET OriAt(k), FreeOri(OriAt(k), fired)
        PROVE  [Agreement!Next]_AgreementOf
    <2>1. OriAt(k) \in SUBSET OriIdx /\ \A i \in OriAt(k) : oriMap[ori[i].key] = i
      BY OriAtOwned DEF IInv
    <2>2. \A i \in OriAt(k) : ori[i].key[1] = k[1]
      BY DEF OriAt, IInv, OriInv
    <2> QED  BY <1>3, <2>1, <2>2, DropStep
  <1>4. ASSUME NEW k \in Keys,
               OriTearDown(k) \/ \E declined \in BOOLEAN : OriRefused(k, declined)
        PROVE  [Agreement!Next]_AgreementOf
    BY <1>3, <1>4 DEF OriTearDown, OriRefused
  <1>5. ASSUME NEW i \in OriIdx, OriGiveUp(i)
        PROVE  [Agreement!Next]_AgreementOf
    <2>1. ori[i].key \in Keys /\ oriMap[ori[i].key] = i
      BY <1>5 DEF OriGiveUp, IInv, OriInv, TimersMatch, OriEntry
    <2>2. {i} \in SUBSET OriAt(ori[i].key)
      BY <2>1, ZeroNotIdx DEF OriAt
    <2> QED  BY <1>3, <1>5, <2>1, <2>2 DEF OriGiveUp
  <1>6. ASSUME NEW w \in Wcids, NEW noMem, TearDownAll(w, noMem)
        PROVE  [Agreement!Next]_AgreementOf
    <2> DEFINE F == {oriMap[<<w, t>>] : t \in
                 {t \in Tids : oriMap[<<w, t>>] # 0 /\
                    ~(<<w, t>> \in noMem /\ ori[oriMap[<<w, t>>]].st = "Done")}}
    <2>1. FreeOri(F, {})
      BY <1>6 DEF TearDownAll
    <2>2. \A i \in F : \E k \in Keys : k[1] = w /\ i = oriMap[k] /\ i # 0
      <3>1. \A t \in Tids : <<w, t>> \in Keys /\ <<w, t>>[1] = w
        BY DEF Keys
      <3> QED  BY <3>1
    <2> HIDE DEF F
    <2>3. F \in SUBSET OriIdx /\ \A i \in F : oriMap[ori[i].key] = i /\ ori[i].key[1] = w
      BY <2>2 DEF IInv, OriInv
    <2> QED  BY <2>1, <2>3, DropStep
  <1>7. ASSUME NEW w \in Wcids, Insert(w)
        PROVE  [Agreement!Next]_AgreementOf
    <2> DEFINE K == {k \in Keys : k[1] = w}
    <2>1. AgreementOf' = [k \in Keys |-> IF k \in K THEN "Idle" ELSE AgreementOf[k]]
      BY <1>7 DEF Insert, AgreementOf
    <2> QED
      <3>1. CASE K = {}
        BY <2>1, <3>1 DEF AgreementOf
      <3>2. ASSUME NEW k \in K
            PROVE  Agreement!Next
        <4>1. K \in SUBSET Agreement!Station(k) /\ k \in Keys
          BY <3>2 DEF Agreement!Station
        <4>2. Agreement!Drop(K)
          BY <2>1 DEF Agreement!Drop
        <4> QED  BY <4>1, <4>2 DEF Agreement!Next
      <3> QED  BY <3>1, <3>2
  <1>8. ASSUME NEW i \in OriIdx, OriRetry(i)
        PROVE  AgreementOf' = AgreementOf
    <2>1. oriMap' = oriMap /\ \A j \in OriIdx : ori'[j].st = ori[j].st
      BY <1>8 DEF OriRetry, IInv, OriInv, OriEntry
    <2> QED  BY <2>1 DEF AgreementOf, IInv, OriInv
  <1>9. ASSUME UNCHANGED <<ori, oriMap>>
        PROVE  AgreementOf' = AgreementOf
    BY <1>9 DEF AgreementOf
  <1>10. ASSUME NEW k \in Keys,
                \/ RecAsk(k) \/ RecRenew(k) \/ RecRefuse(k) \/ RecTearDown(k)
                \/ \E i \in RecIdx : RecAdd(k, i)
         PROVE  UNCHANGED <<ori, oriMap>>
    BY <1>10 DEF RecAsk, RecRenew, RecRefuse, RecTearDown, RecAdd, oriVars
  <1>11. ASSUME NEW w \in Wcids, Associate(w)
         PROVE  UNCHANGED <<ori, oriMap>>
    BY <1>11 DEF Associate
  <1>12. ASSUME NEW w \in Wcids, NEW noMem, Delete(w, noMem) \/ Authenticate(w, noMem)
         PROVE  TearDownAll(w, noMem)
    BY <1>12 DEF Delete, Authenticate
  <1>13. CASE UNCHANGED vars
    BY <1>9, <1>13 DEF vars
  <1>14. CASE \E k \in Keys : \/ \E i \in OriIdx : OriSetUp(k, i)
                              \/ OriAccepted(k)
                              \/ \E declined \in BOOLEAN : OriRefused(k, declined)
                              \/ OriTearDown(k)
                              \/ RecAsk(k)
                              \/ \E i \in RecIdx : RecAdd(k, i)
                              \/ RecRenew(k)
                              \/ RecRefuse(k)
                              \/ RecTearDown(k)
    BY <1>14, <1>1, <1>2, <1>4, <1>9, <1>10
  <1>15. CASE \E i \in OriIdx : Timeout(i)
    BY <1>15, <1>5, <1>8 DEF Timeout
  <1>16. CASE \E w \in Wcids : \/ Insert(w)
                               \/ \E noMem \in SUBSET ({w} \X Tids) :
                                     Delete(w, noMem) \/ Authenticate(w, noMem)
                               \/ Associate(w)
    BY <1>16, <1>6, <1>7, <1>9, <1>11, <1>12
  <1> QED  BY <1>13, <1>14, <1>15, <1>16 DEF Next

\* For tables of any size, the index-and-entry bookkeeping behaves as one
\* independent agreement per station and TID, of which there are never more
\* than the table has usable entries.
THEOREM Refinement == Spec => ImplementsAgreement
  <1>1. Init => Agreement!Init
    BY AgreementInit
  <1>2. IInv /\ IInv' /\ [Next]_vars => [Agreement!Next]_AgreementOf
    BY AgreementNext
  <1> QED  BY <1>1, <1>2, Invariance, PTL DEF Spec, ImplementsAgreement, Agreement!Spec

=============================================================================
