----------------------------- MODULE BaSession -----------------------------
(***************************************************************************)
(* The block-ack sessions of the driver (common/ba_action.c): the tables   *)
(* BAOriEntry and BARecEntry, their counters, and in every MAC_TABLE_ENTRY *)
(* the index of the session of each TID with the bitmaps of those in use.  *)
(* Handlers run whole, as they do in the MLME thread; BaOriRace splits the *)
(* originator's at its locks.  The peer may send any action frame.         *)
(***************************************************************************)
EXTENDS Integers, FiniteSets

CONSTANTS
    Wcids,       \* slots of the MAC table
    Tids,        \* traffic identifiers
    OriLen,      \* MAX_LEN_OF_BA_ORI_TABLE; slot 0 is never used
    RecLen,      \* MAX_LEN_OF_BA_REC_TABLE; slot 0 is never used
    MaxRetry     \* ORI_SESSION_MAX_RETRY

ASSUME LenAssumption == OriLen \in Nat \ {0} /\ RecLen \in Nat \ {0}
ASSUME RetryAssumption == MaxRetry \in Nat \ {0}
ASSUME FiniteAssumption == IsFiniteSet(Wcids) /\ IsFiniteSet(Tids)

VARIABLES
    ori,         \* BAOriEntry[]
    oriMap,      \* BAOriWcidArray of every station
    txBa,        \* TXBAbitmap: sessions whose frames go out as A-MPDU
    numOri,      \* numAsOriginator
    numDone,     \* numDoneOriginator
    rec,         \* BARecEntry[]
    recMap,      \* BARecWcidArray of every station
    rxBa,        \* RXBAbitmap
    numRec,      \* numAsRecipient
    decline,     \* BADeclineBitmap
    present,     \* MAC table slots in use
    asked        \* ADDBA requests of the stations in the MLME queue

oriVars == <<ori, oriMap, txBa, numOri, numDone>>
recVars == <<rec, recMap, rxBa, numRec>>
vars == <<ori, oriMap, txBa, numOri, numDone, rec, recMap, rxBa, numRec,
          decline, present, asked>>

Keys == Wcids \X Tids
OriIdx == 1 .. OriLen - 1
RecIdx == 1 .. RecLen - 1

\* An entry keeps the key of its last session; armed: ORIBATimer is pending.
OriEntry == [st : {"NONE", "WaitRes", "Done"}, key : Keys,
             token : 0 .. MaxRetry, armed : BOOLEAN]
RecEntry == [st : {"NONE", "Accept"}, key : Keys]

\* BATableInit
Init ==
    /\ \E k \in Keys :
          /\ ori = [i \in OriIdx |->
                      [st |-> "NONE", key |-> k, token |-> 0, armed |-> FALSE]]
          /\ rec = [i \in RecIdx |-> [st |-> "NONE", key |-> k]]
    /\ oriMap = [k \in Keys |-> 0]
    /\ recMap = [k \in Keys |-> 0]
    /\ txBa = {} /\ rxBa = {} /\ decline = {}
    /\ numOri = 0 /\ numDone = 0 /\ numRec = 0
    /\ present = {}
    /\ asked = {}
-----------------------------------------------------------------------------
(***************************************************************************)
(* The originator.                                                         *)
(***************************************************************************)
\* BATableFreeOriEntry of the entries F; those that are free stay so.  The
\* timers of F were cancelled, those of fired have just run out.
FreeOri(F, fired) ==
    LET used == {i \in F : ori[i].st # "NONE"}
        done == {i \in F : ori[i].st = "Done"}
    IN  /\ ori' = [i \in OriIdx |->
                     IF i \in used
                     THEN [ori[i] EXCEPT !.st = "NONE", !.token = 0, !.armed = FALSE]
                     ELSE [ori[i] EXCEPT !.armed = @ /\ i \notin fired]]
        /\ oriMap' = [k \in Keys |->
                        IF \E i \in used : ori[i].key = k THEN 0 ELSE oriMap[k]]
        /\ txBa' = txBa \ {ori[i].key : i \in done}
        /\ numOri' = numOri - Cardinality(used)
        /\ numDone' = numDone - Cardinality(done)

OriAt(k) == {oriMap[k]} \ {0}

\* BATableAllocOriEntry: the first free entry, if the counter allows one.
IsFreeOri(i) ==
    /\ numOri < OriLen - 1
    /\ ori[i].st = "NONE"
    /\ \A j \in OriIdx : ori[j].st = "NONE" => i <= j

\* Mutant: the TID may have a session already.
OriSetUpAgain(k, i) ==
    /\ k[1] \in present
    /\ IsFreeOri(i)
    /\ ori' = [ori EXCEPT ![i] =
                 [st |-> "WaitRes", key |-> k, token |-> 1, armed |-> TRUE]]
    /\ oriMap' = [oriMap EXCEPT ![k] = i]
    /\ numOri' = numOri + 1
    /\ UNCHANGED <<txBa, numDone, recVars, decline, present, asked>>

\* BAOriSessionSetUp: a frame for k is sent and k has no session, or a user
\* asks.  The timer sends the first ADDBA request.
OriSetUp(k, i) ==
    /\ k[1] \in present
    /\ oriMap[k] = 0
    /\ IsFreeOri(i)
    /\ ori' = [ori EXCEPT ![i] =
                 [st |-> "WaitRes", key |-> k, token |-> 1, armed |-> TRUE]]
    /\ oriMap' = [oriMap EXCEPT ![k] = i]
    /\ numOri' = numOri + 1
    /\ UNCHANGED <<txBa, numDone, recVars, decline, present, asked>>

\* Mutant: the number of retries is not limited.
OriRetryForEver(i) ==
    /\ ori[i].armed
    /\ ori[i].st = "WaitRes"
    /\ ori' = [ori EXCEPT ![i].token = @ + 1]
    /\ UNCHANGED <<oriMap, txBa, numOri, numDone, recVars, decline, present, asked>>

\* Mutant: the retries are not counted.
OriRetryUncounted(i) ==
    /\ ori[i].armed
    /\ ori[i].st = "WaitRes" /\ ori[i].token < MaxRetry
    /\ UNCHANGED vars

\* BAOriSessionSetupTimeout: ask again, or give up.
OriRetry(i) ==
    /\ ori[i].armed
    /\ ori[i].st = "WaitRes" /\ ori[i].token < MaxRetry
    /\ ori' = [ori EXCEPT ![i].token = @ + 1]
    /\ UNCHANGED <<oriMap, txBa, numOri, numDone, recVars, decline, present, asked>>

OriGiveUp(i) ==
    /\ ori[i].armed
    /\ ~(ori[i].st = "WaitRes" /\ ori[i].token < MaxRetry)
    /\ FreeOri(OriAt(ori[i].key), {i})
    /\ UNCHANGED <<recVars, decline, present, asked>>

\* Mutant: the retry timer is not cancelled.
OriAcceptedTimerRuns(k) ==
    /\ oriMap[k] # 0
    /\ ori[oriMap[k]].st = "WaitRes"
    /\ ori' = [ori EXCEPT ![oriMap[k]].st = "Done"]
    /\ txBa' = txBa \cup {k}
    /\ numDone' = numDone + 1
    /\ UNCHANGED <<oriMap, numOri, recVars, decline, present, asked>>

\* PeerAddBARspAction, status 0: BAOriSessionAdd.  The dialog token of the
\* response is not compared with the request's.
OriAccepted(k) ==
    /\ oriMap[k] # 0
    /\ ori[oriMap[k]].st = "WaitRes"
    /\ ori' = [ori EXCEPT ![oriMap[k]].st = "Done", ![oriMap[k]].armed = FALSE]
    /\ txBa' = txBa \cup {k}
    /\ numDone' = numDone + 1
    /\ UNCHANGED <<oriMap, numOri, recVars, decline, present, asked>>

\* Any other status: the session is torn down; 37 also marks the decline.
OriRefused(k, declined) ==
    /\ FreeOri(OriAt(k), {})
    /\ decline' = IF declined THEN decline \cup {k} ELSE decline
    /\ UNCHANGED <<recVars, present, asked>>

\* BAOriSessionTearDown: a DELBA of the peer (passive), or a user's command.
\* A session in use is kept when there is no memory for our own DELBA, which
\* then is a step without effect.
OriTearDown(k) ==
    /\ oriMap[k] # 0
    /\ FreeOri(OriAt(k), {})
    /\ UNCHANGED <<recVars, decline, present, asked>>
-----------------------------------------------------------------------------
(***************************************************************************)
(* The recipient.                                                          *)
(***************************************************************************)
\* Mutant: the bit of RXBAbitmap stays.
FreeRecMasked(F) ==
    LET used == {i \in F : rec[i].st # "NONE"}
    IN  /\ rec' = [i \in RecIdx |->
                     IF i \in used THEN [rec[i] EXCEPT !.st = "NONE"] ELSE rec[i]]
        /\ recMap' = [k \in Keys |->
                        IF \E i \in used : rec[i].key = k THEN 0 ELSE recMap[k]]
        /\ numRec' = numRec - Cardinality(used)
        /\ UNCHANGED rxBa

\* Mutant: the station's index stays.
FreeRecMapped(F) ==
    LET used == {i \in F : rec[i].st # "NONE"}
    IN  /\ rec' = [i \in RecIdx |->
                     IF i \in used THEN [rec[i] EXCEPT !.st = "NONE"] ELSE rec[i]]
        /\ rxBa' = rxBa \ {rec[i].key : i \in used}
        /\ numRec' = numRec - Cardinality(used)
        /\ UNCHANGED recMap

\* BARecSessionTearDown, which ends with BATableFreeRecEntry.
FreeRec(F) ==
    LET used == {i \in F : rec[i].st # "NONE"}
    IN  /\ rec' = [i \in RecIdx |->
                     IF i \in used THEN [rec[i] EXCEPT !.st = "NONE"] ELSE rec[i]]
        /\ recMap' = [k \in Keys |->
                        IF \E i \in used : rec[i].key = k THEN 0 ELSE recMap[k]]
        /\ rxBa' = rxBa \ {rec[i].key : i \in used}
        /\ numRec' = numRec - Cardinality(used)

RecAt(k) == {recMap[k]} \ {0}

\* BATableAllocRecEntry.
IsFreeRec(i) ==
    /\ numRec < RecLen - 1
    /\ rec[i].st = "NONE"
    /\ \A j \in RecIdx : rec[j].st = "NONE" => i <= j

\* An ADDBA request of a station that is present enters the MLME queue.
RecAsk(k) ==
    /\ k[1] \in present
    /\ asked' = asked \cup {k}
    /\ UNCHANGED <<oriVars, recVars, decline, present>>

\* PeerAddBAReqAction and BARecSessionAdd.  While the request waited the
\* station may have left; nothing checks.
RecAdd(k, i) ==
    /\ k \in asked
    /\ recMap[k] = 0
    /\ IsFreeRec(i)
    /\ rec' = [rec EXCEPT ![i] = [st |-> "Accept", key |-> k]]
    /\ recMap' = [recMap EXCEPT ![k] = i]
    /\ rxBa' = rxBa \cup {k}
    /\ numRec' = numRec + 1
    /\ decline' = decline \ {k}
    /\ asked' = asked \ {k}
    /\ UNCHANGED <<oriVars, present>>

\* Mutant: a renewed session is counted again.
RecRenewCounted(k) ==
    /\ k \in asked
    /\ recMap[k] # 0
    /\ rec' = [rec EXCEPT ![recMap[k]] = [st |-> "Accept", key |-> k]]
    /\ rxBa' = rxBa \cup {k}
    /\ numRec' = numRec + 1
    /\ decline' = decline \ {k}
    /\ asked' = asked \ {k}
    /\ UNCHANGED <<oriVars, recMap, present>>

\* The same request for a session that exists already.
RecRenew(k) ==
    /\ k \in asked
    /\ recMap[k] # 0
    /\ rec' = [rec EXCEPT ![recMap[k]] = [st |-> "Accept", key |-> k]]
    /\ rxBa' = rxBa \cup {k}
    /\ decline' = decline \ {k}
    /\ asked' = asked \ {k}
    /\ UNCHANGED <<oriVars, recMap, numRec, present>>

\* The request is refused when the table is full, or by configuration.
RecRefuse(k) ==
    /\ k \in asked
    /\ asked' = asked \ {k}
    /\ UNCHANGED <<oriVars, recVars, decline, present>>

\* A DELBA of the peer, a user's command, or a BAR that is not compressed.
RecTearDown(k) ==
    /\ recMap[k] # 0
    /\ FreeRec(RecAt(k))
    /\ UNCHANGED <<oriVars, decline, present, asked>>
-----------------------------------------------------------------------------
(***************************************************************************)
(* The station.                                                            *)
(***************************************************************************)
\* BASessionTearDownALL, when memory for the DELBAs of the sessions in
\* noMem could not be had: those in use stay.
TearDownAll(w, noMem) ==
    /\ FreeOri({oriMap[<<w, t>>] : t \in
                 {t \in Tids : oriMap[<<w, t>>] # 0 /\
                    ~(<<w, t>> \in noMem /\ ori[oriMap[<<w, t>>]].st = "Done")}}, {})
    /\ FreeRec({recMap[<<w, t>>] : t \in
                 {t \in Tids : recMap[<<w, t>>] # 0 /\ <<w, t>> \notin noMem}})

\* MacTableInsertEntry clears the slot, with the indexes in it.
Insert(w) ==
    /\ w \notin present
    /\ present' = present \cup {w}
    /\ oriMap' = [k \in Keys |-> IF k[1] = w THEN 0 ELSE oriMap[k]]
    /\ recMap' = [k \in Keys |-> IF k[1] = w THEN 0 ELSE recMap[k]]
    /\ txBa' = {k \in txBa : k[1] # w}
    /\ rxBa' = {k \in rxBa : k[1] # w}
    /\ decline' = {k \in decline : k[1] # w}
    /\ UNCHANGED <<ori, numOri, numDone, rec, numRec, asked>>

\* MacTableDeleteEntry
Delete(w, noMem) ==
    /\ w \in present
    /\ TearDownAll(w, noMem)
    /\ present' = present \ {w}
    /\ UNCHANGED <<decline, asked>>

\* APPeerAuthReqAtIdleAction for a station that is known.
Authenticate(w, noMem) ==
    /\ w \in present
    /\ TearDownAll(w, noMem)
    /\ UNCHANGED <<decline, present, asked>>

\* ap_cmm_peer_assoc_req_action, when it accepts: "clear txBA bitmap".
Associate(w) ==
    /\ w \in present
    /\ txBa' = {k \in txBa : k[1] # w}
    /\ UNCHANGED <<ori, oriMap, numOri, numDone, recVars, decline, present, asked>>

Timeout(i) == OriRetry(i) \/ OriGiveUp(i)

Next ==
    \/ \E k \in Keys : \/ \E i \in OriIdx : OriSetUp(k, i)
                       \/ OriAccepted(k)
                       \/ \E declined \in BOOLEAN : OriRefused(k, declined)
                       \/ OriTearDown(k)
                       \/ RecAsk(k)
                       \/ \E i \in RecIdx : RecAdd(k, i)
                       \/ RecRenew(k)
                       \/ RecRefuse(k)
                       \/ RecTearDown(k)
    \/ \E i \in OriIdx : Timeout(i)
    \/ \E w \in Wcids : \/ Insert(w)
                        \/ \E noMem \in SUBSET ({w} \X Tids) :
                              Delete(w, noMem) \/ Authenticate(w, noMem)
                        \/ Associate(w)

Spec == Init /\ [][Next]_vars

\* Timers fire.
FairSpec == Spec /\ \A i \in OriIdx : WF_vars(Timeout(i))
-----------------------------------------------------------------------------
\* Types of the tables, the indexes and the counters.
TypeOK ==
    /\ ori \in [OriIdx -> OriEntry]
    /\ rec \in [RecIdx -> RecEntry]
    /\ oriMap \in [Keys -> OriIdx \cup {0}]
    /\ recMap \in [Keys -> RecIdx \cup {0}]
    /\ txBa \subseteq Keys /\ rxBa \subseteq Keys /\ decline \subseteq Keys
    /\ {numOri, numDone, numRec} \subseteq Nat
    /\ present \subseteq Wcids /\ asked \subseteq Keys

UsedOri == {i \in OriIdx : ori[i].st # "NONE"}
DoneOri == {i \in OriIdx : ori[i].st = "Done"}
UsedRec == {i \in RecIdx : rec[i].st # "NONE"}

\* An index leads to a session in use of that very station and TID: no two
\* stations, and no two TIDs, share an entry, and no index outlives its entry.
IndexesOwned ==
    \A k \in Keys :
        /\ oriMap[k] # 0 => ori[oriMap[k]].st # "NONE" /\ ori[oriMap[k]].key = k
        /\ recMap[k] # 0 => rec[recMap[k]].st # "NONE" /\ rec[recMap[k]].key = k

\* The counters that limit allocation, and that the ASSERTs of the free
\* functions read, count the entries in use.
CountsExact ==
    /\ numOri = Cardinality(UsedOri)
    /\ numDone = Cardinality(DoneOri)
    /\ numRec = Cardinality(UsedRec)

\* Frames go out as A-MPDU only under an agreement the peer granted, and the
\* receive bitmap marks the sessions that exist.
BitmapsBacked ==
    /\ \A k \in txBa : oriMap[k] # 0 /\ ori[oriMap[k]].st = "Done"
    /\ rxBa = {k \in Keys : recMap[k] # 0}

\* The retry timer runs for the sessions that wait for an answer and for no
\* other, and those are always within reach of their station.
TimersMatch ==
    \A i \in OriIdx : /\ ori[i].armed <=> ori[i].st = "WaitRes"
                      /\ ori[i].armed => oriMap[ori[i].key] = i

\* What the tables say of every station and TID.
AgreementOf ==
    [k \in Keys |-> IF oriMap[k] = 0 THEN "Idle"
                    ELSE IF ori[oriMap[k]].st = "WaitRes" THEN "Asking"
                    ELSE "Active"]

\* The tables implement one independent agreement per station and TID.
Agreement == INSTANCE BaAgreement WITH
    Capacity <- OriLen - 1, agreement <- AgreementOf
ImplementsAgreement == Agreement!Spec

\* A session set-up ends, with an answer or after the last retry.
SetUpEnds ==
    \A i \in OriIdx : ori[i].st = "WaitRes" ~> ori[i].st # "WaitRes"

\* TXBAbitmap masks every originator session in use ("The mapping wcid of
\* originator session. if TXBAbitmap bit is masked").
SessionMasked ==
    \A k \in Keys : oriMap[k] # 0 /\ ori[oriMap[k]].st = "Done" => k \in txBa

\* A station that leaves the MAC table takes its sessions along ("free
\* resources of BA"): every entry in use is the one its station's index names.
NoOrphan ==
    /\ \A i \in UsedOri : oriMap[ori[i].key] = i
    /\ \A i \in UsedRec : recMap[rec[i].key] = i
=============================================================================
