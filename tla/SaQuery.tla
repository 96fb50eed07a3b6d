------------------------------ MODULE SaQuery ------------------------------
(***************************************************************************)
(* The SA Query procedure of a station with protected management frames    *)
(* (common/pmf.c, ap/ap_assoc.c): an association request in the name of a  *)
(* station whose port is secured is refused for the moment, and the        *)
(* station asked, again each 200 ms, whether it still holds its keys.  If  *)
(* no answer to the last question comes within a second the station is     *)
(* deleted.  One processor: the two timers' callbacks are whole steps,     *)
(* and come between any two steps of the MLME thread.  Questions and       *)
(* answers may be lost, late or repeated; an answer to a question that is  *)
(* not the last has no effect and is left out.                             *)
(*                                                                         *)
(* Names that WpaHandshake has too begin with Sa: WpaHandshakeProofs       *)
(* extends both.                                                           *)
(***************************************************************************)
EXTENDS Naturals

VARIABLES
    present,   \* the slot holds the station, its timers are Valid
    status,    \* SAQueryStatus
    mainTimer, \* SAQueryTimer is pending
    confirm,   \* SAQueryConfirmTimer is pending
    asked,     \* the question numbered TransactionID has been sent
    job,       \* step of the MLME thread
    last,      \* the question in the thread's hand is numbered TransactionID
    answered,  \* history: an answer matched, in the procedure since SAQueryTimer was set
    raced      \* history: a question was sent while the thread took in an answer

entry == <<present, status, mainTimer, confirm, asked>>
history == <<answered, raced>>
saVars == <<present, status, mainTimer, confirm, asked, job, last, answered, raced>>

SaInit ==
    /\ present = FALSE /\ status = "idle"
    /\ mainTimer = FALSE /\ confirm = FALSE
    /\ asked = FALSE
    /\ job = "idle" /\ last = FALSE
    /\ answered = FALSE /\ raced = FALSE
-----------------------------------------------------------------------------
(***************************************************************************)
(* The entry.                                                              *)
(***************************************************************************)
\* MacTableInsertEntry, association and handshake.
Connect ==
    /\ ~present /\ job = "idle"
    /\ present' = TRUE /\ status' = "idle"
    /\ asked' = FALSE
    /\ answered' = FALSE /\ raced' = FALSE
    /\ UNCHANGED <<mainTimer, confirm, job, last>>

\* Mutant: one of the timers goes on.
DeleteEntryAsking ==
    /\ present' = FALSE
    /\ mainTimer' = FALSE
    /\ UNCHANGED <<status, confirm, asked, job, last, history>>

\* MacTableDeleteEntry: both timers are cancelled and released.
DeleteEntry ==
    /\ present' = FALSE
    /\ mainTimer' = FALSE /\ confirm' = FALSE
    /\ UNCHANGED <<status, asked, job, last, history>>

\* The station leaves, in the MLME thread, or is found silent by a timer.
Leave == present /\ DeleteEntry
-----------------------------------------------------------------------------
(***************************************************************************)
(* PMF_MlmeSAQueryReq in the MLME thread.                                  *)
(***************************************************************************)
\* A (re)association request of a station whose port is secured, rejected; where
\* there is no memory for the response (ap_assoc.c:1006) nothing changes.
AssocReq ==
    /\ present /\ job = "idle"
    /\ status # "sending"
    /\ job' = "count"
    /\ UNCHANGED <<entry, last, history>>

\* No memory for the question, or TransactionID counts it.
Count ==
    /\ job = "count"
    /\ \/ job' = "idle" /\ UNCHANGED <<asked, last>>
       \/ job' = "main" /\ asked' = FALSE /\ last' = TRUE
    /\ UNCHANGED <<present, status, mainTimer, confirm, history>>

\* Mutant: the timer is set for the repetitions.
SetMainOnRetry ==
    /\ job = "main"
    /\ job' = "mark"
    /\ IF status = "retry" THEN mainTimer' = present /\ answered' = FALSE
       ELSE UNCHANGED <<mainTimer, answered>>
    /\ UNCHANGED <<present, status, confirm, asked, last, raced>>

SetMain ==
    /\ job = "main"
    /\ job' = "mark"
    /\ IF status = "idle" THEN mainTimer' = present /\ answered' = FALSE
       ELSE UNCHANGED <<mainTimer, answered>>
    /\ UNCHANGED <<present, status, confirm, asked, last, raced>>

MarkSending ==
    /\ job = "mark"
    /\ job' = "confirm"
    /\ status' = "sending"
    /\ UNCHANGED <<present, mainTimer, confirm, asked, last, history>>

SetConfirm ==
    /\ job = "confirm"
    /\ job' = "send"
    /\ confirm' = present
    /\ UNCHANGED <<present, status, mainTimer, asked, last, history>>

Send ==
    /\ job = "send"
    /\ job' = "idle"
    /\ asked' = (asked \/ last)
    /\ last' = FALSE
    /\ UNCHANGED <<present, status, mainTimer, confirm, history>>

Question == Count \/ SetMain \/ MarkSending \/ SetConfirm \/ Send
-----------------------------------------------------------------------------
(***************************************************************************)
(* PMF_PeerSAQueryRspAction in the MLME thread.                            *)
(***************************************************************************)
Match ==
    /\ present /\ asked /\ job = "idle"
    /\ job' = "answer"
    /\ answered' = TRUE
    /\ UNCHANGED <<entry, last, raced>>

MarkIdle ==
    /\ job = "answer"
    /\ job' = "stopMain"
    /\ status' = "idle"
    /\ UNCHANGED <<present, mainTimer, confirm, asked, last, history>>

\* Mutant: only the repetitions are stopped.
StopMainNot ==
    /\ job = "stopMain"
    /\ job' = "stopConfirm"
    /\ UNCHANGED <<entry, last, history>>

StopMain ==
    /\ job = "stopMain"
    /\ job' = "stopConfirm"
    /\ mainTimer' = FALSE
    /\ UNCHANGED <<present, status, confirm, asked, last, history>>

StopConfirm ==
    /\ job = "stopConfirm"
    /\ job' = "idle"
    /\ confirm' = FALSE
    /\ UNCHANGED <<present, status, mainTimer, asked, last, history>>

Answer == MarkIdle \/ StopMain \/ StopConfirm
-----------------------------------------------------------------------------
(***************************************************************************)
(* The timers.                                                             *)
(***************************************************************************)
\* PMF_SAQueryTimeOut
SAQueryTimeOut == mainTimer /\ DeleteEntry

\* PMF_SAQueryConfirmTimeOut: it asks again, with memory for the question.
SAQueryConfirmTimeOut ==
    /\ confirm
    /\ \/ /\ status' = "sending" /\ asked' = TRUE /\ last' = FALSE
          /\ UNCHANGED confirm
       \/ /\ status' = "retry" /\ confirm' = FALSE
          /\ UNCHANGED <<asked, last>>
    /\ raced' = (raced \/ job \in {"stopMain", "stopConfirm"})
    /\ UNCHANGED <<present, mainTimer, job, answered>>
-----------------------------------------------------------------------------
SaNext ==
    \/ Connect \/ Leave \/ AssocReq \/ Question \/ Match \/ Answer
    \/ SAQueryTimeOut \/ SAQueryConfirmTimeOut

\* The thread goes on and pending timers fire.
SaFairness ==
    /\ WF_saVars(Question) /\ WF_saVars(Answer)
    /\ WF_saVars(SAQueryTimeOut) /\ WF_saVars(SAQueryConfirmTimeOut)
SaSpec == SaInit /\ [][SaNext]_saVars /\ SaFairness
-----------------------------------------------------------------------------
\* Types; no timer of a slot runs that holds no station.
SaTypeOK ==
    /\ {present, mainTimer, confirm, asked, last, answered, raced} \subseteq BOOLEAN
    /\ status \in {"idle", "retry", "sending"}
    /\ job \in {"idle", "count", "main", "mark", "confirm", "send",
                "answer", "stopMain", "stopConfirm"}
    /\ mainTimer \/ confirm => present

\* A station that has answered the last question is not deleted for having
\* been silent, however its answer, the repetitions and a new procedure
\* interleave; the second may only end while its answer is being taken in.
AnswerCounts == mainTimer /\ answered => job \in {"answer", "stopMain"}

\* Every procedure ends with an answer or with the station deleted, so that a
\* station which lost its keys can come back; only a repetition that hits the
\* thread between two steps of taking in the last answer leaves the status at
\* sending, or retry, with no timer to change it.
Resolves == present /\ status # "idle" ~> ~present \/ status = "idle" \/ raced
=============================================================================
