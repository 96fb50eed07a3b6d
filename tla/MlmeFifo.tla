------------------------------ MODULE MlmeFifo ------------------------------
(***************************************************************************)
(* What the MLME queue promises its users: the messages are handled one at *)
(* a time, whole, in the order they were put in, and none is lost before   *)
(* the interface is closed.  MlmeQueue keeps them in a ring of elements.   *)
(***************************************************************************)
EXTENDS Sequences

CONSTANTS Msgs,   \* messages
          None    \* no message

VARIABLES q,      \* the messages that wait
          busy    \* the message the state machines work on, or None

Init == q = <<>> /\ busy = None

Put(m) == q' = Append(q, m) /\ UNCHANGED busy

Take ==
    /\ busy = None
    /\ q # <<>>
    /\ busy' = q[1]
    /\ q' = SubSeq(q, 2, Len(q))

Done ==
    /\ busy # None
    /\ busy' = None
    /\ UNCHANGED q

\* The interface goes down.
Close == busy = None /\ q' = <<>> /\ UNCHANGED busy

Next == (\E m \in Msgs : Put(m)) \/ Take \/ Done \/ Close

Spec == Init /\ [][Next]_<<q, busy>>
=============================================================================
