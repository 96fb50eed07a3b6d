---------------------------- MODULE BaAgreement ----------------------------
(***************************************************************************)
(* What the originator half of the block-ack session code promises: for    *)
(* every station and TID one agreement, asked for, granted by the peer and *)
(* dropped, independently of all others, and at most Capacity at once.     *)
(* BaSession keeps it in a table of entries with an index per station.     *)
(***************************************************************************)
EXTENDS Naturals, FiniteSets

CONSTANTS Keys,      \* a station and a TID
          Capacity   \* agreements that can exist at once

VARIABLE agreement

Init == agreement = [k \in Keys |-> "Idle"]

Ask(k) ==
    /\ agreement[k] = "Idle"
    /\ Cardinality({j \in Keys : agreement[j] # "Idle"}) < Capacity
    /\ agreement' = [agreement EXCEPT ![k] = "Asking"]

Grant(k) ==
    /\ agreement[k] = "Asking"
    /\ agreement' = [agreement EXCEPT ![k] = "Active"]

\* One agreement ends, or all those of a station that leaves.
Drop(K) == agreement' = [k \in Keys |-> IF k \in K THEN "Idle" ELSE agreement[k]]

Station(k) == {j \in Keys : j[1] = k[1]}

Next == \E k \in Keys :
            \/ Ask(k)
            \/ Grant(k)
            \/ \E K \in SUBSET Station(k) : Drop(K)

Spec == Init /\ [][Next]_agreement
=============================================================================
