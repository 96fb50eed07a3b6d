-------------------------- MODULE PowerSaveProofs --------------------------
(***************************************************************************)
(* Proofs about PowerSave, for any number of stations and any bounds of    *)
(* the queues: the bounds hold, what is queued is announced, frames leave  *)
(* in order and none stays in a free slot.                                 *)
(***************************************************************************)
EXTENDS PowerSave, SequenceTheorems, TLAPS

Sorted(s) ==
    \A i, j \in DOMAIN s : i < j /\ s[i] # 0 /\ s[j] # 0 => s[i] < s[j]
Bounded(s) == Len(s) <= MaxPs \/ (Len(s) = MaxPs + 1 /\ s[MaxPs + 1] = 0)
Before(S, T) == \A m \in S, n \in T : m < n

\* The types of all but the queues.
Types ==
    /\ sst \in [Stations -> {"NONE", "AUTH", "ASSOC"}]
    /\ mode \in [Stations -> {"ACTIVE", "SAVE"}]
    /\ idle \in [Stations -> 0 .. 2]
    /\ tim \subseteq Stations \cup {Group}
    /\ mcast \in 0 .. MaxMcast /\ mcastIdle \in 0 .. 1 /\ anyPsm \in BOOLEAN
    /\ job \in [pc : {"idle", "bound", "insert", "announce", "store"},
                sta : Stations \cup {Group}, byte : SUBSET (Stations \cup {Group})]
    /\ rmw \in Rmw /\ next \in 0 .. MaxFrames
    /\ stale \subseteq Stations

\* The queue of one station.  Unless it associated again with frames queued,
\* only a station that sleeps has data frames in it.
Ordered(w) ==
    w \notin stale => /\ Sorted(psq[w])
                      /\ Before(passed[w], Data(psq[w]))
                      /\ Data(psq[w]) # {} => mode[w] = "SAVE"
Empty(w) == ~Present(w) => Data(psq[w]) = {}
Queues ==
    /\ psq \in [Stations -> Seq(0 .. next)]
    /\ passed \in [Stations -> SUBSET (1 .. next)]
    /\ \A w \in Stations : Bounded(psq[w]) /\ Ordered(w) /\ Empty(w)

\* The thread's frame: the transmit path fills the queue up to the bound only.
Thread ==
    /\ job.pc # "idle" => job.sta \in Stations
    /\ job.pc = "insert" => Len(psq[job.sta]) <= MaxPs
    /\ job.pc = "store" => rmw = "torn"

\* The TIM bit of every queue, in any power mode and of free slots too: a
\* station may fall asleep, or the slot be taken, with frames in it.
Marked ==
    rmw = "whole" =>
       /\ \A w \in Stations :
             psq[w] # <<>> => w \in tim \/ (job.sta = w /\ job.pc = "announce")
       /\ mcast > 0 => Group \in tim

IInv == Types /\ Queues /\ Thread /\ Marked
-----------------------------------------------------------------------------
\* A frame is inserted behind all that are older, or is no data frame.
LEMMA AppendKeeps ==
    ASSUME NEW k \in Nat, NEW s \in Seq(0 .. k), NEW n \in Nat, Sorted(s),
           \A m \in Data(s) : n = 0 \/ m < n
    PROVE  Sorted(Append(s, n))
<1>1. Len(s) \in Nat /\ DOMAIN s = 1 .. Len(s) /\ \A i \in 1 .. Len(s) : s[i] \in Nat
  BY LenProperties, ElementOfSeq
<1>2. DOMAIN Append(s, n) = 1 .. Len(s) + 1
  BY <1>1
<1>3. \A i \in 1 .. Len(s) : Append(s, n)[i] = s[i]
  BY <1>1
<1>4. Append(s, n)[Len(s) + 1] = n
  BY <1>1
<1>5. SUFFICES ASSUME NEW i \in 1 .. Len(s) + 1, NEW j \in 1 .. Len(s) + 1, i < j,
                      Append(s, n)[i] # 0, Append(s, n)[j] # 0
               PROVE  Append(s, n)[i] < Append(s, n)[j]
  BY <1>2 DEF Sorted
<1>6. i \in 1 .. Len(s) /\ s[i] # 0
  BY <1>1, <1>3, <1>5
<1>7. CASE j \in 1 .. Len(s)
  BY <1>1, <1>3, <1>5, <1>6, <1>7 DEF Sorted
<1>8. CASE j = Len(s) + 1
  BY <1>1, <1>3, <1>4, <1>5, <1>6, <1>8 DEF Data
<1>9. QED
  BY <1>1, <1>7, <1>8

LEMMA AppendData ==
    ASSUME NEW k \in Nat, NEW s \in Seq(0 .. k), NEW n \in 0 .. k
    PROVE  /\ Append(s, n) \in Seq(0 .. k)
           /\ Append(s, n) # <<>>
           /\ Len(Append(s, n)) = Len(s) + 1
           /\ Data(Append(s, n)) = (Data(s) \cup {n}) \ {0}
           /\ Append(s, n)[Len(s) + 1] = n
<1>1. Len(s) \in Nat /\ DOMAIN s = 1 .. Len(s)
  BY LenProperties
<1>2. /\ DOMAIN Append(s, n) = 1 .. Len(s) + 1
      /\ \A i \in 1 .. Len(s) : Append(s, n)[i] = s[i]
      /\ Append(s, n)[Len(s) + 1] = n
  BY <1>1
<1>3. Data(Append(s, n)) = (Data(s) \cup {n}) \ {0}
  <2>1. \A x : (\E i \in 1 .. Len(s) + 1 : x = Append(s, n)[i])
                  <=> (\E i \in 1 .. Len(s) : x = s[i]) \/ x = n
    BY <1>1, <1>2
  <2>2. QED
    BY <1>1, <1>2, <2>1 DEF Data
<1>4. QED
  BY <1>1, <1>2, <1>3

\* The first frame is older than the rest, which stays in order.
LEMMA RestKeeps ==
    ASSUME NEW k \in Nat, NEW s \in Seq(0 .. k)
    PROVE  /\ Rest(s) \in Seq(0 .. k)
           /\ Len(Rest(s)) <= Len(s)
           /\ Data(First(s)) \subseteq Data(s) /\ Data(Rest(s)) \subseteq Data(s)
           /\ Bounded(s) => Bounded(Rest(s))
           /\ Sorted(s) => Sorted(Rest(s)) /\ Before(Data(First(s)), Data(Rest(s)))
<1>1. Len(s) \in Nat /\ DOMAIN s = 1 .. Len(s) /\ \A i \in 1 .. Len(s) : s[i] \in Nat
  BY LenProperties, ElementOfSeq
<1>0. MaxPs \in Nat /\ MaxPs # 0
  BY PsAssumption
<1>2. CASE s = <<>>
  BY <1>2 DEF Rest, First, Data, Bounded, Sorted, Before
<1>3. CASE s # <<>>
  <2>1. /\ Tail(s) \in Seq(0 .. k) /\ Len(Tail(s)) = Len(s) - 1
        /\ \A i \in 1 .. Len(Tail(s)) : Tail(s)[i] = s[i + 1]
    BY <1>3, HeadTailProperties
  <2>2. Len(s) >= 1
    BY <1>1, <1>3, EmptySeq
  <2>3. DOMAIN Tail(s) = 1 .. Len(s) - 1
    BY <2>1, LenProperties
  <2>4. Rest(s) = Tail(s) /\ First(s) = <<s[1]>>
    BY <1>3 DEF Rest, First
  <2>5. Data(First(s)) = {s[1]} \ {0}
    BY <2>4 DEF Data
  <2>6. Data(Rest(s)) = {s[i + 1] : i \in 1 .. Len(s) - 1} \ {0}
    BY <2>1, <2>3, <2>4 DEF Data
  <2>7. Data(First(s)) \subseteq Data(s) /\ Data(Rest(s)) \subseteq Data(s)
    <3>1. Data(s) = {s[i] : i \in 1 .. Len(s)} \ {0}
      BY <1>1 DEF Data
    <3>2. \A i \in 1 .. Len(s) - 1 : i + 1 \in 1 .. Len(s)
      BY <1>1
    <3>3. 1 \in 1 .. Len(s)
      BY <1>1, <2>2
    <3>4. QED
      BY <2>5, <2>6, <3>1, <3>2, <3>3
  <2>8. Bounded(s) => Bounded(Rest(s))
    <3>1. Len(Rest(s)) = Len(s) - 1
      BY <2>1, <2>4
    <3>2. Bounded(s) => Len(Rest(s)) <= MaxPs
      <4>1. Bounded(s) => Len(s) <= MaxPs \/ Len(s) = MaxPs + 1
        BY DEF Bounded
      <4>2. Len(s) \in Nat /\ MaxPs \in Nat
        BY <1>1, <1>0
      <4>3. QED
        BY <3>1, <4>1, <4>2
    <3>3. QED
      BY <3>2 DEF Bounded
  <2>9. Sorted(s) => Sorted(Rest(s))
    BY <1>1, <2>1, <2>3, <2>4 DEF Sorted
  <2>10. Sorted(s) => Before(Data(First(s)), Data(Rest(s)))
    BY <1>1, <2>2, <2>5, <2>6 DEF Sorted, Before
  <2>11. QED
    BY <1>1, <2>1, <2>4, <2>7, <2>8, <2>9, <2>10
<1>4. QED
  BY <1>2, <1>3

LEMMA NothingKeeps ==
    /\ Data(<<>>) = {} /\ Sorted(<<>>) /\ Bounded(<<>>)
    /\ \A S : <<>> \in Seq(S) /\ Before(S, {})
BY PsAssumption DEF Data, Sorted, Bounded, Before

\* What has been sent grows.
LEMMA Wider ==
    ASSUME NEW k \in Nat, NEW m \in Nat, k <= m
    PROVE  /\ \A s \in Seq(0 .. k) : s \in Seq(0 .. m)
           /\ \A P \in SUBSET (1 .. k) : P \in SUBSET (1 .. m)
<1>1. \A s \in Seq(0 .. k) : s \in Seq(0 .. m)
  <2>1. SUFFICES ASSUME NEW s \in Seq(0 .. k)
                 PROVE  s \in Seq(0 .. m)
    OBVIOUS
  <2>2. Len(s) \in Nat /\ s \in [1 .. Len(s) -> 0 .. k]
    BY LenProperties
  <2>3. s \in [1 .. Len(s) -> 0 .. m]
    BY <2>2
  <2>4. QED
    BY <2>2, <2>3, SeqDef
<1>2. QED
  BY <1>1

\* A step that leaves q in one station's queue, after which P has been passed
\* on, and the queues of the others as they are.
QueueStep(w, q, P) ==
    /\ next' \in Nat /\ next <= next'
    /\ psq' = [psq EXCEPT ![w] = q] /\ passed' = [passed EXCEPT ![w] = P]
    /\ q \in Seq(0 .. next') /\ P \in SUBSET (1 .. next')
    /\ Bounded(q)
    /\ w \notin stale' => /\ Sorted(q) /\ Before(P, Data(q))
                          /\ Data(q) # {} => mode'[w] = "SAVE"
    /\ sst'[w] = "NONE" => Data(q) = {}
    /\ \A v \in Stations : v # w => /\ mode'[v] = mode[v] /\ sst'[v] = sst[v]
                                    /\ v \in stale' <=> v \in stale

LEMMA OneQueue ==
    ASSUME Types, Queues, NEW w \in Stations, NEW q, NEW P, QueueStep(w, q, P)
    PROVE  Queues'
<1>1. next \in Nat
  BY PsAssumption DEF Types
<1>2. \A v \in Stations : psq[v] \in Seq(0 .. next') /\ passed[v] \in SUBSET (1 .. next')
  BY <1>1, Wider DEF Queues, QueueStep
<1>3. psq' \in [Stations -> Seq(0 .. next')] /\ passed' \in [Stations -> SUBSET (1 .. next')]
  BY <1>2 DEF Queues, QueueStep
<1>4. Bounded(psq'[w]) /\ Ordered(w)' /\ Empty(w)'
  <2>1. psq'[w] = q /\ passed'[w] = P
    BY DEF Queues, QueueStep
  <2>2. QED
    BY <2>1 DEF Ordered, Empty, Present, QueueStep
<1>5. ASSUME NEW v \in Stations, v # w
      PROVE  Bounded(psq'[v]) /\ Ordered(v)' /\ Empty(v)'
  <2>1. psq'[v] = psq[v] /\ passed'[v] = passed[v]
    BY <1>5 DEF Queues, QueueStep
  <2>2. QED
    BY <1>5, <2>1 DEF Queues, Ordered, Empty, Present, QueueStep
<1>6. QED
  BY <1>3, <1>4, <1>5 DEF Queues

LEMMA DataRange ==
    ASSUME NEW k \in Nat, NEW s \in Seq(0 .. k)
    PROVE  Data(s) \in SUBSET (1 .. k)
<1>1. \A i \in DOMAIN s : s[i] \in 0 .. k
  BY LenProperties, ElementOfSeq
<1>2. QED
  BY <1>1 DEF Data

LEMMA InitHolds == Init => IInv
<1>1. SUFFICES ASSUME Init
               PROVE  IInv
  OBVIOUS
<1>2. Types
  <2>1. MaxMcast \in Nat /\ MaxFrames \in Nat
    BY PsAssumption
  <2>2. Idle \in [pc : {"idle", "bound", "insert", "announce", "store"},
                  sta : Stations \cup {Group}, byte : SUBSET (Stations \cup {Group})]
    BY DEF Idle
  <2>3. job \in [pc : {"idle", "bound", "insert", "announce", "store"},
                 sta : Stations \cup {Group}, byte : SUBSET (Stations \cup {Group})]
    BY <1>1, <2>2 DEF Init
  <2>4. tim \subseteq Stations \cup {Group} /\ stale \subseteq Stations
    BY <1>1 DEF Init
  <2>5. /\ sst \in [Stations -> {"NONE", "AUTH", "ASSOC"}]
        /\ mode \in [Stations -> {"ACTIVE", "SAVE"}]
        /\ idle \in [Stations -> 0 .. 2]
    BY <1>1 DEF Init
  <2>6. rmw \in Rmw /\ next \in 0 .. MaxFrames /\ mcast \in 0 .. MaxMcast
    BY <1>1, <2>1 DEF Init
  <2>7. mcastIdle \in 0 .. 1
    BY <1>1 DEF Init
  <2>8. anyPsm \in BOOLEAN
    BY <1>1, Zenon DEF Init
  <2>9. QED
    BY <2>3, <2>4, <2>5, <2>6, <2>7, <2>8 DEF Types
<1>3. psq \in [Stations -> Seq(0 .. next)] /\ passed \in [Stations -> SUBSET (1 .. next)]
  BY <1>1, NothingKeeps DEF Init
<1>4. \A w \in Stations : Bounded(psq[w]) /\ Ordered(w) /\ Empty(w)
  BY <1>1, NothingKeeps DEF Init, Ordered, Empty
<1>5. Queues
  BY <1>3, <1>4 DEF Queues
<1>6. Thread
  BY <1>1 DEF Init, Idle, Thread
<1>7. Marked
  BY <1>1 DEF Init, Marked
<1>8. QED
  BY <1>2, <1>5, <1>6, <1>7 DEF IInv

\* A step that leaves queues, power modes and slots alone.
LEMMA QueuesKept ==
    ASSUME Queues, UNCHANGED <<staVars, next>>
    PROVE  Queues'
BY DEF Queues, Ordered, Empty, Present, staVars

LEMMA SendPacketKeeps ==
    ASSUME IInv, NEW w \in Stations, SendPacket(w)
    PROVE  IInv'
<1>1. /\ Types /\ Queues /\ Thread /\ Marked
      /\ next \in Nat /\ next' = next + 1 /\ next' \in 0 .. MaxFrames
      /\ psq[w] \in Seq(0 .. next) /\ passed[w] \in SUBSET (1 .. next)
      /\ Data(psq[w]) \in SUBSET (1 .. next)
  <2>1. /\ Types /\ Queues /\ Thread /\ Marked
        /\ next \in Nat /\ next' = next + 1 /\ next' \in 0 .. MaxFrames
    BY PsAssumption DEF IInv, Types, SendPacket
  <2>2. psq[w] \in Seq(0 .. next) /\ passed[w] \in SUBSET (1 .. next)
    BY <2>1 DEF Queues
  <2>3. QED
    BY <2>1, <2>2, DataRange
<1>2. psq[w] \in Seq(0 .. next') /\ passed[w] \in SUBSET (1 .. next')
  BY <1>1, Wider
<1>3. UNCHANGED <<sst, mode, idle, stale, mcast, mcastIdle, anyPsm, job, rmw>>
  BY DEF SendPacket, groupVars
<1>4. sst[w] = "ASSOC"
  BY DEF SendPacket
<1>5. CASE mode[w] = "SAVE" /\ Len(psq[w]) >= MaxPs
  <2>1. UNCHANGED <<psq, tim, passed>>
    BY <1>5 DEF SendPacket, InsertPsQueue
  <2>2. Types'
    BY <1>1, <1>3, <2>1 DEF Types
  <2>3. Queues'
    BY <1>1, <1>3, <2>1, Wider DEF Queues, Ordered, Empty, Present
  <2>4. QED
    BY <1>1, <1>3, <2>1, <2>2, <2>3 DEF IInv, Thread, Marked
<1>6. CASE mode[w] = "SAVE" /\ ~(Len(psq[w]) >= MaxPs)
  <2> DEFINE q == Append(psq[w], next')
  <2>1. psq' = [psq EXCEPT ![w] = q] /\ tim' = tim \cup {w} /\ passed' = passed
    BY <1>6 DEF SendPacket, InsertPsQueue
  <2>2. /\ q \in Seq(0 .. next') /\ q # <<>> /\ Len(q) = Len(psq[w]) + 1
        /\ Data(q) = (Data(psq[w]) \cup {next'}) \ {0}
    BY <1>1, <1>2, AppendData
  <2>3. Bounded(q)
    <3>1. Len(psq[w]) \in Nat /\ MaxPs \in Nat
      BY <1>1, LenProperties, PsAssumption
    <3>2. QED
      BY <1>6, <2>2, <3>1 DEF Bounded
  <2>4. w \notin stale => Sorted(q) /\ Before(passed[w], Data(q))
    <3>2. SUFFICES ASSUME w \notin stale
                   PROVE  Sorted(q) /\ Before(passed[w], Data(q))
      OBVIOUS
    <3>3. Sorted(psq[w]) /\ Before(passed[w], Data(psq[w]))
      BY <1>1, <3>2 DEF Queues, Ordered
    <3>4. \A m \in Data(psq[w]) : m < next'
      BY <1>1
    <3>5. Sorted(q)
      BY <1>1, <1>2, <3>3, <3>4, AppendKeeps
    <3>6. Before(passed[w], Data(q))
      BY <1>1, <2>2, <3>3 DEF Before
    <3>7. QED
      BY <3>5, <3>6
  <2>6. Queues'
    <3>1. passed' = [passed EXCEPT ![w] = passed[w]]
      BY <1>1, <2>1 DEF Queues
    <3>2. \A v \in Stations : /\ mode'[v] = mode[v] /\ sst'[v] = sst[v]
                              /\ v \in stale' <=> v \in stale
      BY <1>3
    <3>3. QueueStep(w, q, passed[w])
      <4> HIDE DEF q
      <4>1. Data(q) # {} => mode'[w] = "SAVE"
        BY <1>3, <1>6
      <4>2. w \notin stale' => Sorted(q) /\ Before(passed[w], Data(q))
        BY <1>3, <2>4
      <4>3. sst'[w] # "NONE"
        BY <1>3, <1>4
      <4>4. next' \in Nat /\ next <= next'
        BY <1>1
      <4>5. QED
        BY <1>2, <2>1, <2>2, <2>3, <3>1, <3>2, <4>1, <4>2, <4>3, <4>4 DEF QueueStep
    <3>4. QED
      BY <1>1, <3>3, OneQueue
  <2>7. Types'
    BY <1>1, <1>3, <2>1 DEF Types
  <2>8. Thread'
    <3>1. job.pc = "insert" => job.sta \in Stations /\ Len(psq'[job.sta]) <= MaxPs
      <4>1. SUFFICES ASSUME job.pc = "insert"
                     PROVE  job.sta \in Stations /\ Len(psq'[job.sta]) <= MaxPs
        OBVIOUS
      <4>2. job.sta \in Stations /\ Len(psq[job.sta]) <= MaxPs
        BY <1>1, <4>1 DEF Thread
      <4>3. CASE job.sta = w
        <5>1. psq'[w] = q /\ Len(psq[w]) \in Nat /\ MaxPs \in Nat
          BY <1>1, <2>1, LenProperties, PsAssumption DEF Queues
        <5>2. QED
          BY <1>6, <2>2, <4>2, <4>3, <5>1
      <4>4. CASE job.sta # w
        BY <1>1, <2>1, <4>2, <4>4 DEF Queues
      <4>5. QED
        BY <4>3, <4>4
    <3>2. QED
      BY <1>1, <1>3, <3>1 DEF Thread
  <2>9. Marked'
    BY <1>1, <1>3, <2>1 DEF Marked, Queues
  <2>10. QED
    BY <2>6, <2>7, <2>8, <2>9 DEF IInv
<1>7. CASE mode[w] # "SAVE"
  <2>1. /\ UNCHANGED <<psq, tim>>
        /\ passed' = [passed EXCEPT ![w] = @ \cup Data(<<next'>>)]
    BY <1>7 DEF SendPacket, Pass
  <2>2. Data(<<next'>>) = {next'}
    BY <1>1 DEF Data
  <2>3. passed[w] \cup {next'} \in SUBSET (1 .. next')
    BY <1>1, <1>2
  <2>4. w \notin stale => Sorted(psq[w]) /\ Data(psq[w]) = {}
    BY <1>1, <1>7 DEF Queues, Ordered
  <2>5. w \notin stale => Before(passed[w] \cup {next'}, Data(psq[w]))
    BY <2>4 DEF Before
  <2>6. Queues'
    <3>1. psq' = [psq EXCEPT ![w] = psq[w]] /\ Bounded(psq[w])
      BY <1>1, <2>1 DEF Queues
    <3>2. \A v \in Stations : /\ mode'[v] = mode[v] /\ sst'[v] = sst[v]
                              /\ v \in stale' <=> v \in stale
      BY <1>3
    <3>3. passed' = [passed EXCEPT ![w] = passed[w] \cup {next'}]
      BY <1>1, <2>1, <2>2 DEF Queues
    <3>4. QueueStep(w, psq[w], passed[w] \cup {next'})
      BY <1>1, <1>2, <1>3, <1>4, <2>3, <2>4, <2>5, <3>1, <3>2, <3>3 DEF QueueStep
    <3>5. QED
      BY <1>1, <3>4, OneQueue
  <2>7. Types'
    BY <1>1, <1>3, <2>1 DEF Types
  <2>8. QED
    BY <1>1, <1>3, <2>1, <2>6, <2>7 DEF IInv, Thread, Marked
<1>8. QED
  BY <1>5, <1>6, <1>7

\* Queues that do not grow leave the thread its room.
LEMMA ThreadKept ==
    ASSUME IInv, Queues', UNCHANGED <<job, rmw>>,
           \A v \in Stations : psq'[v] # psq[v] => Len(psq'[v]) <= Len(psq[v])
    PROVE  Thread'
<1>1. /\ Types /\ Queues /\ Thread
      /\ \A v \in Stations : Len(psq[v]) \in Nat /\ Len(psq'[v]) \in Nat
      /\ MaxPs \in Nat
  BY LenProperties, PsAssumption DEF IInv, Queues
<1>2. QED
  BY <1>1 DEF Thread

LEMMA PsPollKeeps ==
    ASSUME IInv, NEW w \in Stations, PsPoll(w)
    PROVE  IInv'
<1> DEFINE q == Rest(psq[w])
           P == passed[w] \cup Data(First(psq[w]))
<1>1. /\ Types /\ Queues /\ Thread /\ Marked /\ next \in Nat
      /\ psq[w] \in Seq(0 .. next) /\ passed[w] \in SUBSET (1 .. next)
      /\ Bounded(psq[w]) /\ Ordered(w) /\ Empty(w)
  BY PsAssumption DEF IInv, Types, Queues
<1>2. Data(psq[w]) \in SUBSET (1 .. next)
  BY <1>1, DataRange
<1>3. /\ q \in Seq(0 .. next) /\ Len(q) <= Len(psq[w]) /\ Bounded(q)
      /\ Data(First(psq[w])) \subseteq Data(psq[w]) /\ Data(q) \subseteq Data(psq[w])
      /\ Sorted(psq[w]) => Sorted(q) /\ Before(Data(First(psq[w])), Data(q))
  BY <1>1, RestKeeps
<1>4. /\ UNCHANGED <<sst, mode, mcast, mcastIdle, anyPsm, job, rmw, next>>
      /\ psq' = [psq EXCEPT ![w] = q] /\ passed' = [passed EXCEPT ![w] = P]
      /\ sst[w] # "NONE"
      /\ stale' = IF q = <<>> THEN stale \ {w} ELSE stale
  BY <1>1 DEF PsPoll, Pass, Present, groupVars
<1>5. \/ q = <<>> /\ tim' = tim \ {w} /\ idle' = [idle EXCEPT ![w] = 0]
      \/ q # <<>> /\ UNCHANGED <<tim, idle>>
  BY DEF PsPoll, ClearIfEmpty
<1>6. P \in SUBSET (1 .. next)
  BY <1>1, <1>2, <1>3
<1>7. w \notin stale' => /\ Sorted(q) /\ Before(P, Data(q))
                         /\ Data(q) # {} => mode'[w] = "SAVE"
  <2>1. CASE q = <<>>
    <3>1. Data(q) = {} /\ Sorted(q)
      BY <2>1, NothingKeeps
    <3>2. QED
      BY <3>1 DEF Before
  <2>2. CASE q # <<>>
    <3>1. SUFFICES ASSUME w \notin stale
                   PROVE  /\ Sorted(q) /\ Before(P, Data(q))
                          /\ Data(q) # {} => mode[w] = "SAVE"
      BY <1>4, <2>2
    <3>2. /\ Sorted(psq[w]) /\ Before(passed[w], Data(psq[w]))
          /\ Data(psq[w]) # {} => mode[w] = "SAVE"
      BY <1>1, <3>1 DEF Ordered
    <3>3. Before(passed[w], Data(q)) /\ Before(Data(First(psq[w])), Data(q))
      BY <1>3, <3>2 DEF Before
    <3>4. QED
      BY <1>3, <3>2, <3>3 DEF Before
  <2>3. QED
    BY <2>1, <2>2
<1> HIDE DEF q, P
<1>8. Queues'
  <2>1. \A v \in Stations : v # w => /\ mode'[v] = mode[v] /\ sst'[v] = sst[v]
                                     /\ v \in stale' <=> v \in stale
    BY <1>4
  <2>2. next' \in Nat /\ next <= next' /\ sst'[w] # "NONE" /\ next' = next
    BY <1>1, <1>4
  <2>3. QueueStep(w, q, P)
    BY <1>3, <1>4, <1>6, <1>7, <2>1, <2>2 DEF QueueStep
  <2>4. QED
    BY <1>1, <2>3, OneQueue
<1>9. Types'
  BY <1>1, <1>4, <1>5 DEF Types
<1>10. psq'[w] = q /\ \A v \in Stations : v # w => psq'[v] = psq[v]
  BY <1>1, <1>4 DEF Queues
<1>11. Thread'
  BY <1>3, <1>4, <1>8, <1>10, ThreadKept
<1>12. Marked'
  <2>1. CASE q = <<>>
    BY <1>1, <1>4, <1>5, <1>10, <2>1, PsAssumption DEF Marked
  <2>2. CASE q # <<>>
    <3>1. psq[w] # <<>>
      BY <2>2 DEF q, Rest
    <3>2. QED
      BY <1>1, <1>4, <1>5, <1>10, <2>2, <3>1 DEF Marked
  <2>3. QED
    BY <2>1, <2>2
<1>13. QED
  BY <1>8, <1>9, <1>11, <1>12 DEF IInv

\* A step that empties one queue.
LEMMA EmptyStep ==
    ASSUME Types, NEW w \in Stations, NEW P, P \in SUBSET (1 .. next), next' = next,
           psq' = [psq EXCEPT ![w] = <<>>], passed' = [passed EXCEPT ![w] = P],
           \A v \in Stations : v # w => /\ mode'[v] = mode[v] /\ sst'[v] = sst[v]
                                        /\ v \in stale' <=> v \in stale
    PROVE  QueueStep(w, <<>>, P)
<1>1. next \in Nat
  BY PsAssumption DEF Types
<1>2. /\ <<>> \in Seq(0 .. next') /\ Data(<<>>) = {}
      /\ Sorted(<<>>) /\ Bounded(<<>>) /\ Before(P, {})
  BY NothingKeeps
<1>3. next' \in Nat /\ next <= next' /\ P \in SUBSET (1 .. next')
  BY <1>1
<1>4. QED
  BY <1>2, <1>3 DEF QueueStep

LEMMA PsIndicateKeeps ==
    ASSUME IInv, NEW w \in Stations, NEW psm \in {"ACTIVE", "SAVE"}, PsIndicate(w, psm)
    PROVE  IInv'
<1>1. /\ Types /\ Queues /\ Thread /\ Marked /\ next \in Nat
      /\ psq[w] \in Seq(0 .. next) /\ passed[w] \in SUBSET (1 .. next)
      /\ Bounded(psq[w]) /\ Ordered(w) /\ Empty(w)
  BY PsAssumption DEF IInv, Types, Queues
<1>2. /\ UNCHANGED <<sst, mcast, mcastIdle, anyPsm, job, rmw, next>>
      /\ mode' = [mode EXCEPT ![w] = psm] /\ sst[w] # "NONE"
      /\ mode[w] \in {"ACTIVE", "SAVE"}
      /\ mode'[w] = psm /\ \A v \in Stations : v # w => mode'[v] = mode[v]
  BY <1>1 DEF PsIndicate, Present, groupVars, Types
<1>3. CASE mode[w] = "SAVE" /\ psm = "ACTIVE"
  <2> DEFINE P == passed[w] \cup Data(psq[w])
  <2>1. /\ psq' = [psq EXCEPT ![w] = <<>>] /\ passed' = [passed EXCEPT ![w] = P]
        /\ tim' = tim \ {w} /\ idle' = [idle EXCEPT ![w] = 0]
        /\ stale' = stale \ {w}
    BY <1>1, <1>3 DEF PsIndicate, Pass, ClearIfEmpty
  <2>2. P \in SUBSET (1 .. next)
    BY <1>1, DataRange
  <2> HIDE DEF P
  <2>3. QueueStep(w, <<>>, P)
    BY <1>1, <1>2, <2>1, <2>2, EmptyStep
  <2>4. Queues'
    BY <1>1, <2>3, OneQueue
  <2>5. Types'
    BY <1>1, <1>2, <2>1 DEF Types
  <2>6. psq'[w] = <<>> /\ \A v \in Stations : v # w => psq'[v] = psq[v]
    BY <1>1, <2>1 DEF Queues
  <2>7. Thread'
    <3>1. Len(psq[w]) \in Nat /\ Len(psq'[w]) = 0
      BY <1>1, <2>6, LenProperties
    <3>2. QED
      BY <1>2, <2>4, <2>6, <3>1, ThreadKept
  <2>8. Marked'
    BY <1>1, <1>2, <2>1, <2>6, PsAssumption DEF Marked
  <2>9. QED
    BY <2>4, <2>5, <2>7, <2>8 DEF IInv
<1>4. CASE ~(mode[w] = "SAVE" /\ psm = "ACTIVE")
  <2>1. UNCHANGED <<psq, tim, idle, passed, stale>>
    BY <1>4 DEF PsIndicate
  <2>2. Queues'
    BY <1>1, <1>2, <1>4, <2>1 DEF Queues, Ordered, Empty, Present
  <2>3. Types'
    BY <1>1, <1>2, <2>1 DEF Types
  <2>4. QED
    BY <1>1, <1>2, <2>1, <2>2, <2>3 DEF IInv, Thread, Marked
<1>5. QED
  BY <1>3, <1>4

LEMMA InsertKeeps ==
    ASSUME IInv, NEW w \in Stations, Insert(w)
    PROVE  IInv'
<1>1. /\ Types /\ Queues /\ Thread /\ Marked /\ next \in Nat /\ psq[w] \in Seq(0 .. next)
  BY PsAssumption DEF IInv, Types, Queues
<1>2. /\ UNCHANGED <<tim, stale, mcast, mcastIdle, anyPsm, job, rmw, next>>
      /\ sst' = [sst EXCEPT ![w] = "AUTH"] /\ mode' = [mode EXCEPT ![w] = "ACTIVE"]
      /\ psq' = [psq EXCEPT ![w] = <<>>] /\ passed' = [passed EXCEPT ![w] = {}]
      /\ idle' = [idle EXCEPT ![w] = 0]
  BY DEF Insert, groupVars
<1>3. \A v \in Stations : v # w => /\ mode'[v] = mode[v] /\ sst'[v] = sst[v]
                                   /\ v \in stale' <=> v \in stale
  BY <1>1, <1>2 DEF Types
<1>4. QueueStep(w, <<>>, {})
  BY <1>1, <1>2, <1>3, EmptyStep
<1>5. Queues'
  BY <1>1, <1>4, OneQueue
<1>6. Types'
  BY <1>1, <1>2 DEF Types
<1>7. psq'[w] = <<>> /\ \A v \in Stations : v # w => psq'[v] = psq[v]
  BY <1>1, <1>2 DEF Queues
<1>8. Thread'
  <2>1. Len(psq[w]) \in Nat /\ Len(psq'[w]) = 0
    BY <1>1, <1>7, LenProperties
  <2>2. QED
    BY <1>2, <1>5, <1>7, <2>1, ThreadKept
<1>9. Marked'
  BY <1>1, <1>2, <1>7 DEF Marked
<1>10. QED
  BY <1>5, <1>6, <1>8, <1>9 DEF IInv

LEMMA AuthenticateKeeps ==
    ASSUME IInv, NEW w \in Stations, Authenticate(w)
    PROVE  IInv'
<1>1. /\ Types /\ Queues /\ Thread /\ Marked
  BY DEF IInv
<1>2. /\ UNCHANGED <<mode, psq, idle, passed, stale, tim, mcast, mcastIdle, anyPsm, job, rmw, next>>
      /\ sst' = [sst EXCEPT ![w] = "AUTH"] /\ sst[w] # "NONE"
  BY DEF Authenticate, groupVars, Present
<1>3. Types'
  BY <1>1, <1>2 DEF Types
<1>4. \A v \in Stations : sst'[v] # "NONE" <=> sst[v] # "NONE"
  BY <1>1, <1>2 DEF Types
<1>5. Queues'
  BY <1>1, <1>2, <1>4 DEF Queues, Bounded, Ordered, Empty, Present
<1>6. Thread' /\ Marked'
  BY <1>1, <1>2, <1>4 DEF Thread, Marked
<1>7. QED
  BY <1>3, <1>5, <1>6 DEF IInv

LEMMA AssociateKeeps ==
    ASSUME IInv, NEW w \in Stations, Associate(w)
    PROVE  IInv'
<1>1. /\ Types /\ Queues /\ Thread /\ Marked
      /\ psq \in [Stations -> Seq(0 .. next)] /\ Bounded(psq[w])
  BY DEF IInv, Queues
<1>2. /\ UNCHANGED <<psq, idle, passed, tim, mcast, mcastIdle, anyPsm, job, rmw, next>>
      /\ sst' = [sst EXCEPT ![w] = "ASSOC"] /\ mode' = [mode EXCEPT ![w] = "ACTIVE"]
      /\ stale' = IF psq[w] = <<>> THEN stale ELSE stale \cup {w}
      /\ sst[w] # "NONE"
  BY DEF Associate, groupVars, Present
<1>3. \A v \in Stations : v # w => /\ mode'[v] = mode[v] /\ sst'[v] = sst[v]
                                   /\ v \in stale' <=> v \in stale
  BY <1>1, <1>2 DEF Types
<1>4. sst'[w] = "ASSOC"
  BY <1>1, <1>2 DEF Types
<1>5. Ordered(w)' /\ Empty(w)'
  <2>1. CASE psq[w] = <<>>
    BY <1>2, <2>1, NothingKeeps DEF Ordered, Empty
  <2>2. CASE psq[w] # <<>>
    BY <1>2, <1>4, <2>2 DEF Ordered, Empty, Present
  <2>3. QED
    BY <2>1, <2>2
<1>6. Queues'
  <2>1. \A v \in Stations : v # w => Bounded(psq'[v]) /\ Ordered(v)' /\ Empty(v)'
    BY <1>1, <1>2, <1>3 DEF Queues, Ordered, Empty, Present
  <2>2. QED
    BY <1>1, <1>2, <1>5, <2>1 DEF Queues
<1>7. Types'
  BY <1>1, <1>2 DEF Types
<1>8. QED
  BY <1>1, <1>2, <1>6, <1>7 DEF IInv, Thread, Marked

LEMMA DeleteKeeps ==
    ASSUME IInv, NEW w \in Stations, Delete(w)
    PROVE  IInv'
<1>1. /\ Types /\ Queues /\ Thread /\ Marked /\ next \in Nat
      /\ psq[w] \in Seq(0 .. next) /\ passed[w] \in SUBSET (1 .. next)
  BY PsAssumption DEF IInv, Types, Queues
<1>2. /\ UNCHANGED <<mode, idle, passed, tim, mcast, mcastIdle, anyPsm, job, rmw, next>>
      /\ sst' = [sst EXCEPT ![w] = "NONE"] /\ psq' = [psq EXCEPT ![w] = <<>>]
      /\ stale' = stale \ {w}
      /\ passed' = [passed EXCEPT ![w] = passed[w]]
  BY <1>1 DEF Delete, groupVars, Queues
<1>3. \A v \in Stations : v # w => /\ mode'[v] = mode[v] /\ sst'[v] = sst[v]
                                   /\ v \in stale' <=> v \in stale
  BY <1>1, <1>2 DEF Types
<1>4. QueueStep(w, <<>>, passed[w])
  BY <1>1, <1>2, <1>3, EmptyStep
<1>5. Queues'
  BY <1>1, <1>4, OneQueue
<1>6. Types'
  BY <1>1, <1>2 DEF Types
<1>7. psq'[w] = <<>> /\ \A v \in Stations : v # w => psq'[v] = psq[v]
  BY <1>1, <1>2 DEF Queues
<1>8. Thread'
  <2>1. Len(psq[w]) \in Nat /\ Len(psq'[w]) = 0
    BY <1>1, <1>7, LenProperties
  <2>2. QED
    BY <1>2, <1>5, <1>7, <2>1, ThreadKept
<1>9. Marked'
  BY <1>1, <1>2, <1>7 DEF Marked
<1>10. QED
  BY <1>5, <1>6, <1>8, <1>9 DEF IInv

LEMMA GroupKeeps ==
    ASSUME IInv, SendGroup \/ Dtim
    PROVE  IInv'
<1>1. Types /\ Queues /\ Thread /\ Marked /\ MaxMcast \in Nat /\ mcast \in Nat
  BY PsAssumption DEF IInv, Types
<1>2. /\ UNCHANGED <<sst, mode, psq, idle, passed, stale, anyPsm, job, rmw, next>>
      /\ mcast' \in 0 .. MaxMcast /\ mcastIdle' \in 0 .. 1
      /\ tim' \subseteq Stations \cup {Group} /\ tim \ {Group} \subseteq tim'
      /\ mcast' > 0 => Group \in tim' \/ (mcast > 0 /\ tim' = tim)
  <2>1. CASE SendGroup
    BY <1>1, <2>1 DEF SendGroup, staVars, Types
  <2>2. CASE Dtim
    <3>1. PICK left \in 0 .. mcast :
             mcast' = left /\ tim' = IF left = 0 THEN tim \ {Group} ELSE tim
      BY <2>2 DEF Dtim
    <3>2. mcast \in 0 .. MaxMcast /\ tim \subseteq Stations \cup {Group}
      BY <1>1 DEF Types
    <3>3. mcast' \in 0 .. MaxMcast /\ (mcast' > 0 => mcast > 0 /\ tim' = tim)
      BY <1>1, <3>1, <3>2
    <3>4. QED
      BY <2>2, <3>1, <3>2, <3>3 DEF Dtim, staVars
  <2>3. QED
    BY <2>1, <2>2
<1>3. Queues'
  BY <1>1, <1>2, QueuesKept DEF staVars
<1>4. Types'
  BY <1>1, <1>2 DEF Types
<1>5. Marked'
  BY <1>1, <1>2, PsAssumption DEF Marked
<1>6. QED
  BY <1>1, <1>2, <1>3, <1>4, <1>5 DEF IInv, Thread

LEMMA MaintenanceKeeps ==
    ASSUME IInv, Maintenance
    PROVE  IInv'
<1>1. Types /\ Queues /\ Thread /\ Marked
  BY DEF IInv
<1>2. /\ UNCHANGED <<sst, mode, job, rmw, next, passed>>
      /\ psq' = [w \in Stations |-> IF w \in Collect THEN <<>> ELSE psq[w]]
      /\ idle' = [w \in Stations |-> IdleCount(w)]
      /\ stale' = stale \ Collect
  BY DEF Maintenance
<1>3. \A w \in Stations : psq'[w] = psq[w] \/ (psq'[w] = <<>> /\ w \in Collect)
  BY <1>2
<1>4. Queues'
  <2>1. psq' \in [Stations -> Seq(0 .. next')] /\ passed' \in [Stations -> SUBSET (1 .. next')]
    BY <1>1, <1>2, NothingKeeps DEF Queues
  <2>2. ASSUME NEW w \in Stations
        PROVE  Bounded(psq'[w]) /\ Ordered(w)' /\ Empty(w)'
    <3>1. CASE psq'[w] = <<>>
      BY <3>1, NothingKeeps DEF Ordered, Empty
    <3>2. CASE w \notin Collect
      BY <1>1, <1>2, <3>2 DEF Queues, Ordered, Empty, Present
    <3>3. QED
      BY <1>2, <3>1, <3>2
  <2>3. QED
    BY <2>1, <2>2 DEF Queues
<1>5. PICK keep \in SUBSET {w \in Stations : Present(w) /\ mode[w] = "SAVE"} :
         tim' = ((tim \cup keep) \ Collect)
                \ (IF mcast > 0 /\ mcastIdle >= 1 THEN {Group} ELSE {})
  BY DEF Maintenance
<1>6. Types'
  <2>1. \A w \in Stations : IdleCount(w) \in 0 .. 2
    <3>1. SUFFICES ASSUME NEW w \in Stations
                   PROVE  IdleCount(w) \in 0 .. 2
      OBVIOUS
    <3>2. idle[w] \in 0 .. 2
      BY <1>1 DEF Types
    <3>3. QED
      BY <3>2 DEF IdleCount, Collect
  <2>2. tim' \subseteq Stations \cup {Group} /\ stale' \subseteq Stations
    BY <1>1, <1>2, <1>5 DEF Types
  <2>3. mcast' \in 0 .. MaxMcast /\ mcastIdle' \in 0 .. 1
    <3>1. MaxMcast \in Nat /\ mcast \in 0 .. MaxMcast /\ mcastIdle \in 0 .. 1
      BY <1>1, PsAssumption DEF Types
    <3>2. /\ mcast' = IF mcastIdle >= 1 THEN 0 ELSE mcast
          /\ mcastIdle' = IF mcast = 0 \/ mcastIdle >= 1 THEN 0 ELSE mcastIdle + 1
      BY DEF Maintenance
    <3>3. QED
      BY <3>1, <3>2
  <2>4. anyPsm' \in BOOLEAN
    BY Zenon DEF Maintenance
  <2>5. QED
    BY <1>1, <1>2, <2>1, <2>2, <2>3, <2>4 DEF Types
<1>7. Thread'
  <2>1. \A w \in Stations : psq'[w] # psq[w] => Len(psq'[w]) <= Len(psq[w])
    <3>1. \A w \in Stations : Len(psq[w]) \in Nat
      BY <1>1, LenProperties DEF Queues
    <3>2. QED
      BY <1>3, <3>1
  <2>2. QED
    BY <1>2, <1>4, <2>1, ThreadKept
<1>8. Marked'
  <2>1. SUFFICES ASSUME rmw = "whole"
                 PROVE  /\ \A w \in Stations :
                              psq'[w] # <<>> =>
                                 w \in tim' \/ (job.sta = w /\ job.pc = "announce")
                        /\ mcast' > 0 => Group \in tim'
    BY <1>2 DEF Marked
  <2>2. ASSUME NEW w \in Stations, psq'[w] # <<>>
        PROVE  w \in tim' \/ (job.sta = w /\ job.pc = "announce")
    <3>1. psq[w] # <<>> /\ w \notin Collect /\ w # Group
      BY <1>2, <2>2, PsAssumption
    <3>2. QED
      BY <1>1, <1>5, <2>1, <3>1 DEF Marked
  <2>3. ASSUME mcast' > 0
        PROVE  Group \in tim'
    <3>1. mcast > 0 /\ ~(mcastIdle >= 1)
      BY <2>3 DEF Maintenance
    <3>2. Group \notin Collect
      BY PsAssumption DEF Collect
    <3>3. QED
      BY <1>1, <1>5, <2>1, <3>1, <3>2 DEF Marked
  <2>4. QED
    BY <2>2, <2>3
<1>9. QED
  BY <1>4, <1>6, <1>7, <1>8 DEF IInv

\* The thread's steps but the insertion touch its own frame and the TIM.
LEMMA ThreadKeeps ==
    ASSUME IInv,
           \/ \E w \in Stations : HardTransmit(w)
           \/ ActionBound \/ ActionAnnounce \/ ActionStore
    PROVE  IInv'
<1>1. /\ Types /\ Queues /\ Thread /\ Marked /\ job.sta \in Stations \cup {Group}
      /\ MaxPs \in Nat /\ \A v \in Stations : Len(psq[v]) \in Nat
  BY PsAssumption, LenProperties DEF IInv, Types, Queues
<1>2. UNCHANGED <<sst, mode, psq, idle, passed, stale, mcast, mcastIdle, anyPsm, rmw, next>>
  BY DEF HardTransmit, ActionBound, ActionAnnounce, ActionStore, staVars, groupVars
<1>3. Queues'
  BY <1>1, <1>2, QueuesKept DEF staVars
<1>4. CASE \E w \in Stations : HardTransmit(w)
  <2>1. PICK w \in Stations : job = Idle /\ job' = [pc |-> "bound", sta |-> w, byte |-> {}]
                              /\ tim' = tim
    BY <1>4 DEF HardTransmit, Step
  <2>2. QED
    BY <1>1, <1>2, <1>3, <2>1 DEF IInv, Types, Thread, Marked, Idle
<1>5. CASE ActionBound
  <2>1. /\ job.pc = "bound" /\ tim' = tim /\ job.sta \in Stations
        /\ \/ job' = Idle
           \/ /\ job' = [pc |-> "insert", sta |-> job.sta, byte |-> {}]
              /\ ~(Len(psq[job.sta]) >= MaxPs)
    BY <1>1, <1>5 DEF ActionBound, Step, Thread
  <2>2. Types' /\ Marked'
    BY <1>1, <1>2, <2>1 DEF Types, Marked, Idle
  <2>3. Thread'
    BY <1>1, <1>2, <2>1 DEF Thread, Idle
  <2>4. QED
    BY <1>3, <2>2, <2>3 DEF IInv
<1>6. CASE ActionAnnounce
  <2>1. /\ job.pc = "announce" /\ job.sta \in Stations
        /\ \/ rmw = "whole" /\ tim' = tim \cup {job.sta} /\ job' = Idle
           \/ /\ rmw # "whole" /\ tim' = tim
              /\ job' = [pc |-> "store", sta |-> job.sta, byte |-> tim]
    BY <1>1, <1>6 DEF ActionAnnounce, Step, Thread
  <2>2. rmw \in {"whole", "torn"}
    BY <1>1, PsAssumption DEF Types
  <2>3. Types'
    BY <1>1, <1>2, <2>1 DEF Types, Idle
  <2>4. Marked' /\ Thread'
    BY <1>1, <1>2, <2>1, <2>2 DEF Marked, Thread, Idle
  <2>5. QED
    BY <1>3, <2>3, <2>4 DEF IInv
<1>7. CASE ActionStore
  <2>1. /\ job.pc = "store" /\ job.sta \in Stations /\ rmw = "torn"
        /\ job' = Idle /\ tim' = job.byte \cup {job.sta}
        /\ job.byte \subseteq Stations \cup {Group}
    BY <1>1, <1>7 DEF ActionStore, Thread, Types
  <2>2. QED
    BY <1>1, <1>2, <1>3, <2>1 DEF IInv, Types, Thread, Marked, Idle
<1>8. QED
  BY <1>4, <1>5, <1>6, <1>7

LEMMA ActionInsertKeeps ==
    ASSUME IInv, ActionInsert
    PROVE  IInv'
<1>1. SUFFICES ASSUME NEW w \in Stations, w = job.sta, Types, Queues, Thread, Marked,
                      job.pc = "insert"
               PROVE  IInv'
  BY DEF IInv, ActionInsert, Thread
<1> DEFINE q == Append(psq[w], 0)
<1>2. /\ psq[w] \in Seq(0 .. next) /\ passed[w] \in SUBSET (1 .. next) /\ next \in Nat
      /\ Bounded(psq[w]) /\ Ordered(w) /\ Empty(w)
      /\ Len(psq[w]) <= MaxPs /\ Len(psq[w]) \in Nat /\ MaxPs \in Nat
  BY <1>1, PsAssumption, LenProperties DEF Queues, Types, Thread
<1>3. /\ UNCHANGED <<sst, mode, idle, passed, stale, tim, mcast, mcastIdle, anyPsm, rmw, next>>
      /\ job' = [pc |-> "announce", sta |-> w, byte |-> {}]
      /\ psq' = [psq EXCEPT ![w] = q] /\ passed' = [passed EXCEPT ![w] = passed[w]]
  BY <1>1 DEF ActionInsert, Step, groupVars, Queues
<1>4. /\ q \in Seq(0 .. next) /\ q # <<>> /\ Len(q) = Len(psq[w]) + 1
      /\ q[Len(psq[w]) + 1] = 0 /\ Data(q) = Data(psq[w])
  <2>1. 0 \notin Data(psq[w]) /\ 0 \in 0 .. next
    BY <1>2 DEF Data
  <2>2. /\ q \in Seq(0 .. next) /\ q # <<>> /\ Len(q) = Len(psq[w]) + 1
        /\ q[Len(psq[w]) + 1] = 0 /\ Data(q) = (Data(psq[w]) \cup {0}) \ {0}
    BY <1>2, <2>1, AppendData
  <2>3. QED
    BY <2>1, <2>2
<1>5. Sorted(psq[w]) => Sorted(q)
  BY <1>2, AppendKeeps
<1> HIDE DEF q
<1>6. Bounded(q)
  BY <1>2, <1>4 DEF Bounded
<1>7. w \notin stale' => /\ Sorted(q) /\ Before(passed[w], Data(q))
                         /\ Data(q) # {} => mode'[w] = "SAVE"
  BY <1>2, <1>3, <1>4, <1>5 DEF Ordered
<1>8. sst'[w] = "NONE" => Data(q) = {}
  BY <1>2, <1>3, <1>4 DEF Empty, Present
<1>9. QueueStep(w, q, passed[w])
  <2>1. next' \in Nat /\ next <= next' /\ next' = next
    BY <1>2, <1>3
  <2>2. \A v \in Stations : v # w => /\ mode'[v] = mode[v] /\ sst'[v] = sst[v]
                                     /\ v \in stale' <=> v \in stale
    BY <1>3
  <2>3. QED
    BY <1>2, <1>3, <1>4, <1>6, <1>7, <1>8, <2>1, <2>2 DEF QueueStep
<1>10. Queues'
  BY <1>1, <1>9, OneQueue
<1>11. Types'
  BY <1>1, <1>3 DEF Types
<1>12. Thread'
  BY <1>1, <1>3 DEF Thread
<1>13. Marked'
  BY <1>1, <1>3 DEF Marked, Queues
<1>14. QED
  BY <1>10, <1>11, <1>12, <1>13 DEF IInv

LEMMA StepKeeps == IInv /\ [Next]_vars => IInv'
<1>1. SUFFICES ASSUME IInv, [Next]_vars
               PROVE  IInv'
  OBVIOUS
<1>2. ASSUME NEW w \in Stations, SendPacket(w)
      PROVE  IInv'
  BY <1>1, <1>2, SendPacketKeeps
<1>3. ASSUME NEW w \in Stations, PsPoll(w)
      PROVE  IInv'
  BY <1>1, <1>3, PsPollKeeps
<1>4. ASSUME NEW w \in Stations, NEW psm \in {"ACTIVE", "SAVE"}, PsIndicate(w, psm)
      PROVE  IInv'
  BY <1>1, <1>4, PsIndicateKeeps
<1>5. ASSUME NEW w \in Stations, Insert(w) \/ Authenticate(w) \/ Associate(w) \/ Delete(w)
      PROVE  IInv'
  BY <1>1, <1>5, InsertKeeps, AuthenticateKeeps, AssociateKeeps, DeleteKeeps
<1>6. ASSUME NEW w \in Stations, HardTransmit(w)
      PROVE  IInv'
  BY <1>1, <1>6, ThreadKeeps
<1>7. CASE SendGroup \/ Dtim
  BY <1>1, <1>7, GroupKeeps
<1>8. CASE Maintenance
  BY <1>1, <1>8, MaintenanceKeeps
<1>9. CASE ActionFrame
  BY <1>1, <1>9, ThreadKeeps, ActionInsertKeeps DEF ActionFrame
<1>10. CASE UNCHANGED vars
  BY <1>1, <1>10 DEF vars, IInv, Types, Queues, Thread, Marked, Bounded, Ordered,
                     Empty, Present
<1>11. QED
  BY <1>1, <1>2, <1>3, <1>4, <1>5, <1>6, <1>7, <1>8, <1>9, <1>10 DEF Next

LEMMA Inductive == Spec => []IInv
BY InitHolds, StepKeeps, PTL DEF Spec
-----------------------------------------------------------------------------
\* The types, and the bound of PsQueue, exceeded by the thread's one frame at
\* most: "if(pEntry->PsQueue.Number >= MAX_PACKETS_IN_PS_QUEUE)" in ps.c and
\* cmm_data.c is tested outside irq_lock.
THEOREM Typing == Spec => []TypeOK
<1>1. IInv => TypeOK
  <2>1. SUFFICES ASSUME IInv
                 PROVE  TypeOK
    OBVIOUS
  <2>2. Types /\ Queues
    BY <2>1 DEF IInv
  <2>3. \A w \in Stations :
           Len(psq[w]) > MaxPs => Len(psq[w]) = MaxPs + 1 /\ psq[w][MaxPs + 1] = 0
    <3>1. SUFFICES ASSUME NEW w \in Stations, Len(psq[w]) > MaxPs
                   PROVE  Len(psq[w]) = MaxPs + 1 /\ psq[w][MaxPs + 1] = 0
      OBVIOUS
    <3>2. Len(psq[w]) \in Nat /\ Bounded(psq[w])
      BY <2>2, LenProperties DEF Queues
    <3>3. MaxPs \in Nat
      BY PsAssumption
    <3>4. ~(Len(psq[w]) <= MaxPs)
      BY <3>1, <3>2, <3>3
    <3>5. QED
      BY <3>2, <3>4, Zenon DEF Bounded
  <2>4. psq \in [Stations -> Seq(0 .. next)] /\ passed \in [Stations -> SUBSET (1 .. next)]
    BY <2>2, Zenon DEF Queues
  <2>5. QED
    BY <2>2, <2>3, <2>4, Zenon DEF Types, TypeOK
<1>2. QED
  BY <1>1, Inductive, PTL

\* Where "|=" on a byte of TimBitmaps is not interrupted, every queue of a
\* station that sleeps, and the queue of group frames, is announced in the TIM.
THEOREM Announcement == Spec => []Announced
<1>1. IInv => Announced
  BY DEF IInv, Marked, Announced, TimMarks
<1>2. QED
  BY <1>1, Inductive, PTL

\* A station that did not associate again with frames queued is sent its data
\* frames in the order of the stack, whatever it does in between.
THEOREM Order == Spec => []InOrder
<1>1. IInv => InOrder
  BY DEF IInv, Queues, Ordered, Sorted, Before, InOrder
<1>2. QED
  BY <1>1, Inductive, PTL

\* The queue of a slot that MacTableDeleteEntry has freed holds no data frame.
THEOREM NoLeaks == Spec => []NoLeak
<1>1. IInv => NoLeak
  BY DEF IInv, Queues, Empty, NoLeak
<1>2. QED
  BY <1>1, Inductive, PTL
=============================================================================
