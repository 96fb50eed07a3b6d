------------------------- MODULE WpaHandshakeProofs -------------------------
(***************************************************************************)
(* Proofs about WpaHandshake, for any number of repetitions, associations  *)
(* and group keys: types, and that both ends use the same pairwise and     *)
(* group keys when the AP takes its handshakes for done.  The last section *)
(* has SaQuery, the procedure that guards a station made secure.           *)
(***************************************************************************)
EXTENDS WpaHandshake, SaQuery, TLAPS

Drawn == 1 .. nonces
Keys == Drawn \X Drawn
Under == {"negotiating", "done"}

\* Pairs of nonces, and entries, when n nonces have been drawn.
Pairs(n) == (0 .. n) \X (0 .. n)
Retries == 0 .. Tries \cup {Msg3Ctr, GroupCtr, GroupCtr + 1}

Entries(n) ==
    [state : {"none", "initpsk", "ptkstart", "negotiating", "done"}, ctr : Nat,
     anonce : 0 .. n, ptk : Pairs(n), retry : Retries, key : Pairs(n),
     port : BOOLEAN, gtkDone : BOOLEAN]

Peers(n, g) ==
    [state : {"none", "ptkstart", "negotiating", "done"}, ctr : Nat, anonce : 0 .. n,
     ptk : Pairs(n), key : Pairs(n), port : BOOLEAN, gtk : 0 .. g, timer : BOOLEAN]

Types ==
    /\ nonces \in Nat /\ gtk \in 1 .. (MaxRekey + 1) /\ hw \in 1 .. gtk /\ countdown \in Nat
    /\ wpa2 \in BOOLEAN /\ timer \in BOOLEAN /\ missed \in BOOLEAN
    /\ doing \in {"none", "m2", "m4", "g2"}
    /\ ap \in Entries(nonces)
    /\ sta \in Peers(nonces, gtk)
    /\ timer => ap.state # "none"

Msg1s == [t : {"m1"}, ctr : Nat, nonce : Drawn]
Msg3s == [t : {"m3"}, ctr : Nat, nonce : Drawn, mic : Keys, gtk : 1 .. gtk]
Group1s == [t : {"g1"}, ctr : Nat, mic : Keys, gtk : 1 .. gtk]
Msg2s == [t : {"m2"}, ctr : Nat, nonce : Drawn, mic : Keys]
Replies == [t : {"m4", "g2"}, ctr : Nat, mic : Keys]

Frames == down \subseteq Msg1s \cup Msg3s \cup Group1s /\ up \subseteq Msg2s \cup Replies

\* The nonce and the PTK of the AP's present association: what an earlier one
\* left in the entry counts for none until the handshake writes its own.
Anonce == IF ap.state \in {"none", "initpsk"} THEN 0 ELSE ap.anonce
Ptk == IF doing = "m2" \/ ap.state \in Under THEN ap.ptk ELSE NoKey

\* What is known of the entries at each stage of the handshake, and of what the
\* AP's thread has in hand.
Stages ==
    /\ Anonce = 0 <=> ap.state \in {"none", "initpsk"}
    /\ ap.state \in {"none", "initpsk"} => Ptk = NoKey
    /\ ap.state \in Under => Ptk \in Keys
    /\ ap.state = "done" => Ptk[1] = Anonce
    /\ ap.retry \in {GroupCtr, GroupCtr + 1} => ap.state = "done"
    /\ ap.gtkDone => ap.state = "done"
    /\ sta.ptk[1] = sta.anonce
    /\ doing = "m2" => ap.state = "none" \/ (ap.state = "ptkstart" /\ Ptk \in Keys)
    /\ doing = "m4" => ap.state = "none" \/ (ap.state \in Under /\ Ptk[1] = Anonce)
    /\ doing = "g2" => ap.state \in {"none", "done"}

\* A frame with counter c about the nonce n: if the AP still uses the nonce, the
\* counter is the AP's until message 3 is sent, and past after it.
Of(c, n) == n = Anonce => IF ap.state = "ptkstart" THEN c = ap.ctr ELSE c < ap.ctr

Nonces ==
    /\ \A m \in Heard("m1") : Of(m.ctr, m.nonce)
    /\ \A m \in Received("m2") : Of(m.ctr, m.mic[1])

\* Of each nonce the AP sends one message 3, with which it goes on.
OneMsg3 ==
    /\ \A m \in Heard("m3") : m.nonce = Anonce => ap.state \in Under
    /\ \A m \in Heard("m3") : m.nonce = Ptk[1] => Ptk[1] = Anonce
    /\ \A m, n \in Heard("m3") : m.nonce = Anonce /\ n.nonce = Anonce => m = n

\* Replies answer frames the AP has sent.
Answers ==
    /\ \A a \in Received("m4") :
          \E m \in Heard("m3") : m.mic = a.mic /\ m.nonce = a.mic[1] /\ m.ctr = a.ctr
    /\ \A a \in Received("g2") : \E m \in Heard("g1") : m.mic = a.mic /\ m.ctr = a.ctr

Both == ap.state # "none" /\ sta.state # "none"

\* The key the station uses is the one of that message 3.
StaKey ==
    Both =>
    /\ \A m \in Heard("m3") : m.mic = sta.ptk => m.nonce = Anonce
    /\ sta.key # NoKey => \E m \in Heard("m3") : m.nonce = Anonce /\ m.mic = sta.key
    /\ \A a \in Received("m4") : a.mic[1] = Anonce => sta.key # NoKey
    /\ doing = "m4" => sta.key = Ptk /\ sta.key # NoKey
    /\ ap.state = "done" => sta.key = ap.key /\ sta.key # NoKey

\* Frames that bring a group key.
Keyed(m) == m.t = "g1" \/ (m.t = "m3" /\ wpa2)

\* Counters of frames with a group key, and of those the station would take:
\* none is beyond the AP's, and the one with the AP's brings the current key.
Counters ==
    /\ \A m \in Heard("m3") \cup Heard("g1") :
          m.mic[1] \in {Anonce, Ptk[1]} => m.ctr <= ap.ctr
    /\ \A m \in Heard("g1") : m.mic[1] = Anonce => ap.state = "done"
    /\ Both => \A m \in Heard("g1") : m.mic = sta.ptk => ap.state = "done"
    /\ Both => \A m \in down : Keyed(m) /\ m.mic = sta.ptk =>
          m.ctr <= ap.ctr /\ (m.ctr = ap.ctr => m.gtk = gtk \/ missed)

\* The station has the current group key and will take no other.
Told ==
    \/ missed
    \/ /\ sta.gtk = gtk
       /\ \A m \in down : Keyed(m) /\ m.mic = sta.ptk /\ m.ctr > sta.ctr => m.gtk = gtk

\* The replies by which the AP takes the group key for known.
Confirms(a) ==
    /\ a.t = "g2" \/ (a.t = "m4" /\ wpa2)
    /\ a.ctr = ap.ctr /\ a.mic[1] = Anonce /\ ap.state \in Under

GroupKey ==
    Both =>
    /\ ap.gtkDone => Told
    /\ doing = "g2" \/ (doing = "m4" /\ wpa2) => Told
    /\ \A a \in up : Confirms(a) => Told

IInv ==
    Types /\ Frames /\ Stages /\ Nonces /\ OneMsg3 /\ Answers /\ StaKey /\ Counters /\ GroupKey

-----------------------------------------------------------------------------
(***************************************************************************)
(* What every step does, field by field.                                   *)
(***************************************************************************)
ApIs(s, c, n, k, r, y, g) ==
    /\ ap'.state = s /\ ap'.ctr = c /\ Anonce' = n /\ Ptk' = k
    /\ ap'.retry = r /\ ap'.key = y /\ ap'.gtkDone = g

StaIs(s, c, n, k, y, g) ==
    /\ sta'.state = s /\ sta'.ctr = c /\ sta'.anonce = n /\ sta'.ptk = k
    /\ sta'.key = y /\ sta'.gtk = g

StaSame == StaIs(sta.state, sta.ctr, sta.anonce, sta.ptk, sta.key, sta.gtk)
ApSame == ApIs(ap.state, ap.ctr, Anonce, Ptk, ap.retry, ap.key, ap.gtkDone)
GroupSame == wpa2' = wpa2 /\ gtk' = gtk /\ missed' = missed
NetSame == down' = down /\ up' = up /\ nonces' = nonces

Joined ==
    /\ doing = "none" /\ doing' = "none"
    /\ \E c \in Nat : ApIs("initpsk", c, 0, NoKey, Msg1Ctr, NoKey, FALSE)
    /\ StaIs("ptkstart", 0, 0, NoKey, NoKey, 0)
    /\ NetSame /\ wpa2' = wpa2 /\ gtk' = gtk

Started ==
    \E c \in Nat, r \in 0 .. Tries :
       /\ ap.state \in {"initpsk", "ptkstart"}
       /\ ap.state = "ptkstart" => c > ap.ctr
       /\ ApIs("ptkstart", c, nonces + 1, Ptk, r, ap.key, ap.gtkDone)
       /\ down' = down \cup {[t |-> "m1", ctr |-> c, nonce |-> nonces + 1]}
       /\ nonces' = nonces + 1
       /\ StaSame /\ GroupSame /\ up' = up /\ doing' = doing

Taken2 ==
    \E m \in Received("m2") :
       /\ doing = "none" /\ ap.state \in {"ptkstart", "negotiating", "done"}
       /\ ApIs(ap.state, ap.ctr, Anonce, <<Anonce, m.nonce>>, ap.retry, ap.key, ap.gtkDone)
       /\ \/ doing' = "none"
          \/ doing' = "m2" /\ m.ctr = ap.ctr /\ m.mic = <<Anonce, m.nonce>>
       /\ StaSame /\ GroupSame /\ NetSame

Taken ==
    /\ doing = "none"
    /\ \/ doing' = "none"
       \/ /\ doing' = "m4" /\ ap.state \in Under
          /\ \E m \in Received("m4") : m.ctr = ap.ctr /\ m.mic = Ptk
       \/ /\ doing' = "g2" /\ ap.state = "done"
          /\ \E m \in Received("g2") : m.ctr = ap.ctr /\ m.mic = Ptk
    /\ ApSame /\ StaSame /\ GroupSame /\ NetSame

Sent3 ==
    /\ doing = "m2" /\ doing' = "none" /\ ap.state # "none"
    /\ ApIs("negotiating", ap.ctr + 1, Anonce, Ptk, Msg3Ctr, ap.key, ap.gtkDone)
    /\ down' = down \cup {[t |-> "m3", ctr |-> ap.ctr + 1, nonce |-> Anonce,
                           mic |-> Ptk, gtk |-> gtk]}
    /\ missed' = FALSE
    /\ StaSame /\ up' = up /\ nonces' = nonces /\ wpa2' = wpa2 /\ gtk' = gtk

\* A group message 1 with the key that is now current.
Offered(r, y, g) ==
    /\ ApIs("done", ap.ctr + 1, Anonce, Ptk, r, y, g)
    /\ down' = down \cup {[t |-> "g1", ctr |-> ap.ctr + 1, mic |-> Ptk, gtk |-> gtk']}
    /\ StaSame /\ up' = up /\ nonces' = nonces /\ wpa2' = wpa2

Installed2 ==
    /\ wpa2 /\ doing = "m4" /\ doing' = "none" /\ ap.state # "none"
    /\ ApIs("done", ap.ctr, Anonce, Ptk, ap.retry, Ptk, TRUE)
    /\ StaSame /\ GroupSame /\ NetSame

Installed ==
    /\ ~wpa2 /\ doing = "m4" /\ doing' = "none" /\ ap.state # "none"
    /\ Offered(GroupCtr, Ptk, ap.gtkDone)
    /\ gtk' = gtk /\ missed' = missed

Repeated ==
    /\ ap.state = "done" /\ doing' = doing
    /\ Offered(GroupCtr + 1, ap.key, ap.gtkDone)
    /\ gtk' = gtk /\ missed' = missed

Rekeyed ==
    /\ ap.state = "done" /\ doing' = doing
    /\ Offered(ap.retry, ap.key, FALSE)
    /\ gtk' = gtk + 1 /\ missed' = (doing # "none")

RekeyedElse ==
    /\ ap.state \notin {"none", "done"} /\ doing' = doing
    /\ gtk' = gtk + 1 /\ wpa2' = wpa2
    /\ missed' = (missed \/ (wpa2 /\ ap.state = "negotiating"))
    /\ ApSame /\ StaSame /\ NetSame

Confirmed ==
    /\ doing = "g2" /\ doing' = "none" /\ ap.state # "none"
    /\ ApIs(ap.state, ap.ctr, Anonce, Ptk, ap.retry, ap.key, TRUE)
    /\ StaSame /\ GroupSame /\ NetSame

Dropped == ap.state = "none" /\ doing' = "none" /\ ApSame /\ StaSame /\ GroupSame /\ NetSame

Gone ==
    /\ ApIs("none", 0, 0, NoKey, Msg1Ctr, NoKey, FALSE)
    /\ StaSame \/ StaIs("none", 0, 0, NoKey, NoKey, 0)
    /\ GroupSame /\ NetSame /\ doing' = doing

Counted ==
    \E r \in 0 .. Tries \cup {GroupCtr + 1} :
       /\ r = GroupCtr + 1 => ap.state = "done"
       /\ ApIs(ap.state, ap.ctr, Anonce, Ptk, r, ap.key, ap.gtkDone)
       /\ StaSame /\ GroupSame /\ NetSame /\ doing' = doing

Heard1 ==
    \E m \in Heard("m1") :
       /\ sta.state # "none" /\ m.ctr > sta.ctr
       /\ StaIs("negotiating", m.ctr, m.nonce, <<m.nonce, nonces + 1>>, sta.key, sta.gtk)
       /\ up' = up \cup {[t |-> "m2", ctr |-> m.ctr, nonce |-> nonces + 1,
                          mic |-> <<m.nonce, nonces + 1>>]}
       /\ nonces' = nonces + 1
       /\ ApSame /\ GroupSame /\ down' = down /\ doing' = doing

Heard3 ==
    \E m \in Heard("m3") :
       /\ sta.state # "none" /\ m.ctr > sta.ctr /\ m.mic = sta.ptk
       /\ \E g : /\ g = IF wpa2 THEN m.gtk ELSE sta.gtk
                 /\ \/ /\ StaIs(sta.state, m.ctr, sta.anonce, sta.ptk, sta.key, g)
                       /\ up' = up
                    \/ /\ m.nonce = sta.anonce
                       /\ StaIs("done", m.ctr, sta.anonce, sta.ptk, sta.ptk, g)
                       /\ up' = up \cup {[t |-> "m4", ctr |-> m.ctr, mic |-> sta.ptk]}
       /\ ApSame /\ GroupSame /\ down' = down /\ nonces' = nonces /\ doing' = doing

HeardG ==
    \E m \in Heard("g1") :
       /\ sta.state # "none" /\ m.ctr > sta.ctr /\ m.mic = sta.ptk
       /\ StaIs(sta.state, m.ctr, sta.anonce, sta.ptk, sta.key, m.gtk)
       /\ up' = up \cup {[t |-> "g2", ctr |-> m.ctr, mic |-> sta.ptk]}
       /\ ApSame /\ GroupSame /\ down' = down /\ nonces' = nonces /\ doing' = doing

Quit ==
    /\ StaIs("none", 0, 0, NoKey, NoKey, 0)
    /\ ApSame /\ GroupSame /\ NetSame /\ doing' = doing

Quiet == ApSame /\ StaSame /\ GroupSame /\ NetSame /\ doing' = doing

Move ==
    \/ Joined \/ Started \/ Taken2 \/ Taken \/ Sent3 \/ Installed2 \/ Installed
    \/ Repeated \/ Rekeyed \/ RekeyedElse \/ Confirmed \/ Dropped \/ Gone \/ Counted
    \/ Heard1 \/ Heard3 \/ HeardG \/ Quit \/ Quiet

-----------------------------------------------------------------------------
\* The three steps of a handshake's start, of its answers, and of the AP's acts.
LEMMA StartMoves ==
    ASSUME IInv, Associate \/ Reassociate \/ EapolStart \/ Accept PROVE Move
<1> USE DEF IInv, Types, Entries, Peers, Retries, NetSame, GroupSame, StaSame, ApSame, StaIs,
        ApIs, Anonce, Ptk, Under
<1>1. CASE Associate
  <2>1. Joined BY <1>1 DEF Associate, Joined, Entry, Peer, net, group
  <2>2. QED BY <2>1 DEF Move
<1>r. CASE Reassociate
  <2>1. Joined BY <1>r DEF Reassociate, Joined, Peer, net, group
  <2>2. QED BY <2>1 DEF Move
<1>2. CASE EapolStart
  <2>1. ap'.retry = Msg1Ctr /\ ap'.ctr = 1 /\ ap'.state = "ptkstart" /\ ap'.anonce = nonces + 1
        /\ ap'.ptk = ap.ptk /\ ap'.key = ap.key /\ ap'.gtkDone = ap.gtkDone
    BY <1>2 DEF EapolStart, Start4Way
  <2>2. down' = down \cup {[t |-> "m1", ctr |-> 1, nonce |-> nonces + 1]}
    BY <1>2 DEF EapolStart, Start4Way
  <2>3. Started
    BY <1>2, <2>1, <2>2, WpaAssumption DEF EapolStart, Start4Way, Started, group, Msg1Ctr
  <2>4. QED BY <2>3 DEF Move
<1>3. CASE Accept
  <2>0. doing = "none" /\ StaSame /\ GroupSame /\ NetSame
    BY <1>3 DEF Accept, net, group
  <2>1. CASE \E m \in Received("m2") : Msg2(m)
    <3>1. PICK m \in Received("m2") : Msg2(m) BY <2>1
    <3>2. CASE ap.state \in {"ptkstart", "negotiating", "done"}
      <4> DEFINE k == <<ap.anonce, m.nonce>>
      <4>1. ap' = [ap EXCEPT !.ptk = k] /\ Anonce = ap.anonce /\ Anonce' = Anonce
        BY <3>1, <3>2 DEF Msg2
      <4>2. \/ doing' = "none"
            \/ doing' = "m2" /\ m.ctr = ap.ctr /\ m.mic = k
        BY <3>1, <3>2 DEF Msg2, Sanity
      <4>3. CASE ap.state = "ptkstart" /\ doing' = "none"
        <5>1. ApSame BY <2>0, <4>1, <4>3
        <5>2. QED BY <2>0, <4>3, <5>1 DEF Move, Quiet
      <4>4. CASE ~(ap.state = "ptkstart" /\ doing' = "none")
        <5>1. Ptk' = k BY <3>2, <4>1, <4>2, <4>4
        <5>2. ApIs(ap.state, ap.ctr, Anonce, <<Anonce, m.nonce>>, ap.retry, ap.key, ap.gtkDone)
          BY <4>1, <5>1
        <5>3. Taken2 BY <2>0, <3>1, <3>2, <4>1, <4>2, <5>2 DEF Taken2
        <5>4. QED BY <5>3 DEF Move
      <4>5. QED BY <4>3, <4>4
    <3>3. CASE ap.state \notin {"ptkstart", "negotiating", "done"}
      <4>1. Quiet BY <2>0, <3>1, <3>3 DEF Quiet, Msg2
      <4>2. QED BY <4>1 DEF Move
    <3>4. QED BY <3>2, <3>3
  <2>2. CASE \E m \in Received("m4") : Msg4(m)
    <3>1. Taken BY <2>0, <2>2 DEF Taken, Msg4, Sanity, Under
    <3>2. QED BY <3>1 DEF Move
  <2>3. CASE \E m \in Received("g2") : GroupMsg2(m)
    <3>1. Taken BY <2>0, <2>3 DEF Taken, GroupMsg2, Sanity
    <3>2. QED BY <3>1 DEF Move
  <2>4. QED BY <1>3, <2>1, <2>2, <2>3 DEF Accept
<1>4. QED BY <1>1, <1>r, <1>2, <1>3

LEMMA ActMoves ==
    ASSUME IInv, Act PROVE Move
<1> USE DEF IInv, Types, Entries, Peers, Retries, NetSame, GroupSame, StaSame, ApSame, StaIs,
        ApIs, Act, net, group, Client, Anonce, Ptk, Under
<1>1. CASE Client /\ doing = "m2" /\ Msg2Rest
  <2>1. ap.state = "ptkstart" BY <1>1 DEF Stages
  <2>2. Ptk = ap.ptk /\ Anonce = ap.anonce BY <1>1, <2>1
  <2>3. ApIs("negotiating", ap.ctr + 1, Anonce, Ptk, Msg3Ctr, ap.key, ap.gtkDone)
    BY <1>1, <2>2 DEF Msg2Rest
  <2>4. Sent3 BY <1>1, <2>2, <2>3 DEF Sent3, Msg2Rest
  <2>5. QED BY <2>4 DEF Move
<1>2. CASE Client /\ doing = "m4" /\ Msg4Rest
  <2>1. ap.state \in Under BY <1>2 DEF Stages
  <2>2. CASE wpa2
    <3>0. ApIs("done", ap.ctr, Anonce, Ptk, ap.retry, Ptk, TRUE)
      BY <1>2, <2>1, <2>2 DEF Msg4Rest, Done
    <3>1. Installed2 BY <1>2, <2>2, <3>0 DEF Installed2, Msg4Rest
    <3>2. QED BY <3>1 DEF Move
  <2>3. CASE ~wpa2
    <3>0. ApIs("done", ap.ctr + 1, Anonce, Ptk, GroupCtr, Ptk, ap.gtkDone)
      BY <1>2, <2>1, <2>3 DEF Msg4Rest, Done, GroupMsg1
    <3>e. Ptk = ap.ptk BY <2>1
    <3>1. Installed
      BY <1>2, <2>3, <3>0, <3>e DEF Installed, Offered, Msg4Rest, Done, GroupMsg1
    <3>2. QED BY <3>1 DEF Move
  <2>4. QED BY <2>2, <2>3
<1>3. CASE Client /\ doing = "g2" /\ GroupMsg2Rest
  <2>1. Confirmed BY <1>3 DEF Confirmed, GroupMsg2Rest
  <2>2. QED BY <2>1 DEF Move
<1>4. CASE ~Client
  <2>1. ap.state = "none" /\ doing' = "none" /\ UNCHANGED <<ap, timer, down, missed>> BY <1>4
  <2>2. Anonce' = Anonce /\ Ptk' = Ptk BY <2>1 DEF Stages
  <2>3. ApSame BY <2>1, <2>2
  <2>4. Dropped BY <1>4, <2>1, <2>3 DEF Dropped
  <2>5. QED BY <2>4 DEF Move
<1>5. QED BY <1>1, <1>2, <1>3, <1>4

LEMMA DeauthMove ==
    ASSUME IInv, Deauth, UNCHANGED <<wpa2, doing, up, group, assocs, missed>> PROVE Gone
BY DEF IInv, Types, Entries, Peers, Anonce, Ptk, Under, Deauth, Gone, NetSame, GroupSame, StaSame,
    StaIs, ApIs, NoEntry, Entry,
       NoPeer, Peer, group

LEMMA RetryMoves ==
    ASSUME IInv, WPARetryExec PROVE Move
<1> USE DEF IInv, Types, Entries, Peers, Retries, NetSame, GroupSame, StaSame, ApSame, StaIs,
        ApIs, group, Anonce, Ptk, Under
<1> DEFINE r == ap.retry + 1
<1>0. UNCHANGED <<wpa2, doing, up, group, assocs, missed>> /\ Retry(r) /\ r \in Nat
  BY WpaAssumption DEF WPARetryExec, Msg3Ctr, GroupCtr
<1>1. CASE Deauth
  BY <1>0, <1>1, DeauthMove DEF Move
<1>2. CASE r = GroupCtr + 1 /\ ap.gtkDone /\ ap' = [ap EXCEPT !.retry = r]
           /\ UNCHANGED <<down, sta, nonces>>
  <2>1. ap.state = "done" BY <1>2 DEF Stages
  <2>2. Counted BY <1>0, <1>2, <2>1 DEF Counted
  <2>3. QED BY <2>2 DEF Move
<1>3. CASE r = GroupCtr + 1 /\ ~ap.gtkDone /\ GroupMsg1([ap EXCEPT !.retry = r], gtk)
           /\ UNCHANGED <<sta, nonces>>
  <2>1. ap.retry = GroupCtr BY <1>3, WpaAssumption DEF GroupCtr, Msg3Ctr
  <2>2. ap.state = "done" BY <2>1 DEF Stages
  <2>3. Repeated BY <1>0, <1>3, <2>2 DEF Repeated, Offered, GroupMsg1
  <2>4. QED BY <2>3 DEF Move
<1>4. CASE r <= Tries /\ ap.state \in {"initpsk", "ptkstart"}
           /\ Start4Way([ap EXCEPT !.retry = r]) /\ UNCHANGED sta
  <2>1. ap'.ctr = ap.ctr + 1 /\ ap'.retry = r /\ ap'.state = "ptkstart" /\ ap'.anonce = nonces + 1
        /\ ap'.ptk = ap.ptk /\ ap'.key = ap.key /\ ap'.gtkDone = ap.gtkDone
    BY <1>4 DEF Start4Way
  <2>2. down' = down \cup {[t |-> "m1", ctr |-> ap.ctr + 1, nonce |-> nonces + 1]}
        /\ nonces' = nonces + 1
    BY <1>4 DEF Start4Way
  <2>3. r \in 0 .. Tries BY <1>0, <1>4, WpaAssumption
  <2>4. Started BY <1>0, <1>4, <2>1, <2>2, <2>3 DEF Started
  <2>5. QED BY <2>4 DEF Move
<1>5. CASE r <= Tries /\ ap' = [ap EXCEPT !.retry = r] /\ UNCHANGED <<down, nonces, sta>>
  <2>1. r \in 0 .. Tries BY <1>0, <1>5, WpaAssumption
  <2>2. r # GroupCtr + 1 BY <1>5, WpaAssumption DEF GroupCtr, Msg3Ctr
  <2>3. Counted BY <1>0, <1>5, <2>1, <2>2 DEF Counted
  <2>4. QED BY <2>3 DEF Move
<1>6. QED BY <1>0, <1>1, <1>2, <1>3, <1>4, <1>5 DEF Retry

LEMMA OtherMoves ==
    ASSUME IInv, Rekey \/ RekeyInstall \/ PeerAnswer \/ PeerLeaves \/ UNCHANGED vars PROVE Move
<1> USE DEF IInv, Types, Entries, Peers, Retries, NetSame, GroupSame, StaSame, ApSame, StaIs,
        ApIs, net, group, Anonce, Ptk, Under
<1>1. CASE Rekey
  <2>1. CASE ap.state = "done"
    <3>1. Rekeyed BY <1>1, <2>1 DEF Rekey, Rekeyed, Offered, GroupMsg1
    <3>2. QED BY <3>1 DEF Move
  <2>2. CASE ap.state # "done"
    <3>1. RekeyedElse BY <1>1, <2>2 DEF Rekey, RekeyedElse, Client
    <3>2. QED BY <3>1 DEF Move
  <2>3. QED BY <2>1, <2>2
<1>2. CASE RekeyInstall
  <2>1. Quiet BY <1>2 DEF RekeyInstall, Quiet
  <2>2. QED BY <2>1 DEF Move
<1>3. CASE PeerAnswer
  <2>0. sta.state # "none" /\ ApSame /\ GroupSame /\ down' = down /\ doing' = doing
    BY <1>3 DEF PeerAnswer
  <2>d. ASSUME Drop PROVE Move
    <3>1. Quiet BY <2>0, <2>d DEF Quiet, Drop
    <3>2. QED BY <3>1 DEF Move
  <2>1. ASSUME NEW m \in Heard("m1"), PeerMsg1(m), ~(m.ctr <= sta.ctr) PROVE Move
    <3>1. StaIs("negotiating", m.ctr, m.nonce, <<m.nonce, nonces + 1>>, sta.key, sta.gtk)
      BY <2>1 DEF PeerMsg1
    <3>2. Heard1 BY <2>0, <2>1, <3>1 DEF Heard1, PeerMsg1, Frames, Msg1s, Msg3s, Group1s, Heard
    <3>3. QED BY <3>2 DEF Move
  <2>2. ASSUME NEW m \in Heard("m3"), PeerMsg3(m), ~(m.ctr <= sta.ctr), m.mic = sta.ptk PROVE Move
    <3> DEFINE g == IF wpa2 THEN m.gtk ELSE sta.gtk
    <3>0. m.ctr > sta.ctr BY <2>2 DEF Frames, Msg1s, Msg3s, Group1s, Heard
    <3>1. CASE m.nonce # sta.anonce
      <4>1. StaIs(sta.state, m.ctr, sta.anonce, sta.ptk, sta.key, g) /\ up' = up
        BY <2>2, <3>1 DEF PeerMsg3
      <4>2. nonces' = nonces BY <2>2 DEF PeerMsg3
      <4>3. Heard3 BY <2>0, <2>2, <3>0, <4>1, <4>2 DEF Heard3
      <4>4. QED BY <4>3 DEF Move
    <3>2. CASE m.nonce = sta.anonce
      <4>1. StaIs("done", m.ctr, sta.anonce, sta.ptk, sta.ptk, g)
            /\ up' = up \cup {[t |-> "m4", ctr |-> m.ctr, mic |-> sta.ptk]}
        BY <2>2, <3>2 DEF PeerMsg3
      <4>2. nonces' = nonces BY <2>2 DEF PeerMsg3
      <4>3. Heard3 BY <2>0, <2>2, <3>0, <3>2, <4>1, <4>2 DEF Heard3
      <4>4. QED BY <4>3 DEF Move
    <3>3. QED BY <3>1, <3>2
  <2>3. ASSUME NEW m \in Heard("g1"), PeerGroupMsg1(m), ~(m.ctr <= sta.ctr), m.mic = sta.ptk
        PROVE Move
    <3>1. StaIs(sta.state, m.ctr, sta.anonce, sta.ptk, sta.key, m.gtk) BY <2>3 DEF PeerGroupMsg1
    <3>2. HeardG BY <2>0, <2>3, <3>1 DEF HeardG, PeerGroupMsg1, Frames, Msg1s, Msg3s, Group1s, Heard
    <3>3. QED BY <3>2 DEF Move
  <2>4. QED BY <1>3, <2>d, <2>1, <2>2, <2>3 DEF PeerAnswer, PeerMsg1, PeerMsg3, PeerGroupMsg1
<1>4. CASE PeerLeaves
  <2>1. Quit BY <1>4 DEF PeerLeaves, Quit, NoPeer, Peer
  <2>2. QED BY <2>1 DEF Move
<1>5. CASE UNCHANGED vars
  <2>1. Quiet BY <1>5 DEF vars, Quiet
  <2>2. QED BY <2>1 DEF Move
<1>6. QED BY <1>1, <1>2, <1>3, <1>4, <1>5

LEMMA Moves == IInv /\ [Next]_vars => Move
BY StartMoves, ActMoves, RetryMoves, OtherMoves DEF Next

-----------------------------------------------------------------------------
LEMMA PairFacts ==
    ASSUME NEW n \in Nat
    PROVE  /\ NoKey \in Pairs(n) /\ Pairs(n) \subseteq Pairs(n + 1)
           /\ \A x, y \in 0 .. n : <<x, y>> \in Pairs(n)
BY DEF Pairs, NoKey

LEMMA EntriesGrow ==
    ASSUME NEW n \in Nat, NEW g \in Nat
    PROVE  Entries(n) \subseteq Entries(n + 1) /\ Peers(n, g) \subseteq Peers(n + 1, g)
<1>1. Pairs(n) \subseteq Pairs(n + 1) /\ 0 .. n \subseteq 0 .. (n + 1) BY PairFacts
<1>2. Entries(n) \subseteq Entries(n + 1) BY <1>1 DEF Entries
<1>3. Peers(n, g) \subseteq Peers(n + 1, g) BY <1>1 DEF Peers
<1>4. QED BY <1>2, <1>3

\* The AP's entry keeps its type, whatever field is written.
LEMMA ApWritten ==
    ASSUME NEW n \in Nat, NEW e \in Entries(n)
    PROVE  /\ \A x \in {"none", "initpsk", "ptkstart", "negotiating", "done"} :
                 [e EXCEPT !.state = x] \in Entries(n)
           /\ \A x \in Nat : [e EXCEPT !.ctr = x] \in Entries(n)
           /\ \A x \in 0 .. n : [e EXCEPT !.anonce = x] \in Entries(n)
           /\ \A x \in Pairs(n) : [e EXCEPT !.ptk = x] \in Entries(n)
           /\ \A x \in Retries : [e EXCEPT !.retry = x] \in Entries(n)
           /\ \A x \in Pairs(n) : [e EXCEPT !.key = x] \in Entries(n)
           /\ \A x \in BOOLEAN : [e EXCEPT !.port = x] \in Entries(n)
           /\ \A x \in BOOLEAN : [e EXCEPT !.gtkDone = x] \in Entries(n)
BY DEF Entries

LEMMA PeerWritten ==
    ASSUME NEW n \in Nat, NEW g \in Nat, NEW e \in Peers(n, g)
    PROVE  /\ \A x \in {"none", "ptkstart", "negotiating", "done"} :
                 [e EXCEPT !.state = x] \in Peers(n, g)
           /\ \A x \in Nat : [e EXCEPT !.ctr = x] \in Peers(n, g)
           /\ \A x \in 0 .. n : [e EXCEPT !.anonce = x] \in Peers(n, g)
           /\ \A x \in Pairs(n) : [e EXCEPT !.ptk = x] \in Peers(n, g)
           /\ \A x \in Pairs(n) : [e EXCEPT !.key = x] \in Peers(n, g)
           /\ \A x \in BOOLEAN : [e EXCEPT !.port = x] \in Peers(n, g)
           /\ \A x \in 0 .. g : [e EXCEPT !.gtk = x] \in Peers(n, g)
           /\ \A x \in BOOLEAN : [e EXCEPT !.timer = x] \in Peers(n, g)
BY DEF Peers

LEMMA NewEntries ==
    ASSUME NEW n \in Nat, NEW g \in Nat
    PROVE  {Entry, NoEntry} \subseteq Entries(n) /\ {Peer, NoPeer} \subseteq Peers(n, g)
<1>1. NoKey \in Pairs(n) /\ Msg1Ctr \in Retries BY PairFacts, WpaAssumption DEF Retries, Msg1Ctr
<1>2. Entry \in Entries(n) /\ Peer \in Peers(n, g) BY <1>1 DEF Entry, Peer, Entries, Peers
<1>3. QED BY <1>2 DEF NoEntry, NoPeer, Entries, Peers

\* Start4Way on an entry e of the AP's.
LEMMA StartTypes ==
    ASSUME IInv, NEW e \in Entries(nonces), Start4Way(e)
    PROVE  ap' \in Entries(nonces') /\ nonces' = nonces + 1 /\ timer' = TRUE
           /\ ap'.state = "ptkstart"
<1> DEFINE n == nonces + 1
           e1 == [e EXCEPT !.ctr = @ + 1]
           e2 == [e1 EXCEPT !.anonce = n]
<1>0. nonces \in Nat /\ n \in Nat /\ n \in 0 .. n /\ nonces' = n /\ timer' = TRUE
  BY DEF IInv, Types, Start4Way
<1>1. e \in Entries(n) BY <1>0, EntriesGrow
<1>2. e.ctr + 1 \in Nat BY DEF Entries
<1>3. e1 \in Entries(n) BY <1>0, <1>1, <1>2, ApWritten
<1>4. e2 \in Entries(n) BY <1>0, <1>3, ApWritten
<1>5. ap' = [e2 EXCEPT !.state = "ptkstart"] BY DEF Start4Way
<1>6. ap'.state = "ptkstart" BY <1>4, <1>5 DEF Entries
<1>7. QED BY <1>0, <1>4, <1>5, <1>6, ApWritten

LEMMA GroupTypes ==
    ASSUME IInv, NEW e \in Entries(nonces), NEW key, GroupMsg1(e, key)
    PROVE  ap' \in Entries(nonces) /\ ap'.state = e.state
<1>1. e.ctr + 1 \in Nat /\ nonces \in Nat BY DEF Entries, IInv, Types
<1>2. ap' = [e EXCEPT !.ctr = e.ctr + 1] BY DEF GroupMsg1
<1>3. ap'.state = e.state BY <1>2 DEF Entries
<1>4. QED BY <1>1, <1>2, <1>3, ApWritten

LEMMA StartTyped ==
    ASSUME IInv, Associate \/ Reassociate \/ EapolStart \/ Accept PROVE Types'
<1> USE DEF IInv, Types, group, net
<1>0. nonces \in Nat /\ gtk \in Nat BY WpaAssumption
<1>1. CASE Associate
  <2>1. ap' = Entry /\ sta' = Peer BY <1>1 DEF Associate
  <2>2. UNCHANGED <<wpa2, doing, nonces, gtk, hw, countdown>> /\ timer' = FALSE /\ missed' = FALSE
    BY <1>1 DEF Associate
  <2>3. ap' \in Entries(nonces') /\ sta' \in Peers(nonces', gtk')
    BY <1>0, <2>1, <2>2, NewEntries
  <2>4. QED BY <2>2, <2>3
<1>r. CASE Reassociate
  <2> DEFINE d == [ap EXCEPT !.state = "initpsk"]
             e == [d EXCEPT !.retry = Msg1Ctr]
             f == [e EXCEPT !.key = NoKey]
             h == [f EXCEPT !.port = FALSE]
  <2>0. Msg1Ctr \in Retries /\ NoKey \in Pairs(nonces)
    BY <1>0, PairFacts, WpaAssumption DEF Retries, Msg1Ctr
  <2>1. [h EXCEPT !.gtkDone = FALSE] \in Entries(nonces)
    <3>1. d \in Entries(nonces) BY <1>0, ApWritten
    <3>2. e \in Entries(nonces) BY <1>0, <2>0, <3>1, ApWritten
    <3>3. f \in Entries(nonces) BY <1>0, <2>0, <3>2, ApWritten
    <3>4. h \in Entries(nonces) BY <1>0, <3>3, ApWritten
    <3>5. QED BY <1>0, <3>4, ApWritten
  <2>2. ap' = [h EXCEPT !.gtkDone = FALSE] /\ ap'.state = "initpsk" /\ sta' = Peer
    BY <1>r DEF Reassociate, Entries
  <2>3. UNCHANGED <<wpa2, timer, doing, nonces, gtk, hw, countdown>> /\ missed' = FALSE
    BY <1>r DEF Reassociate
  <2>4. sta' \in Peers(nonces', gtk') BY <1>0, <2>2, <2>3, NewEntries
  <2>5. QED BY <2>1, <2>2, <2>3, <2>4
<1>2. CASE EapolStart
  <2> DEFINE e == [ap EXCEPT !.ctr = 0]
  <2>0. Msg1Ctr \in Retries BY WpaAssumption DEF Retries, Msg1Ctr
  <2>1. e \in Entries(nonces)
    <3>1. 0 \in Nat OBVIOUS
    <3>2. QED BY <1>0, <3>1, ApWritten
  <2>2. [e EXCEPT !.retry = Msg1Ctr] \in Entries(nonces) BY <1>0, <2>0, <2>1, ApWritten
  <2>3. Start4Way([e EXCEPT !.retry = Msg1Ctr]) BY <1>2 DEF EapolStart
  <2>4. ap' \in Entries(nonces') /\ nonces' = nonces + 1 /\ timer' = TRUE /\ ap'.state = "ptkstart"
    BY <2>2, <2>3, StartTypes
  <2>5. UNCHANGED <<wpa2, doing, sta, gtk, hw, countdown, missed>> BY <1>2 DEF EapolStart
  <2>6. sta' \in Peers(nonces', gtk') BY <1>0, <2>4, <2>5, EntriesGrow
  <2>7. QED BY <2>4, <2>5, <2>6
<1>3. CASE Accept
  <2>0. UNCHANGED <<wpa2, timer, sta, gtk, hw, countdown, nonces, missed>> BY <1>3 DEF Accept
  <2>1. ap' \in Entries(nonces) /\ ap'.state = ap.state /\ doing' \in {"none", "m2", "m4", "g2"}
    <3>1. CASE \E m \in Received("m2") : Msg2(m)
      <4>1. PICK m \in Received("m2") : Msg2(m) BY <3>1
      <4>2. m.nonce \in 0 .. nonces /\ ap.anonce \in 0 .. nonces
        BY DEF Received, Frames, Msg2s, Replies, Drawn, Entries
      <4>3. <<ap.anonce, m.nonce>> \in Pairs(nonces) BY <1>0, <4>2, PairFacts
      <4>4. [ap EXCEPT !.ptk = <<ap.anonce, m.nonce>>] \in Entries(nonces)
        BY <1>0, <4>3, ApWritten
      <4>5. [ap EXCEPT !.ptk = <<ap.anonce, m.nonce>>].state = ap.state BY DEF Entries
      <4>6. QED BY <4>1, <4>4, <4>5 DEF Msg2
    <3>2. CASE \E m \in Received("m4") : Msg4(m) BY <3>2 DEF Msg4
    <3>3. CASE \E m \in Received("g2") : GroupMsg2(m) BY <3>3 DEF GroupMsg2
    <3>4. QED BY <1>3, <3>1, <3>2, <3>3 DEF Accept
  <2>2. QED BY <2>0, <2>1
<1>4. QED BY <1>1, <1>r, <1>2, <1>3

LEMMA ActTyped ==
    ASSUME IInv, Act PROVE Types'
<1> USE DEF IInv, Types, group, net
<1>0. nonces \in Nat /\ ap \in Entries(nonces) /\ ap.ctr + 1 \in Nat /\ ap.ptk \in Pairs(nonces)
      /\ Msg3Ctr \in Retries /\ GroupCtr \in Retries
  BY DEF Entries, Retries
<1>1. UNCHANGED <<wpa2, sta, gtk, hw, countdown, nonces>> /\ doing' = "none" BY DEF Act
<1>2. SUFFICES ap' \in Entries(nonces) /\ timer' \in BOOLEAN /\ missed' \in BOOLEAN
               /\ (timer' => ap'.state # "none")
  BY <1>1
<1>3. CASE Client /\ Msg2Rest
  <2> DEFINE e1 == [ap EXCEPT !.state = "negotiating"]
             e2 == [e1 EXCEPT !.ctr = ap.ctr + 1]
  <2>1. e1 \in Entries(nonces) BY <1>0, ApWritten
  <2>2. e2 \in Entries(nonces) BY <1>0, <2>1, ApWritten
  <2>3. ap' = [e2 EXCEPT !.retry = Msg3Ctr] BY <1>0, <1>3 DEF Msg2Rest, Entries
  <2>4. ap'.state = "negotiating" BY <1>0, <1>3 DEF Msg2Rest, Entries
  <2>5. ap' \in Entries(nonces) BY <1>0, <2>2, <2>3, ApWritten
  <2>6. timer' = TRUE /\ missed' = FALSE BY <1>3 DEF Msg2Rest
  <2>7. QED BY <2>4, <2>5, <2>6
<1>4. CASE Client /\ Msg4Rest
  <2> DEFINE e1 == [ap EXCEPT !.key = ap.ptk]
             e2 == [e1 EXCEPT !.state = "done"]
             e == [e2 EXCEPT !.port = TRUE]
  <2>1. e1 \in Entries(nonces) BY <1>0, ApWritten
  <2>2. e2 \in Entries(nonces) BY <1>0, <2>1, ApWritten
  <2>3. e \in Entries(nonces) /\ e = Done(ap) BY <1>0, <2>2, ApWritten DEF Done
  <2>4. e.state = "done" BY <1>0 DEF Entries
  <2>5. CASE wpa2
    <3>1. ap' = [e EXCEPT !.gtkDone = TRUE] BY <1>4, <2>3, <2>5 DEF Msg4Rest
    <3>2. ap' \in Entries(nonces) BY <1>0, <2>3, <3>1, ApWritten
    <3>3. QED BY <1>4, <2>5, <3>2 DEF Msg4Rest
  <2>6. CASE ~wpa2
    <3>1. [e EXCEPT !.retry = GroupCtr] \in Entries(nonces) BY <1>0, <2>3, ApWritten
    <3>2. [e EXCEPT !.retry = GroupCtr].state = "done" BY <2>3, <2>4 DEF Entries
    <3>3. GroupMsg1([e EXCEPT !.retry = GroupCtr], gtk) BY <1>4, <2>3, <2>6 DEF Msg4Rest
    <3>4. ap' \in Entries(nonces) /\ ap'.state = "done" BY <3>1, <3>2, <3>3, GroupTypes
    <3>5. QED BY <1>4, <2>6, <3>4 DEF Msg4Rest
  <2>7. QED BY <2>5, <2>6
<1>5. CASE Client /\ GroupMsg2Rest
  <2>1. ap' \in Entries(nonces) BY <1>0, <1>5, ApWritten DEF GroupMsg2Rest
  <2>2. QED BY <1>5, <2>1 DEF GroupMsg2Rest
<1>6. CASE ~Client BY <1>0, <1>6 DEF Act
<1>7. QED BY <1>3, <1>4, <1>5, <1>6 DEF Act

LEMMA RetryTyped ==
    ASSUME IInv, WPARetryExec PROVE Types'
<1> USE DEF IInv, Types, group, net
<1> DEFINE r == ap.retry + 1
<1>0. nonces \in Nat /\ gtk \in Nat /\ ap \in Entries(nonces) /\ sta \in Peers(nonces, gtk)
      /\ ap.state # "none"
  BY DEF WPARetryExec
<1>1. UNCHANGED <<wpa2, doing, gtk, hw, countdown, missed>> /\ Retry(r) BY DEF WPARetryExec
<1>2. SUFFICES /\ ap' \in Entries(nonces') /\ sta' \in Peers(nonces', gtk) /\ nonces' \in Nat
               /\ timer' \in BOOLEAN /\ (timer' => ap'.state # "none")
  BY <1>1
<1>3. CASE Deauth
  <2>1. ap' = NoEntry /\ sta' \in {sta, NoPeer} /\ nonces' = nonces /\ timer' = FALSE
    BY <1>3 DEF Deauth
  <2>2. QED BY <1>0, <2>1, NewEntries
<1>4. ASSUME r \in Retries PROVE [ap EXCEPT !.retry = r] \in Entries(nonces)
             /\ [ap EXCEPT !.retry = r].state = ap.state
  BY <1>0, <1>4, ApWritten DEF Entries
<1>5. CASE r = GroupCtr + 1 /\ UNCHANGED <<sta, nonces>>
           /\ \/ ap' = [ap EXCEPT !.retry = r] /\ timer' = FALSE
              \/ GroupMsg1([ap EXCEPT !.retry = r], gtk) /\ timer' = TRUE
  <2>1. r \in Retries BY <1>5 DEF Retries
  <2>2. CASE ap' = [ap EXCEPT !.retry = r] /\ timer' = FALSE BY <1>0, <1>4, <1>5, <2>1, <2>2
  <2>3. CASE GroupMsg1([ap EXCEPT !.retry = r], gtk) /\ timer' = TRUE
    <3>1. ap' \in Entries(nonces) /\ ap'.state = ap.state BY <1>4, <2>1, <2>3, GroupTypes
    <3>2. QED BY <1>0, <1>5, <2>3, <3>1
  <2>4. QED BY <1>5, <2>2, <2>3
<1>6. ASSUME r <= Tries PROVE r \in Retries
  BY <1>0, <1>6, WpaAssumption DEF Retries, Entries, Msg3Ctr, GroupCtr
<1>7. CASE r <= Tries /\ Start4Way([ap EXCEPT !.retry = r]) /\ UNCHANGED sta
  <2>1. ap' \in Entries(nonces') /\ nonces' = nonces + 1 /\ timer' = TRUE /\ ap'.state = "ptkstart"
    BY <1>4, <1>6, <1>7, StartTypes
  <2>2. sta' \in Peers(nonces', gtk) BY <1>0, <1>7, <2>1, EntriesGrow
  <2>3. QED BY <1>0, <2>1, <2>2
<1>8. CASE r <= Tries /\ ap' = [ap EXCEPT !.retry = r] /\ timer' = FALSE
           /\ UNCHANGED <<nonces, sta>>
  BY <1>0, <1>4, <1>6, <1>8
<1>9. QED BY <1>1, <1>3, <1>5, <1>7, <1>8 DEF Retry

LEMMA RekeyTyped ==
    ASSUME IInv, Rekey \/ RekeyInstall PROVE Types'
<1> USE DEF IInv, Types, group, net
<1>0. nonces \in Nat /\ ap \in Entries(nonces) /\ MaxRekey \in Nat BY WpaAssumption
<1>1. CASE Rekey
  <2>1. UNCHANGED <<wpa2, timer, doing, sta, hw, nonces>> /\ gtk' = gtk + 1 /\ countdown' = 2
        /\ gtk <= MaxRekey
    BY <1>1 DEF Rekey
  <2>2. ap' \in Entries(nonces) /\ ap'.state = ap.state /\ missed' \in BOOLEAN
    <3>1. CASE ap.state = "done"
      <4>0. FALSE \in BOOLEAN OBVIOUS
      <4>1. [ap EXCEPT !.gtkDone = FALSE] \in Entries(nonces) BY <1>0, <4>0, ApWritten
      <4>a. [ap EXCEPT !.gtkDone = FALSE].state = ap.state BY <1>0 DEF Entries
      <4>2. GroupMsg1([ap EXCEPT !.gtkDone = FALSE], gtk') BY <1>1, <3>1 DEF Rekey
      <4>3. ap' \in Entries(nonces) /\ ap'.state = ap.state BY <4>1, <4>a, <4>2, GroupTypes
      <4>4. missed' = (doing # "none") BY <1>1, <3>1 DEF Rekey
      <4>5. QED BY <4>3, <4>4
    <3>2. CASE ap.state # "done"
      <4>1. ap' = ap /\ missed' = (missed \/ (wpa2 /\ ap.state = "negotiating"))
        BY <1>1, <3>2 DEF Rekey
      <4>2. QED BY <1>0, <4>1
    <3>3. QED BY <3>1, <3>2
  <2>3. gtk' \in 1 .. (MaxRekey + 1) /\ hw' \in 1 .. gtk' /\ countdown' \in Nat
    BY <1>0, <2>1
  <2>4. sta' \in Peers(nonces, gtk')
    <3>1. 0 .. gtk \subseteq 0 .. gtk' BY <1>0, <2>1
    <3>2. QED BY <2>1, <3>1 DEF Peers
  <2>5. QED BY <2>1, <2>2, <2>3, <2>4
<1>2. CASE RekeyInstall
  <2>1. UNCHANGED <<wpa2, ap, timer, doing, sta, gtk, nonces, missed>> BY <1>2 DEF RekeyInstall
  <2>2. countdown' \in Nat /\ hw' \in 1 .. gtk BY <1>0, <1>2 DEF RekeyInstall
  <2>3. QED BY <2>1, <2>2
<1>3. QED BY <1>1, <1>2

LEMMA PeerTyped ==
    ASSUME IInv, PeerAnswer \/ PeerLeaves PROVE Types'
<1> USE DEF IInv, Types, group, net
<1>0. nonces \in Nat /\ gtk \in Nat /\ gtk \in 0 .. gtk /\ sta \in Peers(nonces, gtk) BY WpaAssumption
<1>1. UNCHANGED <<wpa2, ap, timer, doing, down, gtk, hw, countdown, missed>>
  BY DEF PeerAnswer, PeerLeaves
<1>2. SUFFICES /\ nonces' \in {nonces, nonces + 1}
               /\ sta' \in Peers(nonces', gtk)
  <2>1. ap' \in Entries(nonces') BY <1>0, <1>1, <1>2, EntriesGrow
  <2>2. QED BY <1>0, <1>1, <1>2, <2>1
<1>3. CASE PeerLeaves
  <2>1. sta' = NoPeer /\ nonces' = nonces BY <1>3 DEF PeerLeaves
  <2>2. QED BY <1>0, <2>1, NewEntries
<1>4. CASE Drop BY <1>0, <1>4 DEF Drop
<1>5. ASSUME NEW m \in Heard("m1"), PeerMsg1(m), ~(m.ctr <= sta.ctr)
      PROVE  nonces' = nonces + 1 /\ sta' \in Peers(nonces', gtk)
  <2> DEFINE n == nonces + 1
             e1 == [sta EXCEPT !.ctr = m.ctr]
             e2 == [e1 EXCEPT !.anonce = m.nonce]
             e3 == [e2 EXCEPT !.ptk = <<m.nonce, n>>]
  <2>1. m \in Msg1s BY DEF Frames, Msg1s, Msg3s, Group1s, Heard
  <2>2. m.ctr \in Nat /\ m.nonce \in 0 .. n /\ n \in Nat /\ n \in 0 .. n
    BY <1>0, <2>1 DEF Msg1s, Drawn
  <2>3. <<m.nonce, n>> \in Pairs(n) BY <2>2, PairFacts
  <2>4. sta \in Peers(n, gtk) BY <1>0, EntriesGrow
  <2>5. e1 \in Peers(n, gtk) BY <1>0, <2>2, <2>4, PeerWritten
  <2>6. e2 \in Peers(n, gtk) BY <1>0, <2>2, <2>5, PeerWritten
  <2>7. e3 \in Peers(n, gtk) BY <1>0, <2>2, <2>3, <2>6, PeerWritten
  <2>8. sta' = [e3 EXCEPT !.state = "negotiating"] /\ nonces' = n BY <1>5 DEF PeerMsg1
  <2>9. QED BY <1>0, <2>2, <2>7, <2>8, PeerWritten
<1>6. ASSUME NEW m \in Heard("m3"), PeerMsg3(m), ~(m.ctr <= sta.ctr), m.mic = sta.ptk
      PROVE  nonces' = nonces /\ sta' \in Peers(nonces', gtk)
  <2> DEFINE e1 == [sta EXCEPT !.ctr = m.ctr]
             s == [e1 EXCEPT !.gtk = IF wpa2 THEN m.gtk ELSE sta.gtk]
             e3 == [s EXCEPT !.state = "done"]
             e4 == [e3 EXCEPT !.key = sta.ptk]
  <2>1. m \in Msg3s BY DEF Frames, Msg1s, Msg3s, Group1s, Heard
  <2>2. m.ctr \in Nat /\ m.gtk \in 0 .. gtk BY <1>0, <2>1 DEF Msg3s
  <2>3. sta.gtk \in 0 .. gtk /\ sta.ptk \in Pairs(nonces) BY DEF Peers
  <2>4. e1 \in Peers(nonces, gtk) BY <1>0, <2>2, PeerWritten
  <2>5. s \in Peers(nonces, gtk) BY <1>0, <2>2, <2>3, <2>4, PeerWritten
  <2>6. e4 \in Peers(nonces, gtk) BY <1>0, <2>3, <2>5, PeerWritten
  <2>7. s = [sta EXCEPT !.ctr = m.ctr, !.gtk = IF wpa2 THEN m.gtk ELSE @] BY DEF Peers
  <2>8. CASE m.nonce # sta.anonce BY <1>6, <2>5, <2>7, <2>8 DEF PeerMsg3
  <2>9. CASE m.nonce = sta.anonce
    <3> DEFINE e5 == [e4 EXCEPT !.port = e4.port \/ wpa2]
    <3>1. e4.port \in BOOLEAN BY <2>6 DEF Peers
    <3>2. (e4.port \/ wpa2) \in BOOLEAN BY <3>1
    <3>3. e5 \in Peers(nonces, gtk) BY <1>0, <2>6, <3>2, PeerWritten
    <3>4. (~wpa2) \in BOOLEAN OBVIOUS
    <3>5. [e5 EXCEPT !.timer = ~wpa2] \in Peers(nonces, gtk) BY <1>0, <3>3, <3>4, PeerWritten
    <3>6. sta' = [e5 EXCEPT !.timer = ~wpa2] /\ nonces' = nonces
      BY <1>6, <2>7, <2>9 DEF PeerMsg3
    <3>7. QED BY <3>5, <3>6
  <2>10. QED BY <2>8, <2>9
<1>7. ASSUME NEW m \in Heard("g1"), PeerGroupMsg1(m), ~(m.ctr <= sta.ctr), m.mic = sta.ptk
      PROVE  nonces' = nonces /\ sta' \in Peers(nonces', gtk)
  <2> DEFINE e1 == [sta EXCEPT !.ctr = m.ctr]
             e2 == [e1 EXCEPT !.gtk = m.gtk]
             e3 == [e2 EXCEPT !.port = TRUE]
  <2>1. m \in Group1s BY DEF Frames, Msg1s, Msg3s, Group1s, Heard
  <2>2. m.ctr \in Nat /\ m.gtk \in 0 .. gtk BY <1>0, <2>1 DEF Group1s
  <2>3. e2 \in Peers(nonces, gtk) BY <1>0, <2>2, PeerWritten
  <2>4. e3 \in Peers(nonces, gtk) BY <1>0, <2>3, PeerWritten
  <2>5. sta' = [e3 EXCEPT !.timer = FALSE] /\ nonces' = nonces BY <1>7 DEF PeerGroupMsg1
  <2>6. QED BY <1>0, <2>4, <2>5, PeerWritten
<1>8. QED BY <1>3, <1>4, <1>5, <1>6, <1>7 DEF PeerAnswer, PeerMsg1, PeerMsg3, PeerGroupMsg1

LEMMA TypesKept == IInv /\ [Next]_vars => Types'
<1> SUFFICES ASSUME IInv, [Next]_vars PROVE Types' OBVIOUS
<1>1. CASE UNCHANGED vars BY <1>1 DEF IInv, Types, vars, Entries, Peers, Pairs
<1>2. QED BY <1>1, StartTyped, ActTyped, RetryTyped, RekeyTyped, PeerTyped DEF Next

-----------------------------------------------------------------------------
(***************************************************************************)
(* Frames, and the stages of the AP's entry.                               *)
(***************************************************************************)
Fields == /\ nonces \in Nat /\ gtk \in Nat /\ wpa2 \in BOOLEAN /\ missed \in BOOLEAN
          /\ doing \in {"none", "m2", "m4", "g2"}
          /\ ap.state \in {"none", "initpsk", "ptkstart", "negotiating", "done"}
          /\ ap.ctr \in Nat /\ Anonce \in 0 .. nonces /\ ap.retry \in Retries
          /\ ap.gtkDone \in BOOLEAN
          /\ sta.state \in {"none", "ptkstart", "negotiating", "done"}
          /\ sta.ctr \in Nat /\ sta.anonce \in 0 .. nonces /\ sta.gtk \in 0 .. gtk
          /\ Ptk[1] \in 0 .. nonces /\ sta.ptk[1] \in 0 .. nonces

LEMMA FieldTypes == (Types => Fields) /\ (Types' => Fields')
<1>1. Types => Fields BY WpaAssumption DEF Types, Entries, Peers, Fields, Pairs, Anonce, Ptk, NoKey
<1>2. Types' => Fields' BY WpaAssumption DEF Types, Entries, Peers, Fields, Pairs, Anonce, Ptk,
        NoKey
<1>3. QED BY <1>1, <1>2

LEMMA FrameTypes ==
    ASSUME IInv
    PROVE  /\ \A m \in Heard("m1") : m \in Msg1s /\ m.t = "m1" /\ m.ctr \in Nat /\ m.nonce \in Drawn
           /\ \A m \in Heard("m3") : m \in Msg3s /\ m.t = "m3" /\ m.ctr \in Nat /\ m.nonce \in Drawn
                                     /\ m.mic \in Keys /\ m.gtk \in 1 .. gtk
           /\ \A m \in Heard("g1") : m \in Group1s /\ m.t = "g1" /\ m.ctr \in Nat /\ m.mic \in Keys
                                     /\ m.gtk \in 1 .. gtk
           /\ \A m \in Received("m2") : m \in Msg2s /\ m.t = "m2" /\ m.ctr \in Nat
                                        /\ m.nonce \in Drawn /\ m.mic \in Keys
           /\ \A m \in Received("m4") \cup Received("g2") :
                 m \in Replies /\ m.t \in {"m4", "g2"} /\ m.ctr \in Nat /\ m.mic \in Keys
BY DEF IInv, Frames, Heard, Received, Msg1s, Msg3s, Group1s, Msg2s, Replies

LEMMA KeyFacts ==
    ASSUME Types
    PROVE  /\ \A k \in Keys : k # NoKey /\ k[1] \in Drawn /\ k[2] \in Drawn /\ k[1] # 0
                              /\ k \in Pairs(nonces)
           /\ \A x, y \in Drawn : <<x, y>> \in Keys /\ <<x, y>>[1] = x /\ <<x, y>>[2] = y
           /\ NoKey[1] = 0
BY DEF Types, Keys, Drawn, NoKey, Pairs

\* What only grows.
LEMMA Grows ==
    ASSUME IInv, Move
    PROVE  /\ nonces' \in {nonces, nonces + 1} /\ gtk' \in {gtk, gtk + 1} /\ wpa2' = wpa2
           /\ down \subseteq down' /\ up \subseteq up'
           /\ Drawn \subseteq Drawn' /\ Keys \subseteq Keys' /\ 1 .. gtk \subseteq 1 .. gtk'
<1>1. /\ nonces' \in {nonces, nonces + 1} /\ gtk' \in {gtk, gtk + 1} /\ wpa2' = wpa2
      /\ down \subseteq down' /\ up \subseteq up'
  BY DEF Move, Joined, Started, Taken2, Taken, Sent3, Installed2, Installed, Repeated, Rekeyed,
         RekeyedElse, Confirmed, Dropped, Gone, Counted, Heard1, Heard3, HeardG, Quit, Quiet,
         Offered, NetSame, GroupSame
<1>2. nonces \in Nat /\ gtk \in Nat BY FieldTypes DEF IInv, Fields
<1>3. Drawn \subseteq Drawn' /\ 1 .. gtk \subseteq 1 .. gtk' BY <1>1, <1>2 DEF Drawn
<1>4. Keys \subseteq Keys' BY <1>3 DEF Keys
<1>5. QED BY <1>1, <1>3, <1>4

\* A frame sent anew.
NewDown ==
    {m \in down' : m \notin down}
NewUp ==
    {m \in up' : m \notin up}

LEMMA FramesKept ==
    ASSUME IInv, Types', Move PROVE Frames'
<1>1. /\ nonces' \in {nonces, nonces + 1} /\ gtk' \in {gtk, gtk + 1}
      /\ Drawn \subseteq Drawn' /\ Keys \subseteq Keys' /\ 1 .. gtk \subseteq 1 .. gtk'
      /\ Fields /\ Fields'
  BY Grows, FieldTypes DEF IInv
<1>2. Msg1s \subseteq Msg1s' /\ Msg3s \subseteq Msg3s' /\ Group1s \subseteq Group1s'
      /\ Msg2s \subseteq Msg2s' /\ Replies \subseteq Replies'
  BY <1>1 DEF Msg1s, Msg3s, Group1s, Msg2s, Replies
<1>3. SUFFICES NewDown \subseteq Msg1s' \cup Msg3s' \cup Group1s' /\ NewUp \subseteq Msg2s' \cup Replies'
  BY <1>2 DEF IInv, Frames, NewDown, NewUp
<1>4. CASE Started
  <2>1. PICK c \in Nat : down' = down \cup {[t |-> "m1", ctr |-> c, nonce |-> nonces + 1]}
    BY <1>4 DEF Started
  <2>2. nonces + 1 \in Drawn' BY <1>1, <1>4 DEF Started, Drawn, Fields
  <2>3. NewUp = {} BY <1>4 DEF Started, NewUp
  <2>4. QED BY <2>1, <2>2, <2>3 DEF NewDown, Msg1s
<1>5. CASE Sent3
  <2>1. ap.ctr + 1 \in Nat /\ Ptk \in Keys /\ Anonce \in Drawn /\ gtk \in 1 .. gtk
    BY <1>1, <1>5 DEF Sent3, IInv, Stages, Fields, Drawn, Types
  <2>2. NewUp = {} BY <1>5 DEF Sent3, NewUp
  <2>3. [t |-> "m3", ctr |-> ap.ctr + 1, nonce |-> Anonce, mic |-> Ptk, gtk |-> gtk] \in Msg3s
    BY <2>1 DEF Msg3s
  <2>4. QED BY <1>2, <1>5, <2>2, <2>3 DEF NewDown, Sent3
<1>6. CASE Installed \/ Repeated \/ Rekeyed
  <2>1. Ptk \in Keys BY <1>6 DEF Installed, Repeated, Rekeyed, IInv, Stages, Under
  <2>2. ap.ctr + 1 \in Nat /\ gtk' \in 1 .. gtk' BY <1>1 DEF Fields, Types
  <2>3. down' = down \cup {[t |-> "g1", ctr |-> ap.ctr + 1, mic |-> Ptk, gtk |-> gtk']} /\ up' = up
    BY <1>6 DEF Installed, Repeated, Rekeyed, Offered
  <2>4. [t |-> "g1", ctr |-> ap.ctr + 1, mic |-> Ptk, gtk |-> gtk'] \in Group1s'
    BY <1>1, <2>1, <2>2 DEF Group1s
  <2>5. QED BY <2>3, <2>4 DEF NewDown, NewUp
<1>7. CASE Heard1
  <2>1. PICK m \in Heard("m1") :
           up' = up \cup {[t |-> "m2", ctr |-> m.ctr, nonce |-> nonces + 1,
                           mic |-> <<m.nonce, nonces + 1>>]}
    BY <1>7 DEF Heard1
  <2>2. m.ctr \in Nat /\ m.nonce \in Drawn BY FrameTypes
  <2>3. nonces' = nonces + 1 /\ down' = down BY <1>7 DEF Heard1
  <2>4. nonces + 1 \in Drawn' /\ m.nonce \in Drawn' BY <1>1, <2>2, <2>3 DEF Drawn, Fields
  <2>5. <<m.nonce, nonces + 1>> \in Keys' BY <2>4 DEF Keys
  <2>6. [t |-> "m2", ctr |-> m.ctr, nonce |-> nonces + 1, mic |-> <<m.nonce, nonces + 1>>] \in Msg2s'
    BY <2>2, <2>4, <2>5 DEF Msg2s
  <2>7. QED BY <2>1, <2>3, <2>6 DEF NewDown, NewUp
<1>8. CASE Heard3 \/ HeardG
  <2>1. down' = down BY <1>8 DEF Heard3, HeardG
  <2>2. \E c \in Nat : up' = up \/ (/\ sta.ptk \in Keys
                                    /\ \/ up' = up \cup {[t |-> "m4", ctr |-> c, mic |-> sta.ptk]}
                                       \/ up' = up \cup {[t |-> "g2", ctr |-> c, mic |-> sta.ptk]})
    BY <1>8, FrameTypes DEF Heard3, HeardG
  <2>3. \A c \in Nat : sta.ptk \in Keys => /\ [t |-> "m4", ctr |-> c, mic |-> sta.ptk] \in Replies
                                           /\ [t |-> "g2", ctr |-> c, mic |-> sta.ptk] \in Replies
    BY DEF Replies
  <2>4. QED BY <1>2, <2>1, <2>2, <2>3 DEF NewDown, NewUp
<1>9. CASE NetSame BY <1>9 DEF NetSame, NewDown, NewUp
<1>10. QED
  BY <1>4, <1>5, <1>6, <1>7, <1>8, <1>9
  DEF Move, Joined, Taken2, Taken, Installed2, RekeyedElse, Confirmed, Dropped, Gone, Counted,
      Quit, Quiet

LEMMA StagesKept ==
    ASSUME IInv, Types', Move PROVE Stages'
<1>1. Fields /\ Fields' /\ Drawn \subseteq Drawn' /\ Keys \subseteq Keys'
  BY Grows, FieldTypes DEF IInv
<1> USE <1>1, KeyFacts DEF Stages, IInv, Fields, ApIs, StaIs, ApSame, StaSame, NetSame, GroupSame,
        Under, GroupCtr, Msg3Ctr, Msg1Ctr, NoKey
<1>2. CASE Joined BY <1>2 DEF Joined
<1>3. CASE Started BY <1>3, WpaAssumption DEF Started
<1>4. CASE Taken2
  <2>1. PICK m \in Received("m2") :
       /\ doing = "none" /\ ap.state \in {"ptkstart", "negotiating", "done"}
       /\ ApIs(ap.state, ap.ctr, Anonce, <<Anonce, m.nonce>>, ap.retry, ap.key, ap.gtkDone)
       /\ \/ doing' = "none"
          \/ doing' = "m2" /\ m.ctr = ap.ctr /\ m.mic = <<Anonce, m.nonce>>
       /\ StaSame /\ GroupSame /\ NetSame
    BY <1>4 DEF Taken2
  <2>2. m.nonce \in Drawn /\ Anonce \in Drawn BY <2>1, FrameTypes DEF Drawn
  <2>3. <<Anonce, m.nonce>> \in Keys /\ <<Anonce, m.nonce>>[1] = Anonce BY <2>2
  <2>4. ASSUME doing' = "m2" PROVE ap.state = "ptkstart"
    <3>1. m.mic[1] = Anonce /\ m.ctr = ap.ctr BY <2>1, <2>4
    <3>2. Of(m.ctr, m.mic[1]) BY DEF Nonces
    <3>3. QED BY <3>1, <3>2 DEF Of
  <2>5. QED BY <2>1, <2>2, <2>3, <2>4
<1>5. CASE Taken
  <2>1. ASSUME doing' = "m4" PROVE Ptk[1] = Anonce
    <3>1. PICK a \in Received("m4") : a.ctr = ap.ctr /\ a.mic = Ptk BY <1>5, <2>1 DEF Taken
    <3>2. PICK m \in Heard("m3") : m.nonce = a.mic[1] BY DEF Answers
    <3>3. QED BY <3>1, <3>2 DEF OneMsg3
  <2>2. QED BY <1>5, <2>1 DEF Taken
<1>6. CASE Sent3 BY <1>6 DEF Sent3
<1>7. CASE Installed2 BY <1>7 DEF Installed2
<1>8. CASE Installed BY <1>8 DEF Installed, Offered
<1>9. CASE Repeated BY <1>9 DEF Repeated, Offered
<1>10. CASE Rekeyed BY <1>10 DEF Rekeyed, Offered
<1>11. CASE RekeyedElse BY <1>11 DEF RekeyedElse
<1>12. CASE Confirmed BY <1>12 DEF Confirmed
<1>13. CASE Dropped BY <1>13 DEF Dropped
<1>14. CASE Gone BY <1>14 DEF Gone
<1>15. CASE Counted BY <1>15, WpaAssumption DEF Counted
<1>16. CASE Heard1 BY <1>16 DEF Heard1
<1>17. CASE Heard3 BY <1>17 DEF Heard3
<1>18. CASE HeardG BY <1>18 DEF HeardG
<1>19. CASE Quit BY <1>19 DEF Quit
<1>20. CASE Quiet BY <1>20 DEF Quiet
<1>21. QED BY <1>2, <1>3, <1>4, <1>5, <1>6, <1>7, <1>8, <1>9, <1>10, <1>11, <1>12, <1>13, <1>14,
              <1>15, <1>16, <1>17, <1>18, <1>19, <1>20 DEF Move

-----------------------------------------------------------------------------
(***************************************************************************)
(* The frames of each kind after a step.                                   *)
(***************************************************************************)
LEMMA NetKept ==
    ASSUME NetSame
    PROVE  /\ Heard("m1")' = Heard("m1") /\ Heard("m3")' = Heard("m3") /\ Heard("g1")' = Heard("g1")
           /\ Received("m2")' = Received("m2") /\ Received("m4")' = Received("m4")
           /\ Received("g2")' = Received("g2")
BY DEF NetSame, Heard, Received

LEMMA UpKept ==
    ASSUME up' = up
    PROVE  /\ Received("m2")' = Received("m2") /\ Received("m4")' = Received("m4")
           /\ Received("g2")' = Received("g2")
BY DEF Received

LEMMA DownKept ==
    ASSUME down' = down
    PROVE  Heard("m1")' = Heard("m1") /\ Heard("m3")' = Heard("m3") /\ Heard("g1")' = Heard("g1")
BY DEF Heard

LEMMA DownM1 ==
    ASSUME NEW c, NEW n, down' = down \cup {[t |-> "m1", ctr |-> c, nonce |-> n]}
    PROVE  /\ Heard("m1")' = Heard("m1") \cup {[t |-> "m1", ctr |-> c, nonce |-> n]}
           /\ Heard("m3")' = Heard("m3") /\ Heard("g1")' = Heard("g1")
BY DEF Heard

LEMMA DownM3 ==
    ASSUME NEW c, NEW n, NEW k, NEW g,
           down' = down \cup {[t |-> "m3", ctr |-> c, nonce |-> n, mic |-> k, gtk |-> g]}
    PROVE  /\ Heard("m3")' = Heard("m3") \cup {[t |-> "m3", ctr |-> c, nonce |-> n, mic |-> k, gtk |-> g]}
           /\ Heard("m1")' = Heard("m1") /\ Heard("g1")' = Heard("g1")
BY DEF Heard

LEMMA DownG1 ==
    ASSUME NEW c, NEW k, NEW g,
           down' = down \cup {[t |-> "g1", ctr |-> c, mic |-> k, gtk |-> g]}
    PROVE  /\ Heard("g1")' = Heard("g1") \cup {[t |-> "g1", ctr |-> c, mic |-> k, gtk |-> g]}
           /\ Heard("m1")' = Heard("m1") /\ Heard("m3")' = Heard("m3")
BY DEF Heard

LEMMA UpM2 ==
    ASSUME NEW c, NEW n, NEW k,
           up' = up \cup {[t |-> "m2", ctr |-> c, nonce |-> n, mic |-> k]}
    PROVE  /\ Received("m2")' = Received("m2") \cup {[t |-> "m2", ctr |-> c, nonce |-> n, mic |-> k]}
           /\ Received("m4")' = Received("m4") /\ Received("g2")' = Received("g2")
BY DEF Received

LEMMA UpM4 ==
    ASSUME NEW c, NEW k, up' = up \cup {[t |-> "m4", ctr |-> c, mic |-> k]}
    PROVE  /\ Received("m4")' = Received("m4") \cup {[t |-> "m4", ctr |-> c, mic |-> k]}
           /\ Received("m2")' = Received("m2") /\ Received("g2")' = Received("g2")
BY DEF Received

LEMMA UpG2 ==
    ASSUME NEW c, NEW k, up' = up \cup {[t |-> "g2", ctr |-> c, mic |-> k]}
    PROVE  /\ Received("g2")' = Received("g2") \cup {[t |-> "g2", ctr |-> c, mic |-> k]}
           /\ Received("m2")' = Received("m2") /\ Received("m4")' = Received("m4")
BY DEF Received

-----------------------------------------------------------------------------
LEMMA NoncesKept ==
    ASSUME IInv, Types', Move PROVE Nonces'
<1>1. Fields /\ Fields' /\ Stages BY FieldTypes DEF IInv
<1>2. /\ \A m \in Heard("m1") : m.ctr \in Nat /\ m.nonce \in 1 .. nonces
      /\ \A m \in Received("m2") : m.ctr \in Nat /\ m.mic[1] \in 1 .. nonces
  BY FrameTypes, KeyFacts DEF IInv, Drawn
<1>3. /\ \A m \in Heard("m1") : Of(m.ctr, m.nonce)
      /\ \A m \in Received("m2") : Of(m.ctr, m.mic[1])
  BY DEF IInv, Nonces
<1> HIDE DEF Nonces
<1> USE <1>1, <1>2, <1>3 DEF Fields, ApIs, ApSame
\* A step on which the AP's nonce, counter and stage go on as Of has it.
<1>4. ASSUME NetSame \/ (down' = down /\ Received("m2")' = Received("m2"))
                     \/ (Heard("m1")' = Heard("m1") /\ up' = up),
             \A c \in Nat, n \in 1 .. nonces : Of(c, n) => Of(c, n)'
      PROVE  Nonces'
  <2>1. Heard("m1")' = Heard("m1") /\ Received("m2")' = Received("m2")
    BY <1>4, NetKept, UpKept, DownKept
  <2>2. QED BY <1>4, <2>1 DEF Nonces, Of
<1>5. CASE Joined \/ Gone
  <2>1. Anonce' = 0 /\ NetSame BY <1>5 DEF Joined, Gone
  <2>2. QED BY <1>4, <2>1 DEF Of
<1>6. CASE Started
  <2>1. PICK c \in Nat : /\ down' = down \cup {[t |-> "m1", ctr |-> c, nonce |-> nonces + 1]}
                         /\ ap'.state = "ptkstart" /\ ap'.ctr = c /\ Anonce' = nonces + 1
    BY <1>6 DEF Started
  <2>2. Received("m2")' = Received("m2") BY <1>6, UpKept DEF Started
  <2>3. Heard("m1")' = Heard("m1") \cup {[t |-> "m1", ctr |-> c, nonce |-> nonces + 1]}
    BY <2>1, DownM1
  <2>4. QED BY <2>1, <2>2, <2>3 DEF Nonces, Of
<1>7. CASE Sent3
  <2>1. ap.state = "ptkstart" /\ ap'.state = "negotiating" /\ ap'.ctr = ap.ctr + 1
        /\ Anonce' = Anonce
    BY <1>7 DEF Sent3, Stages
  <2>2. Heard("m1")' = Heard("m1") /\ up' = up BY <1>7, DownM3 DEF Sent3
  <2>3. QED BY <1>4, <2>1, <2>2 DEF Of
<1>8. CASE Installed \/ Repeated \/ Rekeyed
  <2>1. ap.state \in {"negotiating", "done"} /\ ap'.state = "done" /\ ap'.ctr = ap.ctr + 1
        /\ Anonce' = Anonce
    BY <1>8 DEF Installed, Repeated, Rekeyed, Offered, Stages, Under
  <2>2. Heard("m1")' = Heard("m1") /\ up' = up
    BY <1>8, DownG1 DEF Installed, Repeated, Rekeyed, Offered
  <2>3. QED BY <1>4, <2>1, <2>2 DEF Of
<1>9. CASE Installed2
  <2>1. ap.state \in {"negotiating", "done"} /\ ap'.state = "done" /\ ap'.ctr = ap.ctr
        /\ Anonce' = Anonce /\ NetSame
    BY <1>9 DEF Installed2, Stages, Under
  <2>2. QED BY <1>4, <2>1 DEF Of
<1>10. CASE Heard1
  <2>1. PICK m \in Heard("m1") :
           up' = up \cup {[t |-> "m2", ctr |-> m.ctr, nonce |-> nonces + 1,
                           mic |-> <<m.nonce, nonces + 1>>]}
    BY <1>10 DEF Heard1
  <2>2. Heard("m1")' = Heard("m1") BY <1>10, DownKept DEF Heard1
  <2>3. Received("m2")' = Received("m2") \cup {[t |-> "m2", ctr |-> m.ctr, nonce |-> nonces + 1,
                                                mic |-> <<m.nonce, nonces + 1>>]}
    BY <2>1, UpM2
  <2>4. ApSame BY <1>10 DEF Heard1
  <2>5. QED BY <2>2, <2>3, <2>4 DEF Nonces, Of
<1>11. CASE Heard3 \/ HeardG
  <2>1. ApSame /\ down' = down BY <1>11 DEF Heard3, HeardG
  <2>2. Received("m2")' = Received("m2") BY <1>11, UpM4, UpG2, UpKept DEF Heard3, HeardG
  <2>3. QED BY <1>4, <2>1, <2>2 DEF Of
<1>12. CASE Taken2 \/ Taken \/ RekeyedElse \/ Confirmed \/ Dropped \/ Counted \/ Quit \/ Quiet
  <2>1. NetSame /\ ap'.state = ap.state /\ ap'.ctr = ap.ctr /\ Anonce' = Anonce
    BY <1>12 DEF Taken2, Taken, RekeyedElse, Confirmed, Dropped, Counted, Quit, Quiet
  <2>2. QED BY <1>4, <2>1 DEF Of
<1>13. QED BY <1>5, <1>6, <1>7, <1>8, <1>9, <1>10, <1>11, <1>12 DEF Move

LEMMA OneMsg3Kept ==
    ASSUME IInv, Types', Move PROVE OneMsg3'
<1>1. Fields /\ Fields' /\ Stages /\ OneMsg3 BY FieldTypes DEF IInv
<1>2. \A m \in Heard("m3") : m.nonce \in 1 .. nonces
  BY FrameTypes DEF IInv, Drawn
<1> USE <1>1, <1>2 DEF Fields, ApIs, ApSame, Under
<1>4. ASSUME Heard("m3")' = Heard("m3"),
             \A n \in 1 .. nonces :
                /\ n = Anonce' => n = Anonce /\ (ap.state \in Under => ap'.state \in Under)
                /\ n = Ptk'[1] => n = Anonce' \/ (n = Ptk[1] /\ Anonce' = Anonce)
      PROVE  OneMsg3'
  BY <1>4 DEF OneMsg3
<1>5. CASE Joined \/ Gone
  <2>1. Anonce' = 0 /\ Ptk'[1] = 0 /\ NetSame BY <1>5 DEF Joined, Gone, NoKey
  <2>2. QED BY <1>4, <2>1, NetKept
<1>6. CASE Started
  <2>1. Heard("m3")' = Heard("m3") BY <1>6, DownM1 DEF Started
  <2>2. Anonce' = nonces + 1 /\ Ptk' = Ptk /\ ap.state \notin Under BY <1>6 DEF Started
  <2>3. \A m \in Heard("m3") : m.nonce # Anonce /\ m.nonce # Ptk[1]
    BY <2>2 DEF OneMsg3
  <2>4. QED BY <2>1, <2>2, <2>3 DEF OneMsg3
<1>7. CASE Taken2
  <2>1. NetSame /\ Anonce' = Anonce /\ ap'.state = ap.state
    BY <1>7 DEF Taken2
  <2>2. Ptk'[1] = Anonce BY <1>7 DEF Taken2
  <2>3. QED BY <1>4, <2>1, <2>2, NetKept
<1>8. CASE Sent3
  <2> DEFINE new == [t |-> "m3", ctr |-> ap.ctr + 1, nonce |-> Anonce, mic |-> Ptk, gtk |-> gtk]
  <2>1. ap.state = "ptkstart" /\ ap'.state = "negotiating" /\ Anonce' = Anonce
        /\ Ptk' = Ptk
    BY <1>8 DEF Sent3, Stages
  <2>2. Heard("m3")' = Heard("m3") \cup {new} BY <1>8, DownM3 DEF Sent3
  <2>3. \A m \in Heard("m3") : m.nonce # Anonce BY <2>1 DEF OneMsg3
  <2>4. new.nonce = Anonce OBVIOUS
  <2> HIDE DEF new
  <2>5. QED BY <2>1, <2>2, <2>3, <2>4 DEF OneMsg3
<1>9. CASE Installed \/ Repeated \/ Rekeyed \/ Installed2
  <2>1. ap.state \in Under /\ ap'.state = "done" /\ Anonce' = Anonce /\ Ptk' = Ptk
    BY <1>9 DEF Installed, Installed2, Repeated, Rekeyed, Offered, Stages
  <2>2. Heard("m3")' = Heard("m3")
    BY <1>9, DownG1, NetKept DEF Installed, Installed2, Repeated, Rekeyed, Offered
  <2>3. QED BY <1>4, <2>1, <2>2
<1>10. CASE Heard1 \/ Heard3 \/ HeardG
  <2>1. ApSame /\ Heard("m3")' = Heard("m3") BY <1>10, DownKept DEF Heard1, Heard3, HeardG
  <2>2. QED BY <1>4, <2>1
<1>11. CASE Taken \/ RekeyedElse \/ Confirmed \/ Dropped \/ Counted \/ Quit \/ Quiet
  <2>1. NetSame /\ ap'.state = ap.state /\ Anonce' = Anonce /\ Ptk' = Ptk
    BY <1>11 DEF Taken, RekeyedElse, Confirmed, Dropped, Counted, Quit, Quiet
  <2>2. QED BY <1>4, <2>1, NetKept
<1>12. QED BY <1>5, <1>6, <1>7, <1>8, <1>9, <1>10, <1>11 DEF Move

-----------------------------------------------------------------------------
LEMMA AnswersKept ==
    ASSUME IInv, Types', Move PROVE Answers'
<1>1. Stages /\ Answers BY DEF IInv
<1>2. Heard("m3") \subseteq Heard("m3")' /\ Heard("g1") \subseteq Heard("g1")' BY Grows DEF Heard
<1>3. ASSUME Received("m4")' = Received("m4"), Received("g2")' = Received("g2") PROVE Answers'
  BY <1>1, <1>2, <1>3 DEF Answers
<1>4. CASE Heard1
  <2>1. Received("m4")' = Received("m4") /\ Received("g2")' = Received("g2")
    BY <1>4, UpM2 DEF Heard1
  <2>2. QED BY <1>3, <2>1
<1>5. CASE Heard3
  <2>1. PICK m \in Heard("m3") :
           /\ m.mic = sta.ptk
           /\ \/ up' = up
              \/ m.nonce = sta.anonce /\ up' = up \cup {[t |-> "m4", ctr |-> m.ctr, mic |-> sta.ptk]}
    BY <1>5 DEF Heard3
  <2>2. CASE up' = up BY <1>3, <2>2, UpKept
  <2>3. CASE m.nonce = sta.anonce /\ up' = up \cup {[t |-> "m4", ctr |-> m.ctr, mic |-> sta.ptk]}
    <3>1. /\ Received("m4")' = Received("m4") \cup {[t |-> "m4", ctr |-> m.ctr, mic |-> sta.ptk]}
          /\ Received("g2")' = Received("g2")
      BY <2>3, UpM4
    <3>2. m.nonce = sta.ptk[1] BY <1>1, <2>3 DEF Stages
    <3>3. QED BY <1>1, <1>2, <2>1, <3>1, <3>2 DEF Answers
  <2>4. QED BY <2>1, <2>2, <2>3
<1>6. CASE HeardG
  <2>1. PICK m \in Heard("g1") :
           m.mic = sta.ptk /\ up' = up \cup {[t |-> "g2", ctr |-> m.ctr, mic |-> sta.ptk]}
    BY <1>6 DEF HeardG
  <2>2. /\ Received("g2")' = Received("g2") \cup {[t |-> "g2", ctr |-> m.ctr, mic |-> sta.ptk]}
        /\ Received("m4")' = Received("m4")
    BY <2>1, UpG2
  <2>3. QED BY <1>1, <1>2, <2>1, <2>2 DEF Answers
<1>7. CASE up' = up BY <1>3, <1>7, UpKept
<1>8. QED
  BY <1>4, <1>5, <1>6, <1>7
  DEF Move, Joined, Started, Taken2, Taken, Sent3, Installed2, Installed, Repeated, Rekeyed,
      RekeyedElse, Confirmed, Dropped, Gone, Counted, Quit, Quiet, Offered, NetSame

\* The thread has in hand a message 4 made with the key that the station uses.
LEMMA Msg4Key ==
    ASSUME IInv, Both, NEW a \in Received("m4"), a.mic = Ptk, ap.state \in Under
    PROVE  sta.key = Ptk /\ sta.key # NoKey
<1>1. PICK m \in Heard("m3") : m.mic = a.mic /\ m.nonce = a.mic[1] BY DEF IInv, Answers
<1>2. Ptk[1] = Anonce /\ m.nonce = Anonce BY <1>1 DEF IInv, OneMsg3
<1>3. sta.key # NoKey BY <1>2 DEF IInv, StaKey
<1>4. PICK n \in Heard("m3") : n.nonce = Anonce /\ n.mic = sta.key BY <1>3 DEF IInv, StaKey
<1>5. m = n BY <1>2, <1>4 DEF IInv, OneMsg3
<1>6. QED BY <1>1, <1>3, <1>4, <1>5

LEMMA StaKeyKept ==
    ASSUME IInv, Types', Move PROVE StaKey'
<1>1. Fields /\ Fields' /\ Stages /\ OneMsg3 /\ StaKey /\ Answers BY FieldTypes DEF IInv
<1>2. /\ \A m \in Heard("m3") : m.nonce \in 1 .. nonces /\ m.mic # NoKey /\ m.mic[2] \in 1 .. nonces
      /\ \A a \in Received("m4") : a.mic[1] \in 1 .. nonces
      /\ NoKey[1] = 0
  BY FrameTypes, KeyFacts DEF IInv, Drawn
<1> USE <1>1, <1>2 DEF Fields, ApIs, ApSame, StaIs, StaSame, Under, Both
<1>4. CASE Joined
  <2>1. NetSame /\ doing' = "none" /\ Anonce' = 0 /\ ap'.state = "initpsk" /\ sta'.ptk = NoKey
        /\ sta'.key = NoKey
    BY <1>4 DEF Joined
  <2>2. QED BY <2>1, NetKept DEF StaKey
<1>5. CASE Gone \/ Quit
  <2>1. ~Both' BY <1>5 DEF Gone, Quit
  <2>2. QED BY <2>1 DEF StaKey
<1>6. CASE Started
  <2>1. Heard("m3")' = Heard("m3") /\ Received("m4")' = Received("m4")
    BY <1>6, DownM1, UpKept DEF Started
  <2>2. Anonce' = nonces + 1 /\ ap'.state = "ptkstart" /\ ap.state \notin Under /\ ap.state # "none"
        /\ doing' = doing /\ sta'.state = sta.state /\ sta'.ptk = sta.ptk /\ sta'.key = sta.key
    BY <1>6 DEF Started
  <2>3. \A m \in Heard("m3") : m.nonce # Anonce BY <2>2 DEF OneMsg3
  <2>4. doing # "m4" BY <2>2 DEF Stages
  <2>5. Both => sta.key = NoKey /\ \A m \in Heard("m3") : m.mic # sta.ptk
    BY <2>3 DEF StaKey
  <2>6. QED BY <2>1, <2>2, <2>4, <2>5 DEF StaKey
<1>7. CASE Taken2
  <2>1. NetSame /\ Anonce' = Anonce /\ ap'.state = ap.state /\ ap'.key = ap.key
        /\ doing' # "m4" /\ StaSame
    BY <1>7 DEF Taken2
  <2>2. QED BY <2>1, NetKept DEF StaKey
<1>8. CASE Taken
  <2>1. NetSame /\ ApSame /\ StaSame BY <1>8 DEF Taken
  <2>2. ASSUME doing' = "m4", Both PROVE sta.key = Ptk /\ sta.key # NoKey
    <3>1. PICK a \in Received("m4") : a.mic = Ptk /\ ap.state \in Under BY <1>8, <2>2 DEF Taken
    <3>2. QED BY <2>2, <3>1, Msg4Key
  <2>3. QED BY <2>1, <2>2, NetKept DEF StaKey
<1>9. CASE Sent3
  <2> DEFINE new == [t |-> "m3", ctr |-> ap.ctr + 1, nonce |-> Anonce, mic |-> Ptk, gtk |-> gtk]
  <2>1. Heard("m3")' = Heard("m3") \cup {new} /\ Received("m4")' = Received("m4")
    BY <1>9, DownM3, UpKept DEF Sent3
  <2>2. new.nonce = Anonce OBVIOUS
  <2>3. Anonce' = Anonce /\ ap'.state = "negotiating" /\ ap.state # "none" /\ doing' = "none"
        /\ StaSame
    BY <1>9 DEF Sent3
  <2> HIDE DEF new
  <2>4. QED BY <2>1, <2>2, <2>3 DEF StaKey
<1>10. CASE Installed \/ Installed2
  <2>1. /\ Heard("m3")' = Heard("m3") /\ Received("m4")' = Received("m4")
    BY <1>10, DownG1, NetKept, UpKept DEF Installed, Installed2, Offered
  <2>2. /\ Anonce' = Anonce /\ ap'.state = "done" /\ ap'.key = Ptk /\ ap.state # "none"
        /\ doing = "m4" /\ doing' = "none" /\ StaSame
    BY <1>10 DEF Installed, Installed2, Offered
  <2>3. QED BY <2>1, <2>2 DEF StaKey
<1>11. CASE Repeated \/ Rekeyed
  <2>1. /\ Heard("m3")' = Heard("m3") /\ Received("m4")' = Received("m4")
    BY <1>11, DownG1, UpKept DEF Repeated, Rekeyed, Offered
  <2>2. /\ Anonce' = Anonce /\ ap'.state = "done" /\ ap.state = "done" /\ ap'.key = ap.key
        /\ Ptk' = Ptk /\ doing' = doing /\ StaSame
    BY <1>11 DEF Repeated, Rekeyed, Offered
  <2>3. QED BY <2>1, <2>2 DEF StaKey
<1>12. CASE Heard1
  <2>1. Heard("m3")' = Heard("m3") BY <1>12, DownKept DEF Heard1
  <2>2. Received("m4")' = Received("m4") BY <1>12, UpM2 DEF Heard1
  <2>3. PICK n : sta'.ptk = <<n, nonces + 1>> BY <1>12 DEF Heard1
  <2>4. sta'.ptk[2] = nonces + 1 BY <2>3
  <2>5. \A m \in Heard("m3") : m.mic # sta'.ptk BY <2>4
  <2>6. ApSame /\ sta'.key = sta.key /\ doing' = doing /\ sta.state # "none" BY <1>12 DEF Heard1
  <2>7. QED BY <2>1, <2>2, <2>5, <2>6 DEF StaKey
<1>13. CASE Heard3
  <2>1. PICK m \in Heard("m3") :
           /\ m.mic = sta.ptk
           /\ \/ up' = up /\ sta'.key = sta.key
              \/ /\ m.nonce = sta.anonce /\ sta'.key = sta.ptk
                 /\ up' = up \cup {[t |-> "m4", ctr |-> m.ctr, mic |-> sta.ptk]}
    BY <1>13 DEF Heard3
  <2>2. ApSame /\ doing' = doing /\ sta'.ptk = sta.ptk /\ sta.state # "none"
        /\ Heard("m3")' = Heard("m3")
    BY <1>13, DownKept DEF Heard3
  <2>3. CASE up' = up /\ sta'.key = sta.key
    <3>1. Received("m4")' = Received("m4") BY <2>3, UpKept
    <3>2. QED BY <2>2, <2>3, <3>1 DEF StaKey
  <2>4. CASE /\ m.nonce = sta.anonce /\ sta'.key = sta.ptk
             /\ up' = up \cup {[t |-> "m4", ctr |-> m.ctr, mic |-> sta.ptk]}
    <3>1. Received("m4")' = Received("m4") \cup {[t |-> "m4", ctr |-> m.ctr, mic |-> sta.ptk]}
      BY <2>4, UpM4
    <3>2. sta'.key # NoKey /\ sta'.key = m.mic BY <2>1, <2>4
    <3>3. Both => m.nonce = Anonce BY <2>1 DEF StaKey
    <3>4. Both /\ sta.key # NoKey => sta.key = m.mic
      <4>1. SUFFICES ASSUME Both, sta.key # NoKey PROVE sta.key = m.mic OBVIOUS
      <4>2. PICK n \in Heard("m3") : n.nonce = Anonce /\ n.mic = sta.key BY <4>1 DEF StaKey
      <4>3. QED BY <3>3, <4>1, <4>2 DEF OneMsg3
    <3>5. QED BY <2>2, <3>1, <3>2, <3>3, <3>4 DEF StaKey
  <2>5. QED BY <2>1, <2>3, <2>4
<1>14. CASE HeardG
  <2>1. Heard("m3")' = Heard("m3") /\ Received("m4")' = Received("m4")
    BY <1>14, DownKept, UpG2 DEF HeardG
  <2>2. ApSame /\ sta'.key = sta.key /\ sta'.ptk = sta.ptk /\ doing' = doing /\ sta.state # "none"
    BY <1>14 DEF HeardG
  <2>3. QED BY <2>1, <2>2 DEF StaKey
<1>15. CASE RekeyedElse \/ Confirmed \/ Dropped \/ Counted \/ Quiet
  <2>1. NetSame /\ ap'.state = ap.state /\ Anonce' = Anonce /\ Ptk' = Ptk
        /\ ap'.key = ap.key /\ StaSame /\ doing' \in {doing, "none"}
    BY <1>15 DEF RekeyedElse, Confirmed, Dropped, Counted, Quiet
  <2>2. QED BY <2>1, NetKept DEF StaKey
<1>16. QED BY <1>4, <1>5, <1>6, <1>7, <1>8, <1>9, <1>10, <1>11, <1>12, <1>13, <1>14, <1>15 DEF Move

-----------------------------------------------------------------------------
(***************************************************************************)
(* Counters and the group key.                                             *)
(***************************************************************************)
LEMMA DownKeyed ==
    ASSUME IInv, NEW m \in down, Keyed(m)
    PROVE  /\ m \in Heard("g1") \/ (m \in Heard("m3") /\ wpa2)
           /\ m.ctr \in Nat /\ m.mic \in Keys /\ m.gtk \in Nat
<1>1. m \in Heard("g1") \/ (m \in Heard("m3") /\ wpa2) BY DEF Keyed, Heard
<1>2. QED BY <1>1, FrameTypes

\* The station would take no group key while the AP awaits its nonce.
LEMMA NoneKeyed ==
    ASSUME IInv, Both, ap.state \notin Under
    PROVE  \A m \in Heard("m3") \cup Heard("g1") : m.mic # sta.ptk
<1>1. \A m \in Heard("m3") : m.mic # sta.ptk BY DEF IInv, StaKey, OneMsg3
<1>2. \A m \in Heard("g1") : m.mic # sta.ptk BY DEF IInv, Counters, Under
<1>3. QED BY <1>1, <1>2

LEMMA CountersKept ==
    ASSUME IInv, Types', Move PROVE Counters'
<1>1. Fields /\ Fields' /\ Stages /\ Counters BY FieldTypes DEF IInv
<1>2. /\ \A m \in Heard("m3") \cup Heard("g1") :
            /\ m.ctr \in Nat /\ m.mic # NoKey
            /\ m.mic[1] \in 1 .. nonces /\ m.mic[2] \in 1 .. nonces
      /\ NoKey[1] = 0
  BY FrameTypes, KeyFacts DEF IInv, Drawn
<1>k. \A m \in down : Keyed(m) => m \in Heard("m3") \cup Heard("g1")
  BY DEF Keyed, Heard
<1>w. wpa2' = wpa2 BY Grows
<1> USE <1>1, <1>2 DEF Fields, ApIs, ApSame, StaIs, StaSame, Under, Both
<1>3. CASE Joined
  <2>1. NetSame /\ Anonce' = 0 /\ Ptk' = NoKey /\ sta'.ptk = NoKey
    BY <1>3 DEF Joined
  <2>2. down' = down BY <2>1 DEF NetSame
  <2>3. QED BY <1>k, <1>w, <2>1, <2>2, NetKept DEF Counters, Keyed
<1>4. CASE Gone \/ Quit
  <2>1. NetSame /\ ~Both'
        /\ \/ Anonce' = 0 /\ Ptk' = NoKey
           \/ ApSame
    BY <1>4 DEF Gone, Quit
  <2>2. QED BY <2>1, NetKept DEF Counters
<1>5. CASE Started
  <2>1. PICK c \in Nat :
           /\ ap.state = "ptkstart" => c > ap.ctr
           /\ ap'.state = "ptkstart" /\ ap'.ctr = c /\ Anonce' = nonces + 1 /\ Ptk' = Ptk
           /\ down' = down \cup {[t |-> "m1", ctr |-> c, nonce |-> nonces + 1]}
    BY <1>5 DEF Started
  <2>2. ap.state \in {"initpsk", "ptkstart"} /\ StaSame BY <1>5 DEF Started
  <2>3. Heard("m3")' = Heard("m3") /\ Heard("g1")' = Heard("g1") BY <2>1, DownM1
  <2>4. ap.state = "initpsk" => Ptk[1] = 0 BY DEF Stages
  <2>5. Both => \A m \in Heard("m3") \cup Heard("g1") : m.mic # sta.ptk
    BY <2>2, NoneKeyed
  <2>6. \A m \in down' : Keyed(m)' => m \in Heard("m3") \cup Heard("g1")
    BY <1>k, <1>w, <2>1 DEF Keyed
  <2>7. \A m \in Heard("m3") \cup Heard("g1") :
           m.mic[1] \in {Anonce', Ptk'[1]} => m.ctr <= ap'.ctr
    <3>1. SUFFICES ASSUME NEW m \in Heard("m3") \cup Heard("g1"), m.mic[1] = Ptk[1]
                   PROVE m.ctr <= c
      BY <2>1
    <3>2. ap.state = "ptkstart" BY <2>2, <2>4, <3>1
    <3>3. m.ctr <= ap.ctr BY <3>1 DEF Counters
    <3>4. QED BY <2>1, <3>2, <3>3
  <2>8. \A m \in Heard("g1") : m.mic[1] # Anonce' BY <2>1
  <2>9. QED BY <2>2, <2>3, <2>5, <2>6, <2>7, <2>8 DEF Counters
<1>6. CASE Taken2
  <2>1. NetSame /\ Anonce' = Anonce /\ ap'.state = ap.state /\ ap'.ctr = ap.ctr
        /\ Ptk'[1] = Anonce /\ StaSame /\ GroupSame
    BY <1>6 DEF Taken2
  <2>2. down' = down BY <2>1 DEF NetSame
  <2>3. QED BY <2>1, <2>2, NetKept DEF Counters, Keyed, GroupSame
<1>7. CASE Sent3
  <2> DEFINE new == [t |-> "m3", ctr |-> ap.ctr + 1, nonce |-> Anonce, mic |-> Ptk, gtk |-> gtk]
  <2>1. down' = down \cup {new} /\ Heard("m3")' = Heard("m3") \cup {new} /\ Heard("g1")' = Heard("g1")
    BY <1>7, DownM3 DEF Sent3
  <2>2. new.ctr = ap.ctr + 1 /\ new.gtk = gtk /\ new.mic = Ptk OBVIOUS
  <2>3. Anonce' = Anonce /\ ap'.state = "negotiating" /\ ap.state = "ptkstart"
        /\ ap'.ctr = ap.ctr + 1 /\ Ptk' = Ptk /\ StaSame /\ gtk' = gtk
    BY <1>7 DEF Sent3, Stages
  <2> HIDE DEF new
  <2>4. \A m \in Heard("g1") : m.mic[1] # Anonce BY <2>3 DEF Counters
  <2>5. Both => \A m \in Heard("m3") \cup Heard("g1") : m.mic # sta.ptk
    BY <2>3, NoneKeyed
  <2>6. \A m \in down' : Keyed(m)' => m = new \/ m \in Heard("m3") \cup Heard("g1")
    BY <1>k, <1>w, <2>1 DEF Keyed
  <2>7. \A m \in Heard("m3") \cup Heard("g1") :
           m.mic[1] \in {Anonce, Ptk[1]} => m.ctr <= ap.ctr + 1
    BY DEF Counters
  <2>8. QED BY <2>1, <2>2, <2>3, <2>4, <2>5, <2>6, <2>7 DEF Counters
<1>8. CASE Installed \/ Repeated \/ Rekeyed
  <2> DEFINE new == [t |-> "g1", ctr |-> ap.ctr + 1, mic |-> Ptk, gtk |-> gtk']
  <2>1. down' = down \cup {new} /\ Heard("g1")' = Heard("g1") \cup {new} /\ Heard("m3")' = Heard("m3")
    BY <1>8, DownG1 DEF Installed, Repeated, Rekeyed, Offered
  <2>2. new.ctr = ap.ctr + 1 /\ new.gtk = gtk' /\ new.mic = Ptk OBVIOUS
  <2>3. Anonce' = Anonce /\ ap'.state = "done" /\ ap.state # "none" /\ ap'.ctr = ap.ctr + 1
        /\ Ptk' = Ptk /\ StaSame
    BY <1>8 DEF Installed, Repeated, Rekeyed, Offered
  <2> HIDE DEF new
  <2>4. \A m \in down' : Keyed(m)' => m = new \/ (m \in down /\ Keyed(m))
    BY <1>w, <2>1 DEF Keyed
  <2>5. \A m \in Heard("m3") \cup Heard("g1") :
           m.mic[1] \in {Anonce, Ptk[1]} => m.ctr <= ap.ctr + 1
    BY DEF Counters
  <2>6. Both => \A m \in down : Keyed(m) /\ m.mic = sta.ptk => m.ctr <= ap.ctr + 1 /\ m.ctr # ap.ctr + 1
    BY <1>k DEF Counters
  <2>7. QED BY <2>1, <2>2, <2>3, <2>4, <2>5, <2>6 DEF Counters
<1>9. CASE RekeyedElse
  <2>1. NetSame /\ ApSame /\ StaSame /\ missed' = (missed \/ (wpa2 /\ ap.state = "negotiating"))
        /\ ap.state \notin {"none", "done"}
    BY <1>9 DEF RekeyedElse
  <2>2. down' = down BY <2>1 DEF NetSame
  <2>3. Both => \A m \in down : Keyed(m) /\ m.mic = sta.ptk => missed'
    <3>1. SUFFICES ASSUME Both, NEW m \in down, Keyed(m), m.mic = sta.ptk PROVE missed' OBVIOUS
    <3>2. m \in Heard("g1") \/ (m \in Heard("m3") /\ wpa2) BY <3>1, DownKeyed
    <3>3. m \notin Heard("g1") BY <2>1, <3>1 DEF Counters
    <3>4. ap.state \in Under BY <1>k, <3>1, NoneKeyed
    <3>5. QED BY <2>1, <3>2, <3>3, <3>4
  <2>4. QED BY <1>w, <2>1, <2>2, <2>3, NetKept DEF Counters, Keyed
<1>10. CASE Heard1
  <2>1. PICK n : sta'.ptk = <<n, nonces + 1>> BY <1>10 DEF Heard1
  <2>2. sta'.ptk[2] = nonces + 1 BY <2>1
  <2>3. \A m \in Heard("m3") \cup Heard("g1") : m.mic # sta'.ptk BY <2>2
  <2>4. down' = down /\ ApSame BY <1>10 DEF Heard1
  <2>5. \A m \in down' : Keyed(m)' => m \in Heard("m3") \cup Heard("g1")
    BY <1>k, <1>w, <2>4 DEF Keyed
  <2>6. QED BY <2>3, <2>4, <2>5, DownKept DEF Counters
<1>11. CASE Heard3 \/ HeardG
  <2>1. down' = down /\ ApSame /\ GroupSame /\ sta'.ptk = sta.ptk /\ sta.state # "none"
    BY <1>11 DEF Heard3, HeardG
  <2>2. QED BY <2>1, DownKept DEF Counters, Keyed, GroupSame
<1>12. CASE Installed2
  <2>1. NetSame /\ Anonce' = Anonce /\ Ptk' = Ptk /\ ap'.ctr = ap.ctr
        /\ ap'.state = "done" /\ ap.state # "none" /\ StaSame /\ GroupSame
    BY <1>12 DEF Installed2
  <2>2. down' = down BY <2>1 DEF NetSame
  <2>3. QED BY <2>1, <2>2, NetKept DEF Counters, Keyed, GroupSame
<1>13. CASE Taken \/ Confirmed \/ Dropped \/ Counted \/ Quiet
  <2>1. NetSame /\ ap'.state = ap.state /\ Anonce' = Anonce /\ Ptk' = Ptk
        /\ ap'.ctr = ap.ctr /\ StaSame /\ GroupSame
    BY <1>13 DEF Taken, Confirmed, Dropped, Counted, Quiet
  <2>2. down' = down BY <2>1 DEF NetSame
  <2>3. QED BY <2>1, <2>2, NetKept DEF Counters, Keyed, GroupSame
<1>14. QED BY <1>3, <1>4, <1>5, <1>6, <1>7, <1>8, <1>9, <1>10, <1>11, <1>12, <1>13 DEF Move

\* A reply that confirms a group key has the AP's counter: there is none while
\* the AP has just counted on.
LEMMA NoneConfirms ==
    ASSUME IInv, ap.state # "none", NEW a \in up, a.t \in {"g2", "m4"}, a.mic[1] = Anonce
    PROVE  a.ctr <= ap.ctr
<1>1. a \in Received("m4") \/ a \in Received("g2") BY DEF Received
<1>2. PICK m \in Heard("m3") \cup Heard("g1") : m.mic = a.mic /\ m.ctr = a.ctr
  BY <1>1 DEF IInv, Answers
<1>3. QED BY <1>2 DEF IInv, Counters

\* A message of the AP with the current key changes nothing of what the station
\* was told.
LEMMA ToldKept ==
    ASSUME Told, GroupSame, StaSame,
           \A m \in down' : Keyed(m) /\ m \notin down => m.gtk = gtk
    PROVE  Told'
BY DEF Told, GroupSame, StaSame, StaIs, Keyed

LEMMA GroupKeyKept ==
    ASSUME IInv, Types', Move PROVE GroupKey'
<1>1. Fields /\ Fields' /\ Stages /\ Counters /\ GroupKey BY FieldTypes DEF IInv
<1> USE <1>1 DEF Fields, ApIs, ApSame, Under, Both
<1>2. CASE Joined
  <2>1. ap'.gtkDone = FALSE /\ doing' = "none" /\ ap'.state = "initpsk" BY <1>2 DEF Joined
  <2>2. QED BY <2>1 DEF GroupKey, Confirms
<1>3. CASE Gone \/ Quit
  <2>1. ~Both' BY <1>3 DEF Gone, Quit, StaIs
  <2>2. QED BY <2>1 DEF GroupKey
<1>4. CASE Dropped
  <2>1. ~Both' BY <1>4 DEF Dropped
  <2>2. QED BY <2>1 DEF GroupKey
<1>5. CASE Started
  <2>1. ap.state \in {"initpsk", "ptkstart"} /\ ap'.state = "ptkstart" /\ doing' = doing
        /\ ap'.gtkDone = ap.gtkDone
    BY <1>5 DEF Started
  <2>2. ap'.gtkDone = FALSE /\ doing' \notin {"g2", "m4"} BY <2>1 DEF Stages
  <2>3. QED BY <2>1, <2>2 DEF GroupKey, Confirms
\* Steps that send no frame and leave the station as it is.
<1>6. ASSUME NetSame, StaSame, GroupSame,
             ap'.state = ap.state \/ (ap.state \in Under /\ ap'.state = "done"),
             Anonce' = Anonce, ap'.ctr = ap.ctr,
             Both /\ ap'.gtkDone => ap.gtkDone \/ Told,
             Both /\ (doing' = "g2" \/ (doing' = "m4" /\ wpa2)) =>
                doing = "g2" \/ (doing = "m4" /\ wpa2) \/ Told
      PROVE  GroupKey'
  <2>1. Told => Told' BY <1>6, ToldKept DEF NetSame
  <2>2. SUFFICES ASSUME Both' PROVE /\ ap'.gtkDone => Told
                                    /\ doing' = "g2" \/ (doing' = "m4" /\ wpa2) => Told
                                    /\ \A a \in up : Confirms(a)' => Told
    BY <1>6, <2>1, <2>2 DEF GroupKey, NetSame, GroupSame
  <2>3. Both BY <1>6, <2>2 DEF StaSame, StaIs
  <2>4. \A a \in up : Confirms(a)' => Confirms(a) BY <1>6 DEF Confirms, GroupSame
  <2>5. QED BY <1>6, <2>2, <2>3, <2>4 DEF GroupKey
<1>7. CASE Taken2
  <2>1. NetSame /\ StaSame /\ GroupSame /\ ap'.state = ap.state /\ Anonce' = Anonce
        /\ ap'.ctr = ap.ctr /\ ap'.gtkDone = ap.gtkDone /\ doing' \in {"none", "m2"}
    BY <1>7 DEF Taken2
  <2>2. QED BY <1>6, <2>1
<1>8. CASE Taken
  <2>1. NetSame /\ StaSame /\ GroupSame /\ ApSame BY <1>8 DEF Taken
  <2>2. ASSUME Both, doing' = "g2" PROVE Told
    <3>1. PICK a \in Received("g2") : a.ctr = ap.ctr /\ a.mic = Ptk /\ ap.state = "done"
      BY <1>8, <2>2 DEF Taken
    <3>2. Confirms(a) /\ a \in up BY <3>1 DEF Confirms, Stages, Received
    <3>3. QED BY <2>2, <3>2 DEF GroupKey
  <2>3. ASSUME Both, doing' = "m4", wpa2 PROVE Told
    <3>1. PICK a \in Received("m4") : a.ctr = ap.ctr /\ a.mic = Ptk /\ ap.state \in Under
      BY <1>8, <2>3 DEF Taken
    <3>2. PICK m \in Heard("m3") : m.nonce = a.mic[1] BY DEF IInv, Answers
    <3>3. a.mic[1] = Anonce BY <3>1, <3>2 DEF IInv, OneMsg3
    <3>4. Confirms(a) /\ a \in up BY <2>3, <3>1, <3>3 DEF Confirms, Received
    <3>5. QED BY <2>3, <3>4 DEF GroupKey
  <2>4. QED BY <1>6, <2>1, <2>2, <2>3
<1>9. CASE Installed2
  <2>1. NetSame /\ StaSame /\ GroupSame /\ ap'.state = "done" /\ Anonce' = Anonce
        /\ ap'.ctr = ap.ctr /\ doing = "m4" /\ wpa2 /\ doing' = "none" /\ ap.state # "none"
    BY <1>9 DEF Installed2
  <2>2. Both => Told BY <2>1 DEF GroupKey
  <2>3. ap.state \in Under BY <2>1 DEF Stages
  <2>4. QED BY <1>6, <2>1, <2>2, <2>3
<1>10. CASE Confirmed
  <2>1. NetSame /\ StaSame /\ GroupSame /\ ap'.state = ap.state /\ Anonce' = Anonce
        /\ ap'.ctr = ap.ctr /\ doing = "g2" /\ doing' = "none"
    BY <1>10 DEF Confirmed
  <2>2. Both => Told BY <2>1 DEF GroupKey
  <2>3. QED BY <1>6, <2>1, <2>2
<1>11. CASE Counted \/ Quiet
  <2>1. NetSame /\ StaSame /\ GroupSame /\ ap'.state = ap.state /\ Anonce' = Anonce
        /\ ap'.ctr = ap.ctr /\ doing' = doing /\ ap'.gtkDone = ap.gtkDone
    BY <1>11 DEF Counted, Quiet
  <2>2. QED BY <1>6, <2>1
\* Steps on which the AP counts on.
<1>12. ASSUME up' = up, ap'.ctr = ap.ctr + 1, Anonce' = Anonce, ap.state # "none"
       PROVE  \A a \in up' : ~Confirms(a)'
  <2>1. SUFFICES ASSUME NEW a \in up, Confirms(a)' PROVE FALSE BY <1>12
  <2>2. a.t \in {"g2", "m4"} /\ a.ctr = ap.ctr + 1 /\ a.mic[1] = Anonce
    BY <1>12, <2>1 DEF Confirms
  <2>3. a.ctr <= ap.ctr BY <1>12, <2>2, NoneConfirms
  <2>4. QED BY <2>2, <2>3
<1>13. CASE Sent3
  <2>1. up' = up /\ ap'.ctr = ap.ctr + 1 /\ Anonce' = Anonce /\ ap.state = "ptkstart"
        /\ doing' = "none" /\ ap'.gtkDone = ap.gtkDone
    BY <1>13 DEF Sent3, Stages
  <2>2. ap'.gtkDone = FALSE BY <2>1 DEF Stages
  <2>3. \A a \in up' : ~Confirms(a)' BY <1>12, <2>1
  <2>4. QED BY <2>1, <2>2, <2>3 DEF GroupKey
<1>14. CASE Installed \/ Repeated
  <2>1. /\ up' = up /\ ap'.ctr = ap.ctr + 1 /\ Anonce' = Anonce /\ ap.state # "none"
        /\ ap'.gtkDone = ap.gtkDone /\ doing' \in {doing, "none"} /\ StaSame /\ GroupSame
        /\ down' = down \cup {[t |-> "g1", ctr |-> ap.ctr + 1, mic |-> Ptk, gtk |-> gtk]}
    BY <1>14 DEF Installed, Repeated, Offered, GroupSame
  <2>2. \A m \in down' : m \notin down => m.gtk = gtk BY <2>1
  <2>3. Told => Told' BY <2>1, <2>2, ToldKept
  <2>4. \A a \in up' : ~Confirms(a)' BY <1>12, <2>1
  <2>5. Both' => Both BY <2>1 DEF StaSame, StaIs
  <2>6. QED BY <2>1, <2>3, <2>4, <2>5 DEF GroupKey, GroupSame
<1>15. CASE Rekeyed
  <2>1. /\ up' = up /\ ap'.ctr = ap.ctr + 1 /\ Anonce' = Anonce /\ ap.state # "none"
        /\ ap'.gtkDone = FALSE /\ doing' = doing /\ missed' = (doing # "none")
    BY <1>15 DEF Rekeyed, Offered
  <2>2. doing' # "none" => Told' BY <2>1 DEF Told
  <2>3. \A a \in up' : ~Confirms(a)' BY <1>12, <2>1
  <2>4. QED BY <2>1, <2>2, <2>3 DEF GroupKey
<1>16. CASE RekeyedElse
  <2>1. /\ NetSame /\ ApSame /\ ap.state \notin {"none", "done"} /\ doing' = doing /\ wpa2' = wpa2
        /\ missed' = (missed \/ (wpa2 /\ ap.state = "negotiating"))
    BY <1>16 DEF RekeyedElse
  <2>2. ~ap'.gtkDone /\ doing' # "g2" BY <2>1 DEF Stages
  <2>3. doing' = "m4" => ap.state = "negotiating" BY <2>1 DEF Stages
  <2>4. ASSUME NEW a \in up, Confirms(a)' PROVE wpa2 /\ ap.state = "negotiating"
    <3>1. /\ a.t = "g2" \/ (a.t = "m4" /\ wpa2)
          /\ a.mic[1] = Anonce /\ ap.state = "negotiating"
      BY <2>1, <2>4 DEF Confirms
    <3>2. ASSUME a.t = "g2" PROVE FALSE
      <4>1. a \in Received("g2") BY <3>2 DEF Received
      <4>2. PICK m \in Heard("g1") : m.mic = a.mic BY <4>1 DEF IInv, Answers
      <4>3. QED BY <3>1, <4>2 DEF Counters
    <3>3. QED BY <3>1, <3>2
  <2>5. wpa2 /\ ap.state = "negotiating" => Told' BY <2>1 DEF Told
  <2>6. QED BY <2>1, <2>2, <2>3, <2>4, <2>5 DEF GroupKey, NetSame
<1>17. CASE Heard1
  <2>1. PICK m \in Heard("m1") :
           /\ sta'.ptk = <<m.nonce, nonces + 1>> /\ sta'.gtk = sta.gtk /\ sta.state # "none"
           /\ up' = up \cup {[t |-> "m2", ctr |-> m.ctr, nonce |-> nonces + 1,
                              mic |-> <<m.nonce, nonces + 1>>]}
    BY <1>17 DEF Heard1, StaIs
  <2>2. ApSame /\ GroupSame /\ down' = down /\ doing' = doing BY <1>17 DEF Heard1
  <2>3. sta'.ptk[2] = nonces + 1 BY <2>1
  <2>4. \A n \in down : Keyed(n) => n.mic # sta'.ptk
    BY <2>3, DownKeyed DEF Keys, Drawn
  <2>5. Told => Told' BY <2>1, <2>2, <2>4 DEF Told, Keyed, GroupSame
  <2>6. \A a \in up' : Confirms(a)' => a \in up /\ Confirms(a)
    BY <2>1, <2>2 DEF Confirms, GroupSame
  <2>7. QED BY <2>1, <2>2, <2>5, <2>6 DEF GroupKey, GroupSame
<1>18. CASE Heard3 \/ HeardG
  <2>1. PICK m \in Heard("m3") \cup Heard("g1") :
           /\ sta.state # "none" /\ m.ctr > sta.ctr /\ m.mic = sta.ptk
           /\ sta'.ctr = m.ctr /\ sta'.ptk = sta.ptk
           /\ sta'.gtk = IF Keyed(m) THEN m.gtk ELSE sta.gtk
           /\ \/ up' = up
              \/ up' = up \cup {[t |-> "m4", ctr |-> m.ctr, mic |-> sta.ptk]} /\ m \in Heard("m3")
              \/ up' = up \cup {[t |-> "g2", ctr |-> m.ctr, mic |-> sta.ptk]} /\ m \in Heard("g1")
    <3>1. CASE Heard3 BY <3>1 DEF Heard3, StaIs, Keyed, Heard
    <3>2. CASE HeardG BY <3>2 DEF HeardG, StaIs, Keyed, Heard
    <3>3. QED BY <1>18, <3>1, <3>2
  <2>2. ApSame /\ GroupSame /\ down' = down /\ doing' = doing BY <1>18 DEF Heard3, HeardG
  <2>3. m \in down /\ m.ctr \in Nat BY FrameTypes DEF Heard
  <2>4. \A n \in down : Keyed(n) => n.ctr \in Nat BY DownKeyed
  <2>5. Told => Told'
    <3>1. SUFFICES ASSUME Told, ~missed PROVE Told' BY <2>2 DEF Told, GroupSame
    <3>2. sta'.gtk = gtk BY <2>1, <2>3, <3>1 DEF Told
    <3>3. \A n \in down : n.ctr > m.ctr /\ n.ctr \in Nat => n.ctr > sta.ctr BY <2>1, <2>3
    <3>4. QED BY <2>1, <2>2, <2>4, <3>1, <3>2, <3>3 DEF Told, Keyed, GroupSame
  <2>6. ASSUME Both, NEW a \in up', Confirms(a)', a \notin up PROVE Told'
    <3>1. a.ctr = m.ctr /\ a.ctr = ap.ctr /\ Keyed(m)
      BY <2>1, <2>2, <2>6 DEF Confirms, GroupSame, Keyed, Heard
    <3>2. m.gtk = gtk \/ missed BY <2>1, <2>3, <2>6, <3>1 DEF Counters
    <3>3. \A n \in down : Keyed(n) /\ n.mic = sta.ptk => ~(n.ctr > m.ctr)
      BY <2>3, <2>4, <2>6, <3>1 DEF Counters
    <3>4. QED BY <2>1, <2>2, <3>1, <3>2, <3>3 DEF Told, Keyed, GroupSame
  <2>7. \A a \in up : Confirms(a)' => Confirms(a) BY <2>2 DEF Confirms, GroupSame
  <2>8. Both' => Both BY <2>1, <2>2
  <2>9. QED BY <2>2, <2>5, <2>6, <2>7, <2>8 DEF GroupKey, GroupSame
<1>19. QED BY <1>2, <1>3, <1>4, <1>5, <1>7, <1>8, <1>9, <1>10, <1>11, <1>13, <1>14, <1>15, <1>16,
              <1>17, <1>18 DEF Move

-----------------------------------------------------------------------------
LEMMA InitHolds == Init => IInv
<1> SUFFICES ASSUME Init PROVE IInv OBVIOUS
<1>0. /\ nonces = 0 /\ gtk = 1 /\ hw = 1 /\ countdown = 0 /\ wpa2 \in BOOLEAN /\ timer = FALSE
      /\ missed = FALSE /\ doing = "none" /\ ap = NoEntry /\ sta = NoPeer /\ down = {} /\ up = {}
  BY DEF Init
<1>1. Types
  <2>1. gtk \in 1 .. (MaxRekey + 1) BY <1>0, WpaAssumption
  <2>2. nonces \in Nat /\ gtk \in Nat BY <1>0
  <2>3. ap \in Entries(nonces) /\ sta \in Peers(nonces, gtk) BY <1>0, <2>2, NewEntries
  <2>4. hw \in 1 .. gtk BY <1>0
  <2>5. wpa2 \in BOOLEAN /\ timer \in BOOLEAN /\ missed \in BOOLEAN
    <3>1. FALSE \in BOOLEAN BY Zenon
    <3>2. QED BY <1>0, <3>1, Zenon
  <2>6. nonces \in Nat /\ countdown \in Nat /\ doing \in {"none", "m2", "m4", "g2"} BY <1>0
  <2>7. timer => ap.state # "none" BY <1>0
  <2>8. QED BY <2>1, <2>3, <2>4, <2>5, <2>6, <2>7 DEF Types
<1>2. /\ ap.state = "none" /\ Anonce = 0 /\ Ptk = NoKey /\ ap.retry = 0 /\ ap.gtkDone = FALSE
      /\ sta.state = "none" /\ sta.ptk[1] = 0 /\ sta.anonce = 0
  BY <1>0 DEF NoEntry, Entry, NoPeer, Peer, NoKey, Msg1Ctr, Anonce, Ptk, Under
<1>3. Frames /\ Nonces /\ OneMsg3 /\ Answers BY <1>0 DEF Frames, Nonces, OneMsg3, Answers, Heard,
        Received
<1>4. Stages BY <1>0, <1>2 DEF Stages, Under, GroupCtr
<1>5. StaKey /\ GroupKey BY <1>2 DEF StaKey, GroupKey, Both
<1>6. Counters BY <1>0, <1>2 DEF Counters, Both, Heard
<1>7. QED BY <1>1, <1>3, <1>4, <1>5, <1>6 DEF IInv

LEMMA Invariance == Spec => []IInv
<1>1. IInv /\ [Next]_vars => IInv'
  <2> SUFFICES ASSUME IInv, [Next]_vars PROVE IInv' OBVIOUS
  <2>1. Types' /\ Move BY TypesKept, Moves
  <2>2. QED BY <2>1, FramesKept, StagesKept, NoncesKept, OneMsg3Kept, AnswersKept, StaKeyKept,
               CountersKept, GroupKeyKept DEF IInv
<1>2. QED BY <1>1, InitHolds, PTL DEF Spec

\* Both entries, frames in hand, timer and keys keep their types, ReTryCounter
\* one of its ranges; the retry timer never runs for an entry that is deleted.
THEOREM Typing == Spec => []TypeOK
<1>1. IInv => TypeOK
  <2> SUFFICES ASSUME IInv PROVE TypeOK OBVIOUS
  <2>1. Fields BY FieldTypes DEF IInv
  <2>2. {wpa2, timer, missed, ap.port, ap.gtkDone, sta.port, sta.timer} \subseteq BOOLEAN
    BY DEF IInv, Types, Entries, Peers
  <2>3. {ap.ptk, ap.key, sta.ptk, sta.key} \subseteq (0..nonces) \X (0..nonces)
    BY DEF IInv, Types, Entries, Peers, Pairs
  <2>4. {gtk, hw} \subseteq 1..(MaxRekey + 1) /\ sta.gtk \in 0..gtk
    BY WpaAssumption DEF IInv, Types, Peers
  <2>5. {ap.ctr, ap.anonce, sta.ctr, sta.anonce, nonces} \subseteq Nat
    BY <2>1 DEF Fields, IInv, Types, Entries
  <2>6. timer => Client BY DEF IInv, Types, Client
  <2>7. QED BY <2>1, <2>2, <2>3, <2>4, <2>5, <2>6 DEF TypeOK, Fields, Retries
<1>2. QED BY <1>1, Invariance, PTL

\* When the AP takes the four-way handshake for done, the station, if it has not
\* left, uses the same pairwise key, however many messages were lost, repeated or
\* come from earlier associations.
THEOREM PairwiseKeys == Spec => []KeysAgree
<1>1. IInv => KeysAgree
  BY DEF IInv, StaKey, Both, KeysAgree
<1>2. QED BY <1>1, Invariance, PTL

\* When the AP takes the group handshake for done, the station has the current
\* group key, but for the two moments at which a new key is not offered to it.
THEOREM GroupKeys == Spec => []GroupKeyAgrees
<1>1. IInv => GroupKeyAgrees
  BY DEF IInv, GroupKey, Both, Told, GroupKeyAgrees
<1>2. QED BY <1>1, Invariance, PTL
-----------------------------------------------------------------------------
(***************************************************************************)
(* SA Query (module SaQuery), which guards the station that the handshake  *)
(* has made secure: no timer outlives its station, an answer counts, and a *)
(* procedure under way has a timer that ends it.  The last is the safety   *)
(* half of Resolves, which itself is left to model checking.               *)
(***************************************************************************)
\* While the status forbids an association, SAQueryTimer runs and will delete
\* the station, unless a repetition raced with the answer.
SaWatched == present /\ status # "idle" => mainTimer \/ raced

\* What makes SaWatched inductive: the thread has SAQueryTimer set before it
\* changes the status, a repetition is due only in a procedure, and the thread
\* stops the timer only after it has changed the status back.
SaOrder ==
    /\ job = "mark" => (present => mainTimer \/ raced)
    /\ confirm => status # "idle" \/ job \in {"stopMain", "stopConfirm"}
    /\ job = "confirm" /\ present => status # "idle"
    /\ job \in {"stopMain", "stopConfirm"} /\ present => status = "idle" \/ raced

SaInv == SaTypeOK /\ AnswerCounts /\ SaWatched /\ SaOrder

LEMMA SaInitHolds == SaInit => SaInv
BY DEF SaInit, SaInv, SaTypeOK, AnswerCounts, SaWatched, SaOrder

\* Every step keeps the types and keeps every timer with a station.
LEMMA SaTypesKept == SaInv /\ [SaNext]_saVars => SaTypeOK'
<1> SUFFICES ASSUME SaInv, [SaNext]_saVars PROVE SaTypeOK'
  OBVIOUS
<1> USE DEF SaInv, SaTypeOK, entry, history, saVars
<1>1. CASE Connect BY <1>1 DEF Connect
<1>2. CASE Leave BY <1>2 DEF Leave, DeleteEntry
<1>3. CASE AssocReq BY <1>3 DEF AssocReq
<1>4. CASE Question
  <2>1. CASE Count BY <2>1 DEF Count
  <2>2. CASE SetMain BY <2>2 DEF SetMain
  <2>3. CASE MarkSending BY <2>3 DEF MarkSending
  <2>4. CASE SetConfirm BY <2>4 DEF SetConfirm
  <2>5. CASE Send BY <2>5 DEF Send
  <2>6. QED BY <1>4, <2>1, <2>2, <2>3, <2>4, <2>5 DEF Question
<1>5. CASE Match BY <1>5 DEF Match
<1>6. CASE Answer
  <2>1. CASE MarkIdle BY <2>1 DEF MarkIdle
  <2>2. CASE StopMain BY <2>2 DEF StopMain
  <2>3. CASE StopConfirm BY <2>3 DEF StopConfirm
  <2>4. QED BY <1>6, <2>1, <2>2, <2>3 DEF Answer
<1>7. CASE SAQueryTimeOut BY <1>7 DEF SAQueryTimeOut, DeleteEntry
<1>8. CASE SAQueryConfirmTimeOut BY <1>8 DEF SAQueryConfirmTimeOut
<1>9. CASE UNCHANGED saVars BY <1>9
<1>10. QED BY <1>1, <1>2, <1>3, <1>4, <1>5, <1>6, <1>7, <1>8, <1>9 DEF SaNext

\* Every step keeps the rest.
LEMMA SaOrderKept == SaInv /\ [SaNext]_saVars => (AnswerCounts /\ SaWatched /\ SaOrder)'
<1> SUFFICES ASSUME SaInv, [SaNext]_saVars PROVE (AnswerCounts /\ SaWatched /\ SaOrder)'
  OBVIOUS
<1> USE DEF SaInv, SaTypeOK, AnswerCounts, SaWatched, SaOrder, entry, history, saVars
<1>1. CASE Connect BY <1>1 DEF Connect
<1>2. CASE Leave BY <1>2 DEF Leave, DeleteEntry
<1>3. CASE AssocReq BY <1>3 DEF AssocReq
<1>4. CASE Question
  <2>1. CASE Count BY <2>1 DEF Count
  <2>2. CASE SetMain BY <2>2 DEF SetMain
  <2>3. CASE MarkSending BY <2>3 DEF MarkSending
  <2>4. CASE SetConfirm BY <2>4 DEF SetConfirm
  <2>5. CASE Send BY <2>5 DEF Send
  <2>6. QED BY <1>4, <2>1, <2>2, <2>3, <2>4, <2>5 DEF Question
<1>5. CASE Match BY <1>5 DEF Match
<1>6. CASE Answer
  <2>1. CASE MarkIdle BY <2>1 DEF MarkIdle
  <2>2. CASE StopMain BY <2>2 DEF StopMain
  <2>3. CASE StopConfirm BY <2>3 DEF StopConfirm
  <2>4. QED BY <1>6, <2>1, <2>2, <2>3 DEF Answer
<1>7. CASE SAQueryTimeOut BY <1>7 DEF SAQueryTimeOut, DeleteEntry
<1>8. CASE SAQueryConfirmTimeOut BY <1>8 DEF SAQueryConfirmTimeOut
<1>9. CASE UNCHANGED saVars BY <1>9
<1>10. QED BY <1>1, <1>2, <1>3, <1>4, <1>5, <1>6, <1>7, <1>8, <1>9 DEF SaNext

LEMMA SaInvariance == SaSpec => []SaInv
<1>1. SaInv /\ [SaNext]_saVars => SaInv'
  BY SaTypesKept, SaOrderKept DEF SaInv
<1>2. QED
  BY SaInitHolds, <1>1, PTL DEF SaSpec

\* Types hold, and no timer of an empty slot runs: neither callback of pmf.c
\* ever finds an entry that was deleted.
THEOREM SaTyping == SaSpec => []SaTypeOK
<1>1. SaInv => SaTypeOK
  BY DEF SaInv
<1>2. QED
  BY SaInvariance, <1>1, PTL

\* A station that has answered the last question is not deleted for having
\* been silent.
THEOREM SaAnswered == SaSpec => []AnswerCounts
<1>1. SaInv => AnswerCounts
  BY DEF SaInv
<1>2. QED
  BY SaInvariance, <1>1, PTL

\* A procedure under way has its time-out pending, unless a repetition raced
\* with the answer (pmf.c:243).
THEOREM SaWatching == SaSpec => []SaWatched
<1>1. SaInv => SaWatched
  BY DEF SaInv
<1>2. QED
  BY SaInvariance, <1>1, PTL
=============================================================================
