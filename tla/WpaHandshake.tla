--------------------------- MODULE WpaHandshake ---------------------------
(***************************************************************************)
(* The four-way and group-key handshakes (common/cmm_wpa.c, ap/ap_wpa.c)   *)
(* between an AP's MAC table entry and the AP-client entry of a peer that  *)
(* runs the same code: the MLME threads that answer EAPOL-Key frames,      *)
(* WPARetryExec, which as a timer callback may run in the middle of the    *)
(* AP's thread, and GREKEYPeriodicExec.  A frame once sent may arrive      *)
(* late, out of order, again or never.  A PTK is the pair of nonces it is  *)
(* derived from, a MIC the PTK it was made with.                           *)
(***************************************************************************)
EXTENDS Integers

CONSTANTS
    Tries,      \* message 1 is sent again so often (3 in the code)
    MaxAssoc,   \* bound: associations
    MaxRekey    \* bound: new group keys

\* ReTryCounter starts from one of these; deauthentication comes after Tries
\* more of the first, one more of the second, two more of the third.
Msg1Ctr == 0
Msg3Ctr == 10
GroupCtr == 20

\* The three ranges of ReTryCounter do not meet.
ASSUME WpaAssumption == {Tries, MaxAssoc, MaxRekey} \subseteq Nat /\ Tries < Msg3Ctr

VARIABLES
    wpa2,       \* AuthMode: WPA2-PSK, or else WPA-PSK
    ap,         \* the AP's entry of the station
    timer,      \* RetryTimer of that entry is pending
    doing,      \* the frame the AP's thread accepted and has yet to act upon
    sta,        \* the station's entry of the AP
    down, up,   \* frames sent so far to the station and to the AP
    gtk, hw,    \* GTK, and the one installed as shared key
    countdown,  \* RekeyCountDown
    nonces,     \* nonces drawn so far
    assocs,
    missed      \* history: the group key changed while an answer was awaited that
                \* the AP takes for one to the new key

net == <<down, up>>
group == <<gtk, hw, countdown>>
vars == <<wpa2, ap, timer, doing, sta, down, up, gtk, hw, countdown, nonces, assocs, missed>>

NoKey == <<0, 0>>
\* The entry as MacTableInsertEntry leaves it, and associated.
Entry == [state |-> "initpsk", ctr |-> 0, anonce |-> 0, ptk |-> NoKey, retry |-> Msg1Ctr,
          key |-> NoKey, port |-> FALSE, gtkDone |-> FALSE]
NoEntry == [Entry EXCEPT !.state = "none"]
\* The station's, whose WpaState is AS_PTKSTART from the start.
Peer == [state |-> "ptkstart", ctr |-> 0, anonce |-> 0, ptk |-> NoKey, key |-> NoKey,
         port |-> FALSE, gtk |-> 0, timer |-> FALSE]
NoPeer == [Peer EXCEPT !.state = "none"]

Init ==
    /\ wpa2 \in BOOLEAN
    /\ ap = NoEntry /\ timer = FALSE /\ doing = "none"
    /\ sta = NoPeer
    /\ down = {} /\ up = {}
    /\ gtk = 1 /\ hw = 1 /\ countdown = 0
    /\ nonces = 0 /\ assocs = 0 /\ missed = FALSE

Client == ap.state # "none"
-----------------------------------------------------------------------------
(***************************************************************************)
(* The AP.                                                                 *)
(***************************************************************************)
\* Association, by entries that both sides make anew.  The handshake starts
\* when EnqueueStartForPSKExec's message has gone through the MLME queue.
Associate ==
    /\ assocs < MaxAssoc /\ doing = "none"
    /\ assocs' = assocs + 1
    /\ ap' = Entry /\ sta' = Peer
    /\ timer' = FALSE
    /\ missed' = FALSE
    /\ UNCHANGED <<wpa2, doing, net, group, nonces>>

\* Association of a station whose entry the AP still has: the counter of its
\* frames, its nonce, its PTK and a pending RetryTimer stay.
Reassociate ==
    /\ Client
    /\ assocs < MaxAssoc /\ doing = "none"
    /\ assocs' = assocs + 1
    /\ ap' = [ap EXCEPT !.state = "initpsk", !.retry = Msg1Ctr, !.key = NoKey,
                       !.port = FALSE, !.gtkDone = FALSE]
    /\ sta' = Peer
    /\ missed' = FALSE
    /\ UNCHANGED <<wpa2, timer, doing, net, group, nonces>>

\* WPAStart4WayHS on the entry e: a new nonce, message 1, the retry timer.
Start4Way(e) ==
    /\ e.state \in {"initpsk", "ptkstart"}
    /\ nonces' = nonces + 1
    /\ ap' = [e EXCEPT !.ctr = @ + 1, !.anonce = nonces + 1, !.state = "ptkstart"]
    /\ down' = down \cup {[t |-> "m1", ctr |-> e.ctr + 1, nonce |-> nonces + 1]}
    /\ timer' = TRUE

\* WpaEAPOLStartAction
EapolStart ==
    /\ ap.state = "initpsk" /\ doing = "none"
    /\ Start4Way([ap EXCEPT !.ctr = 0, !.retry = Msg1Ctr])
    /\ UNCHANGED <<wpa2, doing, sta, up, group, assocs, missed>>

\* WPAStart2WayGroupHS on the entry e: message 1 of the group handshake.
GroupMsg1(e, key) ==
    /\ ap' = [e EXCEPT !.ctr = @ + 1]
    /\ down' = down \cup {[t |-> "g1", ctr |-> e.ctr + 1, mic |-> e.ptk, gtk |-> key]}

\* Mutant: any MIC will do.
SanityOfCounter(m, e) == m.ctr = e.ctr

\* Mutant: any counter will do.
SanityOfMic(m, e) == m.mic = e.ptk

\* PeerWpaMessageSanity, of messages to the authenticator.
Sanity(m, e) == m.ctr = e.ctr /\ m.mic = e.ptk

Received(t) == {m \in up : m.t = t}

\* PeerPairMsg2Action, to the sanity check: the PTK is taken over before it.
Msg2(m) ==
    LET e == [ap EXCEPT !.ptk = <<ap.anonce, m.nonce>>]
    IN  IF ap.state \in {"ptkstart", "negotiating", "done"}
        THEN ap' = e /\ doing' = IF Sanity(m, e) THEN "m2" ELSE "none"
        ELSE UNCHANGED <<ap, doing>>

\* PeerPairMsg4Action and PeerGroupMsg2Action, likewise.
Msg4(m) ==
    /\ doing' = IF ap.state \in {"negotiating", "done"} /\ Sanity(m, ap) THEN "m4" ELSE "none"
    /\ UNCHANGED ap

GroupMsg2(m) ==
    /\ doing' = IF ap.state = "done" /\ Sanity(m, ap) THEN "g2" ELSE "none"
    /\ UNCHANGED ap

Accept ==
    /\ doing = "none"
    /\ \/ \E m \in Received("m2") : Msg2(m)
       \/ \E m \in Received("m4") : Msg4(m)
       \/ \E m \in Received("g2") : GroupMsg2(m)
    /\ UNCHANGED <<wpa2, timer, sta, net, group, nonces, assocs, missed>>

\* Mutant: the timer is left cancelled.
Msg2RestUnarmed ==
    /\ ap' = [ap EXCEPT !.state = "negotiating", !.ctr = @ + 1, !.retry = Msg3Ctr]
    /\ down' = down \cup {[t |-> "m3", ctr |-> ap.ctr + 1, nonce |-> ap.anonce,
                           mic |-> ap.ptk, gtk |-> gtk]}
    /\ timer' = FALSE
    /\ missed' = FALSE

\* The rest of PeerPairMsg2Action: message 3, with the nonce of now.
Msg2Rest ==
    /\ ap' = [ap EXCEPT !.state = "negotiating", !.ctr = @ + 1, !.retry = Msg3Ctr]
    /\ down' = down \cup {[t |-> "m3", ctr |-> ap.ctr + 1, nonce |-> ap.anonce,
                           mic |-> ap.ptk, gtk |-> gtk]}
    /\ timer' = TRUE
    /\ missed' = FALSE

Done(e) == [e EXCEPT !.key = e.ptk, !.state = "done", !.port = TRUE]

\* The rest of PeerPairMsg4Action: WPA2 is done, WPA goes on to the group key.
Msg4Rest ==
    /\ IF wpa2 THEN ap' = [Done(ap) EXCEPT !.gtkDone = TRUE] /\ UNCHANGED down
       ELSE GroupMsg1([Done(ap) EXCEPT !.retry = GroupCtr], gtk)
    /\ timer' = ~wpa2
    /\ UNCHANGED missed

GroupMsg2Rest ==
    /\ ap' = [ap EXCEPT !.gtkDone = TRUE]
    /\ timer' = FALSE
    /\ UNCHANGED <<down, missed>>

\* If the timer's callback deleted the entry meanwhile, the thread writes to a
\* slot that holds no station, which its next insertion clears.
Act ==
    /\ doing # "none"
    /\ doing' = "none"
    /\ IF Client THEN \/ doing = "m2" /\ Msg2Rest
                      \/ doing = "m4" /\ Msg4Rest
                      \/ doing = "g2" /\ GroupMsg2Rest
                 ELSE UNCHANGED <<ap, timer, down, missed>>
    /\ UNCHANGED <<wpa2, sta, up, group, nonces, assocs>>

\* Mutant: the timer is not cancelled.
DeauthTimed ==
    /\ ap' = NoEntry
    /\ sta' \in {sta, NoPeer}
    /\ UNCHANGED <<timer, down, nonces>>

\* MlmeDeAuthAction: the entry is deleted, and the station told, if it hears.
Deauth ==
    /\ ap' = NoEntry
    /\ timer' = FALSE
    /\ sta' \in {sta, NoPeer}
    /\ UNCHANGED <<down, nonces>>

\* WPARetryExec, by the value of ReTryCounter.
Retry(r) ==
    \/ r > GroupCtr + 1 /\ Deauth
    \/ /\ r = GroupCtr + 1
       /\ IF ap.gtkDone THEN ap' = [ap EXCEPT !.retry = r] /\ timer' = FALSE /\ UNCHANGED down
          ELSE GroupMsg1([ap EXCEPT !.retry = r], gtk) /\ timer' = TRUE
       /\ UNCHANGED <<sta, nonces>>
    \/ r <= GroupCtr /\ r > Tries /\ Deauth
    \/ /\ r <= Tries
       /\ IF ap.state \in {"initpsk", "ptkstart"}
          THEN Start4Way([ap EXCEPT !.retry = r])
          ELSE ap' = [ap EXCEPT !.retry = r] /\ timer' = FALSE /\ UNCHANGED <<down, nonces>>
       /\ UNCHANGED sta

WPARetryExec ==
    /\ timer
    /\ Retry(ap.retry + 1)
    /\ UNCHANGED <<wpa2, doing, up, group, assocs, missed>>

\* GREKEYPeriodicExec: a new group key is offered to the station if its
\* handshake is done, with no timer to offer it again, ...
Rekey ==
    /\ Client /\ gtk <= MaxRekey
    /\ gtk' = gtk + 1
    /\ countdown' = 2
    /\ IF ap.state = "done"
       THEN /\ GroupMsg1([ap EXCEPT !.gtkDone = FALSE], gtk')
            /\ missed' = (doing # "none")
       ELSE /\ missed' = (missed \/ (wpa2 /\ ap.state = "negotiating"))
            /\ UNCHANGED <<ap, down>>
    /\ UNCHANGED <<wpa2, timer, doing, sta, up, hw, nonces, assocs>>

\* ... and installed two periods later.
RekeyInstall ==
    /\ countdown > 0
    /\ countdown' = countdown - 1
    /\ hw' = IF countdown = 1 THEN gtk ELSE hw
    /\ UNCHANGED <<wpa2, ap, timer, doing, sta, net, gtk, nonces, assocs, missed>>
-----------------------------------------------------------------------------
(***************************************************************************)
(* The station.                                                            *)
(***************************************************************************)
Heard(t) == {m \in down : m.t = t}

Drop == UNCHANGED <<sta, up, nonces>>

\* PeerPairMsg1Action
PeerMsg1(m) ==
    IF m.ctr <= sta.ctr THEN Drop
    ELSE LET ptk == <<m.nonce, nonces + 1>>
         IN  /\ nonces' = nonces + 1
             /\ sta' = [sta EXCEPT !.ctr = m.ctr, !.anonce = m.nonce, !.ptk = ptk,
                                   !.state = "negotiating"]
             /\ up' = up \cup {[t |-> "m2", ctr |-> m.ctr, nonce |-> nonces + 1, mic |-> ptk]}

\* PeerPairMsg3Action: the group key is taken by the sanity check, before the
\* nonce is compared.
PeerMsg3(m) ==
    IF m.ctr <= sta.ctr \/ m.mic # sta.ptk THEN Drop
    ELSE LET s == [sta EXCEPT !.ctr = m.ctr, !.gtk = IF wpa2 THEN m.gtk ELSE @]
         IN  /\ IF m.nonce # sta.anonce THEN sta' = s /\ UNCHANGED up
                ELSE /\ sta' = [s EXCEPT !.state = "done", !.key = sta.ptk,
                                         !.port = @ \/ wpa2, !.timer = ~wpa2]
                     /\ up' = up \cup {[t |-> "m4", ctr |-> m.ctr, mic |-> sta.ptk]}
             /\ UNCHANGED nonces

\* PeerGroupMsg1Action
PeerGroupMsg1(m) ==
    IF m.ctr <= sta.ctr \/ m.mic # sta.ptk THEN Drop
    ELSE /\ sta' = [sta EXCEPT !.ctr = m.ctr, !.gtk = m.gtk, !.port = TRUE, !.timer = FALSE]
         /\ up' = up \cup {[t |-> "g2", ctr |-> m.ctr, mic |-> sta.ptk]}
         /\ UNCHANGED nonces

PeerAnswer ==
    /\ sta.state # "none"
    /\ \/ \E m \in Heard("m1") : PeerMsg1(m)
       \/ \E m \in Heard("m3") : PeerMsg3(m)
       \/ \E m \in Heard("g1") : PeerGroupMsg1(m)
    /\ UNCHANGED <<wpa2, ap, timer, doing, down, group, assocs, missed>>

\* The station's retry timer, or its user: it disconnects, unheard by the AP.
PeerLeaves ==
    /\ sta.state # "none"
    /\ sta' = NoPeer
    /\ UNCHANGED <<wpa2, ap, timer, doing, net, group, nonces, assocs, missed>>
-----------------------------------------------------------------------------
Next ==
    \/ Associate \/ Reassociate \/ EapolStart \/ Accept \/ Act \/ WPARetryExec
    \/ Rekey \/ RekeyInstall \/ PeerAnswer \/ PeerLeaves

\* A thread goes on with what it began, and a pending timer fires.
Fairness == WF_vars(Act) /\ WF_vars(WPARetryExec)
Spec == Init /\ [][Next]_vars /\ Fairness

\* A run's bound: as many associations and new group keys together as there
\* may be associations.
Few == assocs + (gtk - 1) <= MaxAssoc
-----------------------------------------------------------------------------
TypeOK ==
    /\ {wpa2, timer, missed, ap.port, ap.gtkDone, sta.port, sta.timer} \subseteq BOOLEAN
    /\ ap.state \in {"none", "initpsk", "ptkstart", "negotiating", "done"}
    /\ sta.state \in {"none", "ptkstart", "negotiating", "done"}
    /\ ap.retry \in 0..Tries \cup {Msg3Ctr, GroupCtr, GroupCtr + 1}
    /\ doing \in {"none", "m2", "m4", "g2"}
    /\ {ap.ctr, ap.anonce, sta.ctr, sta.anonce, nonces} \subseteq Nat
    /\ {ap.ptk, ap.key, sta.ptk, sta.key} \subseteq (0..nonces) \X (0..nonces)
    /\ {gtk, hw} \subseteq 1..(MaxRekey + 1) /\ sta.gtk \in 0..gtk
    /\ timer => Client

\* When the AP's handshake is done, it and the station use the same pairwise
\* key, whatever was lost, repeated or sent again meanwhile, unless the station
\* has left.
KeysAgree ==
    ap.state = "done" /\ sta.state # "none" => ap.key = sta.key /\ ap.key # NoKey

\* When the AP holds the group handshake for done, the station has the current
\* group key, unless the key changed between WPA2's messages 3 and 4, or while
\* the thread was taking a handshake for done: then nobody tells the station.
GroupKeyAgrees ==
    ap.state = "done" /\ ap.gtkDone /\ sta.state # "none" => sta.gtk = gtk \/ missed

\* Every handshake that was started comes to its end, to deauthentication or to
\* a new association.
Ends == ap.state \in {"ptkstart", "negotiating"} ~> ap.state \in {"none", "initpsk", "done"}

\* "Use countdown to ensure the 2-way handshaking had completed": when the new
\* group key is installed, no station's group handshake is open, unless its
\* message 1 is still being sent again.
CountdownEnsures == [][hw' # hw => (ap.state = "done" => ap.gtkDone \/ timer)]_vars
=============================================================================
