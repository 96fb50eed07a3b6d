# Verification of the mt76x2e Wi-Fi driver: block ack, MLME queue, timers, power save, key handshakes, SA Query

The repository holds the MediaTek/Ralink Wi-Fi AP drivers of four chip
generations, `mt7610e`, `mt7620`, `mt7628` and `mt76x2e`, each a complete copy
of one code base. This project models **mt76x2e** (paths below are relative to
`src/mt76x2e/src/`), in its access-point configuration for Linux on PCI, with
`RTMP_TIMER_TASK_SUPPORT` off (only USB chips set it) and `KTHREAD_SUPPORT=n`.

The repository has no tests and next to no design documents. The properties
come from what the code itself says: its `ASSERT`s, the comments on its
structures and functions, and the 802.11 rules its branches name ("II. Drop
Duplicated Packet").

## 1. Inventory

### How the driver runs

Four kinds of activity share the adapter structure `RTMP_ADAPTER`:

| activity | context | what it does to the state modelled here |
|---|---|---|
| receive tasklet | softirq | data and BAR frames to the reordering buffer; management frames to the MLME queue (`MlmeEnqueueForRecv`) |
| receive tasklet, continued | | PS-Poll and power management bits to the power-save queues (`RtmpHandleRxPsPoll`, `RtmpPsIndicate`) |
| transmit path | softirq or a user's thread with bottom halves off | `RTMP_BASetup` -> `BAOriSessionSetUp` (ap/ap_data.c:522); frames for stations that sleep (`APInsertPsQueue`) |
| timers | softirq | `BAOriSessionSetupTimeout`, `WPARetryExec`, `GREKEYPeriodicExec`, the SA Query timers, state machine timers, which call `MlmeEnqueue`; `MacTableMaintenance` |
| MLME thread | process context, pre-emptible | `MlmeHandler`: every state machine, thus answers, DELBAs, EAPOL-Key frames, SA Queries, joining and leaving stations |

They talk through the MLME queue (a ring under a spin lock and a semaphore,
`RTMP_MLME_HANDLER`), through per-station entries of the MAC table, through the
block-ack tables, which are guarded by `BATabLock` in a few places only, through
the power-save queues, guarded by `irq_lock` in some places, and through
`RALINK_TIMER_STRUCT` objects, guarded by one `TimerSemLock`.

### Components

**Block-ack receive reordering** (common/ba_action.c:141-500, 600-730, 921-1020,
1371-1450, 1605-1965). State, per `BA_REC_ENTRY`: the list of pending MPDUs in sequence
order, `LastIndSeq`, `LastIndSeqAtTimer`, `BAWinSize`; one pool of 256
`reordering_mpdu` blocks for all sessions. Operations: `Indicate_AMPDU_Packet`
(timeout flush, then five cases), `CntlEnqueueForRecv` (a BlockAckReq),
`BARecSessionAdd`, `BARecSessionTearDown`. Hard: numbers modulo 4096 over loss,
duplication and reordering; timeouts; the pool at its limit; the tasklet against
a tear-down in the MLME thread. Correct when MPDUs go up in the sender's order
and once, none that is due stays pending, the list stays in its window, no block
and no MPDU is lost.

**Block-ack sessions** (common/ba_action.c:500-1360, common/action.c). State: the tables
`BAOriEntry`, `BARecEntry` with `numAsOriginator`, `numDoneOriginator`,
`numAsRecipient`; per station `BAOriWcidArray`, `BARecWcidArray`, `TXBAbitmap`,
`RXBAbitmap`, `BADeclineBitmap`; a retry timer per originator entry. Operations:
set up, retry, give up, granted, refused, torn down, requested by the peer,
renewed, and what inserting, deleting, authenticating and associating a station
do. Hard: slots and entries are reused; transmit threads, timers and the MLME
thread meet on the same entry; a tear-down can fail for want of memory; requests
wait in the queue while their station leaves. Correct when indexes, entries,
bitmaps, counters and timers agree, and each station and TID has an agreement
that no other touches.

**MLME queue and thread** (common/mlme.c:612-1040, 3600-4110). State: the ring (`Num`, `Head`, `Tail`, `Entry[]` with
`Occupied`), the semaphore, the thread, the halt flags. Operations: `MlmeQueueFull`,
`MlmeEnqueue`, `MlmeEnqueueForRecv`, `MlmeDequeue`, `MlmeHandler`,
`MlmeQueueDestroy`, closing and opening the interface. Hard: testing for room
and inserting are two critical sections; an element is worked on in place after
it was counted out; the interface may close anywhere. Correct when messages are
handled whole, in order, and none is lost or forgotten.

**MAC table, authentication, association** (mgmt/mgmt_entrytb.c, ap/ap_auth.c,
ap/ap_assoc.c): of these the project has what the sessions see.
`MacTableInsertEntry` clears the slot (139), `MacTableDeleteEntry` ends the
sessions and does *not* clear it (the `NdisZeroMemory` at 705 is commented out),
`APPeerAuthReqAtIdleAction` ends those of a known station,
`ap_cmm_peer_assoc_req_action` clears `TXBAbitmap` (1445).

**Timer objects** (common/rtmp_init.c:3560-3800, include/rtmp_timer.h:95-130,
os/linux/rt_linux.c:130-210). State of a timer: `Valid`, `State` ("was
cancelled"), `Repeat`, `PeriodicType`, whether the kernel's timer is pending.
Operations: `RTMPInitTimer`, `RTMPSetTimer`, `RTMPModTimer`, `RTMPCancelTimer`,
`RTMPReleaseTimer`, and the callback of `BUILD_TIMER_FUNCTION`, which re-arms a periodic
timer. Hard: the callback takes no lock, and may call these functions itself;
`del_timer_sync` waits for a callback that may be waiting for the caller's lock;
`add_timer` must not meet a pending timer. Correct when a timer does what the
last call asked for, and every call returns.

**Power save** (common/ps.c, ap/ap.c:1380-1900, ap/ap_data.c, common/cmm_data.c:540-610,
os/linux/rt_profile.c). State: per station `PsMode`, `PsQueue`, `PsQIdleCount`;
`McastPsQueue`; `TimBitmaps`. Operations: queue a frame, group frames, PS-Poll, wake
up, DTIM, collection of queues nobody asks for, action frames from the MLME
thread, joining, associating and leaving. Hard: queue, bound and TIM bit are three
pieces of state that no common lock holds together; a TIM byte is shared by
eight stations. Correct when what is queued is announced, leaves in order, does not
stay for ever, and leaves with its station.

**WPA four-way and group handshakes** (common/cmm_wpa.c, ap/ap_wpa.c). State: `WpaState`,
`R_Counter`, nonces, `PTK`, `ReTryCounter` and `RetryTimer` of an entry, `GTK`, `RekeyCountDown`,
on either side. Operations: starting, the six messages, `WPARetryExec`,
`GREKEYPeriodicExec`, deauthentication. Hard: frames are lost, repeated,
reordered; the retry callback comes in the middle of the thread; the group key
changes under a handshake. Correct when both ends use the same keys once the AP
says so, and every handshake ends.

**PMF and SA Query** (common/pmf.c, ap/ap_assoc.c:1130-1160). State: `SAQueryStatus`, `SAQueryTimer`,
`SAQueryConfirmTimer`, `TransactionID`. Operations: `PMF_MlmeSAQueryReq`,
`PMF_PeerSAQueryRspAction`, two time-outs. Hard: both timers against every step of
the thread. Correct when a station that answers is not deleted and the procedure ends.

**Not modelled**: the AP client machines (ap/apcli_*.c) but for their half of the key
handshake, which are the AP's seen from the other side; U-APSD (common/uapsd.c),
whose service periods depend on transmit-status interrupts of the hardware;
scanning, DFS and channel choice (radio measurement, regulatory
tables), rate control (numeric tuning), WSC (a protocol of its own in 15 files),
WDS, repeater, DLS, IGMP, hotspot, WNM (optional look-up tables), the DMA data
path, hardware access, firmware, EEPROM, calibration (register I/O), OS wrappers
and configuration (pure I/O), and the three sibling generations (copies). The timers' task queue
(common/rtmp_timer.c) is compiled for USB chips only.

`PROJECT.json` lists every component with its status, and under `hazards` the
places where this code is hard to test, each with the properties that watch it.

## 2. Modules

| module | models | abstract specification | theorems |
|---|---|---|---|
| `BaReorder` | one reordering buffer and the pool, handlers whole | - | `BaReorderProofs` |
| `BaRxTearDown` | the same entry at the grain of its locks | - | `BaRxTearDownProofs` |
| `BaSession` | the two tables and the stations, handlers whole | `BaAgreement` | `BaSessionProofs` |
| `BaOriRace` | the originator's half at the grain of shared accesses | `BaAgreement` | `BaOriRaceProofs` |
| `MlmeQueue` | the ring, its callers, the thread, close and open | `MlmeFifo` | `MlmeQueueProofs` |
| `Timer` | one timer object, its users and its callback | - | `TimerProofs` |
| `PowerSave` | queues of stations that sleep, group queue, TIM | - | `PowerSaveProofs` |
| `WpaHandshake` | AP and station through both key handshakes | - | `WpaHandshakeProofs` |
| `SaQuery` | the SA Query of one station | - | `WpaHandshakeProofs` |

`map` in `PROJECT.json` names, for every definition, the lines it stands for.

### BaReorder

`ba` is the entry with the pool: `list` (mpdu list), `last` (`LastIndSeq`),
`win` (`BAWinSize`), `free` (`freelist`), and `up`, what the current handler
passed to the stack. `sess` is `BARecWcidArray[TID] # 0`; `age` is the time since
`LastIndSeqAtTimer` as the code tells it apart (at most 100 ms, more, more than
500 ms). MPDUs are named by their position in the sender's stream; the code only
sees `Sn(n)`, which wraps. One operator stands for each function of the code:
`FlushTimeout` = `ba_flush_reordering_timeout_mpdus`, `LeSeq` =
`ba_indicate_reordering_mpdus_le_seq`, `InOrder` =
`ba_indicate_reordering_mpdus_in_order`, `Refresh` =
`ba_refresh_reordering_mpdus`, `InsertSorted` =
`ba_reordering_mpdu_insertsorted`, `EnqueueReordering` =
`ba_enqueue_reordering_packet`, `SurpassWindow` = case V, `Classify` = the five
cases, `BarFlush` = `CntlEnqueueForRecv`. The environment is a sender that
follows 802.11: it transmits within its window, up to `MaxCopies` of each MPDU
arrive, in any order, and it moves on past at most `MaxLoss` that never arrive.

History variables: `top`, the highest MPDU passed up since `LastIndSeq` was last
reset; `barred`, the MPDU a BAR named; `fell`, whether an MPDU since found the
pool exhausted; `leaked`, blocks given to EAPOL frames and not returned.
Order is only meaningful between two resets: `RESET_RCV_SEQ` makes the code
accept any number as the first.

### BaSession

`ori`, `rec` are the tables, `oriMap`, `recMap` the indexes of all stations,
`txBa`, `rxBa`, `decline` the bitmaps as sets of (station, TID), `present` the
MAC table slots in use, `asked` the ADDBA requests that wait in the MLME queue.
An entry keeps the key of its last session, as the code does. The peer is
arbitrary: any answer, request or DELBA at any time, repeated or late. `noMem`
is the set of sessions for whose DELBA `MlmeAllocateMemory` fails, whereupon the
tear-down returns and the session stays. Entry 0 is never allocated in the code,
so `OriIdx == 1 .. OriLen - 1`.

### BaOriRace

The originator's half for one station, each step one access to what is shared.
`pc` and `at` are where a thread is and which entry it has in hand. `Smp = FALSE`
is one processor: the transmit path and timers run to completion with respect
to each other (bottom halves off), the MLME thread may be interrupted anywhere. With
`Smp = TRUE` all run at once. A timeout may hit an entry while the MLME thread is
working on it: cancelling a timer does not wait for a callback that has begun, because
`__RTMP_OS_Del_Timer` calls `del_timer_sync` only when the timer is still
pending (os/linux/rt_linux.c:194).

No lock of the code keeps threads off each other's entries, and four meetings break its tables. Each
sets the history variable `raced` at the very step that makes it, after which the properties claim nothing:

- `Look`: a sender sets up a TID whose set-up another has begun and not yet shown in the status (ba_action.c:503, 529);
- `FreeTest`: an index is cleared while a sender has read it and not yet the status behind it (807, 520);
- `Fire`: a timeout starts for the entry the MLME thread has in hand (1079, against 588-595);
- `Take`: the MLME thread takes up an entry whose timeout is under way, or which a sender is still filling in (567, 874).

The third needs one processor only. Everything else that threads can do to one another is claimed to be harmless:
reading a bitmap or an index that changes at once, allocating and freeing side by side, `numDoneOriginator` loaded in one
step and stored in another, late and repeated answers. Each meeting is needed: without any one of them TLC
finds `NoneLost` or `CountOri` violated.

### BaRxTearDown

A receive tasklet in the steps of `Indicate_AMPDU_Packet`, and the MLME thread in
those of `BARecSessionTearDown` and `BARecSessionAdd`; `RxReRingLock` makes each
list operation one step. What sequence numbers decide is left open (any case may
apply, any prefix of the list may go up), which allows more than the code does.

### MlmeQueue

`Num`, `QHead`, `QTail`, `Entry` are the ring. A caller goes through `Check`
(`MlmeQueueFull`), `Insert` and `WakeUp`; the thread through `Start`,
`MlmeDequeue`, `Finish`, `Leave`. `Finish` stands for the state machine the
thread calls and for "free MLME element". `Halt`, `MlmeHalt`, `Open` close and
open the interface. Fields of a message are one value. `Unseen` is what the test for room does not count: the
callers between test and insertion, and the element in work. `overbooked` is history: a caller passed the test
although these left no element for it (`Crowded`). From then on, until the interface is opened again, the properties
claim nothing, since the insertion that follows writes over an element or past the ring's count. `Limit` bounds `Num`,
which only an overbooked ring lets grow beyond `Max`.

### Timer

One `RALINK_TIMER_STRUCT`. `at[p]` says where each of the `Callers`, and the callback
`Cb`, is: at an access to the timer inside `RTMPSetTimer` (`add`),
`RTMPModTimer` (`cancel`, `set`), `RTMPCancelTimer` or `RTMPReleaseTimer` (`del`, `sync`,
`mark`), or, for `Cb`, in the function proper (`func`, from which it may call
them once), after it (`end`) and re-arming (`rearm`, `readd`). `smp`: with one processor the
callback runs whole and not while `TimerSemLock`, a lock that turns bottom halves
off, is held; with more it runs beside everything. `halt` is the adapter's flag which
makes `RTMPSetTimer` return. History: `want`, what the last call that did not overlap
another one asked for; `again`, a periodic timer was set while pending;
`double`, `add_timer` met a pending timer, after which the kernel has stopped.

### PowerSave

`psq[w]` is `PsQueue`, with a number for each data frame in the order of the stack and
0 for a management frame; `idle` is `PsQIdleCount`, `tim` the set of bits in the
byte `TimBitmaps`. The tasklets, timers and transmit path are whole steps on
one processor. The MLME thread is not: `MlmeHardTransmit` looks at `PsMode`, then
`AP_QueuePsActionPacket` tests the bound, inserts, and sets the TIM bit, with anything
in between (`job`). `rmw` says whether `|=` on a byte is one instruction (`whole`)
or load and store (`torn`), which is the compiler's choice. `MacTableDeleteEntry`
empties the queue but leaves the TIM bit (mgmt_entrytb.c:655), as the model does. `Authenticate` is a known station's
authentication, which puts it back to `SST_AUTH` (ap_auth.c:405) and looks at neither queue nor `PsMode`. `passed` (what a
station was sent) and `stale` (it associated again with frames queued) are history.

### WpaHandshake

`ap` is the MAC table entry of the AP, `sta` the one of a station that runs the AP-client half of the
same functions; `down` and `up` are the frames ever sent, each of which may arrive at any later time, any
number of times or never. `wpa2` chooses between the two courses of the handshake. A nonce is a
number never used before, a PTK the pair of nonces it is derived from, a MIC the PTK that made it.
`Associate` makes the AP's entry anew. `Reassociate` is the association of a station the AP still has:
`update_associated_mac_entry` sets `WpaState` and shuts the port, the handshake is asked for, and `R_Counter`, `ANonce`, `PTK`
and a pending `RetryTimer` stay (ap_assoc.c:126-195, 520, 852-864).
`PeerPairMsg2Action` and its likes are two steps, up to the sanity check and after it
(`Accept`, `Act`), since `WPARetryExec` comes between them. What the code does before the
check is before it here: `PTK` is overwritten by any message 2 with a later
or repeated nonce (cmm_wpa.c:1210). `missed` is history: the group key changed at a moment
after which nobody tells the station.

### SaQuery

`status`, `mainTimer`, `confirm` are `SAQueryStatus` and the two timers; `asked` says that the question that has the
current `TransactionID` was sent, which decides whether an answer can match. `job` is the MLME thread's
step in `PMF_MlmeSAQueryReq` or `PMF_PeerSAQueryRspAction`; the callbacks run between any two.
`answered` and `raced` are history.

## 3. Runs

| run | configuration | what it shows |
|---|---|---|
| `reorder` | sequence space 16 starting at 13, windows 2 and 3, 13 MPDUs, 2 copies each, 1 lost in a row, 3 blocks, 1 of them wanted by others, 3 EAPOL MPDUs; 612,250 states | the list stays within its window and in order, the next in order does not stay, and nothing is pending while `LastIndSeq` is reset, all blocks are accounted for, MPDUs go up in order and once but for the one a BAR named |
| `pending_stuck` | 4 MPDUs, window 2, fair | **violation**: pending MPDUs wait for ever when the sender falls silent |
| `tables` | 2 stations, 1 TID, 2 originator entries, 1 recipient entry, 2 retries; 75,264 states | indexes, counters, bitmaps, timers agree; the tables implement `BaAgreement`; every set-up ends |
| `single` | 2 transmit threads, 2 TIDs, 2 entries, several processors; 149,200 states | until one of four named meetings, accesses outside `BATabLock` do no harm and `BaAgreement` is still implemented |
| `lists` | 2 keys share an entry, 4 MPDUs; 12,540 states | no MPDU is lost, passed up twice or freed twice, whatever tear-downs run meanwhile |
| `fifo` | ring of 4, 1 tasklet, 2 other callers, 2 messages, `Num` up to 6; 204,694 states | until the ring is overbooked it implements `MlmeFifo`, the element in work is never written over, a message is always handled |
| `queues` | 1 station, queues of 2 and 1, 4 data frames, `\|=` both ways; 296,022 states | what is queued is announced (where `\|=` is indivisible), in order, not left behind, and leaves in the end |
| `tim` | 2 stations, `\|=` torn | **violation**: the MLME thread takes back another station's TIM bit |
| `race` | 2 threads and the callback, one processor and more, periodic or not; 105,222 states | a timer does what the last call asked, is added once, and calls return, with named exceptions |
| `keys` | 1 retry, 2 associations, or 1 and a new group key, WPA and WPA2; 166,894 states | both ends use the same keys when the AP says so, and every handshake ends |
| `countdown` | 1 retry, 1 association, 1 new group key | **violation**: the group key is installed although a station's handshake for it is open and nothing sends it again |
| `saquery` | one station; 123 states | a station that answers stays, the procedure ends, but for one race |

Further configurations reproduce findings: each names one property that TLC finds
violated. `WpaHandshake_tries` is the exception: it has the properties of `keys`, which hold, with the code's three
retries and one association (288,796 states).

| configuration | property | what TLC shows |
|---|---|---|
| `BaReorder_bar_duplicate` | `PassedUpInOrder` | a BAR lets one MPDU come up twice |
| `BaReorder_qlen_assert` | `QlenAssert` | the pending list one longer than `BAWinSize`, which the code asserts it never is |
| `BaSession_reassociation` | `SessionMasked` | a session whose TID is not marked, after another association |
| `BaSession_orphan` | `NoOrphan` | a recipient session of an empty slot |
| `BaOriRace_late_answer` | `MasksHaveSession` | on one processor, a timeout between the halves of the grant leaves a TID marked for A-MPDU without a session |
| `BaRxTearDown_stale_list` | `AddAssert` | an MPDU left in the list of a free entry |
| `MlmeQueue_overwrite` | `WaitingKept` | the element in work is written over |

**Why the bounds are enough.** `reorder`: 13 MPDUs from number 13 in a space of
16 wrap and reach 9, so every comparison is made on both sides of the wrap; the
pairwise distances that can occur are checked by the assumption
`LossAssumption` (two windows and the lost MPDUs are less than half the space),
as they are with 4096 numbers and windows of at most 64. Windows of 2 and 3
make every one of the five cases, both timeouts and the exhausted pool (3 blocks,
one taken by others) happen. `tables`: two stations compete for one recipient
entry and the table is full with two originator sessions, so that allocation
fails, slots and entries are reused by another station. One TID suffices there
because a key is only compared; the theorems of section 5 hold for any number.
`single` has two TIDs and two entries because its races are between TIDs of one
station; its properties hold as well with three entries (1.72 million states), three TIDs (1.55) or
three transmit threads (0.97). Its `CONSTRAINT Unraced` stops where two threads have met: nothing is claimed
from there on, and `raced` never becomes false again. `fifo`: in a ring of 4, tasklets may use 2 elements, the others all;
two callers and a tasklet can be past the test together while the thread works on a fourth element, so that the ring is
just full, and overbooked, in every way. `Limit` is two more than the ring, so that a ring overrun by every caller is seen;
it plays no part before that, since `Check` cannot pass with `Num = Max`.
`queues`: the properties are of one station and of the TIM byte; a second station only
enters through the byte, for which run `tim` has two. Two frames in the queue and the thread's one more
reach the bound, and 4 data frames let a queue fill, empty and fill again; the proofs hold for any
number of each. `race`: of two threads and a callback each can be inside a function while another one
begins and ends; more threads add no new pair. `keys`: `Few` makes two associations, either of which may keep
the entry of the other, or one and a new group key. One retry is enough to tell
the first message of a kind from a repeated one and from the last; three, the code's number, are checked with one association. The
invariants hold with two associations and a new group key, too (5,690,584 states). `saquery` has no bound.

The deadlock check is off where a bound on frames, copies or MPDUs lets the model
stop (`BaReorder`, `BaRxTearDown`, `WpaHandshake`), where everything may be idle (an
interface that is down with every caller idle, threads with nothing to do), and in
`Timer`, where nothing runs after the kernel's `BUG_ON`.

**Fairness.** `SetUpEnds` assumes weak fairness of each entry's timeout: a Linux
timer that is pending fires. Nothing is assumed of the peer or of stations.
`Handled` assumes that the MLME thread is scheduled and that a caller which has
inserted its message goes on to `RTMP_MLME_HANDLER`, straight-line code in the
callers; it does not assume that anything is ever inserted, or that the interface
stays up. `pending_stuck` assumes that time passes and that the sender
transmits all it has and moves its window on, and still finds MPDUs that stay.
`HeldLeaves` assumes that the one-second maintenance goes on, and nothing of any
station. `Returns` assumes that the callback goes on, and strong fairness of each step of a
function that has begun: the steps wait for a ticket lock, or for a callback in
`del_timer_sync`, which looks again and again, so one that is possible again and again is
taken. `Ends` assumes that the AP's thread goes on and that a pending `RetryTimer` fires,
and nothing of the station or the network. `Resolves` assumes the same of
thread and timers.

**Mutants.** For every property of every passing run, `PROJECT.json` names a
variant of one definition, kept beside it and marked "Mutant:", that changes it
as a plausible bug would (a block given back twice, a retry limit dropped, an
index not cleared); TLC finds the property violated with it.

## 4. What the checks say about the code

Until an MPDU takes the fallback the reordering logic is right but for one off-by-one after
a BAR. The session tables are consistent for any order of events when handlers
run whole, with two exceptions that concern a station that associates again and a
request that outlives its station; the missing locks do harm in four meetings of two threads and no
other, one of them possible on one processor (`BaOriRace_late_answer`). The MLME queue is a FIFO until a caller
passes the test for room that callers in between have used up. A timer does what it was told on one processor, but
for one misuse of a periodic timer; with more, a cancel may fail to stop one. What is queued for a
station that sleeps is announced, except that the MLME thread may take another
station's TIM bit back. The key handshakes never leave AP and station with
different pairwise keys; the group key may go round a station. An SA Query that
is answered never ends with the station deleted or the procedure stuck, but for a race with its timers.

Holds only within limits, all named in the properties:

- `PendingInWindow`, `InOrderNotHeld`, `InOrderButForBar` and the first half of
  `QlenBounded` until an MPDU takes the fallback of `ba_enqueue_reordering_packet`
  (`fell`), for EAPOL or an exhausted pool. The fallback passes the MPDU up and moves
  `LastIndSeq` to it, but leaves pending what follows in order, after which the
  promises lapse until the next reset. The list's second bound, that it is empty
  while `LastIndSeq` is reset, and `PoolConserved` hold regardless.
- `CountOri`, `NoneLost`, `MaskedMapped` and `ImplementsAgreement` of `BaOriRace` until a meeting (`raced`). `FreeAssert`,
  the code's own `ASSERT` (ba_action.c:820), which is stated without that exception and checked by no run, fails with `Smp = TRUE`: a
  retry timer and a tear-down both see the entry in use before either takes `BATabLock`.
- `ElemApart`, `OccupiedExact` and `ImplementsFifo` of `MlmeQueue` until the ring is overbooked. Then callers that have passed the test
  for room write over the element in work, or make `Num` exceed `Max`. One caller is enough if it is not a tasklet
  and comes while the thread works on an element and the rest of the ring is full.
- `KeepsPromise` for calls that do not overlap, and but for the cancels listed in section 7.
  `Returns` but for `Hung`: on several processors `RTMPReleaseTimer` waits for the
  callback with `TimerSemLock` held, while the callback waits for that lock.
- `Announced` where `|=` on a byte is indivisible (on MIPS and ARM it is not); `InOrder` unless the station associated
  again with frames queued (`stale`); `NoLeak` for data frames only.
- `GroupKeyAgrees` unless the group key changed at one of two moments (`missed`); `Ends` as long as memory lasts.
- `AnswerCounts` unless the time-out ends while the answer is taken in, and for an answer to the last question;
  `Resolves` unless a repetition comes between lines 243 and 245 of pmf.c (`raced`).

## 5. Proofs

Every theorem holds for all values of the constants. Each proof module states
an inductive invariant (`IInv`), a conjunction of named parts, which TLC checked
before it was proved, and has one lemma per part or per action.

`BaReorderProofs` (any windows, losses, pool and stream that `SizesAssumption` and
`LossAssumption` admit; the code's 4096 numbers among the spaces). Each operator of the module has
one lemma about blocks (`...Accounts`) and one about order (`...Good`); the actions' lemmas combine them.

- Blocks. `Accounts(b, c)` says that free, pending and leaked blocks of `b` and `c` are as many. It is
  transitive, so a handler keeps it because its parts do. With the types, and that nothing is
  pending while `LastIndSeq` is reset, it makes `TInv`, from which `Typing` and `Pool`.
- Numbers. The code compares numbers modulo 4096. `Apart` says that comparing is
  right for two MPDUs fewer than half of the numbers apart, so each comparison of a handler becomes a bound on a distance in the stream.
- Order. `IInv` says, while `LastIndSeq` is not reset and no MPDU took the fallback, that there is an MPDU `L`
  (`Follows(L)`) whose number `LastIndSeq` is; that the list is in order after all that went up, in the window
  after `L`, up to the newest that arrived, and does not begin at `L + 1`; that what went up is up to `L`,
  or is `L + 1` and a BAR named it; and that the newest is at most a window beyond
  `L`, and `L` at most the newest or just before the sender's window. `Sender` bounds the sender's window around the newest.
- Why so much: `PendingInWindow` alone is not inductive, since a number that
  arrives from too far away would be put in the past, or in the future, of the list. Only the sender's window, the lost MPDUs and
  the distance of `L` from the newest together bound it, which is `2 * win + MaxLoss < SeqSpace / 2`, `LossAssumption`.
  It is an assumption on the sender and the air: with 4096 numbers and windows of 64, at most 1919 MPDUs lost in a row.
- Within a handler `Good(b, L, t, h)` says the same of the entry as it is so far, and `Lined` that what went up in it and then
  what is pending is in the sender's order after `t`. Each part of a handler takes a `Good` entry to a `Good` entry with another `L`.

`Least` (a set of naturals has a least element, from `NatLessThanWellFounded`) is all the induction there is: `Leading`
is the first position outside a set, and what holds along a list is shown at the first position where it would not.
The theorems are `Typing`, `Pool`, `InWindow`, `QlenUntilFallback`, `NextNotHeld` and `PassedUp`, `Spec => InOrderButForBar`.
TLC checked `IInv` on the instance of run `reorder`, `L` bounded, before it was proved.

`BaSessionProofs` (any number of stations, TIDs,
table entries, retries; assumptions `LenAssumption`, `RetryAssumption`,
`FiniteAssumption`). `IInv` is the conjunction of
`OriInv` (typing, ownership, timers and `TXBAbitmap` of the originator),
`RecInv` (the same of the recipient), `OriCounts`, `RecCount`, `Others`, and
`AskersPresent`: a set-up waits for an answer only while its station is in the
MAC table. The last is no property of its own, but without it the proof fails at
`MacTableInsertEntry`: clearing a slot's indexes is only harmless because no
armed timer's entry belongs to it, which `MacTableDeleteEntry` guarantees since a set-up that waits needs no
DELBA and so is freed even when memory is short. The proof rests on
two lemmas, `FreeOriKeeps` and `FreeRecKeeps`: freeing any set of entries that are
named by their own index keeps the invariant. The theorems are `Typing`, `Ownership`,
`Counting`, `Bitmaps`, `Timers`, and `Refinement`, `Spec => Agreement!Spec`:
every step asks for, grants, or drops agreements of one station, or changes none.
The capacity of the abstract specification needs the lemma `AtMostNumOri`:
different keys have different entries, so the agreements in use are at most as
many as the counter says.

`MlmeQueueProofs` (any ring of at least 2 elements, any finite set of
callers; no further hypothesis). `IInv` has the types, `Worked` (an element is in work exactly while the thread works), `Stopped` (the thread
waits while the interface is down) and `OccupiedExact`, and, until the ring is overbooked, `Sound`: where the tail is (`Behind`), that the
element in work is the one before the head (`Follows`), and that elements that wait, are worked on or are spoken for
by callers past the test are no more than the ring has (`Fits`). `Fits` is what makes it inductive: the code's test for room speaks of one moment,
the insertion happens at a later one; a tasklet's test keeps it since half of the ring is left, another caller's unless
it is `Crowded`. The theorems are `Typing`,
`WorkedElementApart`, `OccupiedMarks` and `Refinement`, `Spec => ImplementsFifo`. The last needs in addition
`Messages` (what waits or is worked on is a message) and the arithmetic of the index: `Wraps` shows that `%` is one
subtraction, so that an insertion appends to the sequence `Waiting` and a removal takes its first element.

`BaOriRaceProofs` (any number of processors, TIDs, entries and threads that transmit; the only assumptions are
`RaceAssumption`, the types of the constants, and `ThreadAssumption`, which keeps the names of
threads apart). `IInv` is the types, `Steps` (which steps a thread of each kind can be at) and, until a meeting, `Careful`:

- `Apart`: two senders do not set up one TID, nor own one entry.
- `Sending`, `Firing`, `Handling`: what each thread still knows of the entry it looked up, at each of its steps,
  and that nobody else has it in hand where that is needed.
- `Mapped`, `Armed`: an index leads to an entry of its TID, and a timer runs only for an entry its index names.
- `Held`: an entry in use is named by its index or about to be filled or freed, from which `NoneLost`.
- `Masked`: a marked TID has a granted session or one about to be freed, from which `MaskedMapped`.
- `Counts`: `CountOri`.

The proof is what found the four meetings: each is a step that `Careful` does not survive, and the proof
goes through once those steps, and no others, are excepted. Every access has a lemma with one step per conjunct. The theorems are
`Typing`, `Counting`, `NothingLost`, `MasksMapped` and `Refinement`; the abstract bound of `OriLen - 1` agreements at once is
the lemma `Room`: agreements have different entries, and the one about to be filled is a further one.

`BaRxTearDownProofs` (any number of MPDUs and entries). `EachOnce` is inductive with the types: what went up followed by
what is in the list is one sequence without repetition, of which a flush only moves the boundary, and into
which an MPDU not yet there is inserted. `ConcatDistinct` and `InsertedMembers` are the facts about sequences
this needs. The theorem is `Accounted`.

`PowerSaveProofs` (any set of stations, any bounds). `IInv` is `Types`, `Queues`, `Thread` and
`Marked`. `Queues` says that the data frames of a queue are in ascending order, later than every
frame the station was sent, unless it is `stale`, and earlier than the next, and that an empty slot
holds no data frame; `Thread` what
the MLME thread has found when it inserts (room in the queue) or stores (a torn `|=`); `Marked` that a
queue that is not empty has its bit, or the thread is about to set it. The theorems are
`Typing`, `Announcement`, `Order` and `NoLeaks`.

`TimerProofs` (any number of threads; one processor or more). `IInv` is `Types`, `Steps`, `Periods` and `Calls`.
`Steps` says where the lock is held and what each step implies of `Valid` and the callback, `Periods` what holds
of a periodic timer. `Calls` says that calls which overlap and may undo each other both know of it (`Crossing`),
that the timer does what `want`, the last call that met nobody, asked (`Promise`), and that
a cancel which meets nobody has stopped the timer before it returns (`Stopping`).
`KeepsPromise` alone speaks only of moments when nobody is in a function. The theorems are `Typing`,
`Promised` and `AddsOnce`.

`WpaHandshakeProofs` (any `Tries` below `Msg3Ctr`, which keeps the ranges of
`ReTryCounter` apart, any number of associations and rekeyings). Every action is first reduced to a
`Move` that names the fields it writes; the parts of `IInv` are then kept by every `Move`:

- `Types`, `Frames`, `Stages`: types, and what each stage of a handshake implies of the entries.
- `Nonces`: message 1 and message 2 about the nonce the AP uses carry its counter, until message 3 raises it. A
  re-association leaves the entry with the nonce and PTK of the association before, so that this is said of `Anonce` and `Ptk`, which
  are those of the present association, or none until its message 1.
- `OneMsg3`: for each nonce the AP sends one message 3, with which it goes on.
- `Answers`: every message 4 and group message 2 answers a frame that was sent with its MIC and counter.
- `StaKey`: the key the station installs is that of the one message 3.
- `Counters`: no frame that brings a group key has a counter beyond the AP's, and the one with
  the AP's counter brings the current key, or `missed`.
- `GroupKey`: when the AP takes the group key for known, or is about to, or could on an answer under way, the station has it
  and will take no other (`Told`).

`KeysAgree` follows since message 4 passes the sanity check only with the MIC of the AP's
current PTK, which only a station that holds that PTK makes: `OneMsg3` and `StaKey` then say that it
is installed there. The theorems are `Typing`, `PairwiseKeys` and `GroupKeys`. Without either half of
`Sanity` the proof fails, as TLC finds the properties violated.

The last section of that module is about `SaQuery` (any number of questions and procedures), the guard of the station that
the handshake made secure. `SaInv` is `SaTypeOK`, `AnswerCounts`, `SaWatched` (while the
status is not idle `SAQueryTimer` is pending, unless `raced`) and `SaOrder`, what holds at
each step of the thread. The theorems are `SaTyping`, `SaAnswered` and `SaWatching`, the safety half of `Resolves`.

**Only model-checked**: liveness (`SetUpEnds`, `Handled`, `PendingPassedUp`, `HeldLeaves`,
`Returns`, `Ends`, `Resolves`), which the prover does not do under fairness; the action property
`CountdownEnsures`, of which TLC shows a violation.

## 6. Findings

Each is reproduced by a run or a configuration of section 3; `PROJECT.json` quotes the lines.

1. `BaReorder_bar_duplicate`: after a BAR `LastIndSeq` is `StartSeq - 1` although the MPDU
   `StartSeq` may have gone up (ba_action.c:1424-1425): a late copy goes up again.
2. `pending_stuck`: the timeout flush runs only when another MPDU of the session
   arrives (1885); `BaReOrderingBufferMaintain` is called nowhere.
3. `reorder` (`leaked`): an EAPOL MPDU out of order costs a block of the pool for
   good (1695-1697).
4. `BaReorder_qlen_assert`: the `ASSERT` that at most `BAWinSize` MPDUs are pending
   (1726) fails after an EAPOL MPDU out of order. `LastIndSeq` moves to it (1741) while the MPDUs next in
   order stay in the list; a late copy of the first of them counts as in order and goes up, and then a
   whole window is accepted next to a list that begins at `LastIndSeq` itself. The first MPDU
   comes up a second time when the list is flushed. The attempt to prove the bound for any pool led here: run `reorder` has fewer
   blocks than it takes.
5. `BaSession_reassociation`: associating again clears `TXBAbitmap` (ap_assoc.c:1445) but
   leaves the session, after which the TID is not sent as A-MPDU again.
6. `BaSession_orphan`: an ADDBA request handled after its station left makes a session that
   the next station of the slot can neither use nor free.
7. `BaOriRace_late_answer`: `BAOriSessionAdd` sets the status (ba_action.c:588), then the
   bitmap (594), then cancels the timer (595); a timeout in between frees the granted
   session, and the TID stays marked for A-MPDU with no session behind it.
8. `BaRxTearDown_stale_list`: an MPDU in the tasklet's hands is put in the list of an entry
   that has been flushed and freed (1860, 1008).
9. `MlmeQueue_overwrite`: with all but one element waiting, that one is the element the MLME thread works on, and
   `MlmeQueueFull` lets a caller other than a tasklet through (mlme.c:4079): it writes over the element in work, or, if several pass together,
   over one that waits; a message is lost although success was reported.
10. `tim`: the MLME thread sets a TIM bit outside `irq_lock` (cmm_data.c:597); between its load and its
   store it takes back the bit of another station, which sleeps on.
11. `race` (`again`): `REKEYTimerRunning` is cleared without cancelling `REKEYTimer` (ap_wpa.c:1154), so that the
    periodic timer is added while it is pending, which the kernel answers with `BUG_ON`.
12. `countdown`: the message that offers a new group key is sent once; if it is lost nothing sends
    it again, and the key is installed two periods later all the same (ap_wpa.c:845, 853).
13. `saquery` (`raced`): a repetition between pmf.c:243 and 245 leaves the status at `SAQ_SENDING`
    with no timer, and every later association request in the station's name is put off for ever.

## 7. Abstractions

- Handlers are whole in `BaReorder` and `BaSession`; their steps are in `BaOriRace`
  and `BaRxTearDown`. The two levels meet in `BaAgreement`, which both implement.
- The A-MSDU, header-translation and 802.3 variants of passing an MPDU up are one
  step; the `_hdr_trns` copies of the reordering functions are not mapped.
- The automatic set-up's own conditions in `RTMP_BASetup` (rate, encryption, traffic) and
  the refusals by configuration are choices of the environment.
- In `MlmeQueue` the WSC element buffer and the message's fields are left out,
  `MlmeRestartStateMachine`, which nothing calls, too.
- `BaOriRace` takes tear-downs from the MLME thread, which makes almost all of them. Those of a user's command
  (cmm_info.c:2690) run in the caller's thread beside it, and are left out; so is the deletion of a whole station,
  which is a tear-down of each TID.
- `Timer` shows, and its properties except: on several processors a cancel that finds a periodic
  timer's callback running does not stop it re-arming itself; a cancel that overlaps a set can leave both `State` and
  `Repeat` set, after which a cancel from the callback leaves the timer armed; `RTMPReleaseTimer` waits for the callback
  while it holds `TimerSemLock` (rtmp_init.c:3778), and so does a callback that cancels its own timer after somebody
  set it again.
- `PowerSave`: one processor; U-APSD queues and `PsDeQWMM` choices are left out.
  An action frame may stay for a station that is awake by the time it is inserted, until the next garbage collection,
  or in the slot of one that has left. `PsQIdleCount` is reset only when a queue becomes empty.
- `WpaHandshake`: key requests (cmm_wpa.c:406-470), MIC failure reports, DLS, 802.1X, WSC and WAPI are left out, and
  lack of memory in `WPAStart4WayHS`, `PeerPairMsg2Action` and `MlmeDeAuthAction`, after which `Ends` fails. `DefaultKeyId`
  changes at once (ap_wpa.c:817) while the key is installed two periods later; the model has the key only. If the retry callback deletes the entry
  between check and use the thread writes to an empty slot, which the model skips since the next insertion clears it.
- `SaQuery`: one processor. When memory for the association response is short (ap_assoc.c:1006) the handler returns before the
  SA Query and nothing changes, which is a stutter. The answer to a question that is not the last is refused (pmf.c:241), so a station that takes
  more than 200 ms to answer is deleted although it answered each question; `AnswerCounts` speaks of the last one.
  An authentication frame of a wrong algorithm deletes an entry of a PMF station; it is a `Leave`.

## 8. Plan

Done: everything in section 2. What is left, in this order:

1. `StationEntry` (mgmt_entrytb.c, ap_auth.c, ap_assoc.c): hash list, AID,
   authentication and association state, and its composition with `BaSession`, `PowerSave` and
   `WpaHandshake` for the station events that are choices there.
2. U-APSD (common/uapsd.c) on top of `PowerSave`: service periods and the EOSP bit.
3. `WscElement`: the single buffer between the MLME thread and the WSC task.
4. The AP client machines, and `WpaHandshake` with them as the station.
5. Proofs: the same of the model at the grain of locks, that what `BaRxTearDown` passes up is in order
   where no tear-down comes between, and each new module's invariants.
