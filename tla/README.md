# cocotbext-spacewire in TLA+

A TLA+ development of the SpaceWire link of this repository: the link
initialization FSM, credit-based flow control, the endpoint that runs both as
cocotb tasks with the callers that wait for it, the character codec with its
parser, the bit driver and monitor, and two endpoints against each other bit by
bit and in time. TLC checks the modules on small instances; TLAPS proves the main
results for every value of the constants.

All source paths below are under `src/cocotbext/spacewire/` unless they begin
with `src/`.

## 1. The system

| Part | Source | State | Operations |
| --- | --- | --- | --- |
| Link FSM | `link_fsm.py` | state, gotNULL latch, three application flags, three flags of the visit to Started/Connecting | `feed(event)`, `output()` |
| Credit counters | `flow_control.py` | `max_rx_credit`, `tx_credit`, `rx_credit` | `on_fct_received`, `on_nchar_sent`, `can_send`, `on_fct_sent`, `on_nchar_received`, `should_send_fct`, `reset`, `initial_fct_count` |
| Endpoint | `link.py` `SpaceWireLink` | the two above, the live timer, the TX loop and its wake-up, TX and RX N-Char queues, drain counter, events for waiters | `start`, `connect`, `disconnect`, `stop`, `wait_for_error_reset`, `send_packet`, `send_char`, `recv_packet`; tasks `_tx_loop`, `_run_timer`, `_disconnect_watchdog` |
| Character parser | `link.py` `_CharacterParser` | its decoder | `feed_bit`, `reset` |
| Codec | `characters.py` `Encoder`, `Decoder` | content bits of the previous character, collected bits, pending ESC | `encode`, `feed`, `reset`, `force_bad_parity` |
| Adapters | `characters.py` `CharDriver`, `CharMonitor` | queue, task, statistics | `send_*`, `recv`, callbacks |
| DS codec | `ds_codec.py` | none | `ds_encode`, `ds_decode` |
| Bit driver | `driver.py` | D and S levels, bit queue, counts and waiters | `send_bits`, `send_bits_and_wait`, task `_run` |
| Bit monitor | `monitor.py` | bit queue, disconnected flag, callbacks, readers | `recv_bit`, `on_bit`, task `_run` |
| Packets | `packet.py` | data and terminator, immutable | constructors |
| Bus, exceptions, time-codes | `bus.py`, `exceptions.py`, `timecode.py` | none | signal handles; classes; (empty file) |

How they interact. Everything runs in one Python thread under the cocotb
scheduler, which switches tasks only at an `await`. The monitor calls
`parser.feed_bit` for each bit; the decoder yields characters; the parser feeds
the FSM an event for each character and *then* hands the character to the link,
which does the credit accounting and fills the RX queue. Any event that changes
the FSM's state runs `_on_state_change` at once: it cancels and arms the timer,
sets the bit rate, on ErrorReset resets codecs and credit, and wakes the TX
loop. The TX loop asks for the FSM's mode, picks the next character (credit and
queues decide), gives its bits to the driver and waits until they are driven,
then feeds SENT_NULL or SENT_FCT, or counts the N-Char as drained. The watchdog
polls the monitor's flag every 100 ns and feeds RX_ERR.

What is hard in it: the order "event first, character afterwards" inside one
callback; a state change in the middle of the TX loop's wait; timers cancelled
at the moment they expire; resets with characters queued, in the driver and on
the line; two counters at two ends that must agree with no common clock; flags
that survive from one attempt to the next; limits that need not divide by 8; two
ends whose errors reset each other; `start()`, `stop()` and the waiting callers in
any order.

What makes each part correct:

- FSM: no state is reached without what the standard demands since the last
  ErrorReset, no delay is skipped, no enabled transition is left pending.
- Counters: granted credit is exactly what the other end holds or will see; no
  credit error between two correct ends; nobody waits for ever.
- Endpoint: no lost wake-up, the timer and rate are those of the state, the
  drain counter is exact, credit does not outlive the session.
- Codec: what is encoded is decoded; a fault is reported with the next primitive
  at the latest, and lets at most one wrong character through before that.
- Parser: a reset leaves it in step with the peer, or at least in a state the
  next handshake recovers from.
- Callers: each returns for the reason it waits for, and only then; the tasks of
  the link are started once and stopped with it.
- Driver and monitor: what is driven is heard, once and in order; each caller
  returns with its own last bit; no reader sleeps over a bit.
- Two endpoints: both come to Run in time after any start and any one fault, and
  what `recv_packet` returns is what `send_packet` was given, in order, with gaps
  only where a reset lost something.

`PROJECT.json` lists every component with its status, and every hazard with its
line and the property that covers it.

## 2. The modules

| Module | Models | Notes |
| --- | --- | --- |
| `LinkFSM` | `link_fsm.py` | operators over one record: `Feed(f, e)` is `feed()` |
| `LinkFSMEnv` | the FSM fed with any events | history variable `passed` |
| `CreditCounter` | `flow_control.py` | operators over one record |
| `WindowTransfer` | | abstract specification: what flow control promises |
| `CreditFlow` | two counters, one direction of one session | refines `WindowTransfer` |
| `CreditFlowProofs` | | theorems about `CreditFlow` |
| `SpwLink` | `link.py`, one endpoint | operators over one record, uses `LinkFSM` and `CreditCounter` |
| `SpwLinkOpen` | one endpoint against any peer and application | |
| `SpwLinkOpenProofs` | | theorems about `SpwLinkOpen` |
| `LinkApi` | one endpoint with `start`, `stop`, `connect`, `disconnect`, `wait_for_error_reset`, `send_packet`, `send_char` as tasks that wait | |
| `LinkApiProofs` | | theorems about `LinkApi` |
| `Characters` | `characters.py` `Encoder`, `Decoder`; the event mapping of `_CharacterParser` | operators over one record each |
| `CodecLine` | an encoder and a decoder over a line with one fault | `MCCodecLine` gives the characters |
| `CodecLineProofs` | | theorems about `CodecLine` |
| `ParserLink` | `_CharacterParser` under the FSM, bit by bit | `MCParserLink` gives the characters |
| `ParserLinkProofs` | | theorems about `ParserLink` |
| `DsCodec` | `ds_codec.py` | operators on levels and sequences of them |
| `BitLine` | `driver.py` on the pins of `monitor.py`, callers and readers | `MCBitLine` gives the bits |
| `BitLineProofs` | | lemmas about the DS codec, theorems about `BitLine` |
| `LinkLemmas` | | what `Feed` computes for every machine and event, what the operations of an endpoint leave in each field, what the codec makes of every request and bit |
| `TimedPair` | two endpoints, wired as in `dual_loopback.v`, bit by bit and in time, with packets | `MCTimedPair` gives the packets |
| `HandshakeProofs` | | theorems about `LinkFSMEnv` and `TimedPair` |

Dependencies: `SpwLinkOpen` > `SpwLink` > {`LinkFSM`, `CreditCounter`};
`CreditFlow` > `CreditCounter`, `CreditFlow` instantiates `WindowTransfer`;
`CodecLine` > `Characters`; `ParserLink` > {`LinkFSM`, `Characters`};
`LinkApi` > `SpwLink`; `TimedPair` > {`SpwLink`, `Characters`}; `BitLine` > `DsCodec`.
Of the proofs, `LinkLemmas` > {`SpwLink`, `Characters`}; `HandshakeProofs`, `LinkApiProofs`,
`SpwLinkOpenProofs`, `ParserLinkProofs` and `CodecLineProofs` extend it, and each module of
theorems the module or modules it is about. The constants of `SpwLink` come with `LinkLemmas` into
the proofs about the FSM and the codec and play no part there.

### Correspondence with the code

*LinkFSM.* `UpdateFlags` is `_update_flags`, `Enter` is `_enter`, `InErrorReset`
... `InRun` are the six handlers, `Turn` one iteration of the loop in `feed`,
`EightTurns` the loop. The loop is a function on loop configurations and not a
recursive operator so that theorems can be stated about it.

*CreditCounter.* Each method is an operator; the two that raise are split into
the condition (`FctOverflows`, `NCharUnderflows`) and the update, because the
callers catch the exception and the counter keeps its value.

*SpwLink.* The unit of atomicity is what runs between two awaits:

| Operator | Code between two awaits |
| --- | --- |
| `TxResume` | `_tx_loop` from "woken" or "driven" through the feedback to the FSM, the choice of the next character and the enqueueing of its bits |
| `Dispatch` | one decoded character: FSM event, state-change hook, credit accounting, RX queue |
| `TimerExpired` | `_run_timer` after its await |
| `FeedFsm` with RX_ERR | the watchdog after its await |
| `Enqueue`, `Collect` | `send_packet`/`send_char` up to their await; `recv_packet` |

`_timer_gen` and the killing of the task together are the field `timer`: at most
one timer is live, and cancelling it is replacing the field. Left out because
nothing reads them: `_error_reset_count`, `_pending_initial_fct_burst`, the
statistics of `CreditCounter` and of the decoder.

*What the environment of `SpwLinkOpen` may do.* Characters arrive in any order
and at any time, broken ones included; the peer may fall silent; the
application queues and collects N-Chars and sets and clears its flags. Time is
abstracted to two facts, both in the guard of `TimerExpires`: what is due at the
current time runs before time passes (a woken TX loop before a timer), and a
character in flight ends before the 6.4 us of ErrorReset do (14 bits at most; at
10 Mbit/s that is 1.4 us, and it holds for any rate above 2.2 Mbit/s). Of two
endpoints in time both facts are proved (`TimeIsAsAssumed`, section 4).

*CreditFlow.* The line is a count of FCTs one way and N-Chars the other, which
is all of its state as long as it neither loses nor reorders. A session starts
with no credit granted and with whatever the RX queue still holds. The sender may start
with credit nobody granted in this session: FCTs decoded in ErrorReset are counted
behind `credit.reset()` (`link.py:454`), up to the limit (`stale`, `StaleCredit`). It
sends N-Chars from the moment it has heard an FCT of the session (`inRun`). A credit
error ends the session.

*Characters.* `Encode` is `encode()` for every character type: one or two
primitives, each with a parity over the content of the primitive before.
`FeedBit` is `feed()` for one bit: framing (`Complete`), parity, and the ESC that
is held until the next primitive resolves it. Left out: raw bits, parity reports,
times and coverage counters of a decoded character, argument checks.

*CodecLine.* The sender waits for the line to be empty, as the TX loop does. One
fault per session: a flipped bit anywhere, one `force_bad_parity` request at any
offset up to `MaxBadParityAhead`, or one `CharDriver.send_illegal_escape`. The
parser resets the link on an error, and a strict `CharMonitor` raises, so a
session ends there and a new one starts with both codecs reset. The requests are those
the constructors make (`Constructed`), and control types by themselves.

*ParserLink.* The parser and FSM of one endpoint hear a peer that drives whole
characters and resets its encoder whenever it likes. That the peer ends what it
has begun is the code: its TX loop waits for the last bit, and a reset of the
link cancels neither the loop nor the bits in the driver. The credit counters
are abstracted to a credit error after any FCT or N-Char. The point of the model
is the phase: every character has an even number of bits (4, 8, 10 or 14), so
only a reset that no character brought about can change whether decoder and peer
agree about which bit begins a character.

*LinkApi.* `start()` is two steps around its one await of 1 ns, during which
anything may happen: a `stop()`, or a second `start()` behind it. `life.started` is
`_started` and the driver's task (set and cleared together), `life.monitor` the
monitor's task, `life.known` the references `_tx_task` and `_disconnect_task`, and
`life.loops` the number of TX loops that really run, so that a loop nobody can
stop would be seen. A waiting caller is a pc; the events it waits for are
fields of the endpoint. cocotb wakes the waiters of an event when it is set, so a
sender that was woken returns even if the event is cleared again before it
resumes: `"woken"` is a state of its own. What `connect()` has seen of Run since its call
(`conn.ran`) is noted inside a step too, since an FCT may bring the link to Run and
overflow the credit in one. Timeouts are arguments of the callers and
may end at any time. The environment is that of `SpwLinkOpen` without N-Chars
received, and without its guard on the end of ErrorReset, since a stopped driver
holds its character for any time.

*BitLine.* One step of time is one bit period. The driver writes pins; at the end
of the step (`Settle`) the simulator shows them and the monitor sees the edge.
`stop()` and `start()` of both may fall anywhere, also between two bits of one
step: then both levels may change at once, and whether the monitor hears the
second edge depends on the simulator (`Samples`). `recv_bits` is `recv_bit`
repeated. An empty batch returns at once, whatever others have queued. `DsRule` is about
`ds_codec.py`; the driver has the same rule for the next levels, so what it drives is
encoded by the same operator.

*TimedPair.* A tick is 100 ns: a bit period at the 10 Mbit/s of the handshake and
the polling period of the watchdog. The two ends act in turn once a tick, "b" less
than half a tick after "a", which is how two ends not started a whole number of
ticks apart meet. Durations are those of `link.py:41-43`: 64 and 128 ticks; the
850 ns become the ninth or tenth poll after an edge, depending on the end. A timer
armed by something heard expires between two instants of its own end and is
rounded either way (`Rounding`). Both ends stay at 10 Mbit/s in Run (`bit_rate`
may be set so; a faster Run only shortens the characters). Both are built with
`link_start` and have their packets queued from the start, with a `recv_packet`
always waiting. `Hear` runs the parser and its decoder on every bit, `Resume` the TX loop
and the encoder; a character is bits here, and what the link makes of it is the
same `SpwLink` as above, so the composition adds no second model of the endpoint.
The line may invert bits; it loses none, since the two wires of dual_loopback.v
cannot.

## 3. The runs

| Run | What it shows |
| --- | --- |
| `fsm` | all event sequences: handshake, delays, flags, permission, diagram (complete: no bound at all) |
| `flow` | unit 3, limit 12, capacity 10, up to 11 N-Chars and two stale FCTs carried in: remainders everywhere; safety, liveness, and the refinement of sessions that start clean |
| `link_open` | one endpoint, any peer, any resets: wake-ups, timers, drain counter, credit |
| `link_live` | the same under fairness: timed states end |
| `api` | callers and life cycle: one TX loop, resets counted exactly, drained means driven |
| `codec` | round trip of every character type, and what a fault can do before it is reported |
| `parser` | which resets keep the parser in step, and that out of phase it hears no NULL |
| `timed` | two real endpoints, started 0, 6.1 or 11.4 us apart: both in Run in time, from the start and after any one inverted bit; packets in order; credit equal at both ends; no session left half open |
| `wire` | driver and monitor: every bit heard once, callers and readers served, the DS rule |

Bounds. `MaxBacklog` (2), `MaxTxQueue` (2) and `MaxRxQueue` (5) bound what the
application leaves queued; the code has no such limit, and nothing in it looks
at the length of the TX queue, or at the length of the RX queue beyond its
comparison with the capacity, which 5 exceeds. `flow` shrinks the unit to 3 to
make remainders appear in a small space; the theorems of section 4 cover the real
numbers 8, 56 and 7, as every other choice. Up to two FCTs (`StaleFcts`) are stale at the
start: with one an N-Char may meet no granted credit at the receiver, with two an FCT
may overflow at the sender as well. The cfg does not check deadlock, because such a
session really ends there. In `link_open` the unit is 2 and the window 4: two FCTs fill it, so both the overflow and the refusal of a further FCT
happen. `codec` sends every type, data bytes with none and all of their bits set
and one (113) that reads differently backwards; two primitives ahead
(`MaxBadParityAhead`) reach past the longest character. `parser` sends NULL, FCT,
EOP and a data byte of odd parity: all lengths of a primitive, and both values of
every parity bit.

`api` waits for two entries to ErrorReset (`Counts`), the least that has a gap
between two rounds, and the number the repository's own tests use. A unit and a
window of one keep the credit small: the callers do not see it. One stop may cut
an N-Char off (`MaxCuts`): its count never goes away, so a second adds nothing.
At most two tasks are in `start()` at once, one of them through `connect()`.

`wire` gives the driver four bits (`MaxBits`), in batches that are equal or differ
in their bits, from two callers and from tasks that do not wait: enough for a
batch to be queued behind, between and in front of another. Two readers are what
a shared event needs to go wrong.

`timed` uses the real numbers everywhere but in the capacity, which is 16 so that
the window is two FCTs and a packet of ten N-Chars has to wait for a third. The
offsets are 0, 61 (one end still in ErrorReset when the other leaves it) and 114
(one end in Started well before the other may answer). `MaxFlips` is 1; a flip may
come at any moment, and `clock` starts again with it. `Patience` is 1000 ticks,
the 100 us that `connect()` allows by default. It is not generous: a flip may cost
three attempts, because the credit it leaves behind (`timed_stale_credit`) fails the
second. `NoFalseAlarm`, `CreditAgrees` and the second half of `Served` speak of the
behaviours without a flip, the rest of all.

Other offsets, tried one by one with capacity 56: with one flip allowed every one
from 0 to 116 holds except 115. Without a flip 121, 123, 125 and 127 end as
`timed_livelock` does, and so do even offsets from 192 on, while "a" is timing out;
at 115, 117 and 119 one flip in the first NULL has the same effect. With capacity 16 and
no flip `CreditAgrees` fails at two of the offsets from 0 to 700, 126 and 323. `NoHalfOpenLink`
holds at every offset, as section 4 proves; TLC checked its inductive invariant for
the offsets 0 to 330 without a flip, and 0, 61, 126 and 200 with one.

Disagreements between code and documentation, each a run that TLC refutes:

| Run | Found |
| --- | --- |
| `timed_livelock` | two `link_start` endpoints, one started 12.3 us after the other, reset each other without end |
| `timed_stale_credit` | the FCT half of a misframed NULL, decoded in ErrorReset, counts in the next session: the ends do not agree about the credit |
| `api_connect` | `connect()` after a reset returns at once, out of Run |

`findings` in `PROJECT.json` quotes the lines on both sides. The first is the
answer to what `parser` leaves open: `DeafOutOfPhase` says that an endpoint with an
odd number of bits left over decodes no NULL, so no handshake completes until
another reset falls on an odd bit. `timed_livelock` shows a start after which none does.
"a" times out in Started at tick 320, on a boundary of its own NULLs but after five of
the eight bits of the first NULL of "b": its parser is reset there, an odd number of bits
out of phase. "b", which has heard whole characters only, is in Connecting when "a" falls
silent, and leaves by the watchdog at 336. From then on each attempt ends alike: "a"
resets in Started by an error of its misframed parser, a character, so the phase stays
(`PhaseKept`), and "b" by the watchdog in Connecting. The run states it as a bound (500
us, more than ten attempts); the trace repeats itself. In `timed_stale_credit` the same
timeout comes after two bits: "a" takes the handshake FCT of "b" for the inside of a data
character, and counts the FCT half of the NULL behind it, in ErrorReset.

Six more disagreements are plain from the code and have no run of their own, only
a hazard: a disable fed in Started or Connecting does not keep the link out of Run
(`link_fsm.py:304`); `src/notes/04_link_fsm.md:45` and `:95` and the comment at
`link_fsm.py:37` say that D=0 and S=0 are driven in ErrorReset, but both stay where
the last bit of the character in flight left them (`link.py:362`); a `stop()` during the
await of `start()` leaves the background tasks running it says it stops
(`link.py:273`); the RX queue outgrows `rx_fifo_capacity` (`link.py:416`;
`QueueBound` is the bound it does keep); a window below 8 ends every session with a
credit error (`link.py:400`; the theorems assume 8 or more); a tick of ErrorReset
that comes while the link is disabled is never repeated (`link.py:563`; it is the
exception in `TimedStatesEnd`). A link that is stopped and started again is worse
off still: its parser hears every bit twice (`link.py:234`), and a timed state it was
stopped in has lost its timer (`link.py:238`).

Fairness. `SpwLinkOpen!FairSpec` asks only that the simulator runs what is due:
the TX loop when woken or when its character is driven, and the timers. The
peer and the application owe nothing. `CreditFlow!FairSpec` adds the line
(lossless within a session), the loops of both endpoints and a receiver whose
application keeps collecting; without the last the sender rightly starves. The
fairness is weak everywhere: each of these steps stays enabled until it is taken.

## 4. The proofs

`HandshakeProofs`, its first half, with the first part of `LinkLemmas`. The loop of `feed()` is first put in closed form
(`FeedClosedForm`): the flags, one transition, and Ready passed through when the
link is enabled. From it `FeedEffect` says field by field what an event does.
The inductive invariant `FsmInv` is the conjunction of the checked invariants
and `NothingAhead`: no flag of Started or Connecting is set before the link is
there. Without it `FlagsMatchHistory` is not inductive, because entering Started
clears a flag whose history would still say "passed". The action properties
`StartedByPermission` and `FollowsDiagram` follow from the same lemmas.

Its second half is about two endpoints in time, for every workload, window, pair of
offsets, number of inverted bits and way of rounding: it rests on `TimedConstants` and
nothing else. `NoHalfOpenAlways` is why a reset is a reset of both ends. It needs the
numbers: a character in flight is 14 bits at most and a watchdog needs 9 or 10 polls, so of
the 64 ticks of ErrorReset 49 are left when the last bit is driven, and the other end
has seen the silence long before they are over. `PairInv` says so of every instant
(`Half`, for each end against the other): while an end is in ErrorReset on its timer
(`Armed`), what it has yet to drive fits into the time left, with 49 ticks to spare, and
the time left and the silence the other end has already counted add up to 50 at least;
once it waits in silence (`Quiet`) it has nothing to drive, and the other end, if it has
heard a NULL at all, has counted its watchdog up, has seen that, and is in ErrorReset
or has only just entered ErrorWait. That last clause is the one that is hard to find: the
two ends wait in ErrorReset and ErrorWait at the same time, each silent for the other,
and only a NULL heard before the silence keeps a watchdog running. A bit that an end
drives and the other hears is followed through parser, FSM and TX loop by `Untimed`
(an event that is no tick leaves ErrorReset and ErrorWait by an error only) and `Follows` (who is
not allowed to transmit is given no new bits). `PairInv` also proves what `SpwLinkOpen`
assumes of time (`TimeIsAsAssumed`), and carries `OpenInv` of the section on
`SpwLinkOpenProofs` over to both ends (`EndsKeepOpenInv`), where the TX loop's wait is no
longer a flag but the bits in the driver (`LoopWaitsForDriver`).

`CreditFlowProofs`. `FlowInv` is the type invariant, conservation, "no credit
error so far", `receiver.rx <= max_rx_credit` and the queue bound as a sum. It
is inductive under `WindowHoldsAnFct` (`max_rx_credit >= 8`), which the code does
not enforce (`link.py:400` is what happens without it). Nothing is
assumed about the credit the sender starts with: conservation counts it (`stale`), and
`NeverCreditError` says that a session ends in a credit error only if there was some,
which `timed_stale_credit` shows there may be. Type correctness needs neither. The
refinement maps the window to `tx_credit` plus what FCTs on the line still bring, for
a session that starts clean; of any other it promises nothing (`Promised`).

`BurstAlwaysExact` needs more: that until an N-Char comes credit is granted in whole
FCTs (`WholeFcts`), and that the window is the constructor's default, the smaller
of the FIFO and the standard's limit, which is a whole number of FCTs
(`WindowInFull`). Both conditions are needed: a link built with a smaller
`max_rx_credit` grants fewer FCTs than `initial_fct_count()` says, since that
function looks at the FIFO only.

The second part of `LinkLemmas` says of every operation of an endpoint what it leaves in each field,
so that the proofs about `SpwLinkOpen` and `LinkApi` never look inside one.
`Accounted(l, lost)` is the heart of the drain counter: it is the N-Chars queued, the
one in the driver and those lost, and its event is set exactly at zero. Where
`disconnect` or `send_packet` meets a queue of packets, the length of a packet is
found as the least number of N-Chars up to a terminator.

`SpwLinkOpenProofs`. `OpenInv` is the conjunction of `Accounted`, `Awake`
(`NoLostWakeup`), `Timed` (`TimedAsTheState`) and `Granted`
(`GrantsBelongToSession`). Each operator of `SpwLink` is shown to keep the parts; the
hook of a state change re-establishes all but `Accounted`, whatever it finds, which
is why a chain of transitions in one `feed()` does no harm. None of these
five theorems has a condition. `HandshakeCounted` has its own invariant,
`HandshakeInv`: a link on its way to Run holds no N-Char and no FCT in its driver before the
states that send them (`TxFits`), and in Connecting either the FCT has been sent
and stands in `rx_credit`, or neither (`GrantCounted`). `TxFits` is where the two facts
about time matter: a character of the old session must have left the driver
before ErrorReset ends, or its end would be taken for that of the new FCT. That the
FCT *got* is counted is not an invariant but a fact about two consecutive
operations (`GotCounted`), because of the order "event first". The theorem assumes
a window of one FCT (`WindowHoldsAnFct`), the condition of `CreditFlowProofs` for
the endpoint; `link.py:400` is what happens without it.

`LinkApiProofs`. `LifeInv` ties the monitor's task, the references `stop()` kills by
and the number of TX loops to each other: what `start()` does behind its await
happens only if the monitor agrees to start, so a second `start()` that overtakes the
first, or a `stop()` between its two halves, leaves no loop behind. `WaiterInv` adds
to `ResetsCounted` that a waiter that has been woken finds the link still in
ErrorReset. That is what makes clearing the event safe, and it holds because only the
6.4 us tick leads out of ErrorReset (`FeedEffect`) and the waiter resumes before time
passes. Of the endpoint these two use one fact per operation: it sets the event
exactly when it enters ErrorReset (`FeedFsmEffect` to `OnlineEffect`). `DrainInv`
adds to `DrainIsHonest` the account of the counter with `cuts` lost N-Chars, and that
a waiting sender's own are among the last undriven; no bound on `cuts` is needed.

`BitLineProofs`. `ReadersServed` is inductive as it stands. `CountInv` ties the
driver's two counters to the history and makes a caller's target the position of
its own last bit, from which `ReturnsWithItsLastBit` follows for any number of
callers. `LineInv` says that pins and shown levels differ by at most one bit unless two
fell into one step: that one bit is one edge is `HeardAsDriven`. `LevelInv` says that the
driver's levels are the last sample of `ds_encode` of all it has driven. The other
half of `DsRule` is about `ds_codec.py` alone, for bit sequences of any length:
decoding gives the bits back (`EncodeDecodes`), and one wrong level
(`WrongLevelRefused`) or one lost sample (`LostSampleRefused`) is refused.

The third part of `LinkLemmas` is about the codec: what `Encode` makes of any request is
one primitive or two, each whole (flag, parity and content of the length the flag
says), and `FeedBit` completes exactly what is whole.

`ParserLinkProofs`. `PhaseAlwaysKept` needs only that whole characters have even lengths. `AlwaysInStepUnlessCut` rests on
`InStep`: unless cut the decoder is at a boundary, inside a primitive that ends a
character, or inside the ESC of two. It is inductive because a reset brought
about by a character comes with the last bit of that character, except that of an ESC
pair, and that one is held (`dec.pending`). `AlwaysDeafOutOfPhase` is about the
bits not yet completed, `Stream == dec.buffer \o line`. `StreamInv` counts positions from
its end, where the peer's characters end: every fourth is a flag, set, and every ESC is
followed by an FCT. Out of phase the decoder takes these flags for parity bits, so
what follows an ESC it holds looks like data and never like the FCT of a NULL. TLC
checked `StreamInv` on the run `parser` before it was proved. Both theorems assume
`NoBareEscape`: no request of the peer is an ESC by itself. The encoder can encode one, the TX loop
(`link.py:378-427`) never does; a bare ESC would stay pending behind the end of its
character. `PhaseAlwaysKept` needs no such assumption.

`CodecLineProofs`. `CodecInv` says where decoder and line stand. As long as nothing is
wrong: between characters, in the primitive that ends one, or in the ESC of two, the
rest of the character being on the line in the right chain (`AtBoundary`,
`InCharacter`, `InEscape`). That alone, with `Sound`, gives `RoundTripAlways`. For the
theorems about faults it is followed where the harm is, with what may still
be completed (`due`) and what has been passed on (`wrong`):

- a bad parity still to be encoded is counted down over what is under way (`BadAhead`);
- the primitive that will be refused is the one on its way, or the one behind the ESC
  on its way (`ToBeRefused`, `NextRefused`), as after a flipped parity bit, a forced
  parity reached, or an illegal ESC pair;
- a bit of a content is flipped (`Flipped`): with that content complete the encoder's and
  the decoder's contents differ in parity (`OffParity`) or what follows is out of the
  chain, so the next primitive is refused whatever its flag. This is the one place where a
  wrong character gets out, since the parity of a content is checked with the next one;
- a flag is flipped (`Misframed`): where the frame now ends is open, but its parity bit
  covers the flag, so whatever is collected in it is refused. This is why no
  case analysis over pairs of characters is needed;
- a refused ESC is held with its error (`HeldBad`) and whatever comes next reports it.

`WhereTheFlipIs` shows that a flip leads to one of these by its position alone. TLC checked
`CodecInv`, and that each of its cases is reached, on the run `codec` before it was
proved. The three theorems assume `OnlyConstructed`. A broadcast with another type field
than the default is encoded as asked, but the decoder refuses types 1 and 3 as
reserved and takes type 0 for a time-code; a bare ESC (`send_escape`) is held and makes
one character of itself and the next. The requests of the run satisfy it, which TLC
evaluates (`RequestsAreConstructed`).

The models of `SpwLinkOpen` and `ParserLink` assume of `Commands` that they are among the six
events the application causes; the checked instances always were, and with others (a timer's
tick as a command) the invariants would be false.

Induction over data. The library's induction theorems take an operator as a
parameter and cannot be used. What is proved of functions over sequences of any length
(`LeastNat`, `PacketLengthBounds`, the lemmas on `ds_encode`) goes through the least
counterexample, which the well-foundedness of `<` on the naturals gives as a fact
about a set.

Only model-checked:

- Liveness (`BacklogMoves`, `TimedStatesEnd`, `Served`, `ConnectedInTime` as far as it
  is about time to come): fairness and ENABLED are beyond the prover.
- `ConnectedInTime`, `Served`, `CreditAgrees` and `NoFalseAlarm` of `TimedPair`: they hold for
  the offsets of the run and not for all (`timed_livelock`, `timed_stale_credit`), so there
  is no theorem to prove.
- `InOrder` of `TimedPair`: it needs the codec proofs over every reset in time, and a
  subsequence is defined by recursion over data.

## 5. Not modelled, and what is left

Left for later:

1. A restarted link with its doubled callback on a real line, in `TimedPair`.

Left out, and why:

- A second faulty bit, and a Run at another bit rate than the handshake, in
  `TimedPair`: out of TLC's reach at the level of bits.
- `CharDriver.send_raw_bits` and `send_truncated`: they put on the line whatever the
  test wants, and nothing is promised about it. A `CharMonitor` that is not strict
  goes on after an error; what it decodes then depends on the line only.
- `SpaceWireMonitor.raise_on_disconnect`, which the link does not set, and callbacks
  that raise, which are logged.
- `bus.py` (signal handles), `exceptions.py` (classes), `timecode.py` (empty),
  argument checks of `packet.py` and `characters.py`, statistics and coverage counters.
- The testbenches and the HDL under `src/tests/`, but for the wiring of
  `dual_loopback.v` and the start of both endpoints, which `TimedPair` follows.
