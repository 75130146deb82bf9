------------------------------ MODULE TimedPair ------------------------------
(***************************************************************************)
(* Two SpaceWireLinks cross-connected as in dual_loopback.v, in time.  A   *)
(* tick is a bit period before Run, 100 ns, and the polling period of the  *)
(* watchdog; both ends keep 10 Mbit/s in Run too (bit_rate).  The ends act *)
(* in turn once a tick, "a" first and "b" less than half a tick later:     *)
(* they were not started a whole number of ticks apart, so they never act  *)
(* at the same instant.  Levels reach the other end at once.  Each end has *)
(* packets to send from its start, and always a recv_packet() waiting.     *)
(***************************************************************************)
EXTENDS SpwLink, Characters

CONSTANTS
  Capacity,       \* rx_fifo_capacity of both ends
  Byte,           \* the value of each data character
  Garbage,        \* a data character of a value that no other has
  Workload,       \* what each end sends: the N-Chars of its packets
  StartOffsets,   \* by how many ticks "b" may be started after "a"
  MaxFlips,       \* bound on the bits the line may invert
  Rounding,       \* what a timer armed between two instants may take longer, in ticks
  Patience        \* bound on the clock

End == {"a", "b"}

ASSUME TimedConstants ==
  /\ Capacity \in Nat
  /\ Garbage \in NChar \ Terminator
  /\ Terminator = {"EOP", "EEP"}
  /\ Byte \in [NChar \ Terminator -> 0 .. 255]
  /\ Workload \in [End -> Seq(NChar)]
  /\ StartOffsets \subseteq Nat
  /\ Rounding \subseteq {0, 1}
  /\ MaxFlips \in Nat /\ Patience \in Nat

Other(i) == IF i = "a" THEN "b" ELSE "a"

\* _TICK_6_4_NS and _TICK_12_8_NS in ticks.
TicksOf(timer) == CASE timer = "6.4us" -> 64 [] timer = "12.8us" -> 128 [] timer = "off" -> 0

\* Mutant: 850 ns taken for 85 polls.
DisconnectPollsTenfold(i) == 85

\* The poll of the watchdog, counted from the last edge, that is the first to be
\* 850 ns or more behind it.  The first poll of "a" after an edge of "b" comes more
\* than half a tick behind it, the first poll of "b" after an edge of "a" less.
DisconnectPolls(i) == IF i = "a" THEN 9 ELSE 10

VARIABLES
  ends,    \* the two endpoints
  received,  \* history: what recv_packet() has collected at each of them
  turn,    \* the end whose instant it is
  driven,  \* its driver has driven its bit of this instant
  wait,    \* instants of "b" until it is started, this one included
  flips,   \* bits inverted so far
  clock    \* history: ticks since "b" was started or a bit was inverted

vars == <<ends, received, turn, driven, wait, flips, clock>>

(***************************************************************************)
(* An end is a record of                                                   *)
(* link     the endpoint of SpwLink                                        *)
(* enc, dec its codecs                                                     *)
(* bits     bits the driver has not driven yet                             *)
(* left     ticks until the live timer expires                             *)
(* silent   polls of the watchdog since the last edge                      *)
(***************************************************************************)

\* start() of an endpoint built with link_start, and send_packet() for each packet.
Started(i) ==
  [link |-> Enqueue(FeedFsm(NewLink(Capacity, MaxCredit, FALSE), "LINK_START"), Workload[i]),
   enc |-> NewEncoder, dec |-> NewDecoder, bits |-> <<>>,
   left |-> TicksOf("6.4us"), silent |-> 0]

-----------------------------------------------------------------------------
\* What the parser makes of a decoded character, as a character of SpwLink.
DataChar(value) ==
  LET named == {c \in DOMAIN Byte : Byte[c] = value}
  IN  IF named = {} THEN Garbage ELSE CHOOSE c \in named : TRUE

Decoded(char) ==
  CASE EventOf(char) = "RX_ERR"        -> "ERROR"
    [] EventOf(char) = "GOT_TIME_CODE" -> "TIMECODE"
    [] EventOf(char) \notin {"RX_ERR", "GOT_TIME_CODE"} ->
         IF char.type = "DATA" THEN DataChar(char.value) ELSE char.type

\* What a step of the link leaves of the rest of the endpoint: a state change
\* restarts the timer, and one to ErrorReset resets the codecs.
After(e, l) ==
  LET changed == l.fsm.state # e.link.fsm.state
      reset   == changed /\ l.fsm.state = "ERROR_RESET"
  IN  [e EXCEPT !.link = l,
                !.left = IF changed THEN TicksOf(l.timer) ELSE IF l.timer = "off" THEN 0 ELSE @,
                !.enc  = IF reset THEN NewEncoder ELSE @,
                !.dec  = IF reset THEN ResetDecoder(@) ELSE @]

RequestOf(char) ==
  IF char \in DOMAIN Byte THEN [type |-> "DATA", value |-> Byte[char]]
  ELSE [type |-> char, value |-> NoValue]

\* The driver is given a character of bits coded.bits.
Load(e, coded) == [e EXCEPT !.bits = coded.bits, !.enc = coded.enc]

DriveChar(e) ==
  IF e.link.txTask = "PARKED" THEN e
  ELSE Load(e, Encode(e.enc, RequestOf(e.link.txTask)))

\* The TX loop resumes: it gives the driver the bits of the next character, if any.
Resume(e) == DriveChar(After(e, TxResume(e.link)))

\* A parked TX loop that has been woken runs before time passes.
Settle(e) == IF e.link.txTask = "PARKED" /\ e.link.wakeup THEN Resume(e) ELSE e

\* A timer armed in a step that ends in e expires between two instants of this end:
\* it is rounded either way.
Rounded(e, before) ==
  IF e.link.fsm.state = before \/ e.link.timer = "off" THEN {e}
  ELSE {[e EXCEPT !.left = @ + r] : r \in Rounding}

\* The monitor sees an edge: the parser gets the bit, of which the decoder made fed.
Parsed(e, fed) ==
  LET next == [e EXCEPT !.dec = fed.dec, !.silent = 0]
  IN  IF fed.chars = <<>> THEN {next}
      ELSE Rounded(Settle(After(next, Dispatch(e.link, Decoded(fed.chars[1])))),
                   e.link.fsm.state)

Hear(e, bit) == Parsed(e, FeedBit(e.dec, bit))

-----------------------------------------------------------------------------
Init ==
  /\ ends = [i \in End |-> Started(i)]
  /\ received = [i \in End |-> <<>>]
  /\ turn = "a"
  /\ driven = FALSE
  /\ wait \in {offset + 1 : offset \in StartOffsets}
  /\ flips = 0
  /\ clock = 0

Running(i) == i = "a" \/ wait = 0

\* What is due at the instant of end turn; nothing fixes an order.
TimerDue == ends[turn].link.timer # "off" /\ ends[turn].left = 0

DisconnectDue ==
  /\ ends[turn].silent = DisconnectPolls(turn)
  /\ WatchdogSees(ends[turn].link)

DriverDue == ends[turn].bits # <<>> /\ ~driven

\* _run_timer after its await.
TimerExpires ==
  /\ TimerDue
  /\ ends' = [ends EXCEPT ![turn] = Settle(After(@, TimerExpired(@.link)))]
  /\ UNCHANGED <<received, turn, driven, wait, flips, clock>>

\* A poll of _disconnect_watchdog that finds the monitor's flag set.
DisconnectSeen ==
  /\ DisconnectDue
  /\ ends' = [ends EXCEPT ![turn] = Settle(After(@, FeedFsm(@.link, "RX_ERR")))]
  /\ UNCHANGED <<received, turn, driven, wait, flips, clock>>

\* The driver drives a bit, and the other end hears it, or its inverse.  With the
\* last bit of a character the TX loop resumes, before the edge is seen.
DriveBit(heard) ==
  LET rest == [ends[turn] EXCEPT !.bits = Tail(@)]
      peer == Other(turn)
  IN  /\ DriverDue
      /\ \E after \in IF Running(peer) THEN Hear(ends[peer], heard) ELSE {ends[peer]} :
           /\ ends' = [ends EXCEPT ![turn] = IF rest.bits = <<>> THEN Resume(rest) ELSE rest,
                                   ![peer] = [after EXCEPT !.link = Collect(@)]]
           /\ received' = [received EXCEPT ![peer] = @ \o Collected(after.link)]
      /\ driven' = TRUE
      /\ UNCHANGED <<turn, wait>>

DriverRuns == DriveBit(Head(ends[turn].bits)) /\ UNCHANGED <<flips, clock>>

Flip ==
  /\ flips < MaxFlips
  /\ Running(Other(turn))
  /\ DriveBit(1 - Head(ends[turn].bits))
  /\ flips' = flips + 1
  /\ clock' = 0

\* Time passes to the next instant of the other end.
Tick(e, polls) ==
  [e EXCEPT !.left   = IF @ = 0 THEN 0 ELSE @ - 1,
            !.silent = IF @ = polls THEN @ ELSE @ + 1]

PassTime ==
  /\ ~TimerDue /\ ~DisconnectDue /\ ~DriverDue
  /\ turn' = Other(turn)
  /\ driven' = FALSE
  /\ wait' = IF turn' = "b" /\ wait > 0 THEN wait - 1 ELSE wait
  /\ ends' = IF Running(turn') THEN [ends EXCEPT ![turn'] = Tick(@, DisconnectPolls(turn'))]
             ELSE ends
  /\ clock' = IF turn' = "a" /\ wait = 0 /\ clock < Patience THEN clock + 1 ELSE clock
  /\ UNCHANGED <<received, flips>>

Next == TimerExpires \/ DisconnectSeen \/ DriverRuns \/ Flip \/ PassTime

Spec == Init /\ [][Next]_vars

-----------------------------------------------------------------------------
InRunState(i) == ends[i].link.fsm.state = "RUN"

\* Two endpoints are both in Run within 100 us of the start of the second, the default
\* timeout of connect(), and again within 100 us after a bit was inverted, whichever
\* bit it was: a flip may cost three attempts (link.py:248, :311-352).  Shown for starts
\* 0, 6.1 and 11.4 us apart and one inverted bit; it does not hold of every offset, nor
\* of every shorter one: 11.5 us apart one bit of the first NULL is enough, and 12.3 us
\* apart none is needed.
ConnectedInTime == clock = Patience => InRunState("a") /\ InRunState("b")

\* On a line that inverts nothing the first attempt succeeds: no timer of 12.8 us
\* runs out in a handshake and no parser stumbles over the start of the other end.
NoFalseAlarm ==
  [][flips' = 0 => \A i \in End : ends'[i].link.fsm.state = "ERROR_RESET"
                                    => ends[i].link.fsm.state = "ERROR_RESET"]_vars

\* An end that leaves ErrorReset leaves no session half open: its last character has
\* ended, and the other end has noticed the silence and given up its handshake or Run,
\* so both begin the next attempt at its beginning (link.py:41-43).
NoHalfOpenLink ==
  \A i \in End :
    ends[i].link.fsm.state \in {"ERROR_WAIT", "READY"} =>
      /\ ends[i].bits = <<>>
      /\ ends[Other(i)].link.fsm.state \notin {"CONNECTING", "RUN"}

\* The credit of a session in Run is the same at both ends: what i holds and what
\* the FCT in the driver of the other end still brings it is what the other granted.
CreditAgrees ==
  flips = 0 /\ (\A i \in End : InRunState(i)) =>
    \A i \in End :
      LET granting == IF ends[Other(i)].link.txTask = "FCT" THEN FctCreditUnits ELSE 0
          granted  == ends[Other(i)].link.credit.rx
          using    == IF ends[i].link.txTask \in NChar THEN 1 ELSE 0
      IN  ends[i].link.credit.tx + using + granting = granted

\* But for the positions extra, r is s with gaps: each element of r is matched with
\* the first of s behind the last match.
IsSubsequenceBut(extra, r, s) ==
  LET match[n \in 0 .. Len(r)] ==
        IF n = 0 THEN 0
        ELSE IF n \in extra THEN match[n - 1]
        ELSE Min({k \in match[n - 1] + 1 .. Len(s) : s[k] = r[n]} \cup {Len(s) + 1})
  IN  match[Len(r)] <= Len(s)

\* What recv_packet() collects is what the other end sent, in order and never twice,
\* over every reset: with gaps where a reset lost some of it, and with at most one
\* N-Char that was never sent for each inverted bit (link.py:435-476: the parity of a
\* content is checked with the character after it).
InOrder ==
  [][\A i \in End : received'[i] # received[i] =>
       \E extra \in UNION {kSubset(k, DOMAIN received'[i]) : k \in 0 .. flips'} :
         IsSubsequenceBut(extra, received'[i], Workload[Other(i)])]_vars

\* Every send_packet() returns, and what it sent is received unless a bit was
\* inverted: also through a window of one FCT, and across resets.
Served ==
  clock = Patience =>
    \A i \in End : /\ ends[i].link.drained
                   /\ flips = 0 => received[Other(i)] = Workload[i]
=============================================================================
