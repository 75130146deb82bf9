------------------------------- MODULE LinkApi -------------------------------
(***************************************************************************)
(* The asynchronous interface of a SpaceWireLink: its life cycle (start    *)
(* and stop, and connect, which may start it) and the callers that wait in *)
(* connect, wait_for_error_reset and send_packet.  Below them runs the     *)
(* endpoint of SpwLink against a peer that may do anything, as in          *)
(* SpwLinkOpen.  start() is suspended once, for 1 ns, and everything else  *)
(* may happen meanwhile.  A second registration of feed_bit on the monitor *)
(* makes the parser decode other characters from the same bits; since any  *)
(* character may come at any time, it adds nothing here.                   *)
(***************************************************************************)
EXTENDS SpwLink

CONSTANTS
  Pending,        \* the events start() feeds: of the constructor's auto_start, link_start
  Capacity,       \* rx_fifo_capacity, max_rx_credit
  MaxTxQueue,     \* bound on the N-Chars queued for transmission
  Counts,         \* the counts given to wait_for_error_reset
  MaxCuts         \* bound on the stops that come while the driver holds an N-Char

ASSUME ApiConstants ==
  /\ Pending \subseteq {"AUTO_START", "LINK_START"}
  /\ Counts \subseteq Nat \ {0}
  /\ {Capacity, MaxTxQueue, MaxCuts} \subseteq Nat

\* The tasks that may be inside start().
Starter == {"user", "connect"}

VARIABLES
  link,       \* the endpoint
  life,       \* started: _started, and with it the driver's task
              \* monitor: the monitor's task; known: _tx_task and _disconnect_task
              \* loops: how many TX loops run; starting: who is suspended in start()
  conn,       \* the caller of connect: its pc, and whether it has seen Run, or, when it
              \* is idle, whether the last call that returned had
  waiter,     \* the caller of wait_for_error_reset: its pc, the rounds left, and the
              \* entries to ErrorReset that it asked for and that are still to come
  sender,     \* the caller of send_packet: its pc, and the N-Chars up to its last that
              \* are not driven yet
  cuts        \* history: the stops that came while the driver held an N-Char

vars == <<link, life, conn, waiter, sender, cuts>>

NoConnect == [pc |-> "idle", ran |-> TRUE]
NoWait == [pc |-> "idle", left |-> 0, missing |-> 0]

Init ==
  /\ link = [NewLink(Capacity, Capacity, FALSE) EXCEPT !.timer = "off"]
  /\ life = [started |-> FALSE, monitor |-> FALSE, known |-> FALSE,
             loops |-> 0, starting |-> {}]
  /\ conn = NoConnect
  /\ waiter = NoWait
  /\ sender = [pc |-> "idle", owed |-> 0]
  /\ cuts = 0

-----------------------------------------------------------------------------
\* The link becomes l: the histories of the callers take note.
EntersReset == link.fsm.state # "ERROR_RESET" /\ link'.fsm.state = "ERROR_RESET"

Becomes(l) ==
  /\ link' = l
  /\ waiter' = IF waiter.pc = "waiting" /\ EntersReset
               THEN [waiter EXCEPT !.missing = @ - 1] ELSE waiter

\* The link comes to l: what connect has seen of Run since its call.
Ran(c, l) ==
  [c EXCEPT !.ran = @ \/ (c.pc \in {"starting", "waiting"} /\ l.fsm.state = "RUN")]

\* A step of the endpoint that starts and stops nothing and tells no sender.
EndpointStep(l) ==
  /\ Becomes(l)
  /\ conn' = Ran(conn, l)
  /\ UNCHANGED <<life, sender, cuts>>

-----------------------------------------------------------------------------
\* start() up to its await.  Already started it raises, and nothing changes.
StartBegins(who) ==
  /\ ~life.started
  /\ who \notin life.starting
  /\ life' = [life EXCEPT !.started = TRUE, !.starting = @ \cup {who}]

Start ==
  /\ StartBegins("user")
  /\ UNCHANGED <<link, conn, waiter, sender, cuts>>

\* Mutant: a second start of the monitor is tolerated.
MonitorRefusesNever == FALSE

\* The monitor's start() raises when its task runs: so does the link's then.
MonitorRefuses == life.monitor

\* The ErrorReset timer is armed whatever the state is; a new TX loop takes its
\* first turn, as if it had been woken up; the constructor's events are fed.
Online(l) ==
  LET armed == [l EXCEPT !.timer = "6.4us", !.txTask = "PARKED", !.wakeup = TRUE]
      auto  == IF "AUTO_START" \in Pending THEN FeedFsm(armed, "AUTO_START") ELSE armed
  IN  IF "LINK_START" \in Pending THEN FeedFsm(auto, "LINK_START") ELSE auto

\* The rest of start(); connect goes on to wait for Run, or passes the error on.
StartRaises(who) ==
  /\ who \in life.starting
  /\ MonitorRefuses
  /\ life' = [life EXCEPT !.starting = @ \ {who}]
  /\ conn' = IF who = "connect" THEN NoConnect ELSE conn
  /\ UNCHANGED <<link, waiter, sender, cuts>>

StartFinishes(who) ==
  /\ who \in life.starting
  /\ ~MonitorRefuses
  /\ Becomes(Online(link))
  /\ life' = [life EXCEPT !.starting = @ \ {who}, !.monitor = TRUE,
                          !.known = TRUE, !.loops = @ + 1]
  /\ conn' = Ran(IF who = "connect" THEN [conn EXCEPT !.pc = "waiting"] ELSE conn, link')
  /\ UNCHANGED <<sender, cuts>>

\* stop(): the timer and the tasks it has a reference to are killed, whatever
\* they were doing; a start() in its await is not.
Stop ==
  /\ Becomes([link EXCEPT !.timer = "off",
                          !.txTask = IF life.known THEN "PARKED" ELSE @])
  /\ cuts' = IF life.known /\ link.txTask \in NChar THEN cuts + 1 ELSE cuts
  /\ cuts' <= MaxCuts
  /\ life' = [life EXCEPT !.started = FALSE, !.monitor = FALSE, !.known = FALSE,
                          !.loops = IF life.known THEN @ - 1 ELSE @]
  /\ UNCHANGED <<conn, sender>>

\* disconnect() asks neither whether the link was started nor for its state.
Disconnect == EndpointStep(FeedFsm(link, "LINK_DISABLE"))

-----------------------------------------------------------------------------
\* connect(): start the link if need be, return at once in Run, else wait.
Connect ==
  /\ conn.pc = "idle"
  /\ conn' = [pc  |-> IF ~life.started THEN "starting"
                      ELSE IF link.fsm.state = "RUN" THEN "idle" ELSE "waiting",
              ran |-> link.fsm.state = "RUN"]
  /\ IF life.started THEN UNCHANGED life ELSE StartBegins("connect")
  /\ UNCHANGED <<link, waiter, sender, cuts>>

ConnectReturns ==
  /\ conn.pc = "waiting"
  /\ link.runReached
  /\ conn' = [conn EXCEPT !.pc = "idle"]
  /\ UNCHANGED <<link, life, waiter, sender, cuts>>

\* timeout_us is the caller's: it may be over at any time.
ConnectTimesOut ==
  /\ conn.pc = "waiting"
  /\ ~link.runReached
  /\ conn' = NoConnect
  /\ UNCHANGED <<link, life, waiter, sender, cuts>>

\* Mutant: the event of an earlier reset is not cleared.
NewRoundStale(l) == l

\* The top of the loop of wait_for_error_reset.
NewRound(l) == [l EXCEPT !.resetEntered = FALSE]

WaitForErrorReset(count) ==
  /\ waiter.pc = "idle"
  /\ waiter' = [pc |-> "waiting", left |-> count, missing |-> count]
  /\ link' = NewRound(link)
  /\ UNCHANGED <<life, conn, sender, cuts>>

\* Woken up: the next round, or the return.
WaiterResumes ==
  /\ waiter.pc = "waiting"
  /\ link.resetEntered
  /\ waiter' = [waiter EXCEPT !.left = @ - 1,
                              !.pc = IF waiter.left = 1 THEN "idle" ELSE @]
  /\ link' = IF waiter.left = 1 THEN link ELSE NewRound(link)
  /\ UNCHANGED <<life, conn, sender, cuts>>

WaiterTimesOut ==
  /\ waiter.pc = "waiting"
  /\ ~link.resetEntered
  /\ waiter' = NoWait
  /\ UNCHANGED <<link, life, conn, sender, cuts>>

-----------------------------------------------------------------------------
\* The N-Chars queued and in the driver.
Undriven(l) == Len(l.txq) + (IF l.txTask \in NChar THEN 1 ELSE 0)

\* send_packet up to its wait for the drained event.
SendPacket(chars) ==
  /\ sender.pc = "idle"
  /\ Len(link.txq) + Len(chars) <= MaxTxQueue
  /\ link' = Enqueue(link, chars)
  /\ sender' = [pc |-> "waiting", owed |-> Undriven(link')]
  /\ UNCHANGED <<life, conn, waiter, cuts>>

\* Another task sends; who that is does not matter.
SendElsewhere(char) ==
  /\ Len(link.txq) < MaxTxQueue
  /\ EndpointStep(Enqueue(link, <<char>>))

SenderReturns ==
  /\ sender.pc = "woken"
  /\ sender' = [sender EXCEPT !.pc = "idle"]
  /\ UNCHANGED <<link, life, conn, waiter, cuts>>

\* The TX loop has reported an N-Char driven and set the event, or not.
Told(s, l) ==
  [pc   |-> IF s.pc = "waiting" /\ l.drained THEN "woken" ELSE s.pc,
   owed |-> IF s.owed > 0 /\ cuts = 0 THEN s.owed - 1 ELSE s.owed]

-----------------------------------------------------------------------------
\* A task the scheduler resumes before time moves on.
Due ==
  \/ life.loops > 0 /\ link.txTask = "PARKED" /\ link.wakeup
  \/ conn.pc = "waiting" /\ link.runReached
  \/ waiter.pc = "waiting" /\ link.resetEntered
  \/ sender.pc = "woken"

TxWake ==
  /\ life.loops > 0
  /\ link.txTask = "PARKED"
  /\ link.wakeup
  /\ EndpointStep(TxResume(link))

\* The driver's task lives with started: without it no character ever ends.
TxCharDone ==
  /\ life.loops > 0
  /\ life.started
  /\ link.txTask # "PARKED"
  /\ Becomes(TxResume(link))
  /\ conn' = Ran(conn, link')
  /\ sender' = IF link.txTask \in NChar THEN Told(sender, CharDriven(link)) ELSE sender
  /\ UNCHANGED <<life, cuts>>

\* N-Chars received matter to recv_packet only, which SpwLinkOpen has.  An FCT may
\* bring the link to Run and, counted, reset it in the same step.
Receive(char) ==
  /\ life.monitor
  /\ Becomes(Dispatch(link, char))
  /\ conn' = Ran(IF char = "FCT" THEN Ran(conn, FeedFsm(link, "GOT_FCT")) ELSE conn, link')
  /\ UNCHANGED <<life, sender, cuts>>

PeerSilent ==
  /\ life.loops > 0
  /\ WatchdogSees(link)
  /\ EndpointStep(FeedFsm(link, "RX_ERR"))

TimerExpires ==
  /\ link.timer # "off"
  /\ ~Due
  /\ EndpointStep(TimerExpired(link))

Next ==
  \/ Start \/ Stop \/ Disconnect
  \/ \E who \in Starter : StartRaises(who) \/ StartFinishes(who)
  \/ Connect \/ ConnectReturns \/ ConnectTimesOut
  \/ \E count \in Counts : WaitForErrorReset(count)
  \/ WaiterResumes \/ WaiterTimesOut
  \/ \E eop \in Terminator : \E chars \in {<<eop>>, <<eop, eop>>} : SendPacket(chars)
  \/ \E char \in NChar : SendElsewhere(char)
  \/ SenderReturns
  \/ TxWake \/ TxCharDone
  \/ \E char \in RxChar \ NChar : Receive(char)
  \/ PeerSilent \/ TimerExpires

Spec == Init /\ [][Next]_vars

-----------------------------------------------------------------------------
\* However start(), connect() and stop() follow each other, a stop() in the
\* middle of a start() included, the link never runs two TX loops, and none that
\* the next stop() would not kill (link.py:221-246, 273-284).
OneLoop ==
  /\ life.loops <= 1
  /\ life.loops = 1 => life.known

\* wait_for_error_reset(count) returns on the count-th entry to ErrorReset since
\* its call, never on one from before it, and misses none between two rounds
\* although it clears the event each time (link.py:286-301).
ResetsCounted ==
  /\ waiter.pc = "idle" => waiter.missing = 0
  /\ waiter.pc = "waiting" => waiter.left
                                = waiter.missing + (IF link.resetEntered THEN 1 ELSE 0)

\* send_packet returns only when all its N-Chars are driven, and does not go on
\* waiting when nothing is left to drive, unless a stop() once took the driver an
\* N-Char away (link.py:372-379, 480-517).
DrainIsHonest ==
  /\ sender.pc # "waiting" => sender.owed = 0
  /\ sender.pc = "waiting" /\ cuts = 0 => Undriven(link) > 0

\* link.py:249, connect(): "Return when the FSM reaches Run".  What returns has
\* seen the link in Run at some moment since its call.
ConnectMeansRun == conn.pc = "idle" => conn.ran
=============================================================================
