----------------------------- MODULE SpwLinkOpen -----------------------------
(***************************************************************************)
(* One SpaceWireLink against a peer, a line and an application that may do *)
(* anything: the peer need not be a SpaceWireLink, characters come in any  *)
(* order, broken or not at all.  What holds here holds of the endpoint     *)
(* whatever it is connected to.                                            *)
(***************************************************************************)
EXTENDS SpwLink

CONSTANTS
  Capacity,       \* rx_fifo_capacity
  RxCreditWish,   \* max_rx_credit
  Commands,       \* the application events of the FSM that may be fed
  MaxTxQueue,     \* bound on the N-Chars the application keeps queued
  MaxRxQueue      \* bound on the N-Chars the model lets pile up uncollected

ASSUME OpenConstants ==
  /\ Capacity \in Nat /\ RxCreditWish \in Nat
  /\ Commands \subseteq {"LINK_START", "LINK_START_CLEAR", "LINK_DISABLE",
                         "LINK_DISABLE_CLEAR", "AUTO_START", "AUTO_START_CLEAR"}
  /\ MaxTxQueue \in Nat /\ MaxRxQueue \in Nat

VARIABLE link

vars == link

\* start() feeds AUTO_START and LINK_START when the constructor was told to.
Init ==
  \E onlyNulls, linkStart, autoStart \in BOOLEAN :
    LET new  == NewLink(Capacity, RxCreditWish, onlyNulls)
        auto == IF autoStart THEN FeedFsm(new, "AUTO_START") ELSE new
    IN  link = IF linkStart THEN FeedFsm(auto, "LINK_START") ELSE auto

\* The TX loop resumes: woken up, or its character is on the line.
TxWake ==
  /\ link.txTask = "PARKED"
  /\ link.wakeup
  /\ link' = TxResume(link)

TxCharDone ==
  /\ link.txTask # "PARKED"
  /\ link' = TxResume(link)

\* The parser has decoded a character.
Receive(char) ==
  /\ char \in NChar => Len(link.rxq) < MaxRxQueue
  /\ link' = Dispatch(link, char)

\* The peer has been silent for 850 ns at a poll of the watchdog.
PeerSilent ==
  /\ WatchdogSees(link)
  /\ link' = FeedFsm(link, "RX_ERR")

\* Time passes only when the TX loop has nothing to do at the current time, and
\* a character in flight is driven well before the 6.4 us of ErrorReset are over.
TimerExpires ==
  /\ link.timer # "off"
  /\ ~(link.txTask = "PARKED" /\ link.wakeup)
  /\ link.timer = "6.4us" => link.txTask = "PARKED"
  /\ link' = TimerExpired(link)

Command == \E e \in Commands : link' = FeedFsm(link, e)

Send ==
  \E char \in NChar :
    /\ Len(link.txq) < MaxTxQueue
    /\ link' = Enqueue(link, <<char>>)

Recv ==
  /\ link.rxq # <<>>
  /\ link' = Collect(link)

Next ==
  \/ TxWake \/ TxCharDone
  \/ \E char \in RxChar : Receive(char)
  \/ PeerSilent \/ TimerExpires \/ Command \/ Send \/ Recv

Spec == Init /\ [][Next]_vars

\* The simulator runs every task that is due: the TX loop and the timers.  The
\* peer and the application owe nothing.
FairSpec == Spec /\ WF_vars(TxWake) /\ WF_vars(TxCharDone) /\ WF_vars(TimerExpires)

-----------------------------------------------------------------------------
\* The endpoint's fields keep their types.
TypeOK == link \in LinkRecord

\* The TX loop never sleeps through a state that wants it to transmit: if it is
\* parked while the FSM's mode is not RESET, its wake-up is set (link.py:351-366).
\* Lost wake-ups hide in the gap between the clear, the wait and the hook.
NoLostWakeup ==
  link.txTask = "PARKED" /\ TxModeOf(link.fsm) # "RESET" => link.wakeup

\* The hook of every state change has left the timer and the bit rate of the
\* state the FSM is in, whatever chain of events led there (link.py:315-323):
\* no state is timed by the timer of another, and no timed wait is left without.
TimedAsTheState ==
  LET s == link.fsm.state
  IN  /\ s \in {"ERROR_WAIT", "STARTED", "CONNECTING"} => link.timer = "12.8us"
      /\ s \in {"READY", "RUN"} => link.timer = "off"
      /\ s = "ERROR_RESET" => link.timer # "12.8us"
      /\ link.rate = RateOf(link.fsm)

\* The N-Chars the driver holds.
NCharsHeld(l) == IF l.txTask \in NChar THEN 1 ELSE 0

\* send_packet's drain counter is what is queued plus what the driver holds, over
\* any number of resets, and the drained event is set exactly when it is zero:
\* the sender neither waits for ever nor returns with N-Chars still to drive.
DrainAccounting ==
  /\ link.outstanding = Len(link.txq) + NCharsHeld(link)
  /\ link.drained <=> link.outstanding = 0

\* What the endpoint has granted belongs to a session: outside Connecting and Run
\* the peer holds no credit of it (5.5.4m), whenever the reset came.
GrantsBelongToSession ==
  link.fsm.state \notin {"CONNECTING", "RUN"} => link.credit.rx = 0

\* The handshake FCTs are counted on both sides by the time the link is in Run,
\* although the parser's event may be what brings it there before the character
\* is counted (link.py:441-446).  The step that sends the last FCT may go on to
\* use one credit for its next character.  A stale FCT counts as well as the one of
\* the handshake: that the two ends then disagree is for CreditAgrees (TimedPair).
HandshakeCounted ==
  [][link.fsm.state # "RUN" /\ link'.fsm.state = "RUN"
       => /\ link'.credit.tx + NCharsHeld(link') >= FctCreditUnits
          /\ link'.credit.rx >= FctCreditUnits]_vars

\* No timed state lasts for ever: a handshake that does not progress is given up,
\* and the link leaves ErrorReset when its delay is over.  One wait has no end: the
\* tick of ErrorReset comes once (link.py:563), and when it comes while the link is
\* disabled nothing arms the timer again, not even the end of the disablement.
TimedStatesEnd ==
  \A s \in {"ERROR_RESET", "ERROR_WAIT", "STARTED", "CONNECTING"} :
    link.fsm.state = s ~> \/ link.fsm.state # s
                          \/ s = "ERROR_RESET" /\ link.timer = "off"
=============================================================================
