------------------------------- MODULE SpwLink -------------------------------
(***************************************************************************)
(* One SpaceWireLink of link.py, as operators over a record l.  cocotb     *)
(* switches tasks only at an await, so what the code does between two      *)
(* awaits is one operator here: feeding the FSM with the state-change hook *)
(* it triggers, dispatching a decoded character, finishing one character   *)
(* and choosing the next.  Characters are abstract: "NULL", "FCT" and the  *)
(* N-Chars of the application; what a broken one decodes to is "ERROR".    *)
(***************************************************************************)
EXTENDS LinkFSM, CreditCounter, Sequences, FiniteSets, FiniteSetsExt

CONSTANTS
  NChar,        \* the N-Chars: DATA with its value, EOP, EEP
  Terminator    \* those that end a packet: EOP, EEP

ASSUME CharacterConstants ==
  /\ Terminator \subseteq NChar
  /\ NChar \cap {"NULL", "FCT", "TIMECODE", "ERROR", "PARKED"} = {}

\* What the parser can hand to the link.
RxChar == {"NULL", "FCT", "TIMECODE", "ERROR"} \cup NChar

(***************************************************************************)
(* fsm        the LinkFSM                                                  *)
(* credit     the CreditCounter                                            *)
(* capacity, onlyNulls   arguments of the constructor                      *)
(* timer      the live timer task: "6.4us", "12.8us" or "off"              *)
(* rate       the driver's bit rate, "initial" or "target"                 *)
(* txTask     "PARKED" on _tx_wakeup, or the character the driver has      *)
(* wakeup     _tx_wakeup                                                   *)
(* fctSent    _fct_sent_this_connecting                                    *)
(* txq, rxq   _tx_nchar_queue and _rx_nchar_queue                          *)
(* outstanding, drained   _tx_nchar_outstanding and _tx_drained_evt        *)
(* runReached, resetEntered   the events connect() and                     *)
(*            wait_for_error_reset() wait for                              *)
(***************************************************************************)
LinkRecord ==
  [fsm : FsmRecord, credit : CreditRecord, capacity : Nat, onlyNulls : BOOLEAN,
   timer : {"6.4us", "12.8us", "off"}, rate : {"initial", "target"},
   txTask : {"PARKED", "NULL", "FCT"} \cup NChar, wakeup : BOOLEAN,
   fctSent : BOOLEAN, txq : Seq(NChar), rxq : Seq(NChar),
   outstanding : Nat, drained : BOOLEAN,
   runReached : BOOLEAN, resetEntered : BOOLEAN]

\* __init__ and start(): the driver idles, the ErrorReset timer is armed and the
\* TX loop has parked itself.
NewLink(capacity, maxRxCredit, onlyNulls) ==
  [fsm |-> NewFsm, credit |-> NewCredit(CappedMax(maxRxCredit, capacity)),
   capacity |-> capacity, onlyNulls |-> onlyNulls,
   timer |-> "6.4us", rate |-> "initial",
   txTask |-> "PARKED", wakeup |-> FALSE,
   fctSent |-> FALSE, txq |-> <<>>, rxq |-> <<>>,
   outstanding |-> 0, drained |-> TRUE,
   runReached |-> FALSE, resetEntered |-> FALSE]

-----------------------------------------------------------------------------
\* Mutants: the timer is not cancelled in Ready and Run; none is armed in Connecting.
TimerOfKept(l) ==
  CASE l.fsm.state = "ERROR_RESET"        -> "6.4us"
    [] l.fsm.state \in {"READY", "RUN"}   -> l.timer
    [] OTHER                              -> "12.8us"

TimerOfUntimed(l) ==
  CASE l.fsm.state = "ERROR_RESET"               -> "6.4us"
    [] l.fsm.state \in {"ERROR_WAIT", "STARTED"} -> "12.8us"
    [] OTHER                                     -> "off"

\* What _on_state_change makes of the timer: cancelled, and armed in the timed states.
TimerOf(l) ==
  CASE l.fsm.state = "ERROR_RESET" -> "6.4us"
    [] l.fsm.state \in {"ERROR_WAIT", "STARTED", "CONNECTING"} -> "12.8us"
    [] OTHER -> "off"

\* Mutant: the wake-up is not set.
OnStateChangeNoWakeup(l) ==
  LET new == l.fsm.state
  IN  [l EXCEPT
         !.timer        = TimerOf(l),
         !.rate         = RateOf(l.fsm),
         !.credit       = IF new = "ERROR_RESET" THEN ResetCredit(@) ELSE @,
         !.resetEntered = @ \/ new = "ERROR_RESET",
         !.fctSent      = @ /\ new # "CONNECTING",
         !.runReached   = @ \/ new = "RUN"]

\* _on_state_change: l.fsm has just changed state.
OnStateChange(l) ==
  LET new == l.fsm.state
  IN  [l EXCEPT
         !.timer        = TimerOf(l),
         !.rate         = RateOf(l.fsm),
         !.credit       = IF new = "ERROR_RESET" THEN ResetCredit(@) ELSE @,
         !.resetEntered = @ \/ new = "ERROR_RESET",
         !.fctSent      = @ /\ new # "CONNECTING",
         !.runReached   = @ \/ new = "RUN",
         !.wakeup       = TRUE]

FeedFsm(l, e) ==
  LET after == [l EXCEPT !.fsm = Feed(@, e)]
  IN  IF after.fsm.state = l.fsm.state THEN after ELSE OnStateChange(after)

-----------------------------------------------------------------------------
\* _next_char: what the loop hands to the driver in each tx mode, with the credit
\* and the queue it takes it from.
Drive(l, char) == [l EXCEPT !.txTask = char]

NextConnecting(l) ==
  IF l.onlyNulls \/ l.fctSent
  THEN Drive(l, "NULL")
  ELSE Drive([l EXCEPT !.fctSent = TRUE,
                       !.credit = IF FctSentOverMax(@) THEN @ ELSE AfterFctSent(@)],
             "FCT")

Headroom(l) == l.capacity - Len(l.rxq)

\* Mutant: the N-Char handed to the driver stays in the queue.
NextInRunKeepsHead(l) ==
  IF ShouldSendFct(l.credit, Headroom(l))
  THEN Drive([l EXCEPT !.credit = AfterFctSent(@)], "FCT")
  ELSE IF l.txq # <<>> /\ CanSend(l.credit)
       THEN Drive([l EXCEPT !.credit = AfterNCharSent(@)], Head(l.txq))
       ELSE Drive(l, "NULL")

NextInRun(l) ==
  IF ShouldSendFct(l.credit, Headroom(l))
  THEN Drive([l EXCEPT !.credit = AfterFctSent(@)], "FCT")
  ELSE IF l.txq # <<>> /\ CanSend(l.credit)
       THEN Drive([l EXCEPT !.txq = Tail(@), !.credit = AfterNCharSent(@)], Head(l.txq))
       ELSE Drive(l, "NULL")

\* The top of _tx_loop: park with the wake-up cleared, or choose a character.
TxLoopTop(l) ==
  CASE TxModeOf(l.fsm) = "RESET"           -> [l EXCEPT !.wakeup = FALSE, !.txTask = "PARKED"]
    [] TxModeOf(l.fsm) = "SEND_NULLS"      -> Drive(l, "NULL")
    [] TxModeOf(l.fsm) = "SEND_NULLS_FCTS" -> NextConnecting(l)
    [] OTHER                               -> NextInRun(l)

\* Mutant: every character counts as one of the queue.
CharDrivenCountsAll(l) ==
  LET fed == CASE l.txTask = "NULL" -> FeedFsm(l, "SENT_NULL")
               [] l.txTask = "FCT"  -> FeedFsm(l, "SENT_FCT")
               [] OTHER             -> l
  IN  [fed EXCEPT !.outstanding = @ - 1, !.drained = @ \/ l.outstanding = 1]

\* Mutant: the counter is tested before it is decremented.
CharDrivenTestsFirst(l) ==
  CASE l.txTask = "NULL" -> FeedFsm(l, "SENT_NULL")
    [] l.txTask = "FCT"  -> FeedFsm(l, "SENT_FCT")
    [] OTHER             -> [l EXCEPT !.outstanding = @ - 1,
                                      !.drained = @ \/ l.outstanding = 0]

\* The rest of _tx_loop: the driver has put the whole character on the line.
CharDriven(l) ==
  CASE l.txTask = "NULL" -> FeedFsm(l, "SENT_NULL")
    [] l.txTask = "FCT"  -> FeedFsm(l, "SENT_FCT")
    [] OTHER             -> [l EXCEPT !.outstanding = @ - 1,
                                      !.drained = @ \/ l.outstanding = 1]

\* One pass of the loop, from the await it resumes at to the next one.
TxResume(l) == TxLoopTop(IF l.txTask = "PARKED" THEN l ELSE CharDriven(l))

-----------------------------------------------------------------------------
\* Mutant: an FCT counts only in Run, so the peer's handshake FCT may be lost.
OnRxFctInRun(l) ==
  IF l.fsm.state # "RUN" THEN l
  ELSE IF FctOverflows(l.credit) THEN FeedFsm(l, "CREDIT_ERR")
  ELSE [l EXCEPT !.credit = AfterFctReceived(@), !.wakeup = TRUE]

\* _on_rx_character, after the FSM has had its event.
OnRxFct(l) ==
  IF FctOverflows(l.credit)
  THEN FeedFsm(l, "CREDIT_ERR")
  ELSE [l EXCEPT !.credit = AfterFctReceived(@), !.wakeup = TRUE]

OnRxNChar(l, char) ==
  CASE l.fsm.state # "RUN"       -> l
    [] l.fsm.state = "RUN" /\ NCharUnderflows(l.credit) -> FeedFsm(l, "CREDIT_ERR")
    [] OTHER -> [l EXCEPT !.credit = AfterNCharReceived(@), !.rxq = Append(@, char)]

\* _CharacterParser._dispatch: the event first, then the character.
Dispatch(l, char) ==
  CASE char = "ERROR"    -> FeedFsm(l, "RX_ERR")
    [] char = "NULL"     -> FeedFsm(l, "GOT_NULL")
    [] char = "TIMECODE" -> FeedFsm(l, "GOT_TIME_CODE")
    [] char = "FCT"      -> OnRxFct(FeedFsm(l, "GOT_FCT"))
    [] OTHER             -> OnRxNChar(FeedFsm(l, "GOT_N_CHAR"), char)

\* _run_timer at its expiry: the task is over, then the tick is fed.
TimerExpired(l) ==
  FeedFsm([l EXCEPT !.timer = "off"],
          IF l.timer = "6.4us" THEN "TICK_6_4US" ELSE "TICK_12_8US")

\* Mutant: silence counts before the first NULL as well.
WatchdogSeesAlways(l) == RxEnabled(l.fsm)

\* One poll of _disconnect_watchdog that finds the line silent.
WatchdogSees(l) == RxEnabled(l.fsm) /\ l.fsm.gotNull

-----------------------------------------------------------------------------
\* Mutant: the drained event is not cleared.
EnqueueStaysDrained(l, chars) ==
  [l EXCEPT !.txq = @ \o chars, !.outstanding = @ + Len(chars)]

\* send_packet and send_char up to their await: every N-Char is enqueued.
Enqueue(l, chars) ==
  [l EXCEPT !.txq = @ \o chars,
            !.outstanding = @ + Len(chars),
            !.drained = @ /\ chars = <<>>]

\* recv_packet up to its return or its await: what it takes off the queue.
PacketLength(q) ==
  LET ends == {i \in DOMAIN q : q[i] \in Terminator}
  IN  IF ends = {} THEN Len(q) ELSE Min(ends)

Collected(l) == SubSeq(l.rxq, 1, PacketLength(l.rxq))

Collect(l) == [l EXCEPT !.rxq = SubSeq(@, PacketLength(@) + 1, Len(@))]
=============================================================================
