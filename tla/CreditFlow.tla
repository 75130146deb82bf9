----------------------------- MODULE CreditFlow ------------------------------
(***************************************************************************)
(* One direction of a session of two endpoints: N-Chars flow from a sender *)
(* to a receiver, FCTs flow back, and the two CreditCounters are all that  *)
(* keeps them in step.  The lines are abstract in this module: FIFO and    *)
(* lossless within a session, so a count of the characters on each is all  *)
(* of their state.  A session starts when the receiver comes to Connecting *)
(* with no credit granted, its RX queue still holding what recv_packet has *)
(* not collected since the last session.  The sender does not always start *)
(* at zero: it may hold stale credit, of FCTs it decoded in ErrorReset.    *)
(* The session ends with a credit error, or never.                         *)
(***************************************************************************)
EXTENDS CreditCounter

CONSTANTS
  RxCapacity,      \* rx_fifo_capacity of the receiver
  RxCreditWish,    \* its max_rx_credit argument
  CarriedNChars,   \* bound on the N-Chars left in its queue by earlier sessions
  StaleFcts,       \* bound on the FCTs the sender counted since its credit was reset
  MaxBacklog       \* bound on what the application keeps queued at the sender

ASSUME FlowConstants ==
  /\ RxCapacity \in Nat
  /\ RxCreditWish \in Nat
  /\ CarriedNChars \in Nat
  /\ StaleFcts \in Nat
  /\ MaxBacklog \in Nat

VARIABLES
  sender,      \* CreditCounter of the sending endpoint; its tx side is used
  receiver,    \* CreditCounter of the receiving endpoint; its rx side is used
  stale,       \* history: the credit the sender held when the session started
  connected,   \* the receiver has sent the FCT of its Connecting handshake
  inRun,       \* the sender has heard that FCT
  fcts,        \* FCTs on their way to the sender
  nchars,      \* N-Chars on their way to the receiver
  queued,      \* _rx_nchar_queue.qsize() at the receiver
  backlog,     \* _tx_nchar_queue.qsize() at the sender
  creditError, \* "none", or the reason of the CreditError that ends the session
  heard        \* history: an N-Char of this session has come to the receiver

vars == <<sender, receiver, stale, connected, inRun, fcts, nchars, queued, backlog,
          creditError, heard>>

MaxRxCredit == CappedMax(RxCreditWish, RxCapacity)

Headroom == RxCapacity - queued

\* _on_rx_character counts an FCT in every state, up to the limit: what it counts
\* between credit.reset() and the handshake is there when the session starts.
StaleCredit == {FctCreditUnits * k : k \in 0 .. StaleFcts} \cap 0 .. MaxCredit

Init ==
  /\ stale \in StaleCredit
  /\ sender = [NewCredit(MaxCredit) EXCEPT !.tx = stale]
  /\ receiver = NewCredit(MaxRxCredit)
  /\ connected = FALSE
  /\ inRun = FALSE
  /\ fcts = 0
  /\ nchars = 0
  /\ queued \in 0 .. CarriedNChars
  /\ backlog = 0
  /\ creditError = "none"
  /\ heard = FALSE

\* _next_char in Connecting: one FCT whatever the headroom; when on_fct_sent
\* raises, the error is swallowed and the FCT goes out uncounted.
SendHandshakeFct ==
  /\ creditError = "none"
  /\ ~connected
  /\ connected' = TRUE
  /\ receiver' = IF FctSentOverMax(receiver) THEN receiver ELSE AfterFctSent(receiver)
  /\ fcts' = fcts + 1
  /\ UNCHANGED <<sender, stale, inRun, nchars, queued, backlog, creditError, heard>>

\* _next_char in Run, first choice.
SendRunFct ==
  /\ creditError = "none"
  /\ connected
  /\ ShouldSendFct(receiver, Headroom)
  /\ receiver' = AfterFctSent(receiver)
  /\ fcts' = fcts + 1
  /\ UNCHANGED <<sender, stale, connected, inRun, nchars, queued, backlog, creditError,
                 heard>>

\* _on_rx_character of an FCT.  The first one has brought the sender to Run before
\* it is counted.
DeliverFct ==
  /\ creditError = "none"
  /\ fcts > 0
  /\ fcts' = fcts - 1
  /\ inRun' = TRUE
  /\ IF FctOverflows(sender)
     THEN creditError' = "fct_overflow" /\ UNCHANGED sender
     ELSE sender' = AfterFctReceived(sender) /\ UNCHANGED creditError
  /\ UNCHANGED <<receiver, stale, connected, nchars, queued, backlog, heard>>

\* send_packet and send_char: _enqueue_nchar, bounded by MaxBacklog.
Enqueue ==
  /\ creditError = "none"
  /\ backlog < MaxBacklog
  /\ backlog' = backlog + 1
  /\ UNCHANGED <<sender, receiver, stale, connected, inRun, fcts, nchars, queued,
                 creditError, heard>>

\* _next_char in Run, second choice.
SendNChar ==
  /\ creditError = "none"
  /\ inRun
  /\ backlog > 0
  /\ CanSend(sender)
  /\ sender' = AfterNCharSent(sender)
  /\ backlog' = backlog - 1
  /\ nchars' = nchars + 1
  /\ UNCHANGED <<receiver, stale, connected, inRun, fcts, queued, creditError, heard>>

\* _on_rx_character of an N-Char.
DeliverNChar ==
  /\ creditError = "none"
  /\ nchars > 0
  /\ nchars' = nchars - 1
  /\ IF NCharUnderflows(receiver)
     THEN /\ creditError' = "nchar_with_zero_rx_credit"
          /\ UNCHANGED <<receiver, queued>>
     ELSE /\ receiver' = AfterNCharReceived(receiver)
          /\ queued' = queued + 1
          /\ UNCHANGED creditError
  /\ heard' = TRUE
  /\ UNCHANGED <<sender, stale, connected, inRun, fcts, backlog>>

\* recv_packet takes one N-Char.
Consume ==
  /\ creditError = "none"
  /\ queued > 0
  /\ queued' = queued - 1
  /\ UNCHANGED <<sender, receiver, stale, connected, inRun, fcts, nchars, backlog,
                 creditError, heard>>

Next ==
  \/ SendHandshakeFct \/ SendRunFct \/ DeliverFct
  \/ Enqueue \/ SendNChar \/ DeliverNChar \/ Consume

Spec == Init /\ [][Next]_vars

\* The endpoints' loops and the lines never stop, and somebody keeps collecting
\* packets at the receiver: without that the sender rightly starves.
Fairness ==
  /\ WF_vars(SendHandshakeFct) /\ WF_vars(SendRunFct) /\ WF_vars(DeliverFct)
  /\ WF_vars(SendNChar) /\ WF_vars(DeliverNChar) /\ WF_vars(Consume)

FairSpec == Spec /\ Fairness

-----------------------------------------------------------------------------
\* Credits are records of the class, and every count is a count.
TypeOK ==
  /\ sender \in CreditRecord /\ receiver \in CreditRecord
  /\ connected \in BOOLEAN /\ inRun \in BOOLEAN /\ heard \in BOOLEAN
  /\ stale \in Nat
  /\ fcts \in Nat /\ nchars \in Nat /\ queued \in Nat /\ backlog \in Nat
  /\ creditError \in {"none", "fct_overflow", "nchar_with_zero_rx_credit"}

\* The two counters of flow_control.py agree across the line but for the stale
\* credit: what the sender holds, what FCTs on the line still bring, and what
\* N-Chars on the line have used is what the receiver has granted and what the
\* sender held from the start.  The difference never grows, nor does it heal.
CreditConserved ==
  creditError = "none" =>
    receiver.rx + stale = sender.tx + FctCreditUnits * fcts + nchars

\* Only stale credit ever ends a session with a credit error (5.5.5a): if the
\* sender started at zero, no FCT overflows its counter and no N-Char finds the
\* receiver's at zero.
NoCreditError == stale = 0 => creditError = "none"

\* What the receiver may have to store.  should_send_fct compares the headroom
\* with one FCT and forgets the credit already granted, so the FIFO capacity is
\* no bound; this is the one the code does keep, whatever the sender holds.
QueueBound ==
  LET carriedIn == CarriedNChars + FctCreditUnits
      grantedIn == RxCapacity + MaxRxCredit - FctCreditUnits
  IN  queued + receiver.rx <= IF carriedIn < grantedIn THEN grantedIn ELSE carriedIn

\* link.py:341-346: with the handshake FCT counted, the Run loop grants the rest
\* of the initial burst, and the peer receives exactly initial_fct_count FCTs, on
\* top of what it held.
BurstExact ==
  /\ creditError = "none"
  /\ connected /\ ~heard /\ queued = 0 /\ fcts = 0 /\ ~ShouldSendFct(receiver, Headroom)
  => sender.tx + nchars = stale + FctCreditUnits * InitialFctCount(RxCapacity)

\* A backlog that persists is worked on as long as the session lasts: the sender is
\* never left waiting for credit that the receiver never grants (5.5.4d and 5.5.4p
\* together).
BacklogMoves ==
  <>[](backlog > 0 /\ creditError = "none") => []<><<SendNChar>>_vars

\* A session that starts with stale credit promises nothing: nothing of it is shown.
Promised(n) == IF stale = 0 THEN n ELSE 0

\* Of a session that starts clean, the counters implement the window: an FCT
\* leaving is a grant, its arrival is nothing to see, no N-Char is lost or refused,
\* and no more than max_rx_credit N-Chars are ever granted or under way.
Transfer == INSTANCE WindowTransfer
              WITH Batch     <- FctCreditUnits,
                   MaxWindow <- MaxRxCredit,
                   window    <- Promised(sender.tx + FctCreditUnits * fcts),
                   nchars    <- Promised(nchars),
                   queued    <- Promised(queued),
                   backlog   <- Promised(backlog)

ImplementsWindow == Transfer!Spec
=============================================================================
