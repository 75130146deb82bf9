-------------------------- MODULE SpwLinkOpenProofs ---------------------------
(***************************************************************************)
(* What the link_open run checks of one endpoint, proved for every window, *)
(* FIFO, set of N-Chars and set of application events, and for queues of   *)
(* any length: whatever the peer, the line and the application do.         *)
(***************************************************************************)
EXTENDS SpwLinkOpen, LinkLemmas

\* The application events are events, and none is a character or a tick.
LEMMA CommandsAreEvents ==
  /\ Commands \subseteq Event
  /\ \A e \in Commands : e \notin {"TICK_6_4US", "TICK_12_8US", "GOT_FCT", "SENT_FCT"}
BY OpenConstants DEF Event

\* start() of a new endpoint.
LEMMA OpenInit == Init => OpenInv(link)
<1> SUFFICES ASSUME Init
             PROVE  OpenInv(link)
  OBVIOUS
<1>1. PICK onlyNulls, linkStart, autoStart \in BOOLEAN :
        LET new  == NewLink(Capacity, RxCreditWish, onlyNulls)
            auto == IF autoStart THEN FeedFsm(new, "AUTO_START") ELSE new
        IN  link = IF linkStart THEN FeedFsm(auto, "LINK_START") ELSE auto
  BY DEF Init
<1> DEFINE new  == NewLink(Capacity, RxCreditWish, onlyNulls)
           auto == IF autoStart THEN FeedFsm(new, "AUTO_START") ELSE new
<1>2. OpenInv(new)
  BY NewLinkInv, OpenConstants
<1> HIDE DEF new
<1>3. OpenInv(auto)
  BY <1>2, FeedFsmKeeps DEF Event
<1>4. link = IF linkStart THEN FeedFsm(auto, "LINK_START") ELSE auto
  BY <1>1 DEF new
<1> HIDE DEF auto
<1> QED
  BY <1>3, <1>4, FeedFsmKeeps DEF Event

\* Every step of the endpoint, its peer and its application.
LEMMA OpenStep == OpenInv(link) /\ [Next]_vars => OpenInv(link')
<1> SUFFICES ASSUME OpenInv(link), [Next]_vars
             PROVE  OpenInv(link')
  OBVIOUS
<1>0. link \in LinkRecord
  BY DEF OpenInv, Accounted
<1>1. CASE TxWake \/ TxCharDone
  BY <1>1, TxResumeKeeps DEF TxWake, TxCharDone
<1>2. CASE \E char \in RxChar : Receive(char)
  BY <1>2, DispatchKeeps DEF Receive
<1>3. CASE PeerSilent
  BY <1>3, FeedFsmKeeps DEF PeerSilent, Event
<1>4. CASE TimerExpires
  BY <1>4, TimerExpiredKeeps DEF TimerExpires
<1>5. CASE Command
  BY <1>5, FeedFsmKeeps, CommandsAreEvents DEF Command
<1>6. CASE Send
  <2>1. PICK char \in NChar : link' = Enqueue(link, <<char>>)
    BY <1>6 DEF Send
  <2>2. <<char>> \in Seq(NChar) /\ 0 \in Nat
    OBVIOUS
  <2>3. Accounted(link', 0)
    BY <2>1, <2>2, EnqueueAccounted DEF OpenInv
  <2>4. /\ link'.fsm = link.fsm /\ link'.timer = link.timer /\ link'.rate = link.rate
        /\ link'.wakeup = link.wakeup /\ link'.credit = link.credit
        /\ link'.txTask = link.txTask
    BY <1>0, <2>1, <2>2, EnqueueFields
  <2> QED
    BY <2>3, <2>4 DEF OpenInv, Awake, Timed, Granted
<1>7. CASE Recv
  <2>1. link' = Collect(link)
    BY <1>7 DEF Recv
  <2>2. /\ SameQueue(link, link')
        /\ link'.fsm = link.fsm /\ link'.timer = link.timer /\ link'.rate = link.rate
        /\ link'.wakeup = link.wakeup /\ link'.credit = link.credit
    BY <1>0, <2>1, CollectFields
  <2>3. Accounted(link', 0)
    BY <2>2, SameQueueAccounted DEF OpenInv
  <2> QED
    BY <2>2, <2>3 DEF OpenInv, Awake, Timed, Granted, SameQueue
<1>8. CASE UNCHANGED vars
  BY <1>8 DEF vars
<1> QED
  BY <1>1, <1>2, <1>3, <1>4, <1>5, <1>6, <1>7, <1>8 DEF Next

\* What the invariant says of the properties of the run.
LEMMA OpenInvMeans ==
  ASSUME OpenInv(link)
  PROVE  TypeOK /\ NoLostWakeup /\ TimedAsTheState /\ DrainAccounting /\ GrantsBelongToSession
<1>1. link \in LinkRecord /\ link.outstanding = Len(link.txq) + Held(link) + 0
  BY DEF OpenInv, Accounted
<1>2. Held(link) = NCharsHeld(link) /\ Held(link) \in {0, 1} /\ Len(link.txq) \in Nat
  BY <1>1, LinkFields DEF Held, NCharsHeld
<1>3. DrainAccounting
  BY <1>1, <1>2 DEF OpenInv, Accounted, DrainAccounting
<1> QED
  BY <1>1, <1>3 DEF OpenInv, Awake, Timed, Granted, TypeOK, NoLostWakeup, TimedAsTheState,
                    GrantsBelongToSession

\* So it holds throughout.
LEMMA OpenAlways == Spec => []OpenInv(link)
<1> DEFINE Inv == OpenInv(link)
<1>1. Init => Inv
  BY OpenInit
<1>2. Inv /\ [Next]_vars => Inv'
  BY OpenStep
<1> QED
  BY <1>1, <1>2, PTL DEF Spec

\* The fields keep their types whatever the peer sends.
THEOREM OpenTypeCorrect == Spec => []TypeOK
BY OpenAlways, OpenInvMeans, PTL

\* The TX loop never sleeps through a state that wants it to transmit: it parks only in
\* a state that does not, and the hook of the way out of that state wakes it
\* (link.py:351-366).
THEOREM WakeupNeverLost == Spec => []NoLostWakeup
BY OpenAlways, OpenInvMeans, PTL

\* Every state runs under its own timer and bit rate, whatever chain of events led to
\* it (link.py:315-323): a timer that expires ends the state it times.
THEOREM AlwaysTimedAsTheState == Spec => []TimedAsTheState
BY OpenAlways, OpenInvMeans, PTL

\* The drain counter is what is queued plus what the driver holds, and the drained
\* event tells when it is zero, over any number of sessions (link.py:372-379).
THEOREM DrainAlwaysAccounted == Spec => []DrainAccounting
BY OpenAlways, OpenInvMeans, PTL

\* Outside Connecting and Run the peer holds no credit of this endpoint (5.5.4m).
THEOREM GrantsAlwaysOfSession == Spec => []GrantsBelongToSession
BY OpenAlways, OpenInvMeans, PTL

-----------------------------------------------------------------------------
(***************************************************************************)
(* The handshake.  The FCTs of Connecting are counted by the time they     *)
(* bring the link to Run because, while it is in Connecting, the one it    *)
(* has sent is in rx and the one it has got is in tx.  That no N-Char and  *)
(* no FCT of an earlier session is still with the driver in Connecting     *)
(* follows from the way there: the timer of ErrorReset finds the TX loop   *)
(* parked, and Started drives NULLs only.                                  *)
(***************************************************************************)
WindowHoldsAnFct == CappedMax(RxCreditWish, Capacity) >= FctCreditUnits

\* What the driver may hold in each state.
TxFits(l) ==
  /\ l.fsm.state \in {"ERROR_WAIT", "READY"} => l.txTask = "PARKED"
  /\ l.fsm.state = "STARTED" => l.txTask \in {"PARKED", "NULL"}
  /\ l.fsm.state = "CONNECTING" => l.txTask \in {"PARKED", "NULL", "FCT"}

\* The FCT of Connecting, sent or not, and its place in rx; that got, in tx.
GrantCounted(l) ==
  l.fsm.state = "CONNECTING" =>
    \/ l.fctSent /\ l.credit.rx >= FctCreditUnits
    \/ ~l.fctSent /\ l.credit.rx = 0 /\ l.txTask # "FCT" /\ ~l.fsm.sentFct

GotCounted(l) ==
  l.fsm.state = "CONNECTING" /\ l.fsm.gotFct => l.credit.tx >= FctCreditUnits

HandshakeInv(l) ==
  /\ l \in LinkRecord
  /\ l.credit.max = CappedMax(RxCreditWish, Capacity)
  /\ Granted(l)
  /\ TxFits(l)
  /\ GrantCounted(l)

\* From l to m the link comes to Run only with both FCTs counted.
Counted(l, m) ==
  l.fsm.state # "RUN" /\ m.fsm.state = "RUN"
    => m.credit.tx + Held(m) >= FctCreditUnits /\ m.credit.rx >= FctCreditUnits

\* An event of the FSM: only the FCT received still has to be counted.
LEMMA FeedFsmHandshake ==
  ASSUME NEW l, HandshakeInv(l), NEW e \in Event,
         e = "TICK_6_4US" => l.txTask = "PARKED",
         e = "SENT_FCT" => l.txTask = "FCT"
  PROVE  LET m == FeedFsm(l, e)
             runs == l.fsm.state # "RUN" /\ m.fsm.state = "RUN"
         IN  /\ HandshakeInv(m)
             /\ runs => m.credit.rx >= FctCreditUnits
             /\ GotCounted(l) /\ e # "GOT_FCT" => GotCounted(m)
             /\ GotCounted(l) /\ e # "GOT_FCT" /\ runs => m.credit.tx >= FctCreditUnits
<1> DEFINE m == FeedFsm(l, e)
           s == l.fsm.state
           t == m.fsm.state
<1>1. /\ l \in LinkRecord /\ l.fsm \in FsmRecord
      /\ l.credit.max = CappedMax(RxCreditWish, Capacity)
      /\ Granted(l) /\ TxFits(l) /\ GrantCounted(l)
  BY LinkFields DEF HandshakeInv
<1>2. /\ m \in LinkRecord /\ m.fsm = Feed(l.fsm, e)
      /\ m.txTask = l.txTask /\ m.credit.max = l.credit.max
      /\ t = s => m.credit = l.credit /\ m.fctSent = l.fctSent
      /\ t # s => /\ m.fctSent = (l.fctSent /\ t # "CONNECTING")
                  /\ m.credit.tx = IF t = "ERROR_RESET" THEN 0 ELSE l.credit.tx
                  /\ m.credit.rx = IF t = "ERROR_RESET" THEN 0 ELSE l.credit.rx
  BY <1>1, FeedFsmFields
<1>3. /\ t # s => t = "ERROR_RESET" \/ <<s, t>> \in Climb
      /\ s = "CONNECTING" /\ t # "ERROR_RESET" =>
           /\ m.fsm.sentFct <=> l.fsm.sentFct \/ e = "SENT_FCT"
           /\ m.fsm.gotFct <=> l.fsm.gotFct \/ e = "GOT_FCT"
      /\ t = "CONNECTING" /\ s # t => ~m.fsm.sentFct /\ ~m.fsm.gotFct
      /\ s = "ERROR_RESET" /\ t # s => e = "TICK_6_4US"
      /\ t = "RUN" /\ s # t => m.fsm.sentFct /\ m.fsm.gotFct
  BY <1>1, <1>2, FeedEffect
<1> HIDE DEF m
<1>4. Granted(m) /\ TxFits(m)
  BY <1>1, <1>2, <1>3 DEF Granted, TxFits, Climb
<1>5. GrantCounted(m)
  <2>1. CASE t # "CONNECTING"
    BY <2>1 DEF GrantCounted
  <2>2. CASE t = "CONNECTING" /\ s = t
    BY <1>1, <1>2, <1>3, <2>2 DEF GrantCounted
  <2>3. CASE t = "CONNECTING" /\ s # t
    <3>1. s = "STARTED"
      BY <1>3, <2>3 DEF Climb
    <3>2. l.credit.rx = 0 /\ l.txTask \in {"PARKED", "NULL"}
      BY <1>1, <3>1 DEF Granted, TxFits
    <3> QED
      BY <1>2, <1>3, <2>3, <3>2 DEF GrantCounted
  <2> QED
    BY <2>1, <2>2, <2>3
<1>6. t = "RUN" /\ s # t => /\ s = "CONNECTING"
                            /\ m.credit.tx = l.credit.tx /\ m.credit.rx = l.credit.rx
  BY <1>2, <1>3 DEF Climb
<1>7. t = "RUN" /\ s # t => m.credit.rx >= FctCreditUnits
  BY <1>1, <1>3, <1>6 DEF GrantCounted
<1>8. GotCounted(l) /\ e # "GOT_FCT" => GotCounted(m)
  BY <1>2, <1>3 DEF GotCounted
<1>9. GotCounted(l) /\ e # "GOT_FCT" /\ t = "RUN" /\ s # t => m.credit.tx >= FctCreditUnits
  BY <1>3, <1>6 DEF GotCounted
<1> QED
  BY <1>1, <1>2, <1>4, <1>5, <1>7, <1>8, <1>9, Zenon DEF HandshakeInv, m

\* What a step of the endpoint has to do, as one fact.
Shakes(l, m) == HandshakeInv(m) /\ GotCounted(m) /\ Counted(l, m)

\* Feeding an event keeps the handshake counted, but for a received FCT.
LEMMA FeedFsmShakes ==
  ASSUME NEW l, HandshakeInv(l), GotCounted(l), NEW e \in Event \ {"GOT_FCT"},
         e = "TICK_6_4US" => l.txTask = "PARKED",
         e = "SENT_FCT" => l.txTask = "FCT"
  PROVE  Shakes(l, FeedFsm(l, e))
<1> DEFINE m == FeedFsm(l, e)
<1>1. /\ HandshakeInv(m) /\ GotCounted(m)
      /\ l.fsm.state # "RUN" /\ m.fsm.state = "RUN"
           => m.credit.tx >= FctCreditUnits /\ m.credit.rx >= FctCreditUnits
  BY FeedFsmHandshake
<1> HIDE DEF m
<1>2. m.credit.tx \in Nat /\ Held(m) \in {0, 1} /\ FctCreditUnits \in Nat
  BY <1>1, LinkFields, CreditConstants DEF HandshakeInv, Held
<1>3. m.credit.tx >= FctCreditUnits => m.credit.tx + Held(m) >= FctCreditUnits
  BY <1>2
<1> QED
  BY <1>1, <1>3 DEF Shakes, Counted, m

\* Nothing but the credit of an N-Char moves between the last FCT driven and the next
\* character.
LEMMA TxResumeShakes ==
  ASSUME WindowHoldsAnFct,
         NEW l, HandshakeInv(l), GotCounted(l), l.txTask \in NChar => l.outstanding > 0
  PROVE  Shakes(l, TxResume(l))
<1> DEFINE k == IF l.txTask = "PARKED" THEN l ELSE CharDriven(l)
           m == TxLoopTop(k)
<1>1. TxResume(l) = m
  BY DEF TxResume
<1>2. l \in LinkRecord
  BY DEF HandshakeInv
<1>3. /\ HandshakeInv(k) /\ GotCounted(k)
      /\ l.fsm.state # "RUN" /\ k.fsm.state = "RUN"
           => k.credit.tx >= FctCreditUnits /\ k.credit.rx >= FctCreditUnits
  <2>1. CASE l.txTask = "PARKED"
    BY <2>1
  <2>2. CASE l.txTask = "NULL"
    BY <2>2, FeedFsmHandshake DEF CharDriven, Event
  <2>3. CASE l.txTask = "FCT"
    BY <2>3, FeedFsmHandshake DEF CharDriven, Event
  <2>4. CASE l.txTask \in NChar
    <3>1. l.txTask # "PARKED"
      BY <2>4, CharactersDiffer
    <3>2. LET d == CharDriven(l)
          IN  /\ d \in LinkRecord /\ d.fsm = l.fsm /\ d.txTask = l.txTask
              /\ d.fctSent = l.fctSent /\ d.credit = l.credit
      BY <1>2, <2>4, NCharDrivenFields
    <3> QED
      BY <3>1, <3>2 DEF HandshakeInv, Granted, TxFits, GrantCounted, GotCounted
  <2> QED
    BY <1>2, <2>1, <2>2, <2>3, <2>4, LinkFields
<1> DEFINE mode == TxModeOf(k.fsm)
<1>4. k \in LinkRecord /\ k.fsm.state \in State
  BY <1>3, LinkFields DEF HandshakeInv
<1> HIDE DEF k
<1>5. /\ m \in LinkRecord /\ m.fsm = k.fsm /\ m.credit.max = k.credit.max
      /\ m.txTask = "PARKED" <=> mode = "RESET"
      /\ mode \in {"RESET", "SEND_NULLS"} => m.credit = k.credit
      /\ mode = "SEND_NULLS" => m.txTask = "NULL"
      /\ mode = "SEND_NULLS_FCTS" =>
           /\ m.txTask \in {"NULL", "FCT"}
           /\ m.credit.tx = k.credit.tx
           /\ m.txTask = "NULL" => m.fctSent = k.fctSent /\ m.credit.rx = k.credit.rx
           /\ m.txTask = "FCT" =>
                /\ ~k.fctSent /\ m.fctSent
                /\ m.credit.rx = IF FctSentOverMax(k.credit) THEN k.credit.rx
                                 ELSE k.credit.rx + FctCreditUnits
      /\ mode = "SEND_NULLS_FCTS_NCHARS_TIMECODES" =>
           /\ m.credit.tx + Held(m) = k.credit.tx
           /\ m.credit.rx >= k.credit.rx
  BY <1>4, TxLoopTopFields
<1>6. /\ k.fsm.state = "CONNECTING" <=> mode = "SEND_NULLS_FCTS"
      /\ k.fsm.state = "STARTED" <=> mode = "SEND_NULLS"
      /\ k.fsm.state = "RUN" <=> mode = "SEND_NULLS_FCTS_NCHARS_TIMECODES"
      /\ k.fsm.state \in {"ERROR_RESET", "ERROR_WAIT", "READY"} <=> mode = "RESET"
  BY <1>4 DEF TxModeOf, State
<1>7. /\ k.credit.tx \in Nat /\ k.credit.rx \in Nat /\ m.credit.rx \in Nat
      /\ FctCreditUnits \in Nat
  BY <1>4, <1>5, LinkFields, CreditConstants
<1> HIDE DEF m, mode
<1>8. Granted(m) /\ TxFits(m)
  <2>1. Granted(k)
    BY <1>3 DEF HandshakeInv
  <2>2. m.fsm.state \notin {"CONNECTING", "RUN"} => m.credit = k.credit
    BY <1>4, <1>5, <1>6 DEF State
  <2>3. Granted(m)
    BY <1>5, <2>1, <2>2 DEF Granted
  <2>4. TxFits(m)
    BY <1>4, <1>5, <1>6 DEF TxFits
  <2> QED
    BY <2>3, <2>4
<1>9. GrantCounted(m) /\ GotCounted(m)
  <2>1. CASE k.fsm.state # "CONNECTING"
    BY <1>5, <2>1 DEF GrantCounted, GotCounted
  <2>2. CASE k.fsm.state = "CONNECTING" /\ m.txTask = "NULL"
    BY <1>3, <1>5, <1>6, <2>2 DEF HandshakeInv, GrantCounted, GotCounted
  <2>3. CASE k.fsm.state = "CONNECTING" /\ m.txTask = "FCT"
    <3>1. k.credit.rx = 0 /\ m.fctSent
      BY <1>3, <1>5, <1>6, <2>3 DEF HandshakeInv, GrantCounted
    <3>2. ~FctSentOverMax(k.credit)
      <4>1. k.credit.max = CappedMax(RxCreditWish, Capacity) /\ k.credit.max \in Nat
        BY <1>3, <1>4, LinkFields DEF HandshakeInv
      <4>2. k.credit.max >= FctCreditUnits
        BY <4>1 DEF WindowHoldsAnFct
      <4> QED
        BY <1>7, <3>1, <4>1, <4>2 DEF FctSentOverMax
    <3>3. m.credit.rx = FctCreditUnits
      BY <1>5, <1>6, <1>7, <2>3, <3>1, <3>2
    <3>4. m.credit.rx >= FctCreditUnits
      BY <1>7, <3>3
    <3>5. GrantCounted(m)
      BY <3>1, <3>4 DEF GrantCounted
    <3> QED
      BY <1>3, <1>5, <1>6, <2>3, <3>5 DEF GotCounted
  <2> QED
    BY <1>5, <1>6, <2>1, <2>2, <2>3
<1>10. Counted(l, m)
  <2>1. SUFFICES ASSUME l.fsm.state # "RUN", m.fsm.state = "RUN"
                 PROVE  m.credit.tx + Held(m) >= FctCreditUnits /\ m.credit.rx >= FctCreditUnits
    BY DEF Counted
  <2>2. /\ k.credit.tx >= FctCreditUnits /\ k.credit.rx >= FctCreditUnits
        /\ m.credit.tx + Held(m) = k.credit.tx
        /\ m.credit.rx >= k.credit.rx
    BY <1>3, <1>5, <1>6, <2>1
  <2> QED
    BY <1>7, <2>2
<1> QED
  BY <1>1, <1>3, <1>5, <1>8, <1>9, <1>10 DEF Shakes, HandshakeInv

\* The FCT received is counted after its event: at once, or the link falls.
LEMMA FctShakes ==
  ASSUME NEW l, HandshakeInv(l), GotCounted(l)
  PROVE  Shakes(l, OnRxFct(FeedFsm(l, "GOT_FCT")))
<1> DEFINE k == FeedFsm(l, "GOT_FCT")
           m == OnRxFct(k)
<1> SUFFICES Shakes(l, m)
  OBVIOUS
<1>1. /\ HandshakeInv(k) /\ k \in LinkRecord /\ k.fsm \in FsmRecord
      /\ l.fsm.state # "RUN" /\ k.fsm.state = "RUN" => k.credit.rx >= FctCreditUnits
  BY FeedFsmHandshake, LinkFields DEF Event, HandshakeInv
<1> HIDE DEF k
<1>2. CASE FctOverflows(k.credit) /\ k.fsm.state \in {"CONNECTING", "RUN"}
  <2>1. m = FeedFsm(k, "CREDIT_ERR")
    BY <1>2 DEF OnRxFct
  <2>2. m.fsm = Feed(k.fsm, "CREDIT_ERR")
    BY <1>1, <2>1, FeedFsmFields DEF Event
  <2>3. m.fsm.state = "ERROR_RESET"
    BY <1>1, <1>2, <2>2, ErrorsFall
  <2>4. HandshakeInv(m)
    BY <1>1, <2>1, FeedFsmHandshake DEF Event
  <2> QED
    BY <2>3, <2>4 DEF Shakes, GotCounted, Counted
<1>3. CASE FctOverflows(k.credit) /\ k.fsm.state \notin {"CONNECTING", "RUN"}
  <2>1. m = FeedFsm(k, "CREDIT_ERR")
    BY <1>3 DEF OnRxFct
  <2>2. GotCounted(k)
    BY <1>3 DEF GotCounted
  <2>3. Shakes(k, m)
    BY <1>1, <2>1, <2>2, FeedFsmShakes DEF Event
  <2> QED
    BY <1>3, <2>3 DEF Shakes, Counted
<1>4. CASE ~FctOverflows(k.credit)
  <2>1. /\ SameQueue(k, m)
        /\ m.fsm = k.fsm /\ m.fctSent = k.fctSent
        /\ m.credit.max = k.credit.max /\ m.credit.rx = k.credit.rx
        /\ m.credit.tx = k.credit.tx + FctCreditUnits
    BY <1>1, <1>4, OnRxFctFields
  <2>2. /\ m \in LinkRecord /\ m.txTask = k.txTask
        /\ k.credit.tx \in Nat /\ FctCreditUnits \in Nat /\ Held(m) \in {0, 1}
    BY <1>1, <2>1, LinkFields, CreditConstants DEF SameQueue, Held
  <2> HIDE DEF m
  <2>3. m.credit.tx >= FctCreditUnits /\ m.credit.tx + Held(m) >= FctCreditUnits
    BY <2>1, <2>2
  <2>4. HandshakeInv(m)
    BY <1>1, <2>1, <2>2 DEF HandshakeInv, Granted, TxFits, GrantCounted
  <2>5. GotCounted(m) /\ Counted(l, m)
    BY <1>1, <2>1, <2>3 DEF GotCounted, Counted
  <2> QED
    BY <2>4, <2>5 DEF Shakes, m
<1> QED
  BY <1>2, <1>3, <1>4

\* An N-Char ends a handshake that is not over, and cannot complete it.
LEMMA NCharShakes ==
  ASSUME NEW l, HandshakeInv(l), GotCounted(l), NEW char \in NChar
  PROVE  Shakes(l, OnRxNChar(FeedFsm(l, "GOT_N_CHAR"), char))
<1> DEFINE k == FeedFsm(l, "GOT_N_CHAR")
           m == OnRxNChar(k, char)
<1> SUFFICES Shakes(l, m)
  OBVIOUS
<1>1. /\ Shakes(l, k) /\ HandshakeInv(k) /\ GotCounted(k)
      /\ k \in LinkRecord /\ k.fsm \in FsmRecord
  BY FeedFsmShakes, LinkFields DEF Event, HandshakeInv, Shakes
<1>2. l.fsm.state # "RUN" => k.fsm.state # "RUN"
  <2>1. l \in LinkRecord /\ l.fsm \in FsmRecord
    BY LinkFields DEF HandshakeInv
  <2>2. k.fsm = Feed(l.fsm, "GOT_N_CHAR")
    BY <2>1, FeedFsmFields DEF Event
  <2>3. l.fsm.state = "CONNECTING" => k.fsm.state = "ERROR_RESET"
    BY <2>1, <2>2, ErrorsFall
  <2>4. "GOT_N_CHAR" \in Event
    BY DEF Event
  <2>5. k.fsm.state # l.fsm.state =>
          k.fsm.state = "ERROR_RESET" \/ <<l.fsm.state, k.fsm.state>> \in Climb
    <3> HIDE DEF k
    <3> QED
      BY <2>1, <2>2, <2>4, FeedEffect
  <2> HIDE DEF k
  <2> QED
    BY <2>3, <2>5 DEF Climb
<1> HIDE DEF k
<1>3. CASE k.fsm.state # "RUN"
  BY <1>1, <1>3 DEF OnRxNChar
<1>4. CASE k.fsm.state = "RUN" /\ NCharUnderflows(k.credit)
  <2>1. m = FeedFsm(k, "CREDIT_ERR")
    BY <1>4 DEF OnRxNChar
  <2>2. Shakes(k, m)
    BY <1>1, <2>1, FeedFsmShakes DEF Event
  <2> QED
    BY <1>2, <1>4, <2>2 DEF Shakes, Counted
<1>5. CASE k.fsm.state = "RUN" /\ ~NCharUnderflows(k.credit)
  <2>1. /\ SameQueue(k, m)
        /\ m.fsm = k.fsm /\ m.credit.max = k.credit.max
    BY <1>1, <1>5, OnRxNCharFields
  <2>2. l.fsm.state = "RUN"
    BY <1>2, <1>5
  <2> HIDE DEF m
  <2>3. HandshakeInv(m)
    BY <1>1, <1>5, <2>1 DEF HandshakeInv, Granted, TxFits, GrantCounted, SameQueue
  <2> QED
    BY <1>5, <2>1, <2>2, <2>3 DEF Shakes, GotCounted, Counted, m
<1> QED
  BY <1>3, <1>4, <1>5

\* A received character, an FCT included.
LEMMA DispatchShakes ==
  ASSUME NEW l, HandshakeInv(l), GotCounted(l), NEW char \in RxChar
  PROVE  Shakes(l, Dispatch(l, char))
<1>1. CASE char \in NChar
  <2>1. Dispatch(l, char) = OnRxNChar(FeedFsm(l, "GOT_N_CHAR"), char)
    BY <1>1, CharactersDiffer DEF Dispatch
  <2> QED
    BY <1>1, <2>1, NCharShakes
<1>2. CASE char = "FCT"
  BY <1>2, FctShakes DEF Dispatch
<1>3. CASE char \in {"NULL", "TIMECODE", "ERROR"}
  BY <1>3, FeedFsmShakes DEF Dispatch, Event
<1> QED
  BY <1>1, <1>2, <1>3 DEF RxChar

\* An expired timer.
LEMMA TimerExpiredShakes ==
  ASSUME NEW l, HandshakeInv(l), GotCounted(l), l.timer = "6.4us" => l.txTask = "PARKED"
  PROVE  Shakes(l, TimerExpired(l))
<1> DEFINE k == [l EXCEPT !.timer = "off"]
           e == IF l.timer = "6.4us" THEN "TICK_6_4US" ELSE "TICK_12_8US"
<1>1. /\ k \in LinkRecord /\ k.fsm = l.fsm /\ k.txTask = l.txTask
      /\ k.fctSent = l.fctSent /\ k.credit = l.credit
  BY TimerOff DEF HandshakeInv, SameQueue
<1>2. TimerExpired(l) = FeedFsm(k, e)
  BY DEF TimerExpired
<1> HIDE DEF k
<1>3. HandshakeInv(k) /\ GotCounted(k)
  BY <1>1 DEF HandshakeInv, Granted, TxFits, GrantCounted, GotCounted
<1>4. e \in Event \ {"GOT_FCT", "SENT_FCT"} /\ (e = "TICK_6_4US" => k.txTask = "PARKED")
  BY <1>1 DEF Event
<1> HIDE DEF e
<1>5. Shakes(k, FeedFsm(k, e))
  BY <1>3, <1>4, FeedFsmShakes
<1> QED
  BY <1>1, <1>2, <1>5 DEF Shakes, Counted

-----------------------------------------------------------------------------
HandshakeAlways == HandshakeInv(link) /\ GotCounted(link)

\* start() of a new endpoint, no handshake begun.
LEMMA HandshakeInit == Init => HandshakeAlways
<1> SUFFICES ASSUME Init
             PROVE  HandshakeAlways
  OBVIOUS
<1>1. PICK onlyNulls, linkStart, autoStart \in BOOLEAN :
        LET new  == NewLink(Capacity, RxCreditWish, onlyNulls)
            auto == IF autoStart THEN FeedFsm(new, "AUTO_START") ELSE new
        IN  link = IF linkStart THEN FeedFsm(auto, "LINK_START") ELSE auto
  BY DEF Init
<1> DEFINE new  == NewLink(Capacity, RxCreditWish, onlyNulls)
           auto == IF autoStart THEN FeedFsm(new, "AUTO_START") ELSE new
<1>2. /\ new \in LinkRecord /\ new.fsm = NewFsm
      /\ new.credit = NewCredit(CappedMax(RxCreditWish, Capacity))
  BY NewLinkFields, OpenConstants
<1> HIDE DEF new
<1>3. /\ new.fsm.state = "ERROR_RESET"
      /\ new.credit.max = CappedMax(RxCreditWish, Capacity) /\ new.credit.rx = 0
  BY <1>2 DEF NewFsm, NewCredit
<1>4. HandshakeInv(new) /\ GotCounted(new)
  BY <1>2, <1>3 DEF HandshakeInv, Granted, TxFits, GrantCounted, GotCounted
<1>5. HandshakeInv(auto) /\ GotCounted(auto)
  BY <1>4, FeedFsmShakes DEF Event, Shakes
<1>6. link = IF linkStart THEN FeedFsm(auto, "LINK_START") ELSE auto
  BY <1>1 DEF new
<1> HIDE DEF auto
<1> QED
  BY <1>5, <1>6, FeedFsmShakes DEF Event, Shakes, HandshakeAlways

\* Every step keeps the handshake and counts its credit.
LEMMA HandshakeStep ==
  ASSUME WindowHoldsAnFct, OpenInv(link), HandshakeAlways, [Next]_vars
  PROVE  HandshakeAlways' /\ Counted(link, link')
<1> USE DEF HandshakeAlways
<1>0. link \in LinkRecord
  BY DEF HandshakeInv
<1>1. ASSUME Shakes(link, link')
      PROVE  HandshakeAlways' /\ Counted(link, link')
  BY <1>1 DEF Shakes
<1>2. ASSUME link' \in LinkRecord, link'.fsm = link.fsm, link'.credit = link.credit,
             link'.txTask = link.txTask, link'.fctSent = link.fctSent
      PROVE  HandshakeAlways' /\ Counted(link, link')
  BY <1>2 DEF HandshakeInv, Granted, TxFits, GrantCounted, GotCounted, Counted
<1>3. CASE TxWake \/ TxCharDone
  <2>1. link' = TxResume(link)
    BY <1>3 DEF TxWake, TxCharDone
  <2>2. link.txTask \in NChar => link.outstanding > 0
    <3>1. SUFFICES ASSUME link.txTask \in NChar
                   PROVE  link.outstanding > 0
      OBVIOUS
    <3>2. Held(link) = 1 /\ Len(link.txq) \in Nat
      BY <1>0, <3>1, LinkFields DEF Held
    <3>3. link.outstanding = Len(link.txq) + Held(link) + 0
      BY DEF OpenInv, Accounted
    <3> QED
      BY <3>2, <3>3
  <2> QED
    BY <1>1, <2>1, <2>2, TxResumeShakes
<1>4. CASE \E char \in RxChar : Receive(char)
  BY <1>1, <1>4, DispatchShakes DEF Receive
<1>5. CASE PeerSilent
  BY <1>1, <1>5, FeedFsmShakes DEF PeerSilent, Event
<1>6. CASE TimerExpires
  BY <1>1, <1>6, TimerExpiredShakes DEF TimerExpires
<1>7. CASE Command
  BY <1>1, <1>7, FeedFsmShakes, CommandsAreEvents DEF Command
<1>8. CASE Send
  <2>1. PICK char \in NChar : link' = Enqueue(link, <<char>>)
    BY <1>8 DEF Send
  <2>2. <<char>> \in Seq(NChar)
    OBVIOUS
  <2> QED
    BY <1>0, <1>2, <2>1, <2>2, EnqueueFields
<1>9. CASE Recv
  BY <1>0, <1>2, <1>9, CollectFields DEF Recv, SameQueue
<1>10. CASE UNCHANGED vars
  BY <1>0, <1>2, <1>10 DEF vars
<1> QED
  BY <1>3, <1>4, <1>5, <1>6, <1>7, <1>8, <1>9, <1>10 DEF Next

\* However the link comes to Run, both handshake FCTs are counted when it is there,
\* although the parser's event may bring it there before the character is counted
\* (link.py:441-446).
THEOREM HandshakeAlwaysCounted ==
  ASSUME WindowHoldsAnFct
  PROVE  Spec => HandshakeCounted
<1> DEFINE Inv == OpenInv(link)
           Step == link.fsm.state # "RUN" /\ link'.fsm.state = "RUN"
                     => /\ link'.credit.tx + NCharsHeld(link') >= FctCreditUnits
                        /\ link'.credit.rx >= FctCreditUnits
<1>1. Inv /\ HandshakeAlways /\ [Next]_vars => HandshakeAlways'
  BY HandshakeStep
<1>2. Inv /\ HandshakeAlways /\ [Next]_vars => [Step]_vars
  BY HandshakeStep DEF Counted, Held, NCharsHeld
<1>3. Spec => []Inv
  BY OpenAlways
<1>4. Spec => [][Step]_vars
  <2> HIDE DEF Inv, Step
  <2> QED
    BY <1>1, <1>2, <1>3, HandshakeInit, PTL DEF Spec
<1> QED
  BY <1>4 DEF HandshakeCounted
=============================================================================
