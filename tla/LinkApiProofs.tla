---------------------------- MODULE LinkApiProofs ----------------------------
(***************************************************************************)
(* What the api run checks of the life cycle, of wait_for_error_reset and  *)
(* of wait_tx_drained, proved for every window, queue, count and set of    *)
(* N-Chars.  For the first two the endpoint enters in one respect only:    *)
(* what a step of it does to the ErrorReset event and to the state of the  *)
(* FSM; for the third, in what it does to the N-Chars queued and driven.   *)
(***************************************************************************)
EXTENDS LinkApi, LinkLemmas

\* A record with the fields of an endpoint, of which only the machine and the
\* ErrorReset event matter here.
Shaped(l) ==
  /\ DOMAIN l = {"fsm", "credit", "capacity", "onlyNulls", "timer", "rate", "txTask",
                 "wakeup", "fctSent", "txq", "rxq", "outstanding", "drained",
                 "runReached", "resetEntered"}
  /\ l.fsm \in FsmRecord
  /\ l.resetEntered \in BOOLEAN

InReset(l) == l.fsm.state = "ERROR_RESET"

\* From l to m nothing happens to the machine or to the event.
Untouched(l, m) ==
  /\ Shaped(m)
  /\ m.fsm = l.fsm
  /\ m.resetEntered = l.resetEntered

\* From l to m the event is set exactly by an entry to ErrorReset.
Noted(l, m) ==
  /\ Shaped(m)
  /\ ~InReset(l) /\ InReset(m) => m.resetEntered
  /\ InReset(l) \/ ~InReset(m) => m.resetEntered = l.resetEntered

\* The same without a way out of ErrorReset.
Stays(l, m) == Noted(l, m) /\ (InReset(l) => InReset(m))

\* What does nothing to the machine or the event leads nowhere,
LEMMA UntouchedStays ==
  ASSUME NEW l, NEW m, Untouched(l, m)
  PROVE  Stays(l, m)
BY DEF Untouched, Stays, Noted, InReset

\* and two stays are one.
LEMMA StaysTransitive ==
  ASSUME NEW l, NEW m, NEW n, Stays(l, m), Stays(m, n)
  PROVE  Stays(l, n)
BY DEF Stays, Noted

-----------------------------------------------------------------------------
\* The state-change hook sets the event on an entry to ErrorReset, and only then;
\* the tick of 6.4 us alone leads out of ErrorReset.
LEMMA FeedFsmEffect ==
  ASSUME NEW l, Shaped(l), NEW e \in Event
  PROVE  /\ Noted(l, FeedFsm(l, e))
         /\ e # "TICK_6_4US" => Stays(l, FeedFsm(l, e))
<1> DEFINE r == Feed(l.fsm, e)
           after == [l EXCEPT !.fsm = r]
           m == FeedFsm(l, e)
<1>1. /\ r \in FsmRecord
      /\ InReset(l) /\ r.state # l.fsm.state => e = "TICK_6_4US"
  BY FeedEffect DEF Shaped, InReset
<1> HIDE DEF r
<1>2. Shaped(after) /\ after.fsm = r /\ after.resetEntered = l.resetEntered
  BY <1>1 DEF Shaped
<1>3. m = IF r.state = l.fsm.state THEN after ELSE OnStateChange(after)
  BY <1>2 DEF FeedFsm, r
<1>4. /\ Shaped(OnStateChange(after))
      /\ OnStateChange(after).fsm = r
      /\ OnStateChange(after).resetEntered = (l.resetEntered \/ r.state = "ERROR_RESET")
  <2> HIDE DEF after
  <2> QED
    BY <1>1, <1>2 DEF Shaped, OnStateChange, TimerOf
<1> HIDE DEF after, m
<1>5. CASE r.state = l.fsm.state
  BY <1>1, <1>2, <1>3, <1>5 DEF Noted, Stays, InReset, Shaped, m
<1>6. CASE r.state # l.fsm.state
  BY <1>1, <1>3, <1>4, <1>6 DEF Noted, Stays, InReset, Shaped, m
<1> QED
  BY <1>5, <1>6

\* Choosing the next character touches neither.
LEMMA TxLoopTopEffect ==
  ASSUME NEW l, Shaped(l)
  PROVE  Untouched(l, TxLoopTop(l))
<1>1. \A k, c : Untouched(l, k) => Untouched(l, Drive(k, c))
  BY DEF Untouched, Shaped, Drive
<1>2. Untouched(l, NextConnecting(l))
  <2>1. /\ Untouched(l, l)
        /\ Untouched(l, [l EXCEPT !.fctSent = TRUE,
                                  !.credit = IF FctSentOverMax(@) THEN @ ELSE AfterFctSent(@)])
    BY DEF Untouched, Shaped
  <2> QED
    BY <1>1, <2>1, Zenon DEF NextConnecting
<1>3. Untouched(l, NextInRun(l))
  <2>1. /\ Untouched(l, l)
        /\ Untouched(l, [l EXCEPT !.credit = AfterFctSent(@)])
        /\ Untouched(l, [l EXCEPT !.txq = Tail(@), !.credit = AfterNCharSent(@)])
    BY DEF Untouched, Shaped
  <2> QED
    BY <1>1, <2>1, Zenon DEF NextInRun
<1>4. Untouched(l, [l EXCEPT !.wakeup = FALSE, !.txTask = "PARKED"]) /\ Untouched(l, l)
  BY DEF Untouched, Shaped
<1> QED
  BY <1>1, <1>2, <1>3, <1>4 DEF TxLoopTop

\* A driven character and the events it feeds.
LEMMA CharDrivenEffect ==
  ASSUME NEW l, Shaped(l)
  PROVE  Stays(l, CharDriven(l))
<1>1. Stays(l, FeedFsm(l, "SENT_NULL")) /\ Stays(l, FeedFsm(l, "SENT_FCT"))
  BY FeedFsmEffect DEF Event
<1>2. Untouched(l, [l EXCEPT !.outstanding = @ - 1, !.drained = @ \/ l.outstanding = 1])
  BY DEF Untouched, Shaped
<1> QED
  BY <1>1, <1>2, UntouchedStays DEF CharDriven

\* The TX loop resumed.
LEMMA TxResumeEffect ==
  ASSUME NEW l, Shaped(l)
  PROVE  Stays(l, TxResume(l))
<1> DEFINE k == IF l.txTask = "PARKED" THEN l ELSE CharDriven(l)
<1>1. Stays(l, l)
  BY DEF Stays, Noted
<1>2. Stays(l, k)
  BY <1>1, CharDrivenEffect
<1>3. Stays(k, TxLoopTop(k))
  <2>1. Shaped(k)
    BY <1>2 DEF Stays, Noted
  <2> HIDE DEF k
  <2> QED
    BY <2>1, TxLoopTopEffect, UntouchedStays
<1>4. TxResume(l) = TxLoopTop(k)
  BY DEF TxResume
<1> HIDE DEF k
<1> QED
  BY <1>2, <1>3, <1>4, StaysTransitive

\* Whatever the parser decodes: no character leads out of ErrorReset, and an entry
\* is noted also when the credit error of the same character comes second.
LEMMA DispatchEffect ==
  ASSUME NEW l, Shaped(l), NEW char
  PROVE  Stays(l, Dispatch(l, char))
<1>1. \A e \in Event \ {"TICK_6_4US"} : Stays(l, FeedFsm(l, e))
  BY FeedFsmEffect
<1>2. ASSUME NEW k, Shaped(k)
      PROVE  Stays(k, OnRxFct(k))
  <2>1. Stays(k, FeedFsm(k, "CREDIT_ERR"))
    BY <1>2, FeedFsmEffect DEF Event
  <2>2. Untouched(k, [k EXCEPT !.credit = AfterFctReceived(@), !.wakeup = TRUE])
    BY <1>2 DEF Untouched, Shaped
  <2> QED
    BY <2>1, <2>2, UntouchedStays DEF OnRxFct
<1>3. ASSUME NEW k, Shaped(k)
      PROVE  Stays(k, OnRxNChar(k, char))
  <2>1. Stays(k, FeedFsm(k, "CREDIT_ERR"))
    BY <1>3, FeedFsmEffect DEF Event
  <2>2. Untouched(k, [k EXCEPT !.credit = AfterNCharReceived(@), !.rxq = Append(@, char)])
    BY <1>3 DEF Untouched, Shaped
  <2>3. Stays(k, k)
    BY <1>3 DEF Stays, Noted
  <2> QED
    BY <2>1, <2>2, <2>3, UntouchedStays DEF OnRxNChar
<1>4. /\ Stays(l, OnRxFct(FeedFsm(l, "GOT_FCT")))
      /\ Stays(l, OnRxNChar(FeedFsm(l, "GOT_N_CHAR"), char))
  <2>1. Stays(l, FeedFsm(l, "GOT_FCT")) /\ Stays(l, FeedFsm(l, "GOT_N_CHAR"))
    BY <1>1 DEF Event
  <2>2. Shaped(FeedFsm(l, "GOT_FCT")) /\ Shaped(FeedFsm(l, "GOT_N_CHAR"))
    BY <2>1 DEF Stays, Noted
  <2> QED
    BY <2>1, <2>2, <1>2, <1>3, StaysTransitive
<1>5. /\ Stays(l, FeedFsm(l, "RX_ERR"))
      /\ Stays(l, FeedFsm(l, "GOT_NULL"))
      /\ Stays(l, FeedFsm(l, "GOT_TIME_CODE"))
  BY <1>1 DEF Event
<1> QED
  BY <1>4, <1>5 DEF Dispatch

\* A timer, which may end a visit to ErrorReset.
LEMMA TimerExpiredEffect ==
  ASSUME NEW l, Shaped(l)
  PROVE  Noted(l, TimerExpired(l))
<1> DEFINE k == [l EXCEPT !.timer = "off"]
<1>1. Untouched(l, k)
  BY DEF Untouched, Shaped
<1>2. Shaped(k) /\ InReset(k) = InReset(l) /\ k.resetEntered = l.resetEntered
  BY <1>1 DEF Untouched, InReset
<1>3. \A e \in Event : Noted(k, FeedFsm(k, e))
  <2> HIDE DEF k
  <2> QED
    BY <1>2, FeedFsmEffect
<1>4. TimerExpired(l) = FeedFsm(k, IF l.timer = "6.4us" THEN "TICK_6_4US" ELSE "TICK_12_8US")
  BY DEF TimerExpired
<1> HIDE DEF k
<1>5. Noted(k, TimerExpired(l))
  BY <1>3, <1>4 DEF Event
<1> QED
  BY <1>2, <1>5 DEF Noted

\* The tasks of start() running.
LEMMA OnlineEffect ==
  ASSUME NEW l, Shaped(l)
  PROVE  Stays(l, Online(l))
<1> DEFINE armed == [l EXCEPT !.timer = "6.4us", !.txTask = "PARKED", !.wakeup = TRUE]
           auto == IF "AUTO_START" \in Pending THEN FeedFsm(armed, "AUTO_START") ELSE armed
           up == IF "LINK_START" \in Pending THEN FeedFsm(auto, "LINK_START") ELSE auto
<1>1. Stays(l, armed)
  <2>1. Untouched(l, armed)
    BY DEF Untouched, Shaped
  <2> QED
    BY <2>1, UntouchedStays
<1>2. Online(l) = up
  BY DEF Online
<1>3. \A k : Shaped(k) => /\ Stays(k, k)
                          /\ Stays(k, FeedFsm(k, "AUTO_START"))
                          /\ Stays(k, FeedFsm(k, "LINK_START"))
  BY FeedFsmEffect DEF Event, Stays, Noted
<1> HIDE DEF armed
<1>4. Stays(l, auto)
  <2>1. Stays(armed, auto)
    BY <1>1, <1>3 DEF Stays, Noted
  <2> QED
    BY <1>1, <2>1, StaysTransitive
<1> HIDE DEF auto
<1>5. Stays(auto, up)
  BY <1>3, <1>4 DEF Stays, Noted
<1> HIDE DEF up
<1> QED
  BY <1>2, <1>4, <1>5, StaysTransitive

-----------------------------------------------------------------------------
\* The tasks of the link and the references stop() kills them by go together.
LifeInv ==
  /\ life \in [started : BOOLEAN, monitor : BOOLEAN, known : BOOLEAN, loops : {0, 1},
              starting : SUBSET Starter]
  /\ life.monitor = life.known
  /\ life.loops = IF life.known THEN 1 ELSE 0

\* A waiter that has been woken finds the link still in ErrorReset, so no further
\* entry can fall between its rounds.
WaiterInv ==
  /\ Shaped(link)
  /\ waiter \in [pc : {"idle", "waiting"}, left : Nat, missing : Int]
  /\ waiter.pc = "waiting" => waiter.left > 0
  /\ waiter.pc = "waiting" /\ link.resetEntered => InReset(link)
  /\ ResetsCounted

\* The calls have not begun,
LEMMA LifeInit == Init => LifeInv
BY DEF Init, LifeInv

\* and every step keeps what is known of them.
LEMMA LifeStep == LifeInv /\ [Next]_vars => LifeInv'
<1> SUFFICES ASSUME LifeInv, [Next]_vars
             PROVE  LifeInv'
  OBVIOUS
<1> USE DEF LifeInv
<1>1. ASSUME NEW who \in Starter, StartBegins(who)
      PROVE  LifeInv'
  BY <1>1 DEF StartBegins
<1>2. ASSUME NEW who \in Starter, StartRaises(who) \/ StartFinishes(who)
      PROVE  LifeInv'
  <2>1. CASE StartRaises(who)
    BY <2>1 DEF StartRaises
  <2>2. CASE StartFinishes(who)
    <3>1. life.loops = 0 /\ 0 + 1 = 1
      BY <2>2 DEF StartFinishes, MonitorRefuses
    <3>2. life' = [life EXCEPT !.starting = @ \ {who}, !.monitor = TRUE, !.known = TRUE,
                               !.loops = 1]
      BY <2>2, <3>1 DEF StartFinishes
    <3> QED
      BY <3>2
  <2> QED
    BY <1>2, <2>1, <2>2
<1>3. CASE Stop
  <2>1. life.loops \in {0, 1} /\ (IF life.known THEN life.loops - 1 ELSE life.loops) = 0
    OBVIOUS
  <2>2. life' = [life EXCEPT !.started = FALSE, !.monitor = FALSE, !.known = FALSE, !.loops = 0]
    BY <1>3, <2>1 DEF Stop
  <2> QED
    BY <2>2, Zenon
<1>4. ASSUME UNCHANGED life
      PROVE  LifeInv'
  BY <1>4, Zenon
<1>5. CASE Start
  BY <1>1, <1>5 DEF Start, Starter
<1>6. CASE Connect
  BY <1>1, <1>4, <1>6 DEF Connect, Starter
<1>7. CASE Disconnect \/ ConnectReturns \/ ConnectTimesOut \/ WaiterResumes \/ WaiterTimesOut
  BY <1>4, <1>7 DEF Disconnect, ConnectReturns, ConnectTimesOut, WaiterResumes,
                    WaiterTimesOut, EndpointStep
<1>8. CASE \/ \E count \in Counts : WaitForErrorReset(count)
           \/ \E eop \in Terminator : \E chars \in {<<eop>>, <<eop, eop>>} : SendPacket(chars)
           \/ \E char \in NChar : SendElsewhere(char)
           \/ SenderReturns
  BY <1>4, <1>8 DEF WaitForErrorReset, SendPacket, SendElsewhere, SenderReturns, EndpointStep
<1>9. CASE \/ TxWake \/ TxCharDone
           \/ \E char \in RxChar \ NChar : Receive(char)
           \/ PeerSilent \/ TimerExpires
  BY <1>4, <1>9 DEF TxWake, TxCharDone, Receive, PeerSilent, TimerExpires, EndpointStep
<1>10. CASE UNCHANGED vars
  BY <1>4, <1>10 DEF vars
<1> QED
  BY <1>2, <1>3, <1>5, <1>6, <1>7, <1>8, <1>9, <1>10 DEF Next

\* However start(), connect() and stop() follow each other, the link runs at most
\* one TX loop, and the next stop() would kill it: what start() does behind its
\* await it does only if the monitor agrees to start (link.py:233-237).
THEOREM OneLoopAlways == Spec => []OneLoop
<1>1. LifeInv => OneLoop
  BY DEF LifeInv, OneLoop
<1> QED
  BY <1>1, LifeInit, LifeStep, PTL DEF Spec

-----------------------------------------------------------------------------
\* Nobody waits at first,
LEMMA WaiterInit == Init => WaiterInv
<1> SUFFICES ASSUME Init
             PROVE  WaiterInv
  OBVIOUS
<1>1. Shaped(link) /\ link.resetEntered = FALSE
  BY Zenon DEF Init, NewLink, Shaped, NewFsm, FsmRecord, State
<1> QED
  BY <1>1 DEF Init, NoWait, WaiterInv, ResetsCounted

\* A step of the endpoint keeps the invariant as long as it does not lead out of
\* ErrorReset before a woken waiter has resumed.
LEMMA BecomesKeepsInv ==
  ASSUME WaiterInv, NEW l, Becomes(l), Noted(link, l),
         InReset(link) /\ waiter.pc = "waiting" /\ link.resetEntered => InReset(l)
  PROVE  WaiterInv'
<1> DEFINE enters == ~InReset(link) /\ InReset(l)
<1>1. /\ link' = l
      /\ waiter' = IF waiter.pc = "waiting" /\ enters
                   THEN [waiter EXCEPT !.missing = @ - 1] ELSE waiter
  BY DEF Becomes, EntersReset, InReset
<1>2. /\ Shaped(l)
      /\ l.resetEntered = (enters \/ link.resetEntered)
  BY DEF Noted, WaiterInv, Shaped
<1> HIDE DEF enters
<1>3. waiter.pc = "waiting" /\ enters => ~link.resetEntered /\ InReset(l)
  BY DEF WaiterInv, enters
<1>4. CASE waiter.pc = "waiting" /\ enters
  <2>1. /\ waiter' = [waiter EXCEPT !.missing = @ - 1]
        /\ waiter'.pc = "waiting"
        /\ waiter'.left = waiter.left
        /\ waiter'.missing = waiter.missing - 1
        /\ waiter' \in [pc : {"idle", "waiting"}, left : Nat, missing : Int]
    BY <1>1, <1>4 DEF WaiterInv
  <2>2. waiter.left = waiter.missing /\ waiter.left > 0 /\ waiter.missing \in Int
    BY <1>3, <1>4 DEF WaiterInv, ResetsCounted
  <2>3. Shaped(link)' /\ link'.resetEntered /\ InReset(link)'
    BY <1>1, <1>2, <1>3, <1>4 DEF InReset
  <2> QED
    BY <2>1, <2>2, <2>3 DEF WaiterInv, ResetsCounted
<1>5. CASE ~(waiter.pc = "waiting" /\ enters)
  BY <1>1, <1>2, <1>5 DEF WaiterInv, ResetsCounted, InReset
<1> QED
  BY <1>4, <1>5

\* and every step keeps what a waiter has seen.
LEMMA WaiterStep == WaiterInv /\ [Next]_vars => WaiterInv'
<1> SUFFICES ASSUME WaiterInv, [Next]_vars
             PROVE  WaiterInv'
  OBVIOUS
<1>0. Shaped(link)
  BY DEF WaiterInv
<1>1. ASSUME NEW l, Becomes(l), Stays(link, l)
      PROVE  WaiterInv'
  BY <1>1, BecomesKeepsInv DEF Stays
<1>2. ASSUME UNCHANGED <<link, waiter>>
      PROVE  WaiterInv'
  BY <1>2 DEF WaiterInv, ResetsCounted
<1>3. CASE TimerExpires
  <2>1. Becomes(TimerExpired(link)) /\ ~(waiter.pc = "waiting" /\ link.resetEntered)
    BY <1>3 DEF TimerExpires, EndpointStep, Due
  <2> QED
    BY <2>1, <1>0, TimerExpiredEffect, BecomesKeepsInv
<1>4. CASE TxWake \/ TxCharDone
  BY <1>0, <1>1, <1>4, TxResumeEffect DEF TxWake, TxCharDone, EndpointStep
<1>5. CASE \E char \in RxChar \ NChar : Receive(char)
  BY <1>0, <1>1, <1>5, DispatchEffect DEF Receive, EndpointStep
<1>6. CASE PeerSilent \/ Disconnect
  BY <1>0, <1>1, <1>6, FeedFsmEffect DEF PeerSilent, Disconnect, EndpointStep, Event
<1>7. CASE \E who \in Starter : StartFinishes(who)
  BY <1>0, <1>1, <1>7, OnlineEffect DEF StartFinishes
<1>8. CASE Stop
  <2> DEFINE l == [link EXCEPT !.timer = "off",
                               !.txTask = IF life.known THEN "PARKED" ELSE @]
  <2>1. Untouched(link, l)
    BY <1>0 DEF Untouched, Shaped
  <2>2. Becomes(l)
    BY <1>8 DEF Stop
  <2> HIDE DEF l
  <2> QED
    BY <2>1, <2>2, <1>1, UntouchedStays
<1>9. ASSUME NEW chars, link' = Enqueue(link, chars), waiter' = waiter
      PROVE  WaiterInv'
  <2>1. Untouched(link, Enqueue(link, chars))
    BY <1>0 DEF Untouched, Shaped, Enqueue
  <2> QED
    BY <2>1, <1>9 DEF Untouched, WaiterInv, ResetsCounted, InReset
<1>10. CASE \E eop \in Terminator : \E chars \in {<<eop>>, <<eop, eop>>} : SendPacket(chars)
  BY <1>9, <1>10 DEF SendPacket
<1>11. CASE \E char \in NChar : SendElsewhere(char)
  <2>1. PICK char \in NChar : Becomes(Enqueue(link, <<char>>))
    BY <1>11 DEF SendElsewhere, EndpointStep
  <2>2. Untouched(link, Enqueue(link, <<char>>))
    BY <1>0 DEF Untouched, Shaped, Enqueue
  <2> QED
    BY <2>1, <2>2, <1>1, UntouchedStays
<1>12. CASE \E count \in Counts : WaitForErrorReset(count)
  <2>1. PICK count \in Counts : WaitForErrorReset(count)
    BY <1>12
  <2>2. count \in Nat /\ count > 0
    BY ApiConstants
  <2>3. Shaped(link') /\ link'.resetEntered = FALSE
    BY <1>0, <2>1 DEF WaitForErrorReset, NewRound, Shaped
  <2> QED
    BY <2>1, <2>2, <2>3 DEF WaitForErrorReset, WaiterInv, ResetsCounted
<1>13. CASE WaiterResumes
  <2>1. /\ waiter.pc = "waiting" /\ link.resetEntered
        /\ waiter' = [waiter EXCEPT !.left = @ - 1,
                                    !.pc = IF waiter.left = 1 THEN "idle" ELSE @]
        /\ link' = IF waiter.left = 1 THEN link ELSE NewRound(link)
    BY <1>13 DEF WaiterResumes
  <2>2. waiter.left = waiter.missing + 1 /\ waiter.left > 0
    BY <2>1 DEF WaiterInv, ResetsCounted
  <2>3. Shaped(link') /\ (waiter.left # 1 => link'.resetEntered = FALSE)
    BY <1>0, <2>1 DEF NewRound, Shaped
  <2>4. /\ waiter'.left = waiter.left - 1
        /\ waiter'.missing = waiter.missing
        /\ waiter'.pc = IF waiter.left = 1 THEN "idle" ELSE "waiting"
        /\ waiter' \in [pc : {"idle", "waiting"}, left : Nat, missing : Int]
    <3>1. waiter.left - 1 \in Nat /\ waiter.left \in Nat
      BY <2>2 DEF WaiterInv
    <3> QED
      BY <2>1, <3>1 DEF WaiterInv
  <2> QED
    BY <2>2, <2>3, <2>4 DEF WaiterInv, ResetsCounted
<1>14. CASE WaiterTimesOut
  BY <1>0, <1>14 DEF WaiterTimesOut, NoWait, WaiterInv, ResetsCounted
<1>15. CASE \/ Start \/ Connect \/ ConnectReturns \/ ConnectTimesOut \/ SenderReturns
            \/ \E who \in Starter : StartRaises(who)
            \/ UNCHANGED vars
  BY <1>2, <1>15 DEF Start, Connect, ConnectReturns, ConnectTimesOut, SenderReturns,
                     StartRaises, vars
<1> QED
  BY <1>3, <1>4, <1>5, <1>6, <1>7, <1>8, <1>10, <1>11, <1>12, <1>13, <1>14, <1>15 DEF Next

\* wait_for_error_reset(count) returns on the count-th entry to ErrorReset since its
\* call, whatever else the endpoint and its callers do, although it clears the event
\* between its rounds (link.py:290-301): an entry and the next are at least 6.4 us
\* apart, and the waiter resumes at once.
THEOREM ResetsAlwaysCounted == Spec => []ResetsCounted
<1>1. WaiterInv => ResetsCounted
  BY DEF WaiterInv
<1> QED
  BY <1>1, WaiterInit, WaiterStep, PTL DEF Spec

-----------------------------------------------------------------------------
\* The drain counter of send_packet, as the sender sees it.  A stop() in the middle of
\* an N-Char costs the counter one for good (cuts), so the event is never set again
\* after it; without one the N-Chars up to the sender's last are among the undriven.
\* No character is with the driver when start() parks a new TX loop.
DrainInv ==
  /\ cuts \in Nat
  /\ Accounted(link, cuts)
  /\ ~life.known => link.txTask = "PARKED"
  /\ sender \in [pc : {"idle", "waiting", "woken"}, owed : Nat]
  /\ sender.pc # "waiting" => sender.owed = 0
  /\ sender.pc = "waiting" /\ cuts = 0 => Undriven(link) > 0 /\ sender.owed <= Undriven(link)

\* What is undriven is what is queued and what the driver holds.
LEMMA UndrivenIsCounted ==
  ASSUME NEW l \in LinkRecord
  PROVE  Undriven(l) = Len(l.txq) + Held(l) /\ Undriven(l) \in Nat
<1>1. Len(l.txq) \in Nat
  BY LinkFields
<1>2. CASE l.txTask \in NChar
  BY <1>1, <1>2 DEF Undriven, Held
<1>3. CASE l.txTask \notin NChar
  BY <1>1, <1>3 DEF Undriven, Held
<1> QED
  BY <1>2, <1>3

\* A new endpoint owes nothing.
LEMMA NewLinkAccounted ==
  ASSUME NEW l, l = [NewLink(Capacity, Capacity, FALSE) EXCEPT !.timer = "off"]
  PROVE  Accounted(l, 0) /\ l.txTask = "PARKED"
<1> DEFINE new == NewLink(Capacity, Capacity, FALSE)
<1>1. /\ new \in LinkRecord /\ new.txTask = "PARKED" /\ new.txq = <<>>
      /\ new.outstanding = 0 /\ new.drained
  BY NewLinkFields, ApiConstants
<1> HIDE DEF new
<1>2. SameQueue(new, l)
  BY <1>1, TimerOff DEF new
<1>3. Held(new) = 0
  BY <1>1, CharactersDiffer DEF Held
<1>4. Accounted(new, 0)
  BY <1>1, <1>3 DEF Accounted
<1> QED
  BY <1>1, <1>2, <1>4, SameQueueAccounted DEF SameQueue

\* Nothing is owed at first.
LEMMA DrainInit == Init => DrainInv
<1> SUFFICES ASSUME Init
             PROVE  DrainInv
  OBVIOUS
<1>1. Accounted(link, 0) /\ link.txTask = "PARKED"
  BY NewLinkAccounted DEF Init
<1> QED
  BY <1>1 DEF Init, DrainInv

\* start() finds no N-Char with the driver.
LEMMA OnlineQueue ==
  ASSUME NEW l \in LinkRecord, l.txTask = "PARKED"
  PROVE  SameQueue(l, Online(l))
<1> DEFINE armed == [l EXCEPT !.timer = "6.4us", !.txTask = "PARKED", !.wakeup = TRUE]
           auto == IF "AUTO_START" \in Pending THEN FeedFsm(armed, "AUTO_START") ELSE armed
           up == IF "LINK_START" \in Pending THEN FeedFsm(auto, "LINK_START") ELSE auto
<1>1. SameQueue(l, armed)
  BY DEF SameQueue, LinkRecord
<1>2. Online(l) = up
  BY DEF Online
<1>3. \A k \in LinkRecord : /\ SameQueue(k, k)
                            /\ SameQueue(k, FeedFsm(k, "AUTO_START"))
                            /\ SameQueue(k, FeedFsm(k, "LINK_START"))
  BY FeedFsmQueue DEF Event, SameQueue
<1> HIDE DEF armed
<1>4. SameQueue(armed, auto) /\ auto \in LinkRecord
  BY <1>1, <1>3 DEF SameQueue
<1> HIDE DEF auto
<1>5. SameQueue(auto, up)
  BY <1>3, <1>4
<1> HIDE DEF up
<1> QED
  BY <1>1, <1>2, <1>4, <1>5, SameQueueTransitive

\* A step that leaves the queue and the senders alone.
LEMMA SameQueueKeepsDrain ==
  ASSUME DrainInv, SameQueue(link, link'), UNCHANGED <<sender, cuts>>,
         ~life'.known => link'.txTask = "PARKED"
  PROVE  DrainInv'
<1>1. Undriven(link') = Undriven(link)
  BY DEF SameQueue, Undriven
<1>2. Accounted(link', cuts)
  BY SameQueueAccounted DEF DrainInv
<1> QED
  BY <1>1, <1>2, Zenon DEF DrainInv

\* The TX loop has driven a character and taken the next.
LEMMA TxCharDoneKeepsDrain ==
  ASSUME DrainInv, LifeInv, TxCharDone
  PROVE  DrainInv'
<1> DEFINE k == CharDriven(link)
<1>1. /\ link' = TxResume(link) /\ link.txTask # "PARKED"
      /\ life' = life /\ cuts' = cuts /\ life.known
      /\ sender' = IF link.txTask \in NChar THEN Told(sender, k) ELSE sender
  BY DEF TxCharDone, Becomes, LifeInv
<1>2. /\ cuts \in Nat /\ Accounted(link, cuts) /\ link \in LinkRecord
      /\ sender.pc \in {"idle", "waiting", "woken"} /\ sender.owed \in Nat
      /\ sender.pc # "waiting" => sender.owed = 0
      /\ sender.pc = "waiting" /\ cuts = 0
           => Undriven(link) > 0 /\ sender.owed <= Undriven(link)
  BY DEF DrainInv, Accounted
<1>3. /\ k \in LinkRecord /\ k.txq = link.txq
      /\ k.outstanding = Len(k.txq) + cuts
      /\ k.drained <=> k.outstanding = 0
  BY <1>1, <1>2, CharDrivenAccounted
<1> HIDE DEF k
<1>4. Accounted(link', cuts) /\ link' \in LinkRecord
  BY <1>1, <1>2, TxResumeAccounted DEF Accounted
<1>5. /\ Undriven(link) = Len(link.txq) + Held(link) /\ Undriven(link) \in Nat
      /\ Len(link.txq) \in Nat
  BY <1>2, UndrivenIsCounted, LinkFields
<1>6. Undriven(link') = Len(link.txq)
  <2>1. link' = TxLoopTop(k)
    BY <1>1 DEF TxResume, k
  <2>2. Len(k.txq) = Len(link'.txq) + Held(link')
    BY <1>3, <2>1, TxLoopTopFields
  <2> QED
    BY <1>3, <1>4, <2>2, UndrivenIsCounted
<1>7. CASE link.txTask \in NChar
  <2>1. Undriven(link) = Undriven(link') + 1
    BY <1>5, <1>6, <1>7 DEF Held
  <2>2. k.drained <=> Undriven(link') = 0 /\ cuts = 0
    BY <1>2, <1>3, <1>5, <1>6
  <2>3. sender' = Told(sender, k)
    BY <1>1, <1>7
  <2>4. /\ sender' \in [pc : {"idle", "waiting", "woken"}, owed : Nat]
        /\ sender'.pc = IF sender.pc = "waiting" /\ k.drained THEN "woken" ELSE sender.pc
        /\ sender'.owed = IF sender.owed > 0 /\ cuts = 0 THEN sender.owed - 1 ELSE sender.owed
    BY <1>2, <2>3 DEF Told
  <2>5. sender'.pc # "waiting" => sender'.owed = 0
    BY <1>2, <2>1, <2>2, <2>4, <1>5, <1>6
  <2>6. sender'.pc = "waiting" /\ cuts = 0 =>
          Undriven(link') > 0 /\ sender'.owed <= Undriven(link')
    BY <1>2, <2>1, <2>2, <2>4, <1>5, <1>6
  <2> QED
    BY <1>1, <1>2, <1>4, <2>4, <2>5, <2>6 DEF DrainInv
<1>8. CASE link.txTask \notin NChar
  <2>1. Undriven(link) = Undriven(link') /\ sender' = sender
    BY <1>1, <1>5, <1>6, <1>8 DEF Held
  <2>2. sender.pc = "waiting" /\ cuts = 0 =>
          Undriven(link') > 0 /\ sender.owed <= Undriven(link')
    BY <1>2, <2>1
  <2>3. /\ sender \in [pc : {"idle", "waiting", "woken"}, owed : Nat]
        /\ sender.pc # "waiting" => sender.owed = 0
    BY DEF DrainInv
  <2>4. cuts' = cuts /\ life'.known /\ sender' = sender
    BY <1>1, <2>1
  <2> QED
    BY <1>2, <1>4, <2>2, <2>3, <2>4, Zenon DEF DrainInv
<1> QED
  BY <1>7, <1>8

\* stop() loses at most the N-Char the driver holds.
LEMMA StopKeepsDrain ==
  ASSUME DrainInv, LifeInv, Stop
  PROVE  DrainInv'
<1>1. /\ link' = [link EXCEPT !.timer = "off",
                              !.txTask = IF life.known THEN "PARKED" ELSE link.txTask]
      /\ sender' = sender
      /\ cuts' = IF life.known /\ link.txTask \in NChar THEN cuts + 1 ELSE cuts
  <2>1. link \in LinkRecord
    BY DEF DrainInv, Accounted
  <2> QED
    BY <2>1 DEF Stop, Becomes, LinkRecord
<1>2. /\ cuts \in Nat /\ Accounted(link, cuts) /\ link \in LinkRecord
      /\ ~life.known => link.txTask = "PARKED"
  BY DEF DrainInv, Accounted
<1>3. /\ link' \in LinkRecord /\ link'.txTask = "PARKED"
      /\ link'.txq = link.txq
      /\ link'.outstanding = link.outstanding /\ link'.drained = link.drained
  BY <1>1, <1>2 DEF LinkRecord
<1>4. Held(link') = 0 /\ Len(link.txq) \in Nat
  BY <1>2, <1>3, LinkFields, CharactersDiffer DEF Held
<1>5. /\ Undriven(link) = Len(link.txq) + Held(link)
      /\ Undriven(link') = Len(link.txq)
  BY <1>2, <1>3, <1>4, UndrivenIsCounted
<1>6. CASE link.txTask \in NChar
  <2>1. cuts' = cuts + 1 /\ Held(link) = 1
    BY <1>1, <1>2, <1>6, CharactersDiffer DEF Held
  <2>2. Accounted(link', cuts')
    <3>1. /\ link.outstanding = Len(link.txq) + Held(link) + cuts
          /\ link.drained <=> link.outstanding = 0
      BY <1>2 DEF Accounted
    <3>2. link'.outstanding = Len(link'.txq) + Held(link') + cuts'
      <4>1. cuts \in Nat /\ link.outstanding = Len(link.txq) + 1 + cuts
        BY <1>2, <2>1, <3>1
      <4>2. \A a, b \in Nat : a + 1 + b = a + 0 + (b + 1)
        OBVIOUS
      <4> QED
        BY <1>3, <1>4, <2>1, <4>1, <4>2, Zenon
    <3>3. link'.drained <=> link'.outstanding = 0
      BY <1>3, <3>1
    <3> QED
      BY <1>3, <3>2, <3>3 DEF Accounted
  <2>3. cuts' \in Nat /\ cuts' # 0
    BY <1>2, <2>1
  <2> QED
    BY <1>1, <1>3, <2>2, <2>3, Zenon DEF DrainInv
<1>7. CASE link.txTask \notin NChar
  <2>1. cuts' = cuts /\ Held(link) = 0
    BY <1>1, <1>7 DEF Held
  <2>2. Accounted(link', cuts') /\ Undriven(link') = Undriven(link)
    BY <1>2, <1>3, <1>4, <1>5, <2>1 DEF Accounted
  <2> QED
    BY <1>1, <1>3, <2>1, <2>2, Zenon DEF DrainInv
<1> QED
  BY <1>6, <1>7

\* send_packet adds to what is owed.
LEMMA EnqueueKeepsDrain ==
  ASSUME DrainInv, NEW chars \in Seq(NChar), chars # <<>>,
         link' = Enqueue(link, chars), life' = life, cuts' = cuts,
         \/ sender' = sender
         \/ sender' = [pc |-> "waiting", owed |-> Undriven(link')]
  PROVE  DrainInv'
<1>1. /\ cuts \in Nat /\ Accounted(link, cuts) /\ link \in LinkRecord
  BY DEF DrainInv, Accounted
<1>2. /\ link' \in LinkRecord /\ link'.txTask = link.txTask
      /\ Len(link'.txq) = Len(link.txq) + Len(chars)
  BY <1>1, EnqueueFields
<1>3. Accounted(link', cuts)
  BY <1>1, EnqueueAccounted
<1>4. /\ Len(chars) > 0 /\ Len(chars) \in Nat
      /\ Undriven(link) \in Nat /\ Undriven(link') \in Nat
      /\ Undriven(link') = Undriven(link) + Len(chars)
  <2>1. Held(link') = Held(link) /\ Len(link.txq) \in Nat /\ Held(link) \in {0, 1}
    BY <1>1, <1>2, LinkFields DEF Held
  <2>2. Len(chars) > 0 /\ Len(chars) \in Nat
    OBVIOUS
  <2> QED
    BY <1>1, <1>2, <2>1, <2>2, UndrivenIsCounted
<1>5. CASE sender' = sender
  <2>1. sender.pc = "waiting" /\ cuts = 0
          => Undriven(link') > 0 /\ sender.owed <= Undriven(link')
    BY <1>4 DEF DrainInv
  <2> QED
    BY <1>2, <1>3, <1>5, <2>1, Zenon DEF DrainInv
<1>6. CASE sender' = [pc |-> "waiting", owed |-> Undriven(link')]
  <2>1. /\ sender' \in [pc : {"idle", "waiting", "woken"}, owed : Nat]
        /\ sender'.pc = "waiting" /\ sender'.owed <= Undriven(link') /\ Undriven(link') > 0
    BY <1>4, <1>6
  <2> QED
    BY <1>2, <1>3, <2>1, Zenon DEF DrainInv
<1> QED
  BY <1>5, <1>6

\* Every step keeps the account of what is owed.
LEMMA DrainStep == DrainInv /\ LifeInv /\ [Next]_vars => DrainInv'
<1> SUFFICES ASSUME DrainInv, LifeInv, [Next]_vars
             PROVE  DrainInv'
  OBVIOUS
<1>0. /\ link \in LinkRecord
      /\ ~life.known => link.txTask = "PARKED"
  BY DEF DrainInv, Accounted
<1>1. ASSUME NEW l, Becomes(l), UNCHANGED <<life, sender, cuts>>, SameQueue(link, l)
      PROVE  DrainInv'
  <2>1. link' = l /\ life' = life /\ UNCHANGED <<sender, cuts>> /\ l.txTask = link.txTask
    BY <1>1 DEF Becomes, SameQueue
  <2> QED
    BY <1>0, <1>1, <2>1, SameQueueKeepsDrain
<1>2. ASSUME UNCHANGED link, UNCHANGED <<sender, cuts>>, life'.known = life.known
      PROVE  DrainInv'
  <2>1. SameQueue(link, link')
    BY <1>0, <1>2 DEF SameQueue
  <2> QED
    BY <1>0, <1>2, <2>1, SameQueueKeepsDrain
<1>3. CASE Disconnect \/ PeerSilent
  <2>1. SameQueue(link, FeedFsm(link, "LINK_DISABLE")) /\ SameQueue(link, FeedFsm(link, "RX_ERR"))
    BY <1>0, FeedFsmQueue DEF Event
  <2> QED
    BY <1>1, <1>3, <2>1 DEF Disconnect, PeerSilent, EndpointStep
<1>4. CASE \E char \in RxChar \ NChar : Receive(char)
  BY <1>0, <1>1, <1>4, DispatchQueue DEF Receive
<1>5. CASE TimerExpires
  BY <1>0, <1>1, <1>5, TimerExpiredQueue DEF TimerExpires, EndpointStep
<1>6. CASE TxCharDone
  BY <1>6, TxCharDoneKeepsDrain
<1>7. CASE TxWake
  <2>1. /\ link' = TxResume(link) /\ link.txTask = "PARKED"
        /\ life' = life /\ sender' = sender /\ cuts' = cuts /\ life.known
    BY <1>7 DEF TxWake, EndpointStep, Becomes, LifeInv
  <2>2. cuts \in Nat /\ Accounted(link, cuts)
    BY DEF DrainInv
  <2>3. Accounted(link', cuts) /\ link' \in LinkRecord
    BY <2>1, <2>2, TxResumeAccounted DEF Accounted
  <2>4. Undriven(link') = Undriven(link)
    <3>1. link' = TxLoopTop(link) /\ Held(link) = 0
      BY <2>1, CharactersDiffer DEF TxResume, Held
    <3>2. Len(link.txq) = Len(link'.txq) + Held(link') /\ Len(link.txq) \in Nat
      BY <1>0, <3>1, TxLoopTopFields, LinkFields
    <3> QED
      BY <1>0, <2>3, <3>1, <3>2, UndrivenIsCounted
  <2> QED
    BY <2>1, <2>3, <2>4, Zenon DEF DrainInv
<1>8. CASE Stop
  BY <1>8, StopKeepsDrain
<1>9. ASSUME NEW who \in Starter, StartFinishes(who)
      PROVE  DrainInv'
  <2>1. /\ link' = Online(link) /\ UNCHANGED <<sender, cuts>> /\ ~life.known
        /\ life' = [life EXCEPT !.starting = @ \ {who}, !.monitor = TRUE,
                                !.known = TRUE, !.loops = @ + 1]
    BY <1>9 DEF StartFinishes, Becomes, LifeInv, MonitorRefuses
  <2>2. life'.known
    BY <2>1 DEF LifeInv
  <2> QED
    BY <1>0, <2>1, <2>2, OnlineQueue, SameQueueKeepsDrain
<1>10. ASSUME NEW who \in Starter, StartBegins(who) \/ StartRaises(who)
       PROVE  life'.known = life.known
  BY <1>10 DEF StartBegins, StartRaises, LifeInv
<1>11. CASE \/ Start \/ Connect \/ ConnectReturns \/ ConnectTimesOut \/ WaiterTimesOut
            \/ \E who \in Starter : StartRaises(who)
            \/ UNCHANGED vars
  BY <1>2, <1>10, <1>11 DEF Start, Connect, ConnectReturns, ConnectTimesOut, WaiterTimesOut,
                           StartRaises, Starter, vars
<1>12. CASE WaiterResumes \/ \E count \in Counts : WaitForErrorReset(count)
  <2>1. /\ link' = link \/ link' = NewRound(link)
        /\ UNCHANGED <<life, sender, cuts>>
    BY <1>12 DEF WaiterResumes, WaitForErrorReset
  <2>2. SameQueue(link, link) /\ SameQueue(link, NewRound(link))
    BY <1>0 DEF SameQueue, NewRound, LinkRecord
  <2>3. SameQueue(link, link')
    BY <2>1, <2>2
  <2>4. link'.txTask = link.txTask
    BY <2>3 DEF SameQueue
  <2> QED
    BY <1>0, <2>1, <2>3, <2>4, SameQueueKeepsDrain
<1>13. CASE \E eop \in Terminator : \E chars \in {<<eop>>, <<eop, eop>>} : SendPacket(chars)
  <2>1. PICK eop \in Terminator : \E chars \in {<<eop>>, <<eop, eop>>} : SendPacket(chars)
    BY <1>13
  <2>2. PICK chars \in {<<eop>>, <<eop, eop>>} : SendPacket(chars)
    BY <2>1
  <2>3. <<eop>> \in Seq(NChar) /\ <<eop, eop>> \in Seq(NChar)
    BY CharactersDiffer
  <2>4. chars \in Seq(NChar) /\ chars # <<>>
    <3>1. CASE chars = <<eop>>
      BY <2>3, <3>1
    <3>2. CASE chars = <<eop, eop>>
      BY <2>3, <3>2
    <3> QED
      BY <2>2, <3>1, <3>2
  <2> QED
    BY <2>2, <2>4, EnqueueKeepsDrain DEF SendPacket
<1>14. CASE \E char \in NChar : SendElsewhere(char)
  <2>1. PICK char \in NChar : SendElsewhere(char)
    BY <1>14
  <2>2. <<char>> \in Seq(NChar) /\ <<char>> # <<>>
    OBVIOUS
  <2> QED
    BY <2>1, <2>2, EnqueueKeepsDrain DEF SendElsewhere, EndpointStep, Becomes
<1>15. CASE SenderReturns
  <2>1. /\ UNCHANGED <<link, life, cuts>>
        /\ sender' = [sender EXCEPT !.pc = "idle"] /\ sender.pc = "woken"
    BY <1>15 DEF SenderReturns
  <2>2. /\ sender' \in [pc : {"idle", "waiting", "woken"}, owed : Nat]
        /\ sender'.pc = "idle" /\ sender'.owed = 0
    BY <2>1 DEF DrainInv
  <2> QED
    BY <2>1, <2>2, Zenon DEF DrainInv
<1> QED
  BY <1>3, <1>4, <1>5, <1>6, <1>7, <1>8, <1>9, <1>11, <1>12, <1>13, <1>14, <1>15 DEF Next

\* send_packet returns only when its N-Chars are driven and does not wait on when
\* nothing is left to drive, over any number of packets, tasks that send, resets and
\* restarts, unless a stop() took the driver an N-Char (link.py:372-379, 480-517).
THEOREM DrainAlwaysHonest == Spec => []DrainIsHonest
<1>1. DrainInv => DrainIsHonest
  BY DEF DrainInv, DrainIsHonest
<1> QED
  BY <1>1, DrainInit, DrainStep, LifeInit, LifeStep, PTL DEF Spec
=============================================================================
