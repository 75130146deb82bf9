------------------------------- MODULE LinkLemmas ---------------------------
(***************************************************************************)
(* What the operators of the link initialization FSM, of an endpoint and of*)
(* the character codec compute, for every machine, window, capacity, set of*)
(* N-Chars and byte.  The constants of SpwLink play no part in the lemmas  *)
(* about LinkFSM and Characters, nor in the theorems that rest on those only.*)
(***************************************************************************)
EXTENDS SpwLink, Characters, TLAPS, SequenceTheorems, FiniteSetTheorems, WellFoundedInduction

(***************************************************************************)
(* What feed() of link_fsm.py computes: the transition loop in closed form,*)
(* and its effect field by field.                                          *)
(***************************************************************************)
\* A loop configuration that has broken out, and one that is still turning.
Halted(f, e)  == [fsm |-> f, event |-> e, done |-> TRUE]
Turning(f, e) == [fsm |-> f, event |-> e, done |-> FALSE]

\* Configurations of the transition loop have their types.
LEMMA ConfigType ==
  ASSUME NEW f \in FsmRecord, NEW e \in Event \cup {NoEvent}
  PROVE  Halted(f, e) \in LoopConfig /\ Turning(f, e) \in LoopConfig
BY Zenon DEF Halted, Turning, LoopConfig

\* Once the loop has broken out, its remaining turns change nothing.
LEMMA HaltedStays ==
  ASSUME NEW f \in FsmRecord, NEW e \in Event \cup {NoEvent}
  PROVE  /\ Turn[Halted(f, e)] = Halted(f, e)
         /\ TwoTurns(Halted(f, e)) = Halted(f, e)
         /\ FourTurns(Halted(f, e)) = Halted(f, e)
<1>1. Turn[Halted(f, e)] = Halted(f, e)
  BY ConfigType DEF Turn, Halted
<1>2. TwoTurns(Halted(f, e)) = Halted(f, e)
  BY <1>1 DEF TwoTurns
<1> QED
  BY <1>1, <1>2 DEF FourTurns

\* One turn of a loop that has not broken out: stay and break, or enter.
LEMMA OneTurn ==
  ASSUME NEW f \in FsmRecord, NEW e \in Event \cup {NoEvent}
  PROVE  /\ Handler(f, e) = f.state => Turn[Turning(f, e)] = Halted(f, e)
         /\ Handler(f, e) # f.state =>
              Turn[Turning(f, e)] = Turning(Enter(f, Handler(f, e)), NoEvent)
<1> DEFINE c == Turning(f, e)
           n == Handler(f, e)
<1>1. c \in LoopConfig /\ c.fsm = f /\ c.event = e /\ ~c.done
  BY ConfigType DEF Turning
<1>2. Halted(f, e) = [fsm |-> f, event |-> e, done |-> TRUE]
  BY DEF Halted
<1>3. Turning(Enter(f, n), NoEvent) = [fsm |-> Enter(f, n), event |-> NoEvent, done |-> FALSE]
  BY DEF Turning
<1> HIDE DEF c, n
<1>4. n = f.state => Turn[c] = Halted(f, e)
  BY <1>1, <1>2 DEF Turn, n
<1>5. n # f.state => Turn[c] = Turning(Enter(f, n), NoEvent)
  BY <1>1, <1>3 DEF Turn, n
<1> QED
  BY <1>4, <1>5 DEF c, n

\* Updating the flags and entering a state keep the machine a machine.
LEMMA FlagsType ==
  ASSUME NEW f \in FsmRecord, NEW e
  PROVE  UpdateFlags(f, e) \in FsmRecord /\ UpdateFlags(f, e).state = f.state
BY Zenon DEF UpdateFlags, FsmRecord

\* A transition gives a machine in the state it enters,
LEMMA EnterType ==
  ASSUME NEW f \in FsmRecord, NEW s \in State
  PROVE  Enter(f, s) \in FsmRecord /\ Enter(f, s).state = s
BY Zenon DEF Enter, FsmRecord

\* and a handler names a state.
LEMMA HandlerType ==
  ASSUME NEW f \in FsmRecord, NEW e
  PROVE  Handler(f, e) \in State
BY DEF Handler, FsmRecord, State, InErrorReset, InErrorWait, InReady, InStarted,
       InConnecting, InRun

\* A state that has just been entered keeps the machine, except Ready when the
\* link is enabled: the only chained transition there is.
LEMMA EnteredSettles ==
  ASSUME NEW f \in FsmRecord, NEW s \in State
  PROVE  LET g == Enter(f, s)
         IN  Handler(g, NoEvent) = IF s = "READY" /\ LinkEnabled(g) THEN "STARTED" ELSE s
<1> DEFINE g == Enter(f, s)
<1>1. /\ g \in FsmRecord
      /\ g.state = s
      /\ s = "STARTED" => ~g.sentNull
      /\ s = "CONNECTING" => ~g.sentFct
  BY EnterType DEF Enter, FsmRecord
<1> HIDE DEF g
<1>2. ~WaitStateError(g, NoEvent)
  BY DEF WaitStateError, NoEvent
<1>3. Handler(g, NoEvent) = IF s = "READY" /\ LinkEnabled(g) THEN "STARTED" ELSE s
  BY <1>1, <1>2 DEF Handler, State, InErrorReset, InErrorWait, InReady, InStarted,
                    InConnecting, InRun, NoEvent
<1> QED
  BY <1>3 DEF g

\* feed() in closed form: the flags, one transition, and through Ready at once
\* to Started when the link is enabled.  Three turns of the eight suffice.
LEMMA FeedClosedForm ==
  ASSUME NEW f \in FsmRecord, NEW e \in Event
  PROVE  LET u == UpdateFlags(f, e)
             n == Handler(u, e)
             g == Enter(u, n)
         IN  Feed(f, e) = CASE n = u.state                     -> u
                            [] n # u.state /\ n = "READY" /\ LinkEnabled(g)
                                                               -> Enter(g, "STARTED")
                            [] n # u.state /\ ~(n = "READY" /\ LinkEnabled(g))
                                                               -> g
<1> DEFINE u == UpdateFlags(f, e)
           n == Handler(u, e)
           g == Enter(u, n)
           h == Enter(g, "STARTED")
<1>1. u \in FsmRecord /\ n \in State
  BY FlagsType, HandlerType
<1>2. g \in FsmRecord /\ g.state = n
  BY <1>1, EnterType
<1>3. h \in FsmRecord /\ h.state = "STARTED"
  BY <1>2, EnterType DEF State
<1>4. Handler(g, NoEvent) = IF n = "READY" /\ LinkEnabled(g) THEN "STARTED" ELSE n
  BY <1>1, EnteredSettles
<1>5. Handler(h, NoEvent) = "STARTED"
  BY <1>2, EnteredSettles DEF State
<1>6. Feed(f, e) = FourTurns(TwoTurns(TwoTurns(Turning(u, e)))).fsm
  BY DEF Feed, EightTurns, FourTurns, FirstTurn, Turning
<1> HIDE DEF u, n, g, h
<1> USE <1>1, <1>2, <1>3
<1>7. CASE n = u.state
  <2>1. Turn[Turning(u, e)] = Halted(u, e)
    BY <1>7, OneTurn DEF n
  <2>2. TwoTurns(Turning(u, e)) = Halted(u, e)
    BY <2>1, HaltedStays DEF TwoTurns
  <2>3. Feed(f, e) = Halted(u, e).fsm
    BY <1>6, <2>2, HaltedStays
  <2> QED
    BY <2>3, <1>7 DEF Halted, u, n, g
<1>8. CASE n # u.state /\ ~(n = "READY" /\ LinkEnabled(g))
  <2>1. Turn[Turning(u, e)] = Turning(g, NoEvent)
    BY <1>8, OneTurn DEF n, g
  <2>2. Turn[Turning(g, NoEvent)] = Halted(g, NoEvent)
    BY <1>8, <1>2, <1>4, OneTurn
  <2>3. TwoTurns(Turning(u, e)) = Halted(g, NoEvent)
    BY <2>1, <2>2 DEF TwoTurns
  <2>4. Feed(f, e) = Halted(g, NoEvent).fsm
    BY <1>6, <2>3, HaltedStays
  <2> QED
    BY <2>4, <1>8 DEF Halted, u, n, g
<1>9. CASE n # u.state /\ n = "READY" /\ LinkEnabled(g)
  <2>1. Turn[Turning(u, e)] = Turning(g, NoEvent)
    BY <1>9, OneTurn DEF n, g
  <2>2. Turn[Turning(g, NoEvent)] = Turning(h, NoEvent)
    BY <1>9, <1>2, <1>4, OneTurn DEF h
  <2>3. TwoTurns(Turning(u, e)) = Turning(h, NoEvent)
    BY <2>1, <2>2 DEF TwoTurns
  <2>4. Turn[Turning(h, NoEvent)] = Halted(h, NoEvent)
    BY <1>3, <1>5, OneTurn
  <2>5. TwoTurns(Turning(h, NoEvent)) = Halted(h, NoEvent)
    BY <2>4, HaltedStays DEF TwoTurns
  <2>6. Feed(f, e) = Halted(h, NoEvent).fsm
    BY <1>6, <2>3, <2>5, HaltedStays
  <2> QED
    BY <2>6, <1>9 DEF Halted, u, n, g, h
<1> QED
  BY <1>7, <1>8, <1>9

-----------------------------------------------------------------------------
\* What a handler does with the updated machine: where it may go and why, and
\* that a state it keeps is also kept without an event.
LEMMA HandlerEffect ==
  ASSUME NEW u \in FsmRecord, NEW e \in Event
  PROVE  LET n == Handler(u, e)
         IN  /\ n # u.state => n = "ERROR_RESET" \/ <<u.state, n>> \in Climb
             /\ n # u.state /\ n = "ERROR_WAIT" => e = "TICK_6_4US"
             /\ n # u.state /\ n = "READY" => e = "TICK_12_8US"
             /\ n # u.state /\ n = "STARTED" => LinkEnabled(u) /\ u.state = "READY"
             /\ n # u.state /\ n = "CONNECTING" => u.sentNull /\ u.gotNull
             /\ n # u.state /\ n = "RUN" => u.sentFct /\ u.gotFct
             /\ n = u.state => Handler(u, NoEvent) = u.state
<1> DEFINE n == Handler(u, e)
<1>1. u.state \in State
  BY DEF FsmRecord
<1>2. NoEvent \notin Event
  BY DEF NoEvent, Event
<1>3. CASE u.state = "ERROR_RESET"
  BY <1>2, <1>3 DEF Handler, InErrorReset, Climb, NoEvent
<1>4. CASE u.state = "ERROR_WAIT"
  BY <1>2, <1>4 DEF Handler, InErrorWait, WaitStateError, Climb, NoEvent
<1>5. CASE u.state = "READY"
  BY <1>2, <1>5 DEF Handler, InReady, WaitStateError, Climb, NoEvent
<1>6. CASE u.state = "STARTED"
  BY <1>2, <1>6 DEF Handler, InStarted, WaitStateError, Climb, NoEvent
<1>7. CASE u.state = "CONNECTING"
  BY <1>2, <1>7 DEF Handler, InConnecting, Climb, NoEvent
<1>8. CASE u.state = "RUN"
  BY <1>2, <1>8 DEF Handler, InRun, Climb, NoEvent
<1> QED
  BY <1>1, <1>3, <1>4, <1>5, <1>6, <1>7, <1>8 DEF State

\* What feeding an event does, field by field: the facts every invariant of the
\* machine rests on.
LEMMA FeedEffect ==
  ASSUME NEW f \in FsmRecord, NEW e \in Event
  PROVE  LET r == Feed(f, e)
             fell  == r.state = "ERROR_RESET" /\ f.state # "ERROR_RESET"
             to(s) == r.state = s /\ f.state # s
         IN  /\ r \in FsmRecord
             /\ r.state # f.state => r.state = "ERROR_RESET" \/ <<f.state, r.state>> \in Climb
             /\ fell => ~r.gotNull /\ ~r.sentNull /\ ~r.sentFct /\ ~r.gotFct
             /\ ~fell => (r.gotNull <=> f.gotNull \/ e = "GOT_NULL")
             /\ ~fell /\ ~to("STARTED") =>
                  (r.sentNull <=> f.sentNull \/ (e = "SENT_NULL" /\ f.state = "STARTED"))
             /\ ~fell /\ ~to("CONNECTING") =>
                  /\ r.sentFct <=> f.sentFct \/ (e = "SENT_FCT" /\ f.state = "CONNECTING")
                  /\ r.gotFct <=> f.gotFct \/ (e = "GOT_FCT" /\ f.state = "CONNECTING")
             /\ to("STARTED") => ~r.sentNull
             /\ to("CONNECTING") => ~r.sentFct /\ ~r.gotFct
             /\ f.state = "ERROR_RESET" /\ r.state # f.state => e = "TICK_6_4US"
             /\ f.state = "ERROR_WAIT" /\ r.state # f.state /\ ~fell => e = "TICK_12_8US"
             /\ to("STARTED") => LinkEnabled(r)
             /\ to("CONNECTING") => r.sentNull /\ r.gotNull
             /\ to("RUN") => r.sentFct /\ r.gotFct
             /\ Handler(r, NoEvent) = r.state
<1> DEFINE u == UpdateFlags(f, e)
           n == Handler(u, e)
           g == Enter(u, n)
           h == Enter(g, "STARTED")
           r == Feed(f, e)
<1>1. /\ u \in FsmRecord /\ u.state = f.state
      /\ n \in State
      /\ g \in FsmRecord /\ g.state = n
      /\ h \in FsmRecord /\ h.state = "STARTED"
  BY FlagsType, HandlerType, EnterType DEF State
<1>2. /\ u.gotNull <=> f.gotNull \/ e = "GOT_NULL"
      /\ u.sentNull <=> f.sentNull \/ (e = "SENT_NULL" /\ f.state = "STARTED")
      /\ u.sentFct <=> f.sentFct \/ (e = "SENT_FCT" /\ f.state = "CONNECTING")
      /\ u.gotFct <=> f.gotFct \/ (e = "GOT_FCT" /\ f.state = "CONNECTING")
  BY Zenon DEF UpdateFlags
<1>3. /\ g.gotNull <=> u.gotNull /\ n # "ERROR_RESET"
      /\ g.sentNull <=> u.sentNull /\ n \notin {"ERROR_RESET", "STARTED"}
      /\ g.sentFct <=> u.sentFct /\ n \notin {"ERROR_RESET", "CONNECTING"}
      /\ g.gotFct <=> u.gotFct /\ n \notin {"ERROR_RESET", "CONNECTING"}
      /\ g.linkStart = u.linkStart /\ g.linkDisable = u.linkDisable /\ g.autoStart = u.autoStart
  BY Zenon DEF Enter
<1>4. /\ h.gotNull <=> g.gotNull
      /\ h.sentNull <=> FALSE
      /\ h.sentFct <=> g.sentFct
      /\ h.gotFct <=> g.gotFct
      /\ h.linkStart = g.linkStart /\ h.linkDisable = g.linkDisable /\ h.autoStart = g.autoStart
  BY Zenon DEF Enter
<1>5. /\ n # u.state => n = "ERROR_RESET" \/ <<u.state, n>> \in Climb
      /\ n # u.state /\ n = "ERROR_WAIT" => e = "TICK_6_4US"
      /\ n # u.state /\ n = "READY" => e = "TICK_12_8US"
      /\ n # u.state /\ n = "STARTED" => LinkEnabled(u) /\ u.state = "READY"
      /\ n # u.state /\ n = "CONNECTING" => u.sentNull /\ u.gotNull
      /\ n # u.state /\ n = "RUN" => u.sentFct /\ u.gotFct
      /\ n = u.state => Handler(u, NoEvent) = u.state
  BY <1>1, HandlerEffect
<1>6. /\ Handler(g, NoEvent) = IF n = "READY" /\ LinkEnabled(g) THEN "STARTED" ELSE n
      /\ Handler(h, NoEvent) = "STARTED"
  BY <1>1, EnteredSettles DEF State
<1>7. /\ n = u.state => r = u
      /\ n # u.state /\ n = "READY" /\ LinkEnabled(g) => r = h
      /\ n # u.state /\ ~(n = "READY" /\ LinkEnabled(g)) => r = g
  BY FeedClosedForm
<1>8. /\ n = "STARTED" => (LinkEnabled(u) => LinkEnabled(g))
      /\ LinkEnabled(g) /\ n = "READY" => LinkEnabled(h)
  BY <1>3, <1>4 DEF LinkEnabled
<1> HIDE DEF u, n, g, h, r
<1>9. CASE n = u.state
  BY <1>1, <1>2, <1>5, <1>7, <1>9, Zenon DEF r
<1>10. CASE n # u.state /\ n = "READY" /\ LinkEnabled(g)
  <2>1. u.state = "ERROR_WAIT" /\ e = "TICK_12_8US"
    BY <1>5, <1>10 DEF Climb
  <2> QED
    BY <2>1, <1>1, <1>2, <1>3, <1>4, <1>6, <1>7, <1>8, <1>10 DEF r, Climb
<1>11. CASE n # u.state /\ ~(n = "READY" /\ LinkEnabled(g))
  <2>1. /\ n = "CONNECTING" => u.state = "STARTED"
        /\ n = "STARTED" => u.state = "READY"
        /\ n = "RUN" => u.state = "CONNECTING"
        /\ u.state = "ERROR_RESET" => n = "ERROR_WAIT"
        /\ u.state = "ERROR_WAIT" => n = "READY" \/ n = "ERROR_RESET" \/ n = "STARTED"
    BY <1>5, <1>11 DEF Climb
  <2> QED
    BY <2>1, <1>1, <1>2, <1>3, <1>5, <1>6, <1>7, <1>8, <1>11 DEF r
<1> QED
  BY <1>9, <1>10, <1>11

-----------------------------------------------------------------------------
(***************************************************************************)
(* What the operators of an endpoint do to the fields of its record.       *)
(***************************************************************************)
\* The fields of a record, and the facts about them the provers need.
LEMMA LinkFields ==
  ASSUME NEW l \in LinkRecord
  PROVE  /\ l.fsm \in FsmRecord /\ l.fsm.state \in State
         /\ l.credit \in CreditRecord
         /\ l.credit.max \in 0 .. MaxCredit /\ l.credit.tx \in Nat /\ l.credit.rx \in Nat
         /\ l.capacity \in Nat /\ l.onlyNulls \in BOOLEAN
         /\ l.timer \in {"6.4us", "12.8us", "off"} /\ l.rate \in {"initial", "target"}
         /\ l.txTask \in {"PARKED", "NULL", "FCT"} \cup NChar
         /\ l.wakeup \in BOOLEAN /\ l.fctSent \in BOOLEAN
         /\ l.txq \in Seq(NChar) /\ l.rxq \in Seq(NChar)
         /\ l.outstanding \in Nat /\ l.drained \in BOOLEAN
         /\ l.runReached \in BOOLEAN /\ l.resetEntered \in BOOLEAN
BY DEF LinkRecord, FsmRecord, CreditRecord

\* What the constructor and start() leave.
LEMMA NewLinkFields ==
  ASSUME NEW capacity \in Nat, NEW wish \in Nat, NEW onlyNulls \in BOOLEAN
  PROVE  LET l == NewLink(capacity, wish, onlyNulls)
         IN  /\ l \in LinkRecord
             /\ l.fsm = NewFsm /\ NewFsm \in FsmRecord
             /\ l.credit = NewCredit(CappedMax(wish, capacity))
             /\ l.timer = "6.4us" /\ l.rate = "initial" /\ l.txTask = "PARKED"
             /\ l.txq = <<>> /\ l.outstanding = 0 /\ l.drained
<1> DEFINE c == NewCredit(CappedMax(wish, capacity))
<1>1. NewFsm \in FsmRecord
  BY Zenon DEF NewFsm, FsmRecord, State
<1>2. c \in CreditRecord
  BY CreditConstants DEF NewCredit, CreditRecord, CappedMax
<1>3. NewLink(capacity, wish, onlyNulls) =
       [fsm |-> NewFsm, credit |-> c, capacity |-> capacity, onlyNulls |-> onlyNulls,
        timer |-> "6.4us", rate |-> "initial", txTask |-> "PARKED", wakeup |-> FALSE,
        fctSent |-> FALSE, txq |-> <<>>, rxq |-> <<>>, outstanding |-> 0, drained |-> TRUE,
        runReached |-> FALSE, resetEntered |-> FALSE]
  BY Zenon DEF NewLink
<1> HIDE DEF c
<1>4. <<>> \in Seq(NChar)
  OBVIOUS
<1>5. /\ NewLink(capacity, wish, onlyNulls) \in LinkRecord
  BY <1>1, <1>2, <1>3, <1>4 DEF LinkRecord
<1> QED
  BY <1>1, <1>3, <1>5 DEF c

\* The endpoint with another machine in it, field by field.
LEMMA UpdateFsm ==
  ASSUME NEW l \in LinkRecord, NEW f \in FsmRecord
  PROVE  LET m == [l EXCEPT !.fsm = f]
         IN  /\ m \in LinkRecord
             /\ m.fsm = f
             /\ m.credit = l.credit /\ m.capacity = l.capacity /\ m.onlyNulls = l.onlyNulls
             /\ m.timer = l.timer /\ m.rate = l.rate /\ m.txTask = l.txTask
             /\ m.wakeup = l.wakeup /\ m.fctSent = l.fctSent
             /\ m.txq = l.txq /\ m.rxq = l.rxq
             /\ m.outstanding = l.outstanding /\ m.drained = l.drained
             /\ m.runReached = l.runReached /\ m.resetEntered = l.resetEntered
BY DEF LinkRecord

\* _on_state_change, field by field.
LEMMA HookFields ==
  ASSUME NEW l \in LinkRecord
  PROVE  LET m == OnStateChange(l)
             new == l.fsm.state
         IN  /\ m \in LinkRecord
             /\ m.fsm = l.fsm
             /\ m.credit = IF new = "ERROR_RESET" THEN ResetCredit(l.credit) ELSE l.credit
             /\ m.timer = CASE new = "ERROR_RESET" -> "6.4us"
                     [] new \in {"ERROR_WAIT", "STARTED", "CONNECTING"} -> "12.8us"
                     [] OTHER -> "off"
             /\ m.rate = RateOf(l.fsm)
             /\ m.capacity = l.capacity /\ m.onlyNulls = l.onlyNulls
             /\ m.txTask = l.txTask
             /\ m.wakeup = TRUE 
             /\ m.fctSent = (l.fctSent /\ new # "CONNECTING")
             /\ m.txq = l.txq /\ m.rxq = l.rxq
             /\ m.outstanding = l.outstanding /\ m.drained = l.drained
BY DEF LinkRecord, OnStateChange, TimerOf, RateOf, CreditRecord, ResetCredit

\* Feeding an event, field by field: the machine, and with a change of its state what
\* the hook does.
LEMMA FeedFsmFields ==
  ASSUME NEW l \in LinkRecord, NEW e \in Event
  PROVE  LET m == FeedFsm(l, e)
             new == m.fsm.state
         IN  /\ m \in LinkRecord
             /\ m.fsm = Feed(l.fsm, e)
             /\ m.capacity = l.capacity /\ m.onlyNulls = l.onlyNulls
             /\ m.txTask = l.txTask /\ m.txq = l.txq /\ m.rxq = l.rxq
             /\ m.outstanding = l.outstanding /\ m.drained = l.drained
             /\ m.credit.max = l.credit.max
             /\ new = l.fsm.state =>
                  /\ m.credit = l.credit /\ m.timer = l.timer /\ m.rate = l.rate
                  /\ m.wakeup = l.wakeup /\ m.fctSent = l.fctSent
             /\ new # l.fsm.state =>
                  /\ m.timer = CASE new = "ERROR_RESET" -> "6.4us"
                                 [] new \in {"ERROR_WAIT", "STARTED", "CONNECTING"} -> "12.8us"
                                 [] OTHER -> "off"
                  /\ m.rate = RateOf(m.fsm)
                  /\ m.wakeup
                  /\ m.fctSent = (l.fctSent /\ new # "CONNECTING")
                  /\ m.credit.tx = IF new = "ERROR_RESET" THEN 0 ELSE l.credit.tx
                  /\ m.credit.rx = IF new = "ERROR_RESET" THEN 0 ELSE l.credit.rx
<1> DEFINE r == Feed(l.fsm, e)
           after == [l EXCEPT !.fsm = r]
           m == FeedFsm(l, e)
<1>1. r \in FsmRecord
  BY LinkFields, FeedEffect
<1>2. m = IF after.fsm.state = l.fsm.state THEN after ELSE OnStateChange(after)
  BY DEF FeedFsm
<1> HIDE DEF r
<1>3. /\ after \in LinkRecord
      /\ after.fsm = r
      /\ after.credit = l.credit /\ after.capacity = l.capacity
      /\ after.onlyNulls = l.onlyNulls
      /\ after.timer = l.timer /\ after.rate = l.rate /\ after.txTask = l.txTask
      /\ after.wakeup = l.wakeup /\ after.fctSent = l.fctSent
      /\ after.txq = l.txq /\ after.rxq = l.rxq
      /\ after.outstanding = l.outstanding /\ after.drained = l.drained
  BY <1>1, UpdateFsm
<1> HIDE DEF after, m
<1>4. CASE r.state = l.fsm.state
  BY <1>2, <1>3, <1>4 DEF m, r
<1>5. CASE r.state # l.fsm.state
  <2>1. m = OnStateChange(after)
    BY <1>2, <1>3, <1>5
  <2>2. /\ ResetCredit(l.credit).max = l.credit.max
        /\ ResetCredit(l.credit).tx = 0
        /\ ResetCredit(l.credit).rx = 0
    BY LinkFields DEF ResetCredit, CreditRecord
  <2>3. /\ m \in LinkRecord
        /\ m.fsm = r
        /\ m.credit = IF r.state = "ERROR_RESET" THEN ResetCredit(l.credit) ELSE l.credit
        /\ m.timer = CASE r.state = "ERROR_RESET" -> "6.4us"
                       [] r.state \in {"ERROR_WAIT", "STARTED", "CONNECTING"} -> "12.8us"
                       [] OTHER -> "off"
        /\ m.rate = RateOf(r)
        /\ m.capacity = l.capacity /\ m.onlyNulls = l.onlyNulls
        /\ m.txTask = l.txTask /\ m.txq = l.txq /\ m.rxq = l.rxq
        /\ m.outstanding = l.outstanding /\ m.drained = l.drained
        /\ m.wakeup
        /\ m.fctSent = (l.fctSent /\ r.state # "CONNECTING")
    BY <2>1, <1>3, HookFields
  <2>4. /\ m.credit.max = l.credit.max
        /\ m.credit.tx = IF r.state = "ERROR_RESET" THEN 0 ELSE l.credit.tx
        /\ m.credit.rx = IF r.state = "ERROR_RESET" THEN 0 ELSE l.credit.rx
    BY <2>2, <2>3
  <2>5. m.fsm.state # l.fsm.state
    BY <2>3, <1>5
  <2> QED
    BY <2>3, <2>4, <2>5 DEF m, r
<1> QED
  BY <1>4, <1>5

-----------------------------------------------------------------------------
\* Choosing the next character.  The machine, the timer and the rate stay; the loop
\* parks exactly when the mode is RESET.
LEMMA DriveFields ==
  ASSUME NEW l \in LinkRecord, NEW c \in {"NULL", "FCT"} \cup NChar
  PROVE  /\ Drive(l, c) \in LinkRecord
         /\ Drive(l, c).txTask = c
         /\ Drive(l, c).fsm = l.fsm /\ Drive(l, c).credit = l.credit
         /\ Drive(l, c).timer = l.timer /\ Drive(l, c).rate = l.rate
         /\ Drive(l, c).fctSent = l.fctSent /\ Drive(l, c).txq = l.txq
         /\ Drive(l, c).outstanding = l.outstanding /\ Drive(l, c).drained = l.drained
         /\ Drive(l, c).wakeup = l.wakeup
BY DEF LinkRecord, Drive

\* _next_char in Connecting, field by field: one FCT, then NULLs.
LEMMA NextConnectingFields ==
  ASSUME NEW l \in LinkRecord
  PROVE  LET m == NextConnecting(l)
         IN  /\ m \in LinkRecord
             /\ m.fsm = l.fsm /\ m.timer = l.timer /\ m.rate = l.rate
             /\ m.txq = l.txq /\ m.outstanding = l.outstanding /\ m.drained = l.drained
             /\ m.txTask \in {"NULL", "FCT"}
             /\ m.credit.max = l.credit.max /\ m.credit.tx = l.credit.tx
             /\ m.txTask = "NULL" => m.fctSent = l.fctSent /\ m.credit.rx = l.credit.rx
             /\ m.txTask = "FCT" =>
                  /\ ~l.fctSent /\ m.fctSent
                  /\ m.credit.rx = IF FctSentOverMax(l.credit) THEN l.credit.rx
                                   ELSE l.credit.rx + FctCreditUnits
<1> DEFINE c == IF FctSentOverMax(l.credit) THEN l.credit ELSE AfterFctSent(l.credit)
           k == [l EXCEPT !.fctSent = TRUE, !.credit = c]
<1>1. /\ c \in CreditRecord
      /\ c.max = l.credit.max /\ c.tx = l.credit.tx
      /\ c.rx = IF FctSentOverMax(l.credit) THEN l.credit.rx
                ELSE l.credit.rx + FctCreditUnits
  <2>1. CASE FctSentOverMax(l.credit)
    BY <2>1, LinkFields
  <2>2. CASE ~FctSentOverMax(l.credit)
    BY <2>2, LinkFields, CreditConstants DEF AfterFctSent, CreditRecord
  <2> QED
    BY <2>1, <2>2
<1>2. NextConnecting(l) = IF l.onlyNulls \/ l.fctSent THEN Drive(l, "NULL") ELSE Drive(k, "FCT")
  BY LinkFields DEF NextConnecting, LinkRecord
<1> HIDE DEF c
<1>3. /\ k \in LinkRecord /\ k.fsm = l.fsm /\ k.timer = l.timer /\ k.rate = l.rate
      /\ k.txq = l.txq /\ k.outstanding = l.outstanding /\ k.drained = l.drained
      /\ k.credit = c /\ k.fctSent = TRUE
  BY <1>1 DEF LinkRecord
<1> HIDE DEF k
<1>4. CASE l.onlyNulls \/ l.fctSent
  BY <1>2, <1>4, DriveFields
<1>5. CASE ~(l.onlyNulls \/ l.fctSent)
  BY <1>1, <1>2, <1>3, <1>5, DriveFields
<1> QED
  BY <1>4, <1>5

\* The endpoint with the first queued N-Char taken out, field by field.
LEMMA NextInRunFields ==
  ASSUME NEW l \in LinkRecord
  PROVE  LET m == NextInRun(l)
         IN  /\ m \in LinkRecord
             /\ m.fsm = l.fsm /\ m.timer = l.timer /\ m.rate = l.rate
             /\ m.outstanding = l.outstanding /\ m.drained = l.drained
             /\ m.fctSent = l.fctSent /\ m.credit.max = l.credit.max
             /\ m.credit.rx >= l.credit.rx
             /\ \/ /\ m.txTask \in {"NULL", "FCT"}
                   /\ m.txq = l.txq
                   /\ m.credit.tx = l.credit.tx
                \/ /\ m.txTask \in NChar
                   /\ Len(l.txq) = Len(m.txq) + 1
                   /\ m.credit.tx = l.credit.tx - 1
<1> DEFINE cf == AfterFctSent(l.credit)
           cn == AfterNCharSent(l.credit)
           kf == [l EXCEPT !.credit = cf]
           kn == [l EXCEPT !.txq = Tail(l.txq), !.credit = cn]
<1>1. /\ cf \in CreditRecord
      /\ cf.max = l.credit.max /\ cf.tx = l.credit.tx
      /\ cf.rx = l.credit.rx + FctCreditUnits /\ cf.rx >= l.credit.rx
  BY LinkFields, CreditConstants DEF AfterFctSent, CreditRecord
<1>2. CanSend(l.credit) =>
         /\ cn \in CreditRecord
         /\ cn.max = l.credit.max /\ cn.tx = l.credit.tx - 1 /\ cn.rx = l.credit.rx
  BY LinkFields DEF AfterNCharSent, CreditRecord, CanSend
<1>3. NextInRun(l) = IF ShouldSendFct(l.credit, Headroom(l)) THEN Drive(kf, "FCT")
                     ELSE IF l.txq # <<>> /\ CanSend(l.credit)
                          THEN Drive(kn, Head(l.txq)) ELSE Drive(l, "NULL")
  BY LinkFields DEF NextInRun, LinkRecord
<1>4. l.txq # <<>> => /\ Head(l.txq) \in NChar /\ Tail(l.txq) \in Seq(NChar)
                      /\ Len(l.txq) = Len(Tail(l.txq)) + 1
  BY LinkFields
<1> HIDE DEF cf, cn
<1>5. /\ kf \in LinkRecord /\ kf.fsm = l.fsm /\ kf.timer = l.timer /\ kf.rate = l.rate
      /\ kf.txq = l.txq /\ kf.outstanding = l.outstanding /\ kf.drained = l.drained
      /\ kf.credit = cf /\ kf.fctSent = l.fctSent
  BY <1>1 DEF LinkRecord
<1>6. l.txq # <<>> /\ CanSend(l.credit) =>
      /\ kn \in LinkRecord /\ kn.fsm = l.fsm /\ kn.timer = l.timer /\ kn.rate = l.rate
      /\ kn.txq = Tail(l.txq) /\ kn.outstanding = l.outstanding /\ kn.drained = l.drained
      /\ kn.credit = cn /\ kn.fctSent = l.fctSent
  BY <1>2, <1>4 DEF LinkRecord
<1> HIDE DEF kf, kn
<1>7. l.credit.rx \in Nat
  BY LinkFields
<1>8. CASE ShouldSendFct(l.credit, Headroom(l))
  BY <1>1, <1>3, <1>5, <1>8, DriveFields
<1>9. CASE ~ShouldSendFct(l.credit, Headroom(l)) /\ l.txq # <<>> /\ CanSend(l.credit)
  <2> DEFINE c == Head(l.txq)
             m == Drive(kn, c)
  <2>1. kn \in LinkRecord /\ c \in NChar /\ NextInRun(l) = m
    BY <1>3, <1>4, <1>6, <1>9
  <2> HIDE DEF c
  <2>2. /\ m \in LinkRecord /\ m.txTask = c
        /\ m.fsm = kn.fsm /\ m.credit = kn.credit
        /\ m.timer = kn.timer /\ m.rate = kn.rate
        /\ m.fctSent = kn.fctSent /\ m.txq = kn.txq
        /\ m.outstanding = kn.outstanding /\ m.drained = kn.drained
    BY <2>1, DriveFields
  <2> HIDE DEF m
  <2>3. m.credit = cn /\ m.txq = Tail(l.txq)
    BY <1>6, <1>9, <2>2, Zenon
  <2>4. Len(l.txq) = Len(m.txq) + 1
    BY <1>4, <1>9, <2>3
  <2>5. m.credit.max = l.credit.max /\ m.credit.tx = l.credit.tx - 1
    BY <1>2, <1>9, <2>3
  <2>6. m.credit.rx >= l.credit.rx
    BY <1>2, <1>7, <1>9, <2>3
  <2> QED
    BY <1>6, <1>9, <2>1, <2>2, <2>4, <2>5, <2>6
<1>10. CASE ~ShouldSendFct(l.credit, Headroom(l)) /\ ~(l.txq # <<>> /\ CanSend(l.credit))
  BY <1>3, <1>7, <1>10, DriveFields
<1> DEFINE m == NextInRun(l)
<1> HIDE DEF m
<1> QED
  BY <1>8, <1>9, <1>10, Zenon DEF m

\* The TX loop parked in Reset, field by field.
LEMMA Parks ==
  ASSUME NEW l \in LinkRecord
  PROVE  LET m == [l EXCEPT !.wakeup = FALSE, !.txTask = "PARKED"]
         IN  /\ m \in LinkRecord
             /\ m.fsm = l.fsm /\ m.timer = l.timer /\ m.rate = l.rate
             /\ m.outstanding = l.outstanding /\ m.drained = l.drained
             /\ m.fctSent = l.fctSent /\ m.credit = l.credit
             /\ m.txTask = "PARKED" /\ m.txq = l.txq /\ m.wakeup = FALSE
BY DEF LinkRecord

\* The control characters are not N-Chars, the terminators are.
LEMMA CharactersDiffer ==
  /\ "PARKED" \notin NChar /\ "NULL" \notin NChar /\ "FCT" \notin NChar
  /\ "TIMECODE" \notin NChar /\ "ERROR" \notin NChar
  /\ Terminator \subseteq NChar
BY CharacterConstants

\* The N-Chars the driver holds.
Held(l) == IF l.txTask \in NChar THEN 1 ELSE 0

\* The top of the loop, in every mode: it parks exactly in mode RESET, what leaves the
\* queue is what the driver gets, and the credits move as the character says.
LEMMA TxLoopTopFields ==
  ASSUME NEW l \in LinkRecord
  PROVE  LET m == TxLoopTop(l)
             mode == TxModeOf(l.fsm)
         IN  /\ m \in LinkRecord
             /\ m.fsm = l.fsm /\ m.timer = l.timer /\ m.rate = l.rate
             /\ m.outstanding = l.outstanding /\ m.drained = l.drained
             /\ m.credit.max = l.credit.max
             /\ Len(l.txq) = Len(m.txq) + Held(m)
             /\ m.txTask = "PARKED" <=> mode = "RESET"
             /\ mode \in {"RESET", "SEND_NULLS"} => m.credit = l.credit
             /\ mode = "SEND_NULLS" => m.txTask = "NULL"
             /\ mode = "SEND_NULLS_FCTS" =>
                  /\ m.txTask \in {"NULL", "FCT"}
                  /\ m.credit.tx = l.credit.tx
                  /\ m.txTask = "NULL" => m.fctSent = l.fctSent /\ m.credit.rx = l.credit.rx
                  /\ m.txTask = "FCT" =>
                       /\ ~l.fctSent /\ m.fctSent
                       /\ m.credit.rx = IF FctSentOverMax(l.credit) THEN l.credit.rx
                                        ELSE l.credit.rx + FctCreditUnits
             /\ mode = "SEND_NULLS_FCTS_NCHARS_TIMECODES" =>
                  /\ m.credit.tx + Held(m) = l.credit.tx
                  /\ m.credit.rx >= l.credit.rx
<1> DEFINE m == TxLoopTop(l)
           mode == TxModeOf(l.fsm)
<1>1. mode \in {"RESET", "SEND_NULLS", "SEND_NULLS_FCTS", "SEND_NULLS_FCTS_NCHARS_TIMECODES"}
  BY DEF TxModeOf
<1>2. m = CASE mode = "RESET"           -> [l EXCEPT !.wakeup = FALSE, !.txTask = "PARKED"]
            [] mode = "SEND_NULLS"      -> Drive(l, "NULL")
            [] mode = "SEND_NULLS_FCTS" -> NextConnecting(l)
            [] OTHER                    -> NextInRun(l)
  BY DEF TxLoopTop
<1>3. Len(l.txq) \in Nat /\ l.credit.tx \in Nat /\ l.credit.rx \in Nat
  BY LinkFields
<1> HIDE DEF m, mode
<1>4. CASE mode = "RESET"
  <2>1. /\ m \in LinkRecord
        /\ m.fsm = l.fsm /\ m.timer = l.timer /\ m.rate = l.rate
        /\ m.outstanding = l.outstanding /\ m.drained = l.drained
        /\ m.credit = l.credit /\ m.txTask = "PARKED" /\ m.txq = l.txq
    BY <1>2, <1>4, Parks
  <2>2. Held(m) = 0
    BY <2>1, CharactersDiffer DEF Held
  <2> QED
    BY <1>3, <1>4, <2>1, <2>2 DEF m, mode
<1>5. CASE mode = "SEND_NULLS"
  <2>1. m = Drive(l, "NULL")
    BY <1>2, <1>5
  <2>2. /\ m \in LinkRecord
        /\ m.fsm = l.fsm /\ m.timer = l.timer /\ m.rate = l.rate
        /\ m.outstanding = l.outstanding /\ m.drained = l.drained
        /\ m.credit = l.credit /\ m.txTask = "NULL" /\ m.txq = l.txq
    BY <2>1, DriveFields
  <2>3. Held(m) = 0
    BY <2>2, CharactersDiffer DEF Held
  <2> QED
    BY <1>3, <1>5, <2>2, <2>3 DEF m, mode
<1>6. CASE mode = "SEND_NULLS_FCTS"
  <2>1. m = NextConnecting(l)
    BY <1>2, <1>6
  <2>2. Held(m) = 0
    BY <2>1, NextConnectingFields, CharactersDiffer DEF Held
  <2>3. TxLoopTop(l) = NextConnecting(l)
    BY <2>1 DEF m
  <2> QED
    BY <1>3, <1>6, <2>2, <2>3, NextConnectingFields DEF m, mode
<1>7. CASE mode = "SEND_NULLS_FCTS_NCHARS_TIMECODES"
  <2>1. m = NextInRun(l)
    BY <1>2, <1>7
  <2>2. /\ m \in LinkRecord
        /\ m.fsm = l.fsm /\ m.timer = l.timer /\ m.rate = l.rate
        /\ m.outstanding = l.outstanding /\ m.drained = l.drained
        /\ m.credit.max = l.credit.max
        /\ m.credit.rx >= l.credit.rx
        /\ \/ /\ m.txTask \in {"NULL", "FCT"}
              /\ m.txq = l.txq
              /\ m.credit.tx = l.credit.tx
           \/ /\ m.txTask \in NChar
              /\ Len(l.txq) = Len(m.txq) + 1
              /\ m.credit.tx = l.credit.tx - 1
    BY <2>1, NextInRunFields
  <2>3. /\ Len(l.txq) = Len(m.txq) + Held(m)
        /\ m.credit.tx + Held(m) = l.credit.tx
        /\ m.txTask # "PARKED"
    <3>1. m.credit.tx \in Int /\ Len(m.txq) \in Nat
      BY <2>2, LinkFields
    <3>2. CASE m.txTask \in NChar
      BY <1>3, <2>2, <3>1, <3>2, CharactersDiffer DEF Held
    <3>3. CASE m.txTask \notin NChar
      BY <1>3, <2>2, <3>1, <3>3, CharactersDiffer DEF Held
    <3> QED
      BY <3>2, <3>3
  <2> QED
    BY <1>7, <2>2, <2>3 DEF m, mode
<1> QED
  BY <1>1, <1>4, <1>5, <1>6, <1>7

\* The N-Char is on the line: the counter of send_packet and its event.
LEMMA NCharDrivenFields ==
  ASSUME NEW l \in LinkRecord, l.txTask \in NChar, l.outstanding > 0
  PROVE  LET m == CharDriven(l)
         IN  /\ m \in LinkRecord
             /\ m.fsm = l.fsm /\ m.timer = l.timer /\ m.rate = l.rate
             /\ m.wakeup = l.wakeup /\ m.fctSent = l.fctSent /\ m.credit = l.credit
             /\ m.txq = l.txq /\ m.txTask = l.txTask
             /\ m.outstanding = l.outstanding - 1
             /\ m.drained = (l.drained \/ l.outstanding = 1)
<1>1. CharDriven(l) = [l EXCEPT !.outstanding = l.outstanding - 1,
                                !.drained = l.drained \/ l.outstanding = 1]
  BY CharactersDiffer DEF CharDriven, LinkRecord
<1>2. l.outstanding - 1 \in Nat
  BY LinkFields
<1> QED
  BY <1>1, <1>2 DEF LinkRecord

\* What is queued, what the driver holds and what the senders wait for.
SameQueue(l, m) ==
  /\ m \in LinkRecord
  /\ m.txTask = l.txTask /\ m.txq = l.txq
  /\ m.outstanding = l.outstanding /\ m.drained = l.drained

\* _on_rx_character with an N-Char, field by field.
LEMMA OnRxNCharFields ==
  ASSUME NEW l \in LinkRecord, NEW char \in NChar,
         l.fsm.state = "RUN", ~NCharUnderflows(l.credit)
  PROVE  LET m == OnRxNChar(l, char)
         IN  /\ SameQueue(l, m)
             /\ m.fsm = l.fsm /\ m.timer = l.timer /\ m.rate = l.rate
             /\ m.wakeup = l.wakeup /\ m.fctSent = l.fctSent
             /\ m.credit.max = l.credit.max /\ m.credit.tx = l.credit.tx
             /\ m.credit.rx = l.credit.rx - 1
<1> DEFINE c == AfterNCharReceived(l.credit)
           q == Append(l.rxq, char)
<1>0. l.credit.rx - 1 \in Nat
  BY LinkFields DEF NCharUnderflows
<1>1. /\ c \in CreditRecord
      /\ c.max = l.credit.max /\ c.tx = l.credit.tx /\ c.rx = l.credit.rx - 1
  BY <1>0, LinkFields DEF CreditRecord, AfterNCharReceived, NCharUnderflows
<1>2. q \in Seq(NChar)
  BY LinkFields
<1>3. OnRxNChar(l, char) = [l EXCEPT !.credit = c, !.rxq = q]
  BY DEF OnRxNChar, LinkRecord
<1> HIDE DEF c, q
<1> QED
  BY <1>1, <1>2, <1>3 DEF LinkRecord, SameQueue

\* _on_rx_character with an FCT, field by field.
LEMMA OnRxFctFields ==
  ASSUME NEW l \in LinkRecord, ~FctOverflows(l.credit)
  PROVE  LET m == OnRxFct(l)
         IN  /\ SameQueue(l, m)
             /\ m.fsm = l.fsm /\ m.timer = l.timer /\ m.rate = l.rate
             /\ m.wakeup /\ m.fctSent = l.fctSent
             /\ m.credit.max = l.credit.max /\ m.credit.rx = l.credit.rx
             /\ m.credit.tx = l.credit.tx + FctCreditUnits
<1> DEFINE c == AfterFctReceived(l.credit)
<1>1. /\ c \in CreditRecord
      /\ c.max = l.credit.max /\ c.rx = l.credit.rx
      /\ c.tx = l.credit.tx + FctCreditUnits
  BY LinkFields, CreditConstants DEF CreditRecord, AfterFctReceived
<1>2. OnRxFct(l) = [l EXCEPT !.credit = c, !.wakeup = TRUE]
  BY DEF OnRxFct, LinkRecord
<1> HIDE DEF c
<1> QED
  BY <1>1, <1>2 DEF LinkRecord, SameQueue

-----------------------------------------------------------------------------
\* The least element of a set of numbers: what induction is needed for here.
LEMMA LeastNat ==
  ASSUME NEW T \in SUBSET Nat, T # {}
  PROVE  \E x \in T : \A y \in T : x <= y
<1> DEFINE R == {p \in Nat \X Nat : p[1] < p[2]}
<1>1. IsWellFoundedOn(R, Nat)
  BY NatLessThanWellFounded, Zenon DEF OpToRel
<1>2. \E x \in T : \A y \in T : ~(<<y, x>> \in R)
  <2> HIDE DEF R
  <2> QED
    BY <1>1, WFMin
<1>3. \A x \in T, y \in T : ~(<<y, x>> \in R) => x <= y
  OBVIOUS
<1> QED
  BY <1>2, <1>3

\* recv_packet takes no more than there is, something when there is something, and
\* nothing beyond the first terminator.
LEMMA PacketLengthBounds ==
  ASSUME NEW q \in Seq(NChar)
  PROVE  /\ PacketLength(q) \in 0 .. Len(q)
         /\ q # <<>> => PacketLength(q) > 0
         /\ \A i \in DOMAIN q : q[i] \in Terminator => PacketLength(q) <= i
<1> DEFINE ends == {i \in DOMAIN q : q[i] \in Terminator}
<1>1. DOMAIN q = 1 .. Len(q) /\ Len(q) \in Nat
  OBVIOUS
<1>2. CASE ends = {}
  <2>1. PacketLength(q) = Len(q)
    BY <1>2 DEF PacketLength
  <2> QED
    BY <1>1, <1>2, <2>1
<1>3. CASE ends # {}
  <2>1. PacketLength(q) = Min(ends)
    BY <1>3 DEF PacketLength
  <2>2. ends \in SUBSET Nat
    BY <1>1
  <2> HIDE DEF ends
  <2>3. \E x \in ends : \A y \in ends : x <= y
    BY <1>3, <2>2, LeastNat
  <2>4. Min(ends) \in ends /\ \A y \in ends : Min(ends) <= y
    BY <2>3 DEF Min
  <2> QED
    BY <1>1, <2>1, <2>4 DEF ends
<1> QED
  BY <1>2, <1>3

\* The application takes the first received N-Char, field by field.
LEMMA CollectFields ==
  ASSUME NEW l \in LinkRecord
  PROVE  LET m == Collect(l)
         IN  /\ SameQueue(l, m)
             /\ m.fsm = l.fsm /\ m.timer = l.timer /\ m.rate = l.rate
             /\ m.wakeup = l.wakeup /\ m.fctSent = l.fctSent /\ m.credit = l.credit
<1> DEFINE q == SubSeq(l.rxq, PacketLength(l.rxq) + 1, Len(l.rxq))
<1>1. q \in Seq(NChar)
  <2>1. l.rxq \in Seq(NChar) /\ PacketLength(l.rxq) \in 0 .. Len(l.rxq)
    BY LinkFields, PacketLengthBounds
  <2> QED
    BY <2>1
<1>2. Collect(l) = [l EXCEPT !.rxq = q]
  BY DEF Collect, LinkRecord
<1> HIDE DEF q
<1> QED
  BY <1>1, <1>2 DEF LinkRecord, SameQueue

\* The application queues N-Chars, field by field.
LEMMA EnqueueFields ==
  ASSUME NEW l \in LinkRecord, NEW chars \in Seq(NChar)
  PROVE  LET m == Enqueue(l, chars)
         IN  /\ m \in LinkRecord
             /\ m.fsm = l.fsm /\ m.timer = l.timer /\ m.rate = l.rate
             /\ m.wakeup = l.wakeup /\ m.fctSent = l.fctSent /\ m.credit = l.credit
             /\ m.txTask = l.txTask
             /\ Len(m.txq) = Len(l.txq) + Len(chars)
             /\ m.outstanding = l.outstanding + Len(chars)
             /\ m.drained = (l.drained /\ chars = <<>>)
<1> DEFINE q == l.txq \o chars
           n == l.outstanding + Len(chars)
<1>1. q \in Seq(NChar) /\ Len(q) = Len(l.txq) + Len(chars) /\ n \in Nat
  BY LinkFields
<1>2. Enqueue(l, chars) = [l EXCEPT !.txq = q, !.outstanding = n,
                                    !.drained = l.drained /\ chars = <<>>]
  BY DEF Enqueue, LinkRecord
<1> HIDE DEF q, n
<1>3. LET m == Enqueue(l, chars)
      IN  /\ m \in LinkRecord
          /\ m.fsm = l.fsm /\ m.timer = l.timer /\ m.rate = l.rate
          /\ m.wakeup = l.wakeup /\ m.fctSent = l.fctSent /\ m.credit = l.credit
          /\ m.txTask = l.txTask
          /\ m.txq = q
          /\ m.outstanding = n
          /\ m.drained = (l.drained /\ chars = <<>>)
  BY <1>1, <1>2 DEF LinkRecord
<1> QED
  BY <1>1, <1>3 DEF n

\* No event of the FSM and no character from the peer touches what is queued.
LEMMA FeedFsmQueue ==
  ASSUME NEW l \in LinkRecord, NEW e \in Event
  PROVE  SameQueue(l, FeedFsm(l, e))
BY FeedFsmFields DEF SameQueue

\* Leaving the transmit side alone twice leaves it alone.
LEMMA SameQueueTransitive ==
  ASSUME NEW l, NEW m, NEW n, SameQueue(l, m), SameQueue(m, n)
  PROVE  SameQueue(l, n)
BY DEF SameQueue

\* A received character leaves the transmit side alone,
LEMMA DispatchQueue ==
  ASSUME NEW l \in LinkRecord, NEW char \in RxChar
  PROVE  SameQueue(l, Dispatch(l, char))
<1>1. \A k \in LinkRecord : \A e \in {"RX_ERR", "GOT_NULL", "GOT_TIME_CODE", "GOT_FCT",
                                     "GOT_N_CHAR", "CREDIT_ERR"} :
        SameQueue(k, FeedFsm(k, e))
  BY FeedFsmQueue DEF Event
<1>2. ASSUME NEW k \in LinkRecord
      PROVE  SameQueue(k, OnRxFct(k))
  <2>1. CASE FctOverflows(k.credit)
    BY <1>1, <2>1 DEF OnRxFct
  <2>2. CASE ~FctOverflows(k.credit)
    BY <2>2, OnRxFctFields
  <2> QED
    BY <2>1, <2>2
<1>3. ASSUME NEW k \in LinkRecord, char \in NChar
      PROVE  SameQueue(k, OnRxNChar(k, char))
  <2>1. CASE k.fsm.state # "RUN"
    BY <2>1 DEF OnRxNChar, SameQueue
  <2>2. CASE k.fsm.state = "RUN" /\ NCharUnderflows(k.credit)
    <3>1. OnRxNChar(k, char) = FeedFsm(k, "CREDIT_ERR")
      BY <2>2 DEF OnRxNChar
    <3> QED
      BY <1>1, <3>1
  <2>3. CASE k.fsm.state = "RUN" /\ ~NCharUnderflows(k.credit)
    BY <1>3, <2>3, OnRxNCharFields
  <2> QED
    BY <2>1, <2>2, <2>3
<1>4. CASE char \in NChar
  <2>1. Dispatch(l, char) = OnRxNChar(FeedFsm(l, "GOT_N_CHAR"), char)
    BY <1>4, CharactersDiffer DEF Dispatch
  <2>2. SameQueue(l, FeedFsm(l, "GOT_N_CHAR"))
    BY <1>1
  <2> QED
    BY <1>3, <1>4, <2>1, <2>2, SameQueueTransitive DEF SameQueue
<1>5. CASE char = "FCT"
  <2>1. Dispatch(l, char) = OnRxFct(FeedFsm(l, "GOT_FCT"))
    BY <1>5 DEF Dispatch
  <2>2. SameQueue(l, FeedFsm(l, "GOT_FCT"))
    BY <1>1
  <2> QED
    BY <1>2, <2>1, <2>2, SameQueueTransitive DEF SameQueue
<1>6. CASE char \in {"NULL", "TIMECODE", "ERROR"}
  BY <1>1, <1>6 DEF Dispatch
<1> QED
  BY <1>4, <1>5, <1>6 DEF RxChar

\* At the expiry of a timer, the record that is fed the tick.
LEMMA TimerOff ==
  ASSUME NEW l \in LinkRecord
  PROVE  LET m == [l EXCEPT !.timer = "off"]
         IN  /\ SameQueue(l, m)
             /\ m.fsm = l.fsm /\ m.timer = "off" /\ m.rate = l.rate
             /\ m.wakeup = l.wakeup /\ m.fctSent = l.fctSent /\ m.credit = l.credit
BY DEF LinkRecord, SameQueue

\* and so does a timer.
LEMMA TimerExpiredQueue ==
  ASSUME NEW l \in LinkRecord
  PROVE  SameQueue(l, TimerExpired(l))
<1> DEFINE k == [l EXCEPT !.timer = "off"]
<1>1. SameQueue(l, k)
  BY TimerOff
<1>2. TimerExpired(l) = FeedFsm(k, IF l.timer = "6.4us" THEN "TICK_6_4US" ELSE "TICK_12_8US")
  BY DEF TimerExpired
<1> HIDE DEF k
<1>3. k \in LinkRecord
  BY <1>1 DEF SameQueue
<1>4. SameQueue(k, TimerExpired(l))
  BY <1>2, <1>3, FeedFsmQueue DEF Event
<1> QED
  BY <1>1, <1>4, SameQueueTransitive

-----------------------------------------------------------------------------
\* The counter of send_packet is what is queued and held, and what was lost on the way;
\* its event is set exactly when it is zero.
Accounted(l, lost) ==
  /\ l \in LinkRecord
  /\ l.outstanding = Len(l.txq) + Held(l) + lost
  /\ l.drained <=> l.outstanding = 0

\* What leaves the transmit side alone keeps its account.
LEMMA SameQueueAccounted ==
  ASSUME NEW l, NEW m, NEW lost, Accounted(l, lost), SameQueue(l, m)
  PROVE  Accounted(m, lost)
BY DEF Accounted, SameQueue, Held

\* Queueing N-Chars keeps the account of the transmit side.
LEMMA EnqueueAccounted ==
  ASSUME NEW l, NEW lost \in Nat, Accounted(l, lost), NEW chars \in Seq(NChar)
  PROVE  Accounted(Enqueue(l, chars), lost)
<1> DEFINE m == Enqueue(l, chars)
<1>1. l \in LinkRecord
  BY DEF Accounted
<1>2. /\ m \in LinkRecord /\ m.txTask = l.txTask
      /\ Len(m.txq) = Len(l.txq) + Len(chars)
      /\ m.outstanding = l.outstanding + Len(chars)
      /\ m.drained = (l.drained /\ chars = <<>>)
  BY <1>1, EnqueueFields
<1>3. /\ Len(l.txq) \in Nat /\ l.outstanding \in Nat /\ l.drained \in BOOLEAN
      /\ Len(chars) \in Nat /\ (chars = <<>> <=> Len(chars) = 0)
      /\ Held(l) \in {0, 1}
  BY <1>1, LinkFields DEF Held
<1>4. Held(m) = Held(l)
  BY <1>2 DEF Held
<1>5. /\ l.outstanding = Len(l.txq) + Held(l) + lost
      /\ l.drained <=> l.outstanding = 0
  BY DEF Accounted
<1> HIDE DEF m
<1>6. m.outstanding = Len(m.txq) + Held(m) + lost
  BY <1>2, <1>3, <1>4, <1>5
<1>7. m.outstanding = 0 <=> l.outstanding = 0 /\ chars = <<>>
  BY <1>2, <1>3
<1>8. m.drained <=> m.outstanding = 0
  BY <1>2, <1>5, <1>7, Zenon
<1> QED
  BY <1>2, <1>6, <1>8 DEF Accounted, m

\* The character is driven: nothing is held until the loop takes the next one.
LEMMA CharDrivenAccounted ==
  ASSUME NEW l, NEW lost \in Nat, Accounted(l, lost), l.txTask # "PARKED"
  PROVE  LET m == CharDriven(l)
         IN  /\ m \in LinkRecord
             /\ m.txq = l.txq
             /\ m.outstanding = Len(m.txq) + lost
             /\ m.drained <=> m.outstanding = 0
<1>1. /\ l \in LinkRecord
      /\ l.txTask \in {"NULL", "FCT"} \cup NChar
      /\ Len(l.txq) \in Nat /\ l.outstanding \in Nat /\ l.drained \in BOOLEAN
      /\ l.outstanding = Len(l.txq) + Held(l) + lost
      /\ l.drained <=> l.outstanding = 0
  BY LinkFields DEF Accounted
<1>2. CASE l.txTask \in NChar
  <2>1. Held(l) = 1
    BY <1>2 DEF Held
  <2>2. l.outstanding > 0 /\ l.outstanding - 1 = Len(l.txq) + lost
    BY <1>1, <2>1
  <2> DEFINE m == CharDriven(l)
  <2>3. /\ m \in LinkRecord /\ m.txq = l.txq
        /\ m.outstanding = l.outstanding - 1
        /\ m.drained = (l.drained \/ l.outstanding = 1)
    BY <1>1, <1>2, <2>2, NCharDrivenFields
  <2>4. m.outstanding = Len(m.txq) + lost
    BY <2>2, <2>3
  <2>5. ~(l.outstanding = 0) /\ (l.outstanding = 1 <=> l.outstanding - 1 = 0)
    BY <1>1, <2>2
  <2>6. m.drained <=> m.outstanding = 0
    BY <1>1, <2>3, <2>5, Zenon
  <2> QED
    BY <2>3, <2>4, <2>6
<1>3. CASE l.txTask \in {"NULL", "FCT"}
  <2>1. Held(l) = 0
    BY <1>3, CharactersDiffer DEF Held
  <2>2. SameQueue(l, CharDriven(l))
    BY <1>1, <1>3, FeedFsmQueue DEF CharDriven, Event
  <2> QED
    BY <1>1, <2>1, <2>2 DEF SameQueue
<1> QED
  BY <1>1, <1>2, <1>3

\* A resumption of the TX loop keeps it, an N-Char driven counted off.
LEMMA TxResumeAccounted ==
  ASSUME NEW l, NEW lost \in Nat, Accounted(l, lost)
  PROVE  Accounted(TxResume(l), lost)
<1> DEFINE k == IF l.txTask = "PARKED" THEN l ELSE CharDriven(l)
           m == TxLoopTop(k)
<1>1. TxResume(l) = m
  BY DEF TxResume
<1>2. /\ k \in LinkRecord
      /\ k.outstanding = Len(k.txq) + lost
      /\ k.drained <=> k.outstanding = 0
  <2>1. CASE l.txTask = "PARKED"
    <3>1. Held(l) = 0 /\ Len(l.txq) \in Nat
      BY <2>1, CharactersDiffer, LinkFields DEF Held, Accounted
    <3> QED
      BY <2>1, <3>1 DEF Accounted
  <2>2. CASE l.txTask # "PARKED"
    BY <2>2, CharDrivenAccounted
  <2> QED
    BY <2>1, <2>2
<1> HIDE DEF k
<1>3. /\ m \in LinkRecord
      /\ m.outstanding = k.outstanding /\ m.drained = k.drained
      /\ Len(k.txq) = Len(m.txq) + Held(m)
  BY <1>2, TxLoopTopFields
<1> HIDE DEF m
<1> QED
  BY <1>1, <1>2, <1>3 DEF Accounted

-----------------------------------------------------------------------------
(***************************************************************************)
(* The invariant of an endpoint, whatever it is connected to.              *)
(***************************************************************************)
\* The parts of the invariant, over the record of the endpoint.
Awake(l) == l.txTask = "PARKED" /\ TxModeOf(l.fsm) # "RESET" => l.wakeup

Timed(l) ==
  /\ l.fsm.state \in {"ERROR_WAIT", "STARTED", "CONNECTING"} => l.timer = "12.8us"
  /\ l.fsm.state \in {"READY", "RUN"} => l.timer = "off"
  /\ l.fsm.state = "ERROR_RESET" => l.timer # "12.8us"
  /\ l.rate = RateOf(l.fsm)

Granted(l) == l.fsm.state \notin {"CONNECTING", "RUN"} => l.credit.rx = 0

OpenInv(l) == Accounted(l, 0) /\ Awake(l) /\ Timed(l) /\ Granted(l)

-----------------------------------------------------------------------------
\* A change of state is timed by its hook and wakes the loop; a state without a session
\* is entered from one without a session, or with the credits reset.
LEMMA FeedFsmInv ==
  ASSUME NEW l \in LinkRecord, NEW e \in Event, Awake(l), Granted(l)
  PROVE  LET m == FeedFsm(l, e)
         IN  /\ m \in LinkRecord
             /\ Awake(m) /\ Granted(m)
             /\ Timed(l) \/ m.fsm.state # l.fsm.state => Timed(m)
<1> DEFINE m == FeedFsm(l, e)
           s == l.fsm.state
           t == m.fsm.state
<1>1. /\ m \in LinkRecord /\ m.fsm = Feed(l.fsm, e)
      /\ m.txTask = l.txTask
      /\ t = s => /\ m.credit = l.credit /\ m.timer = l.timer /\ m.rate = l.rate
                  /\ m.wakeup = l.wakeup
      /\ t # s => /\ m.timer = CASE t = "ERROR_RESET" -> "6.4us"
                                 [] t \in {"ERROR_WAIT", "STARTED", "CONNECTING"} -> "12.8us"
                                 [] OTHER -> "off"
                  /\ m.rate = RateOf(m.fsm)
                  /\ m.wakeup
                  /\ m.credit.rx = IF t = "ERROR_RESET" THEN 0 ELSE l.credit.rx
  BY FeedFsmFields
<1>2. s \in State /\ t \in State
  BY <1>1, LinkFields
<1>3. t # s => t = "ERROR_RESET" \/ <<s, t>> \in Climb
  BY <1>1, LinkFields, FeedEffect
<1>4. t = s => RateOf(m.fsm) = RateOf(l.fsm) /\ TxModeOf(m.fsm) = TxModeOf(l.fsm)
  BY DEF RateOf, TxModeOf
<1> HIDE DEF m
<1>5. Awake(m)
  BY <1>1, <1>4 DEF Awake
<1>6. Granted(m)
  BY <1>1, <1>3 DEF Granted, Climb
<1>7. CASE t = s
  BY <1>1, <1>4, <1>5, <1>6, <1>7 DEF Timed, m
<1>8. CASE t # s
  <2>1. Timed(m)
    BY <1>1, <1>2, <1>8 DEF Timed, State
  <2> QED
    BY <1>1, <1>5, <1>6, <2>1 DEF m
<1> QED
  BY <1>7, <1>8

\* The tick of 12.8 us ends every state that it times.
LEMMA TickMoves ==
  ASSUME NEW f \in FsmRecord, f.state \in {"ERROR_WAIT", "STARTED", "CONNECTING"}
  PROVE  Feed(f, "TICK_12_8US").state # f.state
<1> DEFINE e == "TICK_12_8US"
           u == UpdateFlags(f, e)
           n == Handler(u, e)
           g == Enter(u, n)
<1>1. u \in FsmRecord /\ u.state = f.state
  BY FlagsType
<1> HIDE DEF u
<1>2. /\ n # f.state
      /\ n = "READY" => f.state = "ERROR_WAIT"
  BY <1>1 DEF Handler, InErrorWait, InStarted, InConnecting
<1>3. /\ n \in State
      /\ Feed(f, e) = g \/ (n = "READY" /\ Feed(f, e) = Enter(g, "STARTED"))
  BY <1>1, <1>2, HandlerType, FeedClosedForm DEF Event, u
<1>4. g.state = n /\ Enter(g, "STARTED").state = "STARTED"
  BY <1>1 DEF Enter
<1> QED
  BY <1>2, <1>3, <1>4

\* What a broken handshake or a credit error leads to.
LEMMA ErrorsFall ==
  ASSUME NEW f \in FsmRecord, NEW e,
         \/ f.state = "CONNECTING" /\ e \in {"CREDIT_ERR", "GOT_N_CHAR"}
         \/ f.state = "RUN" /\ e = "CREDIT_ERR"
  PROVE  Feed(f, e).state = "ERROR_RESET"
<1> DEFINE u == UpdateFlags(f, e)
           n == Handler(u, e)
           g == Enter(u, n)
<1>1. u \in FsmRecord /\ u.state = f.state /\ e \in Event
  BY FlagsType DEF Event
<1> HIDE DEF u
<1>2. n = "ERROR_RESET" /\ n # f.state
  BY <1>1 DEF Handler, InConnecting, InRun
<1>3. Feed(f, e) = g
  BY <1>1, <1>2, FeedClosedForm DEF u
<1>4. g.state = n
  BY <1>1 DEF Enter
<1> QED
  BY <1>2, <1>3, <1>4

-----------------------------------------------------------------------------
\* Every operator of an endpoint keeps the invariant.
LEMMA FeedFsmKeeps ==
  ASSUME NEW l, OpenInv(l), NEW e \in Event
  PROVE  OpenInv(FeedFsm(l, e))
<1>1. l \in LinkRecord
  BY DEF OpenInv, Accounted
<1>2. Accounted(FeedFsm(l, e), 0)
  BY <1>1, FeedFsmQueue, SameQueueAccounted DEF OpenInv
<1> QED
  BY <1>1, <1>2, FeedFsmInv DEF OpenInv

\* The TX loop, resumed when it is parked or its character is driven.
LEMMA TxResumeKeeps ==
  ASSUME NEW l, OpenInv(l)
  PROVE  OpenInv(TxResume(l))
<1> DEFINE k == IF l.txTask = "PARKED" THEN l ELSE CharDriven(l)
           m == TxLoopTop(k)
<1>1. TxResume(l) = m
  BY DEF TxResume
<1>2. l \in LinkRecord /\ Awake(l) /\ Timed(l) /\ Granted(l)
  BY DEF OpenInv, Accounted
<1>3. k \in LinkRecord /\ Timed(k) /\ Granted(k)
  <2>1. CASE l.txTask = "PARKED"
    BY <1>2, <2>1
  <2>2. CASE l.txTask \in {"NULL", "FCT"}
    BY <1>2, <2>2, FeedFsmInv DEF CharDriven, Event
  <2>3. CASE l.txTask \in NChar
    <3>1. l.outstanding > 0 /\ l.txTask # "PARKED"
      <4>1. Held(l) = 1 /\ Len(l.txq) \in Nat
        BY <1>2, <2>3, LinkFields DEF Held
      <4>2. l.outstanding = Len(l.txq) + Held(l) + 0
        BY DEF OpenInv, Accounted
      <4> QED
        BY <2>3, <4>1, <4>2, CharactersDiffer
    <3>2. LET d == CharDriven(l)
          IN  /\ d \in LinkRecord /\ d.fsm = l.fsm /\ d.timer = l.timer
              /\ d.rate = l.rate /\ d.credit = l.credit
      BY <1>2, <2>3, <3>1, NCharDrivenFields
    <3> QED
      BY <1>2, <3>1, <3>2 DEF Timed, Granted
  <2> QED
    BY <1>2, <2>1, <2>2, <2>3, LinkFields
<1>4. /\ m \in LinkRecord
      /\ m.fsm = k.fsm /\ m.timer = k.timer /\ m.rate = k.rate
      /\ m.txTask = "PARKED" <=> TxModeOf(k.fsm) = "RESET"
      /\ TxModeOf(k.fsm) \in {"RESET", "SEND_NULLS"} => m.credit = k.credit
  BY <1>3, TxLoopTopFields
<1> HIDE DEF m, k
<1>5. Awake(m) /\ Timed(m)
  BY <1>3, <1>4 DEF Awake, Timed
<1>6. Granted(m)
  BY <1>3, <1>4 DEF Granted, TxModeOf
<1>7. Accounted(m, 0)
  BY <1>1, TxResumeAccounted DEF OpenInv
<1> QED
  BY <1>1, <1>5, <1>6, <1>7 DEF OpenInv

\* An FCT on its credit,
LEMMA OnRxFctKeeps ==
  ASSUME NEW l, OpenInv(l)
  PROVE  OpenInv(OnRxFct(l))
<1>1. l \in LinkRecord
  BY DEF OpenInv, Accounted
<1>2. CASE FctOverflows(l.credit)
  BY <1>2, FeedFsmKeeps DEF OnRxFct, Event
<1>3. CASE ~FctOverflows(l.credit)
  <2> DEFINE m == OnRxFct(l)
  <2>1. /\ SameQueue(l, m) /\ m.fsm = l.fsm /\ m.timer = l.timer /\ m.rate = l.rate
        /\ m.wakeup /\ m.credit.rx = l.credit.rx
    BY <1>1, <1>3, OnRxFctFields
  <2> HIDE DEF m
  <2>2. Accounted(m, 0)
    BY <2>1, SameQueueAccounted DEF OpenInv
  <2>3. Awake(m) /\ Timed(m) /\ Granted(m)
    BY <2>1 DEF OpenInv, Awake, Timed, Granted
  <2> QED
    BY <2>2, <2>3 DEF OpenInv, m
<1> QED
  BY <1>2, <1>3

\* an N-Char on its credit and its queue,
LEMMA OnRxNCharKeeps ==
  ASSUME NEW l, OpenInv(l), NEW char \in NChar
  PROVE  OpenInv(OnRxNChar(l, char))
<1>1. l \in LinkRecord
  BY DEF OpenInv, Accounted
<1>2. CASE l.fsm.state # "RUN"
  BY <1>2 DEF OnRxNChar
<1>3. CASE l.fsm.state = "RUN" /\ NCharUnderflows(l.credit)
  <2>1. OnRxNChar(l, char) = FeedFsm(l, "CREDIT_ERR")
    BY <1>3 DEF OnRxNChar
  <2> QED
    BY <2>1, FeedFsmKeeps DEF Event
<1>4. CASE l.fsm.state = "RUN" /\ ~NCharUnderflows(l.credit)
  <2> DEFINE m == OnRxNChar(l, char)
  <2>1. /\ SameQueue(l, m) /\ m.fsm = l.fsm /\ m.timer = l.timer /\ m.rate = l.rate
        /\ m.wakeup = l.wakeup
    BY <1>1, <1>4, OnRxNCharFields
  <2> HIDE DEF m
  <2>2. Accounted(m, 0)
    BY <2>1, SameQueueAccounted DEF OpenInv
  <2>3. Awake(m) /\ Timed(m) /\ Granted(m)
    BY <1>4, <2>1 DEF OpenInv, Awake, Timed, Granted, SameQueue
  <2> QED
    BY <2>2, <2>3 DEF OpenInv, m
<1> QED
  BY <1>2, <1>3, <1>4

\* and with them every character the parser hands on.
LEMMA DispatchKeeps ==
  ASSUME NEW l, OpenInv(l), NEW char \in RxChar
  PROVE  OpenInv(Dispatch(l, char))
<1>1. CASE char \in NChar
  <2>1. Dispatch(l, char) = OnRxNChar(FeedFsm(l, "GOT_N_CHAR"), char)
    BY <1>1, CharactersDiffer DEF Dispatch
  <2>2. OpenInv(FeedFsm(l, "GOT_N_CHAR"))
    BY FeedFsmKeeps DEF Event
  <2> QED
    BY <1>1, <2>1, <2>2, OnRxNCharKeeps
<1>2. CASE char = "FCT"
  <2>1. Dispatch(l, char) = OnRxFct(FeedFsm(l, "GOT_FCT"))
    BY <1>2 DEF Dispatch
  <2>2. OpenInv(FeedFsm(l, "GOT_FCT"))
    BY FeedFsmKeeps DEF Event
  <2> QED
    BY <2>1, <2>2, OnRxFctKeeps
<1>3. CASE char \in {"NULL", "TIMECODE", "ERROR"}
  BY <1>3, FeedFsmKeeps DEF Dispatch, Event
<1> QED
  BY <1>1, <1>2, <1>3 DEF RxChar

\* A timer that expires is the timer of the state it finds, and its tick ends that state
\* unless the state is ErrorReset.
LEMMA TimerExpiredKeeps ==
  ASSUME NEW l, OpenInv(l), l.timer # "off"
  PROVE  OpenInv(TimerExpired(l))
<1> DEFINE k == [l EXCEPT !.timer = "off"]
           e == IF l.timer = "6.4us" THEN "TICK_6_4US" ELSE "TICK_12_8US"
           m == FeedFsm(k, e)
<1>1. /\ l \in LinkRecord /\ l.fsm \in FsmRecord /\ l.fsm.state \in State
      /\ l.timer \in {"6.4us", "12.8us"}
  BY LinkFields DEF OpenInv, Accounted
<1>2. /\ SameQueue(l, k) /\ k \in LinkRecord
      /\ k.fsm = l.fsm /\ k.timer = "off" /\ k.rate = l.rate
      /\ k.wakeup = l.wakeup /\ k.credit = l.credit
  BY <1>1, TimerOff DEF SameQueue
<1>3. TimerExpired(l) = m /\ e \in Event
  BY DEF TimerExpired, Event
<1> HIDE DEF k, e
<1>4. Awake(k) /\ Granted(k)
  BY <1>2 DEF OpenInv, Awake, Granted, SameQueue
<1>5. l.timer = "12.8us" => m.fsm.state # k.fsm.state
  <2>1. SUFFICES ASSUME l.timer = "12.8us"
                 PROVE  m.fsm.state # k.fsm.state
    OBVIOUS
  <2>2. l.fsm.state \in {"ERROR_WAIT", "STARTED", "CONNECTING"} /\ e = "TICK_12_8US"
    BY <1>1, <2>1 DEF OpenInv, Timed, State, e
  <2>3. m.fsm = Feed(l.fsm, e)
    BY <1>2, <1>3, FeedFsmFields
  <2> QED
    BY <1>1, <1>2, <2>2, <2>3, TickMoves
<1>6. l.timer = "6.4us" => Timed(k)
  <2>1. SUFFICES ASSUME l.timer = "6.4us"
                 PROVE  Timed(k)
    OBVIOUS
  <2>2. l.fsm.state = "ERROR_RESET"
    BY <1>1, <2>1 DEF OpenInv, Timed, State
  <2> QED
    BY <1>2, <2>2 DEF OpenInv, Timed
<1>7. m \in LinkRecord /\ Awake(m) /\ Granted(m) /\ Timed(m)
  BY <1>1, <1>2, <1>3, <1>4, <1>5, <1>6, FeedFsmInv
<1>8. Accounted(m, 0)
  <2>1. Accounted(k, 0) /\ SameQueue(k, m)
    BY <1>2, <1>3, SameQueueAccounted, FeedFsmQueue DEF OpenInv
  <2> QED
    BY <2>1, SameQueueAccounted
<1> QED
  BY <1>3, <1>7, <1>8 DEF OpenInv

\* A new endpoint, with or without the test hook.
LEMMA NewLinkInv ==
  ASSUME NEW capacity \in Nat, NEW wish \in Nat, NEW onlyNulls \in BOOLEAN
  PROVE  OpenInv(NewLink(capacity, wish, onlyNulls))
<1> DEFINE l == NewLink(capacity, wish, onlyNulls)
<1>1. /\ l \in LinkRecord
      /\ l.fsm = NewFsm
      /\ l.credit = NewCredit(CappedMax(wish, capacity))
      /\ l.timer = "6.4us" /\ l.rate = "initial" /\ l.txTask = "PARKED"
      /\ l.txq = <<>> /\ l.outstanding = 0 /\ l.drained
  BY NewLinkFields
<1> HIDE DEF l
<1>2. l.fsm.state = "ERROR_RESET" /\ l.credit.rx = 0
  BY <1>1 DEF NewFsm, NewCredit
<1>3. Accounted(l, 0)
  BY <1>1, CharactersDiffer DEF Accounted, Held
<1> QED
  BY <1>1, <1>2, <1>3 DEF OpenInv, Awake, Timed, Granted, TxModeOf, RateOf, l

-----------------------------------------------------------------------------
(***************************************************************************)
(* What the encoder puts on the line, and how the decoder takes it bit by bit.*)
(***************************************************************************)
\* Parity is a bit: ones of a sequence of bits can be counted.
LEMMA OnesNat ==
  ASSUME NEW bits \in Seq(Bit)
  PROVE  Ones(bits) \in Nat
<1>1. DOMAIN bits = 1 .. Len(bits) /\ Len(bits) \in Nat
  OBVIOUS
<1>2. IsFiniteSet(1 .. Len(bits))
  BY <1>1, FS_Interval
<1>3. IsFiniteSet({i \in DOMAIN bits : bits[i] = 1})
  BY <1>1, <1>2, FS_Subset
<1> QED
  BY <1>3, FS_CardinalityType DEF Ones

\* A parity bit, forced bad or not, is a bit.
LEMMA ParityBit ==
  ASSUME NEW prev \in Seq(Bit), NEW dc \in Bit
  PROVE  Parity(prev, dc) \in Bit /\ 1 - Parity(prev, dc) \in Bit
<1>1. Ones(prev) \in Nat /\ dc \in Nat
  BY OnesNat DEF Bit
<1>2. \A n \in Nat : n % 2 \in {0, 1}
  OBVIOUS
<1>3. Ones(prev) + dc + 1 \in Nat
  BY <1>1
<1>4. Parity(prev, dc) \in {0, 1}
  BY <1>2, <1>3, Zenon DEF Parity
<1> QED
  BY <1>4 DEF Bit

\* The content of a control character is two bits, and says which it is.
LEMMA ContentBits ==
  /\ \A t \in ControlType :
       /\ ControlContent[t] \in Seq(Bit) /\ Len(ControlContent[t]) = 2
       /\ ControlTypeOf(ControlContent[t]) = t
  /\ \A a, b \in Bit : \E t \in ControlType : ControlContent[t] = <<a, b>>
<1>1. /\ ControlContent["FCT"] = <<0, 0>> /\ ControlContent["EOP"] = <<0, 1>>
      /\ ControlContent["EEP"] = <<1, 0>> /\ ControlContent["ESC"] = <<1, 1>>
  BY DEF ControlContent
<1>2. ASSUME NEW a \in Bit, NEW b \in Bit PROVE <<a, b>> \in Seq(Bit) /\ Len(<<a, b>>) = 2
  OBVIOUS
<1>3. 0 \in Bit /\ 1 \in Bit
  BY DEF Bit
<1>4. \A t \in ControlType : \E a, b \in Bit : ControlContent[t] = <<a, b>>
  BY <1>1, <1>3, Zenon DEF ControlType
<1>5. \A t \in ControlType : ControlContent[t] \in Seq(Bit) /\ Len(ControlContent[t]) = 2
  BY <1>2, <1>4, Zenon
<1>6. \A t, s \in ControlType : ControlContent[t] = ControlContent[s] => t = s
  BY <1>1 DEF ControlType
<1>7. \A t \in ControlType : ControlTypeOf(ControlContent[t]) = t
  BY <1>6 DEF ControlTypeOf
<1>8. \A a, b \in Bit : \E t \in ControlType : ControlContent[t] = <<a, b>>
  BY <1>1 DEF ControlType, Bit
<1> QED
  BY <1>5, <1>7, <1>8, Zenon

\* A byte is eight bits.
LEMMA DataBits ==
  ASSUME NEW byte \in Nat
  PROVE  LsbBits(byte) \in Seq(Bit) /\ Len(LsbBits(byte)) = 8
<1>1. \A i \in 1 .. 8 : (byte \div 2 ^ (i - 1)) % 2 \in Bit
  BY DEF Bit
<1>2. LsbBits(byte) \in [1 .. 8 -> Bit]
  BY <1>1 DEF LsbBits
<1>3. 8 \in Nat /\ [1 .. 8 -> Bit] \subseteq Seq(Bit)
  BY SeqDef
<1>4. LsbBits(byte) \in Seq(Bit)
  BY <1>2, <1>3, Zenon
<1>5. DOMAIN LsbBits(byte) = 1 .. Len(LsbBits(byte)) /\ Len(LsbBits(byte)) \in Nat
  BY <1>4, LenProperties, Zenon
<1>6. \A n \in Nat : 1 .. n = 1 .. 8 => n = 8
  OBVIOUS
<1>7. DOMAIN LsbBits(byte) = 1 .. 8
  BY <1>2
<1> QED
  BY <1>4, <1>5, <1>6, <1>7, Zenon

-----------------------------------------------------------------------------
\* A whole primitive, and what it says: its data-control flag and its type.
Whole(w) == w \in Seq(Bit) /\ Complete(w)

WholeBut(types, w) == Whole(w) /\ PrimitiveType(w) \notin types

WholeEscape(w) == Whole(w) /\ Len(w) = 4 /\ PrimitiveType(w) = "ESC"

\* The content of a control primitive.
LEMMA ContentOfFour ==
  ASSUME NEW w \in Seq(Bit), Len(w) = 4
  PROVE  SubSeq(w, 3, 4) = <<w[3], w[4]>> /\ w[3] \in Bit /\ w[4] \in Bit
<1>1. \A i \in 1 .. Len(w) : w[i] \in Bit
  BY ElementOfSeq
<1>2. w[3] \in Bit /\ w[4] \in Bit
  BY <1>1
<1> DEFINE c == SubSeq(w, 3, 4)
           d == <<w[3], w[4]>>
<1>3. \A i \in 3 .. 4 : w[i] \in Bit
  BY <1>1
<1>4. /\ c \in Seq(Bit) /\ Len(c) = IF 3 <= 4 THEN 4 - 3 + 1 ELSE 0
      /\ \A i \in 1 .. 4 - 3 + 1 : c[i] = w[3 + i - 1]
  BY <1>3, SubSeqProperties
<1>5. Len(c) = 2 /\ c[1] = w[3] /\ c[2] = w[4]
  BY <1>4
<1>6. d \in Seq(Bit) /\ Len(d) = 2 /\ d[1] = w[3] /\ d[2] = w[4]
  BY <1>2
<1> HIDE DEF c, d
<1>7. \A i \in 1 .. Len(c) : c[i] = d[i]
  BY <1>5, <1>6
<1>8. c = d
  BY <1>4, <1>5, <1>6, <1>7, SeqEqual
<1> QED
  BY <1>2, <1>8 DEF c, d

\* What the decoder takes for a control character is one; nothing else is in doubt.
LEMMA TypeOfWhole ==
  ASSUME NEW w, Whole(w)
  PROVE  /\ PrimitiveType(w) \in ControlType \cup {"DATA"}
         /\ Len(w) \in {4, 10}
         /\ Len(w) = 4 <=> PrimitiveType(w) # "DATA"
         /\ SubSeq(w, 3, Len(w)) \in Seq(Bit)
<1>1. /\ w \in Seq(Bit) /\ Len(w) \in {4, 10} /\ w[2] \in Bit
      /\ Len(w) = 4 <=> w[2] = 1
  BY DEF Whole, Complete, Bit
<1>2. Len(w) = 4 => /\ SubSeq(w, 3, 4) = <<w[3], w[4]>>
                    /\ w[3] \in Bit /\ w[4] \in Bit
  BY ContentOfFour, Zenon DEF Whole
<1>3. Len(w) = 4 => \E t \in ControlType : SubSeq(w, 3, 4) = ControlContent[t]
  BY <1>2, ContentBits, Zenon
<1>4. Len(w) = 4 => ControlTypeOf(SubSeq(w, 3, 4)) \in ControlType
  BY <1>3, ContentBits, Zenon
<1>5. "DATA" \notin ControlType
  BY DEF ControlType
<1>6. SubSeq(w, 3, Len(w)) \in Seq(Bit)
  BY <1>1
<1> QED
  BY <1>1, <1>4, <1>5, <1>6 DEF PrimitiveType, Bit

\* Two bits and the content after them.
LEMMA HeadAndContent ==
  ASSUME NEW h \in Seq(Bit), Len(h) = 2, NEW c \in Seq(Bit)
  PROVE  /\ h \o c \in Seq(Bit) /\ Len(h \o c) = Len(c) + 2
         /\ (h \o c)[2] = h[2]
         /\ SubSeq(h \o c, 3, Len(c) + 2) = c
<1>a. /\ h \o c \in Seq(Bit)
      /\ Len(h \o c) = Len(h) + Len(c)
      /\ \A i \in 1 .. Len(h) + Len(c) : (h \o c)[i] = IF i <= Len(h) THEN h[i] ELSE c[i - Len(h)]
  BY ConcatProperties, Zenon
<1>b. Len(c) \in Nat
  BY LenProperties, Zenon
<1>1. /\ h \o c \in Seq(Bit) /\ Len(h \o c) = Len(c) + 2 /\ Len(c) \in Nat
      /\ \A i \in 1 .. Len(c) + 2 : (h \o c)[i] = IF i <= 2 THEN h[i] ELSE c[i - 2]
  BY <1>a, <1>b
<1>2. (h \o c)[2] = h[2] /\ \A i \in 1 .. Len(c) : (h \o c)[i + 2] = c[i]
  BY <1>1
<1> DEFINE s == SubSeq(h \o c, 3, Len(c) + 2)
<1>3. \A i \in 3 .. Len(c) + 2 : (h \o c)[i] \in Bit
  BY <1>1, ElementOfSeq
<1>4. /\ s \in Seq(Bit)
      /\ Len(s) = IF 3 <= Len(c) + 2 THEN Len(c) + 2 - 3 + 1 ELSE 0
      /\ \A i \in 1 .. Len(c) + 2 - 3 + 1 : s[i] = (h \o c)[3 + i - 1]
  BY <1>1, <1>3, SubSeqProperties
<1>5. Len(s) = Len(c) /\ \A i \in 1 .. Len(c) : s[i] = c[i]
  BY <1>1, <1>2, <1>4
<1>6. s = c
  BY <1>4, <1>5, SeqEqual
<1> QED
  BY <1>1, <1>2, <1>6

\* A primitive on the line is whole, and says what it was made to say.
LEMMA PrimitiveIsWhole ==
  ASSUME NEW enc, enc.prev \in Seq(Bit)
  PROVE  /\ \A t \in ControlType : LET w == PrimitiveBits(enc, Control(t))
                                   IN  Whole(w) /\ PrimitiveType(w) = t
         /\ \A byte \in Nat : LET w == PrimitiveBits(enc, Data(byte))
                              IN  Whole(w) /\ PrimitiveType(w) = "DATA"
<1>1. 0 \in Bit /\ 1 \in Bit
  BY DEF Bit
<1>2. \A p \in Bit : \A t \in ControlType :
        LET w == <<p, 1>> \o ControlContent[t]
        IN  Whole(w) /\ PrimitiveType(w) = t
  <2> SUFFICES ASSUME NEW p \in Bit, NEW t \in ControlType
               PROVE  /\ Whole(<<p, 1>> \o ControlContent[t])
                      /\ PrimitiveType(<<p, 1>> \o ControlContent[t]) = t
    BY Zenon
  <2> DEFINE c == ControlContent[t]
             w == <<p, 1>> \o c
  <2>1. c \in Seq(Bit) /\ Len(c) = 2 /\ ControlTypeOf(c) = t
    BY ContentBits
  <2> HIDE DEF c
  <2> DEFINE h == <<p, 1>>
  <2>2. h \in Seq(Bit) /\ Len(h) = 2 /\ h[1] = p /\ h[2] = 1
    BY <1>1
  <2> HIDE DEF h
  <2>3. w \in Seq(Bit) /\ Len(w) = 4 /\ w[2] = 1 /\ SubSeq(w, 3, 4) = c
    <3>1. /\ h \o c \in Seq(Bit) /\ Len(h \o c) = Len(c) + 2 /\ (h \o c)[2] = h[2]
          /\ SubSeq(h \o c, 3, Len(c) + 2) = c
      BY <2>1, <2>2, HeadAndContent, Zenon
    <3>2. Len(c) + 2 = 4
      BY <2>1
    <3> QED
      BY <2>2, <3>1, <3>2, Zenon DEF h
  <2> HIDE DEF w
  <2>4. Whole(w)
    BY <2>3 DEF Whole, Complete
  <2>5. PrimitiveType(w) = t
    BY <2>1, <2>3, 1 # 0, Zenon DEF PrimitiveType
  <2> QED
    BY <2>4, <2>5 DEF w, c
<1>3. \A p \in Bit : \A b \in Seq(Bit) : Len(b) = 8 =>
        LET w == <<p, 0>> \o b
        IN  Whole(w) /\ PrimitiveType(w) = "DATA"
  <2> SUFFICES ASSUME NEW p \in Bit, NEW b \in Seq(Bit), Len(b) = 8
               PROVE  /\ Whole(<<p, 0>> \o b)
                      /\ PrimitiveType(<<p, 0>> \o b) = "DATA"
    BY Zenon
  <2> DEFINE w == <<p, 0>> \o b
             h == <<p, 0>>
  <2>1. h \in Seq(Bit) /\ Len(h) = 2 /\ h[2] = 0
    BY <1>1
  <2> HIDE DEF h
  <2>2. w \in Seq(Bit) /\ Len(w) = 10 /\ w[2] = 0
    <3>1. /\ h \o b \in Seq(Bit) /\ Len(h \o b) = Len(b) + 2 /\ (h \o b)[2] = h[2]
      BY <2>1, HeadAndContent, Zenon
    <3>2. Len(b) + 2 = 10
      OBVIOUS
    <3> QED
      BY <2>1, <3>1, <3>2, Zenon DEF h
  <2> HIDE DEF w
  <2>3. Whole(w) /\ PrimitiveType(w) = "DATA"
    BY <2>2 DEF Whole, Complete, PrimitiveType
  <2> QED
    BY <2>3 DEF w
<1>4. \A dc \in Bit : Parity(enc.prev, dc) \in Bit /\ 1 - Parity(enc.prev, dc) \in Bit
  BY ParityBit
<1>5. \A c : \E p \in Bit :
        /\ PrimitiveBits(enc, [dc |-> 1, content |-> c]) = <<p, 1>> \o c
  BY <1>1, <1>4, Zenon DEF PrimitiveBits
<1>6. \A c : \E p \in Bit :
        /\ PrimitiveBits(enc, [dc |-> 0, content |-> c]) = <<p, 0>> \o c
  BY <1>1, <1>4, Zenon DEF PrimitiveBits
<1>7. \A t \in ControlType : LET w == PrimitiveBits(enc, Control(t))
                             IN  Whole(w) /\ PrimitiveType(w) = t
  BY <1>2, <1>5, Zenon DEF Control
<1>8. \A byte \in Nat : LET w == PrimitiveBits(enc, Data(byte))
                        IN  Whole(w) /\ PrimitiveType(w) = "DATA"
  BY <1>3, <1>6, DataBits, Zenon DEF Data
<1> QED
  BY <1>7, <1>8, Zenon

-----------------------------------------------------------------------------
\* The two cases of a bit: it completes a primitive, or it joins the buffer.
Holds(d, w) == ~d.pending /\ PrimitiveType(w) = "ESC"

\* feed() of the decoder: what the buffer and the held ESC become.
LEMMA FeedBitEffect ==
  ASSUME NEW d \in DecoderRecord, NEW bit \in Bit
  PROVE  LET raw == Append(d.buffer, bit)
             fed == FeedBit(d, bit)
         IN  /\ raw \in Seq(Bit) /\ Len(raw) = Len(d.buffer) + 1
             /\ fed.dec \in DecoderRecord
             /\ Complete(raw) =>
                  /\ Whole(raw)
                  /\ fed.dec.buffer = <<>> /\ (fed.dec.pending <=> Holds(d, raw))
                  /\ fed.chars = Resolve(d, raw)
             /\ ~Complete(raw) =>
                  /\ fed.dec.buffer = raw /\ fed.dec.pending = d.pending
                  /\ fed.chars = <<>>
<1> DEFINE raw == Append(d.buffer, bit)
           fed == FeedBit(d, bit)
<1>1. /\ d.prev \in Seq(Bit) /\ d.buffer \in Seq(Bit)
      /\ d.pending \in BOOLEAN /\ d.pendingBad \in BOOLEAN
      /\ d = [prev |-> d.prev, buffer |-> d.buffer, pending |-> d.pending,
              pendingBad |-> d.pendingBad]
  BY DEF DecoderRecord
<1>2. raw \in Seq(Bit) /\ Len(raw) = Len(d.buffer) + 1
  <2>1. \A q \in Seq(Bit) : Append(q, bit) \in Seq(Bit) /\ Len(Append(q, bit)) = Len(q) + 1
    BY AppendProperties, Zenon
  <2> QED
    BY <1>1, <2>1, Zenon
<1>3. <<>> \in Seq(Bit)
  BY EmptySeq, Zenon
<1>4. CASE Complete(raw)
  <2>1. Whole(raw)
    BY <1>2, <1>4, Zenon DEF Whole
  <2>2. SubSeq(raw, 3, Len(raw)) \in Seq(Bit)
    BY <2>1, TypeOfWhole, Zenon
  <2>3. fed.chars = Resolve(d, raw) /\ fed.dec = AfterResolve(d, raw)
    BY <1>4, Zenon DEF FeedBit
  <2>4. /\ AfterResolve(d, raw).buffer = <<>>
        /\ AfterResolve(d, raw).pending <=> Holds(d, raw)
        /\ AfterResolve(d, raw) \in DecoderRecord
    BY <1>3, <2>2, Zenon DEF AfterResolve, Holds, DecoderRecord
  <2> QED
    BY <1>2, <1>4, <2>1, <2>3, <2>4, Zenon
<1>5. CASE ~Complete(raw)
  <2> HIDE DEF raw
  <2>1. fed.chars = <<>> /\ fed.dec = [d EXCEPT !.buffer = raw]
    BY <1>5, Zenon DEF FeedBit, raw
  <2>2. [d EXCEPT !.buffer = raw] =
          [prev |-> d.prev, buffer |-> raw, pending |-> d.pending, pendingBad |-> d.pendingBad]
    BY <1>1
  <2>3. /\ fed.dec.buffer = raw /\ fed.dec.pending = d.pending
        /\ fed.dec \in DecoderRecord
    BY <1>1, <1>2, <2>1, <2>2, Zenon DEF DecoderRecord
  <2> QED
    BY <1>2, <1>5, <2>1, <2>3, Zenon DEF raw
<1> QED
  BY <1>4, <1>5, Zenon

-----------------------------------------------------------------------------
\* An ESC and the primitive of the given type after it.
Escaped(b, type) ==
  \E e, w : WholeEscape(e) /\ Whole(w) /\ PrimitiveType(w) = type /\ b = e \o w

\* The encoder of the peer, its chain a sequence of bits.
Chain(enc) == enc.prev \in Seq(Bit)

\* encode(): one or two whole primitives, the first of two an ESC.
LEMMA EncodedBits ==
  ASSUME NEW enc, Chain(enc), NEW r \in Request
  PROVE  LET b == Encode(enc, r).bits
         IN  /\ Chain(Encode(enc, r).enc)
             /\ r.type \in ControlType \cup {"DATA"} => Whole(b) /\ PrimitiveType(b) = r.type
             /\ r.type = "NULL" => Escaped(b, "FCT")
             /\ r.type \in {"TIMECODE", "BROADCAST"} => Escaped(b, "DATA")
<1>1. \A p : Primitives(r) = <<p>> =>
               /\ Encode(enc, r).bits = PrimitiveBits(enc, p)
               /\ Encode(enc, r).enc = AfterPrimitive(enc, p)
  <2> SUFFICES ASSUME NEW p, Primitives(r) = <<p>>
               PROVE  /\ Encode(enc, r).bits = PrimitiveBits(enc, p)
                      /\ Encode(enc, r).enc = AfterPrimitive(enc, p)
    OBVIOUS
  <2>1. Len(<<p>>) = 1 /\ <<p>>[1] = p
    OBVIOUS
  <2> QED
    BY <2>1, Zenon DEF Encode
<1>2. \A p, q : Primitives(r) = <<p, q>> =>
               LET mid == AfterPrimitive(enc, p)
               IN  /\ Encode(enc, r).bits = PrimitiveBits(enc, p) \o PrimitiveBits(mid, q)
                   /\ Encode(enc, r).enc = AfterPrimitive(mid, q)
  <2> SUFFICES ASSUME NEW p, NEW q, Primitives(r) = <<p, q>>
               PROVE  LET mid == AfterPrimitive(enc, p)
                      IN  /\ Encode(enc, r).bits = PrimitiveBits(enc, p) \o PrimitiveBits(mid, q)
                          /\ Encode(enc, r).enc = AfterPrimitive(mid, q)
    OBVIOUS
  <2>1. Len(<<p, q>>) = 2 /\ <<p, q>>[1] = p /\ <<p, q>>[2] = q
    OBVIOUS
  <2>2. Len(<<p, q>>) # 1
    BY <2>1
  <2> QED
    BY <2>1, <2>2, Zenon DEF Encode
<1>3. \A x : \A t \in ControlType : Chain(AfterPrimitive(x, Control(t)))
  BY ContentBits, Zenon DEF Chain, AfterPrimitive, Control
<1>4. \A x : \A byte \in Nat : Chain(AfterPrimitive(x, Data(byte)))
  BY DataBits, Zenon DEF Chain, AfterPrimitive, Data
<1>5. /\ \A x : Chain(x) => \A t \in ControlType :
           /\ Whole(PrimitiveBits(x, Control(t)))
           /\ PrimitiveType(PrimitiveBits(x, Control(t))) = t
      /\ \A x : Chain(x) => \A byte \in Nat :
           /\ Whole(PrimitiveBits(x, Data(byte)))
           /\ PrimitiveType(PrimitiveBits(x, Data(byte))) = "DATA"
  BY PrimitiveIsWhole, Zenon DEF Chain
<1>6. "ESC" \in ControlType /\ "FCT" \in ControlType
  BY DEF ControlType
<1>7. WholeEscape(PrimitiveBits(enc, Control("ESC")))
  <2>1. /\ Whole(PrimitiveBits(enc, Control("ESC")))
        /\ PrimitiveType(PrimitiveBits(enc, Control("ESC"))) = "ESC"
    BY <1>5, <1>6, Zenon
  <2>2. Len(PrimitiveBits(enc, Control("ESC"))) = 4
    BY <2>1, TypeOfWhole
  <2> QED
    BY <2>1, <2>2 DEF WholeEscape
<1>8. \A q, type :
        LET mid == AfterPrimitive(enc, Control("ESC"))
        IN  /\ Primitives(r) = <<Control("ESC"), q>>
            /\ Whole(PrimitiveBits(mid, q)) /\ PrimitiveType(PrimitiveBits(mid, q)) = type
            => Escaped(Encode(enc, r).bits, type)
  BY <1>2, <1>7, Zenon DEF Escaped
<1>9. r.type \in CharType /\ r.value \in Nat /\ r.value % 64 \in Nat
  BY DEF Request
<1> DEFINE b == Encode(enc, r).bits
           after == Encode(enc, r).enc
<1>10. ASSUME r.type \in ControlType
       PROVE  Chain(after) /\ Whole(b) /\ PrimitiveType(b) = r.type
  <2>1. Primitives(r) = <<Control(r.type)>>
    BY <1>10 DEF Primitives, ControlType
  <2>2. b = PrimitiveBits(enc, Control(r.type)) /\ after = AfterPrimitive(enc, Control(r.type))
    BY <1>1, <2>1, Zenon
  <2> QED
    BY <1>3, <1>5, <1>10, <2>2, Zenon
<1>11. ASSUME r.type = "DATA"
       PROVE  Chain(after) /\ Whole(b) /\ PrimitiveType(b) = r.type
  <2>1. Primitives(r) = <<Data(r.value)>>
    BY <1>11 DEF Primitives, ControlType
  <2>2. b = PrimitiveBits(enc, Data(r.value)) /\ after = AfterPrimitive(enc, Data(r.value))
    BY <1>1, <2>1, Zenon
  <2> QED
    BY <1>4, <1>5, <1>9, <1>11, <2>2, Zenon
<1> DEFINE mid == AfterPrimitive(enc, Control("ESC"))
<1>12. Chain(mid)
  BY <1>3, <1>6, Zenon
<1>13. ASSUME r.type = "NULL"
       PROVE  Chain(after) /\ Escaped(b, "FCT")
  <2>1. Primitives(r) = <<Control("ESC"), Control("FCT")>>
    BY <1>13 DEF Primitives, ControlType
  <2>2. after = AfterPrimitive(mid, Control("FCT"))
    BY <1>2, <2>1, Zenon
  <2>3. Chain(after)
    BY <1>3, <1>6, <2>2, Zenon
  <2>4. Whole(PrimitiveBits(mid, Control("FCT"))) /\ PrimitiveType(PrimitiveBits(mid, Control("FCT"))) = "FCT"
    BY <1>5, <1>6, <1>12, Zenon
  <2>5. Escaped(b, "FCT")
    BY <1>8, <2>1, <2>4, Zenon
  <2> QED
    BY <2>3, <2>5, Zenon
<1>14. ASSUME r.type = "TIMECODE" \/ r.type = "BROADCAST"
       PROVE  Chain(after) /\ Escaped(b, "DATA")
  <2>1. PICK byte \in Nat : Primitives(r) = <<Control("ESC"), Data(byte)>>
    BY <1>9, <1>14 DEF Primitives, ControlType
  <2>2. after = AfterPrimitive(mid, Data(byte))
    BY <1>2, <2>1, Zenon
  <2>3. Chain(after)
    BY <1>4, <2>2, Zenon
  <2>4. Whole(PrimitiveBits(mid, Data(byte))) /\ PrimitiveType(PrimitiveBits(mid, Data(byte))) = "DATA"
    BY <1>5, <1>12, Zenon
  <2>5. Escaped(b, "DATA")
    BY <1>8, <2>1, <2>4, Zenon
  <2> QED
    BY <2>3, <2>5, Zenon
<1> HIDE DEF b, after, mid
<1>15. /\ Chain(after)
       /\ r.type \in ControlType \cup {"DATA"} => Whole(b) /\ PrimitiveType(b) = r.type
       /\ r.type = "NULL" => Escaped(b, "FCT")
       /\ r.type \in {"TIMECODE", "BROADCAST"} => Escaped(b, "DATA")
  BY <1>9, <1>10, <1>11, <1>13, <1>14 DEF CharType
<1> QED
  BY <1>15, Zenon DEF b, after

-----------------------------------------------------------------------------
\* A primitive is part heard and part to come.
Between(w, b, l) == b \in Seq(Bit) /\ l \in Seq(Bit) /\ l # <<>> /\ b \o l = w

\* What the proofs below need of the concatenation of bits.
LEMMA BitsConcat ==
  /\ \A s, t \in Seq(Bit) : s \o t \in Seq(Bit) /\ Len(s \o t) = Len(s) + Len(t)
  /\ \A s, t \in Seq(Bit) : \A i \in 1 .. Len(s) + Len(t) :
       (s \o t)[i] = IF i <= Len(s) THEN s[i] ELSE t[i - Len(s)]
  /\ \A s, t, u \in Seq(Bit) : (s \o t) \o u = s \o (t \o u)
  /\ \A s, t \in Seq(Bit) : s \o t = <<>> => s = <<>>
<1>1. \A s, t \in Seq(Bit) : s \o t \in Seq(Bit) /\ Len(s \o t) = Len(s) + Len(t)
  BY ConcatProperties
<1>2. \A s, t \in Seq(Bit) : \A i \in 1 .. Len(s) + Len(t) :
       (s \o t)[i] = IF i <= Len(s) THEN s[i] ELSE t[i - Len(s)]
  BY ConcatProperties
<1>3. \A s, t, u \in Seq(Bit) : (s \o t) \o u = s \o (t \o u)
  BY ConcatAssociative
<1>4. \A s, t \in Seq(Bit) : s \o t = <<>> => s = <<>>
  BY ConcatSimplifications
<1> QED
  BY <1>1, <1>2, <1>3, <1>4, Zenon

\* A sequence is its head before its tail.
LEMMA HeadAndTail ==
  ASSUME NEW q \in Seq(Bit), q # <<>>
  PROVE  /\ Head(q) \in Bit /\ Tail(q) \in Seq(Bit)
         /\ <<Head(q)>> \in Seq(Bit)
         /\ <<Head(q)>> \o Tail(q) = q
<1>1. Head(q) \in Bit /\ Tail(q) \in Seq(Bit)
  BY HeadTailProperties, Zenon
<1>2. Len(q) \in Nat \ {0}
  BY EmptySeq, Zenon
<1>3. 1 \in 1 .. Len(q) /\ Len(q) \in 1 .. Len(q)
  BY <1>2
<1>4. SubSeq(q, 1, Len(q)) = <<q[1]>> \o SubSeq(q, 1 + 1, Len(q))
  BY <1>3, SubSeqRecursiveFirst, Zenon
<1>5. SubSeq(q, 1, Len(q)) = q
  BY SubSeqFull, Zenon
<1>6. Tail(q) = SubSeq(q, 2, Len(q))
  BY TailIsSubSeq, Zenon
<1>7. Head(q) = q[1] /\ 1 + 1 = 2
  OBVIOUS
<1>8. <<Head(q)>> \in Seq(Bit)
  BY <1>1
<1> QED
  BY <1>1, <1>4, <1>5, <1>6, <1>7, <1>8, Zenon

\* One bit of a primitive: the decoder completes it with its last bit, not before.
LEMMA OneBitOn ==
  ASSUME NEW w, Whole(w), NEW b, NEW l, Between(w, b, l)
  PROVE  LET raw == Append(b, Head(l))
         IN  /\ raw \in Seq(Bit) /\ Tail(l) \in Seq(Bit)
             /\ Tail(l) = <<>> => raw = w
             /\ Tail(l) # <<>> => Between(w, raw, Tail(l)) /\ ~Complete(raw)
<1> DEFINE raw == Append(b, Head(l))
           t == Tail(l)
<1>1. b \in Seq(Bit) /\ l \in Seq(Bit) /\ l # <<>> /\ b \o l = w
  BY DEF Between
<1>2. /\ Head(l) \in Bit /\ t \in Seq(Bit) /\ <<Head(l)>> \in Seq(Bit)
      /\ <<Head(l)>> \o t = l
  BY <1>1, HeadAndTail, Zenon
<1>3. raw \in Seq(Bit) /\ raw = b \o <<Head(l)>>
  BY <1>1, <1>2, AppendProperties, AppendIsConcat, Zenon
<1> HIDE DEF raw, t
<1>4. raw \o t = w
  <2> DEFINE h == <<Head(l)>>
  <2>0. b \in Seq(Bit) /\ h \in Seq(Bit) /\ t \in Seq(Bit)
    BY <1>1, <1>2, Zenon
  <2> HIDE DEF h
  <2>1. (b \o h) \o t = b \o (h \o t)
    BY <2>0, BitsConcat
  <2> USE DEF h
  <2> QED
    BY <1>1, <1>2, <1>3, <2>1, Zenon
<1>5. t = <<>> => raw = w
  BY <1>3, <1>4, ConcatEmptySeq, Zenon
<1>6. ASSUME t # <<>> PROVE ~Complete(raw)
  <2>1. Len(t) \in Nat \ {0} /\ Len(raw) \in Nat
    BY <1>2, <1>3, <1>6, EmptySeq, LenProperties, Zenon
  <2>0. raw \in Seq(Bit) /\ t \in Seq(Bit)
    BY <1>2, <1>3, Zenon
  <2>a. /\ Len(raw \o t) = Len(raw) + Len(t)
        /\ \A i \in 1 .. Len(raw) + Len(t) : (raw \o t)[i] =
             IF i <= Len(raw) THEN raw[i] ELSE t[i - Len(raw)]
    BY <2>0, BitsConcat
  <2>2. /\ Len(w) = Len(raw) + Len(t)
        /\ \A i \in 1 .. Len(raw) + Len(t) : w[i] =
             IF i <= Len(raw) THEN raw[i] ELSE t[i - Len(raw)]
    BY <1>4, <2>a
  <2>3. Len(raw) >= 2 => w[2] = raw[2]
    BY <2>1, <2>2
  <2>4. Len(w) = IF w[2] = 1 THEN 4 ELSE 10
    BY Zenon DEF Whole, Complete
  <2>5. Len(raw) # Len(w)
    BY <2>1, <2>2
  <2>6. Complete(raw) => Len(raw) >= 2 /\ Len(raw) = IF raw[2] = 1 THEN 4 ELSE 10
    BY Zenon DEF Complete
  <2> QED
    BY <2>3, <2>4, <2>5, <2>6
<1>7. t # <<>> => Between(w, raw, t)
  BY <1>2, <1>3, <1>4, Zenon DEF Between
<1> QED
  BY <1>2, <1>3, <1>5, <1>6, <1>7, Zenon DEF raw, t

\* A whole primitive, not begun.
LEMMA NotBegun ==
  ASSUME NEW w, Whole(w)
  PROVE  Between(w, <<>>, w) /\ w # <<>>
<1>1. w \in Seq(Bit) /\ Len(w) # 0
  BY DEF Whole, Complete
<1>2. w # <<>>
  BY <1>1
<1> QED
  BY <1>1, <1>2, EmptySeq, ConcatEmptySeq, Zenon DEF Between

\* A concatenation is heard from its first part on.
LEMMA HeadOfConcat ==
  ASSUME NEW s \in Seq(Bit), s # <<>>, NEW t \in Seq(Bit)
  PROVE  s \o t # <<>> /\ Head(s \o t) = Head(s) /\ Tail(s \o t) = Tail(s) \o t
<1>1. s \o t # <<>> /\ s \o t \in Seq(Bit)
  BY BitsConcat, Zenon
<1>2. Len(s) \in Nat \ {0} /\ Len(t) \in Nat
  BY EmptySeq, LenProperties, Zenon
<1>3. /\ Len(s \o t) = Len(s) + Len(t)
      /\ \A i \in 1 .. Len(s) + Len(t) : (s \o t)[i] = IF i <= Len(s) THEN s[i] ELSE t[i - Len(s)]
  BY ConcatProperties, Zenon
<1>4. Head(s \o t) = (s \o t)[1] /\ Head(s) = s[1]
  OBVIOUS
<1>5. (s \o t)[1] = s[1]
  BY <1>2, <1>3
<1>6. /\ Tail(s) \in Seq(Bit) /\ Len(Tail(s)) = Len(s) - 1
      /\ \A i \in 1 .. Len(Tail(s)) : Tail(s)[i] = s[i + 1]
  BY HeadTailProperties, Zenon
<1>7. /\ Tail(s \o t) \in Seq(Bit) /\ Len(Tail(s \o t)) = Len(s \o t) - 1
      /\ \A i \in 1 .. Len(Tail(s \o t)) : Tail(s \o t)[i] = (s \o t)[i + 1]
  BY <1>1, HeadTailProperties, Zenon
<1>8. /\ Tail(s) \o t \in Seq(Bit) /\ Len(Tail(s) \o t) = Len(Tail(s)) + Len(t)
      /\ \A i \in 1 .. Len(Tail(s)) + Len(t) : (Tail(s) \o t)[i] =
           IF i <= Len(Tail(s)) THEN Tail(s)[i] ELSE t[i - Len(Tail(s))]
  BY <1>6, ConcatProperties, Zenon
<1> DEFINE x == Tail(s \o t)
           y == Tail(s) \o t
           a == Tail(s)
           c == s \o t
<1>9. Len(x) = Len(s) + Len(t) - 1 /\ Len(y) = Len(s) + Len(t) - 1
  BY <1>2, <1>3, <1>6, <1>7, <1>8
<1>10. ASSUME NEW i \in 1 .. Len(x) PROVE x[i] = y[i]
  <2>1. x[i] = c[i + 1]
    BY <1>7
  <2> HIDE DEF x, y, a, c
  <2>2. i \in Nat \ {0} /\ i + 1 \in 1 .. Len(s) + Len(t) /\ i \in 1 .. Len(s) - 1 + Len(t)
    BY <1>2, <1>9
  <2>3. c[i + 1] = IF i + 1 <= Len(s) THEN s[i + 1] ELSE t[i + 1 - Len(s)]
    BY <1>3, <2>2 DEF c
  <2>4. y[i] = IF i <= Len(s) - 1 THEN a[i] ELSE t[i - (Len(s) - 1)]
    BY <1>6, <1>8, <2>2 DEF y, a
  <2>5. i <= Len(s) - 1 => a[i] = s[i + 1]
    BY <1>2, <1>6, <2>2 DEF a
  <2>6. i + 1 - Len(s) = i - (Len(s) - 1) /\ (i + 1 <= Len(s) <=> i <= Len(s) - 1)
    BY <1>2, <2>2
  <2> QED
    BY <2>1, <2>3, <2>4, <2>5, <2>6
<1>11. x = y
  BY <1>7, <1>8, <1>9, <1>10, SeqEqual, Zenon
<1> QED
  BY <1>1, <1>4, <1>5, <1>11, Zenon
=============================================================================
