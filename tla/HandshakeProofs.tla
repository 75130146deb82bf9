--------------------------- MODULE HandshakeProofs ---------------------------
(***************************************************************************)
(* The handshake proved from both sides.  Of one LinkFSM fed anything:     *)
(* every chain of transitions ends, the flags are the history, and every   *)
(* way up the ladder is honest.  Of two links in time, for every workload, *)
(* offset and inverted bit: whoever leaves ErrorReset leaves nothing half  *)
(* open behind.                                                            *)
(***************************************************************************)
EXTENDS LinkFSMEnv, TimedPair, LinkLemmas

-----------------------------------------------------------------------------
\* What a fed event passes, milestone by milestone.
LEMMA PassedByFacts ==
  ASSUME NEW s \in State, NEW e \in Event
  PROVE  /\ PassedBy(s, e) \subseteq Milestone
         /\ "servedReset" \in PassedBy(s, e) <=> s = "ERROR_RESET" /\ e = "TICK_6_4US"
         /\ "servedWait" \in PassedBy(s, e) <=> s = "ERROR_WAIT" /\ e = "TICK_12_8US"
         /\ "heardNull" \in PassedBy(s, e) <=> e = "GOT_NULL"
         /\ "sentNull" \in PassedBy(s, e) <=> s = "STARTED" /\ e = "SENT_NULL"
         /\ "sentFct" \in PassedBy(s, e) <=> s = "CONNECTING" /\ e = "SENT_FCT"
         /\ "heardFct" \in PassedBy(s, e) <=> s = "CONNECTING" /\ e = "GOT_FCT"
<1>1. \A m \in Milestone : m \in PassedBy(s, e) <=> <<s, e>> \in MilestonePairs[m]
  BY DEF PassedBy
<1>2. /\ MilestonePairs["servedReset"] = {<<"ERROR_RESET", "TICK_6_4US">>}
      /\ MilestonePairs["servedWait"] = {<<"ERROR_WAIT", "TICK_12_8US">>}
      /\ MilestonePairs["heardNull"] = State \X {"GOT_NULL"}
      /\ MilestonePairs["sentNull"] = {<<"STARTED", "SENT_NULL">>}
      /\ MilestonePairs["sentFct"] = {<<"CONNECTING", "SENT_FCT">>}
      /\ MilestonePairs["heardFct"] = {<<"CONNECTING", "GOT_FCT">>}
  BY DEF MilestonePairs
<1>3. {"servedReset", "servedWait", "heardNull", "sentNull", "sentFct", "heardFct"}
        \subseteq Milestone
  BY DEF Milestone
<1>4. PassedBy(s, e) \subseteq Milestone
  BY DEF PassedBy
<1> QED
  BY <1>1, <1>2, <1>3, <1>4

\* A milestone of a later state has not been passed yet: nothing of an earlier
\* attempt survives the fall to ErrorReset.
NothingAhead ==
  /\ "sentNull" \in passed => fsm.state \in {"STARTED", "CONNECTING", "RUN"}
  /\ "sentFct" \in passed => fsm.state \in {"CONNECTING", "RUN"}
  /\ "heardFct" \in passed => fsm.state \in {"CONNECTING", "RUN"}

\* The inductive invariant.  HandshakeHonest alone is not inductive: that a flag
\* set in Started speaks of this attempt needs FlagsMatchHistory, and that needs
\* NothingAhead when the link comes to Started or Connecting.
FsmInv == TypeOK /\ FlagsMatchHistory /\ NothingAhead /\ DelaysServed /\ HandshakeHonest
          /\ Settled

\* A new machine satisfies the invariant,
LEMMA FsmInvInit == FsmInit => FsmInv
<1> SUFFICES ASSUME FsmInit PROVE FsmInv
  OBVIOUS
<1>1. TypeOK
  BY Zenon DEF FsmInit, NewFsm, TypeOK, FsmRecord, State
<1>2. FlagsMatchHistory /\ NothingAhead /\ DelaysServed /\ HandshakeHonest
  BY DEF FsmInit, NewFsm, FlagsMatchHistory, NothingAhead, DelaysServed, HandshakeHonest
<1>3. Settled
  BY DEF FsmInit, NewFsm, Settled, Handler, InErrorReset, NoEvent
<1> QED
  BY <1>1, <1>2, <1>3 DEF FsmInv

\* and feeding any event keeps it.
LEMMA FeedPreservesInv ==
  ASSUME FsmInv, NEW e \in Event, FeedEvent(e)
  PROVE  FsmInv'
<1> DEFINE fell == fsm'.state = "ERROR_RESET" /\ fsm.state # "ERROR_RESET"
           to(s) == fsm'.state = s /\ fsm.state # s
<1>1. fsm \in FsmRecord /\ fsm.state \in State /\ passed \subseteq Milestone
  BY DEF FsmInv, TypeOK, FsmRecord
<1>2. fsm' = Feed(fsm, e)
  BY DEF FeedEvent
<1>3. /\ fsm' \in FsmRecord
      /\ fsm'.state # fsm.state =>
           fsm'.state = "ERROR_RESET" \/ <<fsm.state, fsm'.state>> \in Climb
      /\ fell => ~fsm'.gotNull /\ ~fsm'.sentNull /\ ~fsm'.sentFct /\ ~fsm'.gotFct
      /\ ~fell => (fsm'.gotNull <=> fsm.gotNull \/ e = "GOT_NULL")
      /\ ~fell /\ ~to("STARTED") =>
           (fsm'.sentNull <=> fsm.sentNull \/ (e = "SENT_NULL" /\ fsm.state = "STARTED"))
      /\ ~fell /\ ~to("CONNECTING") =>
           /\ fsm'.sentFct <=> fsm.sentFct \/ (e = "SENT_FCT" /\ fsm.state = "CONNECTING")
           /\ fsm'.gotFct <=> fsm.gotFct \/ (e = "GOT_FCT" /\ fsm.state = "CONNECTING")
      /\ to("STARTED") => ~fsm'.sentNull
      /\ to("CONNECTING") => ~fsm'.sentFct /\ ~fsm'.gotFct
      /\ fsm.state = "ERROR_RESET" /\ fsm'.state # fsm.state => e = "TICK_6_4US"
      /\ fsm.state = "ERROR_WAIT" /\ fsm'.state # fsm.state /\ ~fell => e = "TICK_12_8US"
      /\ to("CONNECTING") => fsm'.sentNull /\ fsm'.gotNull
      /\ to("RUN") => fsm'.sentFct /\ fsm'.gotFct
      /\ Handler(fsm', NoEvent) = fsm'.state
  BY <1>1, <1>2, FeedEffect
<1>4. fsm'.state \in State
  BY <1>3 DEF FsmRecord
<1>5. passed' = IF fell THEN {} ELSE passed \cup PassedBy(fsm.state, e)
  BY DEF FeedEvent
<1>6. TypeOK'
  BY <1>1, <1>3, <1>5, PassedByFacts DEF TypeOK
<1>7. Settled'
  BY <1>3 DEF Settled
<1>8. CASE fell
  BY <1>3, <1>5, <1>6, <1>7, <1>8
     DEF FsmInv, FlagsMatchHistory, NothingAhead, DelaysServed, HandshakeHonest
<1>9. CASE ~fell
  <2> DEFINE p == PassedBy(fsm.state, e)
  <2>1. /\ passed' = passed \cup p
        /\ "servedReset" \in p <=> fsm.state = "ERROR_RESET" /\ e = "TICK_6_4US"
        /\ "servedWait" \in p <=> fsm.state = "ERROR_WAIT" /\ e = "TICK_12_8US"
        /\ "heardNull" \in p <=> e = "GOT_NULL"
        /\ "sentNull" \in p <=> fsm.state = "STARTED" /\ e = "SENT_NULL"
        /\ "sentFct" \in p <=> fsm.state = "CONNECTING" /\ e = "SENT_FCT"
        /\ "heardFct" \in p <=> fsm.state = "CONNECTING" /\ e = "GOT_FCT"
    BY <1>1, <1>5, <1>9, PassedByFacts
  <2> HIDE DEF p
  <2>2. /\ to("STARTED") => fsm.state \in {"ERROR_WAIT", "READY"}
        /\ to("CONNECTING") => fsm.state = "STARTED"
        /\ to("RUN") => fsm.state = "CONNECTING"
        /\ fsm.state = "STARTED" => fsm'.state \in {"STARTED", "CONNECTING"}
        /\ fsm.state = "CONNECTING" => fsm'.state \in {"CONNECTING", "RUN"}
        /\ fsm.state = "RUN" => fsm'.state = "RUN"
        /\ fsm.state = "ERROR_RESET" => fsm'.state \in {"ERROR_RESET", "ERROR_WAIT"}
        /\ fsm'.state = "ERROR_RESET" => fsm.state = "ERROR_RESET"
        /\ fsm.state \in {"READY", "STARTED", "CONNECTING", "RUN"} => fsm'.state # "ERROR_WAIT"
    BY <1>1, <1>3, <1>9 DEF Climb
  <2>3. NothingAhead'
    BY <2>1, <2>2 DEF FsmInv, NothingAhead
  <2>4. FlagsMatchHistory'
    BY <1>3, <1>9, <2>1, <2>2 DEF FsmInv, FlagsMatchHistory, NothingAhead
  <2>5. DelaysServed'
    BY <1>1, <1>3, <1>9, <2>1, <2>2 DEF FsmInv, DelaysServed
  <2>6. HandshakeHonest'
    <3>1. fsm'.state \in {"CONNECTING", "RUN"} => fsm'.gotNull /\ fsm'.sentNull
      BY <1>3, <1>9, <2>2 DEF FsmInv, FlagsMatchHistory, HandshakeHonest
    <3>2. fsm'.state = "RUN" => fsm'.sentFct /\ fsm'.gotFct
      BY <1>3, <1>9, <2>2 DEF FsmInv, FlagsMatchHistory, HandshakeHonest
    <3> QED
      BY <2>4, <3>1, <3>2 DEF FlagsMatchHistory, HandshakeHonest
  <2> QED
    BY <1>6, <1>7, <2>3, <2>4, <2>5, <2>6 DEF FsmInv
<1> QED
  BY <1>8, <1>9

\* Every step feeds an event of the enum.
LEMMA StepFeeds == FsmNext => \E e \in Event : FeedEvent(e)
BY DEF FsmNext, Receive, Transmit, Command, Expire, Event

\* The machine always keeps the inductive invariant.
LEMMA FsmInvHolds == FsmSpec => []FsmInv
<1>1. FsmInv /\ [FsmNext]_fsmVars => FsmInv'
  <2> SUFFICES ASSUME FsmInv, [FsmNext]_fsmVars PROVE FsmInv'
    OBVIOUS
  <2>1. CASE FsmNext
    BY <2>1, StepFeeds, FeedPreservesInv
  <2>2. CASE UNCHANGED fsmVars
    BY <2>2 DEF fsmVars, FsmInv, TypeOK, FlagsMatchHistory, NothingAhead, DelaysServed,
                HandshakeHonest, Settled
  <2> QED
    BY <2>1, <2>2
<1> QED
  BY <1>1, FsmInvInit, PTL DEF FsmSpec

\* The fields of the machine keep their types (LinkFSM of link_fsm.py).
THEOREM FsmTypeCorrect == FsmSpec => []TypeOK
BY FsmInvHolds, PTL DEF FsmInv

\* Whatever the peer, the application and the timers do, a link in Connecting or
\* Run has exchanged the NULLs, and a link in Run the FCTs, since its last
\* ErrorReset (_in_started and _in_connecting of link_fsm.py).
THEOREM HandshakeAlwaysHonest == FsmSpec => []HandshakeHonest
BY FsmInvHolds, PTL DEF FsmInv

\* No link leaves ErrorReset or ErrorWait without its delay.
THEOREM DelaysAlwaysServed == FsmSpec => []DelaysServed
BY FsmInvHolds, PTL DEF FsmInv

\* The cap of eight turns in feed() never cuts a chain of transitions short.
THEOREM FeedAlwaysSettles == FsmSpec => []Settled
BY FsmInvHolds, PTL DEF FsmInv

\* The latched flags are exactly what happened since the last ErrorReset.
THEOREM FlagsAlwaysMatch == FsmSpec => []FlagsMatchHistory
BY FsmInvHolds, PTL DEF FsmInv

\* The link is started only by permission (_link_enabled of link_fsm.py).
THEOREM StartsOnlyByPermission == FsmSpec => StartedByPermission
<1> DEFINE P == fsm.state # "STARTED" /\ fsm'.state = "STARTED"
                  => /\ ~fsm'.linkDisable
                     /\ fsm'.linkStart \/ (fsm'.autoStart /\ "heardNull" \in passed')
<1>1. FsmInv /\ FsmInv' /\ [FsmNext]_fsmVars => [P]_fsmVars
  <2> SUFFICES ASSUME FsmInv, FsmInv', FsmNext PROVE P
    BY DEF fsmVars
  <2>1. PICK e \in Event : FeedEvent(e)
    BY StepFeeds
  <2>2. fsm.state # "STARTED" /\ fsm'.state = "STARTED" => LinkEnabled(fsm')
    BY <2>1, FeedEffect DEF FeedEvent, FsmInv, TypeOK
  <2> QED
    BY <2>2 DEF LinkEnabled, FsmInv, FlagsMatchHistory
<1> QED
  BY <1>1, FsmInvHolds, PTL DEF FsmSpec, StartedByPermission

\* The link climbs the diagram of 8.5.2 and falls only to ErrorReset.
THEOREM AlwaysFollowsDiagram == FsmSpec => FollowsDiagram
<1> DEFINE P == fsm'.state # fsm.state
                  => fsm'.state = "ERROR_RESET" \/ <<fsm.state, fsm'.state>> \in Climb
<1>1. FsmInv /\ [FsmNext]_fsmVars => [P]_fsmVars
  <2> SUFFICES ASSUME FsmInv, FsmNext PROVE P
    BY DEF fsmVars
  <2>1. PICK e \in Event : FeedEvent(e)
    BY StepFeeds
  <2> QED
    BY <2>1, FeedEffect DEF FeedEvent, FsmInv, TypeOK
<1> QED
  BY <1>1, FsmInvHolds, PTL DEF FsmSpec, FollowsDiagram

-----------------------------------------------------------------------------
(***************************************************************************)
(* Two links in time.                                                      *)
(***************************************************************************)
\* A link that answers has heard a NULL.
Heard(l) == l.fsm.state \in {"CONNECTING", "RUN"} => l.fsm.gotNull

\* The FSM goes from l to m by events that are no ticks: it leaves ErrorReset and
\* ErrorWait by an error only, and ErrorReset is timed anew when it is entered.
Untimed(l, m) ==
  /\ l.fsm.state = "ERROR_RESET" => m.fsm.state = "ERROR_RESET" /\ m.timer = l.timer
  /\ l.fsm.state # "ERROR_RESET" /\ m.fsm.state = "ERROR_RESET" => m.timer = "6.4us"
  /\ m.fsm.state \in {"ERROR_WAIT", "READY"} => m.fsm.state = l.fsm.state
  /\ l.fsm.state = "ERROR_WAIT" => m.fsm.state \in {"ERROR_RESET", "ERROR_WAIT"}
  /\ Heard(l) => Heard(m)

\* No NULL is heard from l to m.
NoNull(l, m) == m.fsm.gotNull => l.fsm.gotNull

\* Nothing changes that time and silence depend on.
SameFsm(l, m) == m.fsm = l.fsm /\ m.timer = l.timer

\* What changes nothing of it is such a step,
LEMMA SameFsmUntimed ==
  ASSUME NEW l, NEW m, SameFsm(l, m)
  PROVE  Untimed(l, m) /\ NoNull(l, m)
BY DEF SameFsm, Untimed, NoNull, Heard

\* and two such steps are one.
LEMMA UntimedTransitive ==
  ASSUME NEW l, NEW m, NEW n, Untimed(l, m), Untimed(m, n)
  PROVE  Untimed(l, n)
BY DEF Untimed

\* Such a step is any event but a tick,
LEMMA FeedUntimed ==
  ASSUME NEW l \in LinkRecord, NEW e \in Event \ {"TICK_6_4US", "TICK_12_8US"}
  PROVE  /\ Untimed(l, FeedFsm(l, e))
         /\ e # "GOT_NULL" => NoNull(l, FeedFsm(l, e))
<1> DEFINE m == FeedFsm(l, e)
           s == l.fsm.state
           t == m.fsm.state
<1>1. /\ m.fsm = Feed(l.fsm, e)
      /\ t = s => m.timer = l.timer
      /\ t # s => m.timer = CASE t = "ERROR_RESET" -> "6.4us"
                              [] t \in {"ERROR_WAIT", "STARTED", "CONNECTING"} -> "12.8us"
                              [] OTHER -> "off"
  BY FeedFsmFields
<1>2. LET f == l.fsm
          r == Feed(f, e)
          fell == r.state = "ERROR_RESET" /\ f.state # "ERROR_RESET"
      IN  /\ r.state # f.state => r.state = "ERROR_RESET" \/ <<f.state, r.state>> \in Climb
          /\ fell => ~r.gotNull
          /\ ~fell => (r.gotNull <=> f.gotNull \/ e = "GOT_NULL")
          /\ f.state = "ERROR_RESET" /\ r.state # f.state => e = "TICK_6_4US"
          /\ f.state = "ERROR_WAIT" /\ r.state # f.state /\ ~fell => e = "TICK_12_8US"
          /\ r.state = "CONNECTING" /\ f.state # "CONNECTING" => r.gotNull
  BY LinkFields, FeedEffect
<1>3. /\ s = "ERROR_RESET" => t = s
      /\ s = "ERROR_WAIT" => t = s \/ t = "ERROR_RESET"
      /\ t # s => t = "ERROR_RESET" \/ <<s, t>> \in Climb
      /\ t # "ERROR_RESET" \/ s = "ERROR_RESET" =>
           (m.fsm.gotNull <=> l.fsm.gotNull \/ e = "GOT_NULL")
      /\ t = "ERROR_RESET" /\ s # "ERROR_RESET" => ~m.fsm.gotNull
      /\ t = "CONNECTING" /\ s # "CONNECTING" => m.fsm.gotNull
  BY <1>1, <1>2
<1> HIDE DEF m
<1>4. e # "GOT_NULL" => NoNull(l, m)
  BY <1>3 DEF NoNull
<1>5. t \in {"ERROR_WAIT", "READY"} => t = s
  BY <1>3 DEF Climb
<1>6. Heard(l) => Heard(m)
  BY <1>3 DEF Heard, Climb
<1>7. Untimed(l, m)
  BY <1>1, <1>3, <1>5, <1>6 DEF Untimed
<1> QED
  BY <1>4, <1>7 DEF m

\* every character the parser hands on,
LEMMA DispatchUntimed ==
  ASSUME NEW l, OpenInv(l), NEW char \in RxChar
  PROVE  Untimed(l, Dispatch(l, char))
<1>1. \A k : OpenInv(k) => k \in LinkRecord
  BY DEF OpenInv, Accounted
<1>2. \A k : OpenInv(k) => /\ Untimed(k, FeedFsm(k, "RX_ERR"))
                           /\ Untimed(k, FeedFsm(k, "GOT_NULL"))
                           /\ Untimed(k, FeedFsm(k, "GOT_TIME_CODE"))
                           /\ Untimed(k, FeedFsm(k, "GOT_FCT"))
                           /\ Untimed(k, FeedFsm(k, "GOT_N_CHAR"))
                           /\ Untimed(k, FeedFsm(k, "CREDIT_ERR"))
  BY <1>1, FeedUntimed DEF Event
<1>3. ASSUME NEW k, OpenInv(k)
      PROVE  Untimed(k, OnRxFct(k))
  <2>1. CASE FctOverflows(k.credit)
    BY <1>2, <1>3, <2>1 DEF OnRxFct
  <2>2. CASE ~FctOverflows(k.credit)
    BY <1>1, <1>3, <2>2, OnRxFctFields, SameFsmUntimed DEF SameFsm
  <2> QED
    BY <2>1, <2>2
<1>4. ASSUME NEW k, OpenInv(k), char \in NChar
      PROVE  Untimed(k, OnRxNChar(k, char))
  <2>1. CASE k.fsm.state # "RUN"
    BY <2>1, SameFsmUntimed DEF OnRxNChar, SameFsm
  <2>2. CASE k.fsm.state = "RUN" /\ NCharUnderflows(k.credit)
    <3>1. OnRxNChar(k, char) = FeedFsm(k, "CREDIT_ERR")
      BY <2>2 DEF OnRxNChar
    <3> QED
      BY <1>2, <1>4, <3>1
  <2>3. CASE k.fsm.state = "RUN" /\ ~NCharUnderflows(k.credit)
    BY <1>1, <1>4, <2>3, OnRxNCharFields, SameFsmUntimed DEF SameFsm
  <2> QED
    BY <2>1, <2>2, <2>3
<1>5. CASE char \in NChar
  <2>1. Dispatch(l, char) = OnRxNChar(FeedFsm(l, "GOT_N_CHAR"), char)
    BY <1>5, CharactersDiffer DEF Dispatch
  <2>2. OpenInv(FeedFsm(l, "GOT_N_CHAR"))
    BY FeedFsmKeeps DEF Event
  <2> QED
    BY <1>2, <1>4, <1>5, <2>1, <2>2, UntimedTransitive
<1>6. CASE char = "FCT"
  <2>1. Dispatch(l, char) = OnRxFct(FeedFsm(l, "GOT_FCT"))
    BY <1>6 DEF Dispatch
  <2>2. OpenInv(FeedFsm(l, "GOT_FCT"))
    BY FeedFsmKeeps DEF Event
  <2> QED
    BY <1>2, <1>3, <2>1, <2>2, UntimedTransitive
<1>7. CASE char \in {"NULL", "TIMECODE", "ERROR"}
  BY <1>2, <1>7 DEF Dispatch
<1> QED
  BY <1>5, <1>6, <1>7 DEF RxChar

\* and every pass of the TX loop.  It leaves the machine alone when it was parked, and
\* parks exactly in the states in which nothing is sent.
LEMMA TxResumeUntimed ==
  ASSUME NEW l, OpenInv(l)
  PROVE  LET m == TxResume(l)
         IN  /\ Untimed(l, m) /\ NoNull(l, m)
             /\ l.txTask = "PARKED" => SameFsm(l, m)
             /\ m.txTask = "PARKED" <=> TxModeOf(m.fsm) = "RESET"
             /\ m.txTask = "PARKED" => ~m.wakeup
<1> DEFINE k == IF l.txTask = "PARKED" THEN l ELSE CharDriven(l)
           m == TxLoopTop(k)
<1>1. TxResume(l) = m
  BY DEF TxResume
<1>2. l \in LinkRecord
  BY DEF OpenInv, Accounted
<1>3. k \in LinkRecord /\ Untimed(l, k) /\ NoNull(l, k)
  <2>1. CASE l.txTask = "PARKED"
    BY <1>2, <2>1, SameFsmUntimed DEF SameFsm
  <2>2. CASE l.txTask \in {"NULL", "FCT"}
    <3>1. PICK e \in {"SENT_NULL", "SENT_FCT"} : k = FeedFsm(l, e)
      BY <2>2 DEF CharDriven
    <3>2. e \in Event \ {"TICK_6_4US", "TICK_12_8US"} /\ e # "GOT_NULL"
      BY DEF Event
    <3> HIDE DEF k
    <3> QED
      BY <1>2, <3>1, <3>2, FeedUntimed, FeedFsmFields
  <2>3. CASE l.txTask \in NChar
    <3>1. l.outstanding > 0 /\ l.txTask # "PARKED"
      <4>1. Held(l) = 1 /\ Len(l.txq) \in Nat
        BY <1>2, <2>3, LinkFields DEF Held
      <4>2. l.outstanding = Len(l.txq) + Held(l) + 0
        BY DEF OpenInv, Accounted
      <4> QED
        BY <2>3, <4>1, <4>2, CharactersDiffer
    <3> QED
      BY <1>2, <2>3, <3>1, NCharDrivenFields, SameFsmUntimed DEF SameFsm
  <2>4. l.txTask \in {"PARKED", "NULL", "FCT"} \cup NChar
    BY <1>2, LinkFields
  <2> HIDE DEF k
  <2> QED
    BY <2>1, <2>2, <2>3, <2>4
<1>4. /\ SameFsm(k, m)
      /\ m.txTask = "PARKED" <=> TxModeOf(k.fsm) = "RESET"
  BY <1>3, TxLoopTopFields DEF SameFsm
<1>5. TxModeOf(k.fsm) = "RESET" => ~m.wakeup
  BY <1>3, Parks DEF TxLoopTop
<1>6. l.txTask = "PARKED" => k = l
  OBVIOUS
<1> HIDE DEF k, m
<1>7. Untimed(l, m) /\ NoNull(l, m)
  BY <1>3, <1>4, SameFsmUntimed, UntimedTransitive DEF NoNull
<1> QED
  BY <1>1, <1>4, <1>5, <1>6, <1>7 DEF SameFsm

\* The tick of the 6.4 us leads to ErrorWait, or leaves ErrorReset without a timer; that
\* of the 12.8 us ends its state.
LEMMA TimerExpiredMoves ==
  ASSUME NEW l, OpenInv(l), l.timer # "off"
  PROVE  LET m == TimerExpired(l)
         IN  /\ NoNull(l, m) /\ (Heard(l) => Heard(m))
             /\ l.timer = "6.4us" =>
                  /\ l.fsm.state = "ERROR_RESET"
                  /\ \/ m.fsm.state = "ERROR_WAIT"
                     \/ m.fsm.state = "ERROR_RESET" /\ m.timer = "off"
             /\ l.timer = "12.8us" =>
                  /\ l.fsm.state # "ERROR_RESET"
                  /\ m.fsm.state # l.fsm.state /\ m.fsm.state # "ERROR_WAIT"
                  /\ m.fsm.state = "ERROR_RESET" => m.timer = "6.4us"
                  /\ m.fsm.state = "READY" => l.fsm.state = "ERROR_WAIT"
<1> DEFINE k == [l EXCEPT !.timer = "off"]
           e == IF l.timer = "6.4us" THEN "TICK_6_4US" ELSE "TICK_12_8US"
           m == FeedFsm(k, e)
           s == l.fsm.state
           t == m.fsm.state
<1>1. /\ l \in LinkRecord /\ l.fsm \in FsmRecord /\ s \in State
      /\ l.timer \in {"6.4us", "12.8us"}
  BY LinkFields DEF OpenInv, Accounted
<1>2. k \in LinkRecord /\ k.fsm = l.fsm /\ k.timer = "off"
  BY <1>1, TimerOff DEF SameQueue
<1>3. TimerExpired(l) = m /\ e \in Event
  BY DEF TimerExpired, Event
<1>4. /\ l.timer = "6.4us" => s = "ERROR_RESET" /\ e = "TICK_6_4US"
      /\ l.timer = "12.8us" => s \in {"ERROR_WAIT", "STARTED", "CONNECTING"} /\ e = "TICK_12_8US"
  BY <1>1 DEF OpenInv, Timed, State
<1> HIDE DEF k, e
<1>5. /\ m.fsm = Feed(l.fsm, e)
      /\ t = s => m.timer = "off"
      /\ t # s => m.timer = CASE t = "ERROR_RESET" -> "6.4us"
                              [] t \in {"ERROR_WAIT", "STARTED", "CONNECTING"} -> "12.8us"
                              [] OTHER -> "off"
  BY <1>2, <1>3, FeedFsmFields
<1>6. LET f == l.fsm
          r == Feed(f, e)
          fell == r.state = "ERROR_RESET" /\ f.state # "ERROR_RESET"
      IN  /\ r.state # f.state => r.state = "ERROR_RESET" \/ <<f.state, r.state>> \in Climb
          /\ fell => ~r.gotNull
          /\ ~fell => (r.gotNull <=> f.gotNull \/ e = "GOT_NULL")
          /\ r.state = "CONNECTING" /\ f.state # "CONNECTING" => r.gotNull
  BY <1>1, <1>3, FeedEffect
<1>7. l.timer = "12.8us" => t # s
  BY <1>1, <1>4, <1>5, TickMoves
<1>8. e # "GOT_NULL"
  BY DEF e
<1> HIDE DEF m
<1>9. /\ t # s => t = "ERROR_RESET" \/ <<s, t>> \in Climb
      /\ m.fsm.gotNull => l.fsm.gotNull /\ (t = "ERROR_RESET" => s = "ERROR_RESET")
      /\ t # "ERROR_RESET" => (m.fsm.gotNull <=> l.fsm.gotNull)
      /\ t = "CONNECTING" /\ s # "CONNECTING" => m.fsm.gotNull
  BY <1>5, <1>6, <1>8
<1>10. NoNull(l, m) /\ (Heard(l) => Heard(m))
  BY <1>9 DEF NoNull, Heard, Climb
<1>11. CASE l.timer = "6.4us"
  BY <1>4, <1>5, <1>9, <1>10, <1>11, <1>3 DEF Climb
<1>12. CASE l.timer = "12.8us"
  BY <1>4, <1>5, <1>7, <1>9, <1>10, <1>12, <1>3 DEF Climb
<1> QED
  BY <1>1, <1>11, <1>12

-----------------------------------------------------------------------------
\* The record of an end,
EncoderRecord == [prev : Seq(Bit), bad : SUBSET Nat]

EndRecord == [link : LinkRecord, enc : EncoderRecord, dec : DecoderRecord,
              bits : Seq(Bit), left : Nat, silent : Nat]

\* and what is always so of it: the driver has bits exactly when the TX loop waits for
\* them, no more than those of a character, and a parked loop has nothing to do.
Sound(e) == e \in EndRecord /\ OpenInv(e.link) /\ Heard(e.link)

EndInv(e) ==
  /\ Sound(e)
  /\ Len(e.bits) <= 14
  /\ e.bits = <<>> <=> e.link.txTask = "PARKED"
  /\ e.link.txTask = "PARKED" => ~e.link.wakeup

\* A change of state between e and f arms the timer; without one it runs on.
Paced(e, f) ==
  /\ f.link.fsm.state = e.link.fsm.state /\ f.link.timer # "off" => f.left = e.left
  /\ f.link.fsm.state # e.link.fsm.state => f.left >= TicksOf(f.link.timer)

\* An end in a state that does not transmit keeps what bits it has.
Follows(e, f) ==
  /\ EndInv(f)
  /\ Paced(e, f)
  /\ TxModeOf(f.link.fsm) = "RESET" => f.bits = e.bits

\* The fields of an end,
LEMMA SoundFields ==
  ASSUME NEW e, Sound(e)
  PROVE  /\ e.link \in LinkRecord /\ e.link.fsm.state \in State
         /\ e.link.timer \in {"6.4us", "12.8us", "off"}
         /\ e.link.txTask \in {"PARKED", "NULL", "FCT"} \cup NChar
         /\ e.enc \in EncoderRecord /\ e.dec \in DecoderRecord
         /\ e.bits \in Seq(Bit) /\ e.left \in Nat /\ e.silent \in Nat
BY LinkFields DEF Sound, EndRecord

\* and how long its timers run.
LEMMA TicksAreNat ==
  ASSUME NEW timer \in {"6.4us", "12.8us", "off"}
  PROVE  TicksOf(timer) \in Nat
BY DEF TicksOf

\* What the state-change hook leaves in an end, field by field.
LEMMA AfterFields ==
  ASSUME NEW e \in EndRecord, NEW l \in LinkRecord
  PROVE  LET f == After(e, l)
         IN  /\ f \in EndRecord /\ f.link = l /\ f.bits = e.bits /\ f.silent = e.silent
             /\ Paced(e, f)
<1> DEFINE changed == l.fsm.state # e.link.fsm.state
           reset   == changed /\ l.fsm.state = "ERROR_RESET"
           left == IF changed THEN TicksOf(l.timer) ELSE IF l.timer = "off" THEN 0 ELSE e.left
           enc == IF reset THEN NewEncoder ELSE e.enc
           dec == IF reset THEN ResetDecoder(e.dec) ELSE e.dec
           f == After(e, l)
<1>1. TicksOf(l.timer) \in Nat /\ e.left \in Nat
  BY LinkFields, TicksAreNat DEF EndRecord
<1>2. <<>> \in Seq(Bit)
  OBVIOUS
<1>3. enc \in EncoderRecord
  BY <1>2 DEF NewEncoder, EncoderRecord, EndRecord
<1>4. dec \in DecoderRecord
  BY <1>2 DEF ResetDecoder, NewDecoder, DecoderRecord, EndRecord
<1>5. left \in Nat
  BY <1>1
<1>6. f = [e EXCEPT !.link = l, !.left = left, !.enc = enc, !.dec = dec]
  BY DEF After, EndRecord
<1> HIDE DEF left, enc, dec, f
<1>7. /\ f \in EndRecord /\ f.link = l /\ f.bits = e.bits /\ f.silent = e.silent
      /\ f.left = left
  BY <1>3, <1>4, <1>5, <1>6 DEF EndRecord
<1>8. Paced(e, f)
  BY <1>1, <1>7 DEF Paced, left
<1> QED
  BY <1>7, <1>8 DEF f

\* The driver is given the bits of one character: those of two primitives at most.
LEMMA CharacterBits ==
  ASSUME NEW enc \in EncoderRecord, NEW char \in {"NULL", "FCT"} \cup NChar
  PROVE  LET coded == Encode(enc, RequestOf(char))
         IN  /\ coded.enc \in EncoderRecord
             /\ coded.bits \in Seq(Bit) /\ coded.bits # <<>> /\ Len(coded.bits) <= 14
<1> DEFINE r == RequestOf(char)
           coded == Encode(enc, r)
<1>1. DOMAIN Byte = NChar \ {"EOP", "EEP"} /\ \A c \in DOMAIN Byte : Byte[c] \in 0 .. 255
  BY TimedConstants
<1>2. r \in Request /\ r.type \in {"NULL", "FCT", "DATA", "EOP", "EEP"}
  <2>1. CASE char \in DOMAIN Byte
    BY <1>1, <2>1 DEF RequestOf, Request, CharType
  <2>2. CASE char \notin DOMAIN Byte
    <3>1. char \in {"NULL", "FCT", "EOP", "EEP"}
      BY <1>1, <2>2
    <3> QED
      BY <2>2, <3>1 DEF RequestOf, Request, CharType, ControlType, NoValue
  <2> QED
    BY <2>1, <2>2
<1> HIDE DEF r
<1>3. Chain(enc)
  BY DEF Chain, EncoderRecord
<1>4. /\ Chain(coded.enc)
      /\ r.type \in ControlType \cup {"DATA"} => Whole(coded.bits)
      /\ r.type = "NULL" => Escaped(coded.bits, "FCT")
  BY <1>2, <1>3, EncodedBits
<1>5. coded.bits \in Seq(Bit) /\ Len(coded.bits) \in {4, 8, 10}
  <2>1. CASE r.type = "NULL"
    <3>1. PICK v, w : WholeEscape(v) /\ Whole(w) /\ PrimitiveType(w) = "FCT" /\ coded.bits = v \o w
      BY <1>4, <2>1 DEF Escaped
    <3>2. v \in Seq(Bit) /\ Len(v) = 4
      BY <3>1 DEF WholeEscape, Whole
    <3>3. w \in Seq(Bit) /\ Len(w) = 4
      BY <3>1, TypeOfWhole DEF Whole
    <3>4. v \o w \in Seq(Bit) /\ Len(v \o w) = Len(v) + Len(w)
      BY <3>2, <3>3, ConcatProperties, Zenon
    <3> HIDE DEF coded
    <3> QED
      BY <3>1, <3>2, <3>3, <3>4
  <2>2. CASE r.type # "NULL"
    BY <1>2, <1>4, <2>2, TypeOfWhole DEF ControlType, Whole
  <2> QED
    BY <2>1, <2>2
<1>6. coded.enc \in EncoderRecord
  <2>1. \E x, y : coded.enc = [prev |-> x, bad |-> {o - 1 : o \in y \ {0}}] /\ y \in SUBSET Nat
    <3> DEFINE ps == Primitives(r)
               mid == AfterPrimitive(enc, ps[1])
    <3>1. enc.bad \in SUBSET Nat
      BY DEF EncoderRecord
    <3>2. mid = [prev |-> ps[1].content, bad |-> {o - 1 : o \in enc.bad \ {0}}]
      BY DEF AfterPrimitive
    <3>3. mid.bad \in SUBSET Nat
      BY <3>1, <3>2
    <3>4. AfterPrimitive(mid, ps[2]) = [prev |-> ps[2].content, bad |-> {o - 1 : o \in mid.bad \ {0}}]
      BY DEF AfterPrimitive
    <3>5. coded.enc = mid \/ coded.enc = AfterPrimitive(mid, ps[2])
      BY DEF Encode
    <3> HIDE DEF mid, ps, coded
    <3> QED
      BY <3>1, <3>2, <3>3, <3>4, <3>5
  <2>2. PICK x, y : coded.enc = [prev |-> x, bad |-> {o - 1 : o \in y \ {0}}] /\ y \in SUBSET Nat
    BY <2>1
  <2>3. x \in Seq(Bit)
    BY <1>4, <2>2 DEF Chain
  <2> HIDE DEF coded
  <2> QED
    BY <2>2, <2>3 DEF EncoderRecord
<1> HIDE DEF coded
<1>7. coded.bits # <<>> /\ Len(coded.bits) <= 14
  <2>1. Len(<<>>) = 0 /\ \A n \in {4, 8, 10} : n # 0 /\ n <= 14
    OBVIOUS
  <2>2. Len(coded.bits) # 0 /\ Len(coded.bits) <= 14
    BY <1>5, <2>1, Zenon
  <2> QED
    BY <2>1, <2>2, Zenon
<1> QED
  BY <1>5, <1>6, <1>7 DEF coded, r

\* The TX loop resumes with nothing left to drive.
LEMMA ResumeEnd ==
  ASSUME NEW e, Sound(e), e.bits = <<>>
  PROVE  LET f == Resume(e)
         IN  /\ Follows(e, f) /\ f.silent = e.silent
             /\ Untimed(e.link, f.link) /\ NoNull(e.link, f.link)
             /\ e.link.txTask = "PARKED" => SameFsm(e.link, f.link)
<1> DEFINE m == TxResume(e.link)
           a == After(e, m)
           coded == Encode(a.enc, RequestOf(a.link.txTask))
           f == Resume(e)
<1>1. OpenInv(e.link) /\ Heard(e.link) /\ e \in EndRecord
  BY DEF Sound
<1>2. /\ Untimed(e.link, m) /\ NoNull(e.link, m)
      /\ e.link.txTask = "PARKED" => SameFsm(e.link, m)
      /\ m.txTask = "PARKED" <=> TxModeOf(m.fsm) = "RESET"
      /\ m.txTask = "PARKED" => ~m.wakeup
  BY <1>1, TxResumeUntimed
<1>3. OpenInv(m) /\ m \in LinkRecord
  BY <1>1, TxResumeKeeps DEF OpenInv, Accounted
<1>4. Heard(m)
  BY <1>1, <1>2 DEF Untimed
<1> HIDE DEF m
<1>5. /\ a \in EndRecord /\ a.link = m /\ a.bits = <<>> /\ a.silent = e.silent
      /\ Paced(e, a)
  BY <1>1, <1>3, AfterFields
<1>6. f = IF a.link.txTask = "PARKED" THEN a ELSE [a EXCEPT !.bits = coded.bits, !.enc = coded.enc]
  BY DEF Resume, DriveChar, Load, a, m
<1> HIDE DEF a
<1>7. m.txTask # "PARKED" => /\ coded.enc \in EncoderRecord
                             /\ coded.bits \in Seq(Bit) /\ coded.bits # <<>>
                             /\ Len(coded.bits) <= 14
  BY <1>3, <1>5, LinkFields, CharacterBits DEF EndRecord
<1> HIDE DEF coded, f
<1>8. CASE m.txTask = "PARKED"
  <2>1. f = a /\ Len(a.bits) <= 14
    BY <1>5, <1>6, <1>8
  <2>2. EndInv(a)
    BY <1>2, <1>3, <1>4, <1>5, <1>8, <2>1 DEF EndInv, Sound
  <2> QED
    BY <1>2, <1>5, <1>8, <2>1, <2>2 DEF Follows, f
<1>9. CASE m.txTask # "PARKED"
  <2>1. /\ f \in EndRecord /\ f.link = m /\ f.bits = coded.bits /\ f.silent = e.silent
        /\ f.left = a.left
    BY <1>5, <1>6, <1>7, <1>9 DEF EndRecord
  <2>2. EndInv(f)
    BY <1>2, <1>3, <1>4, <1>7, <1>9, <2>1 DEF EndInv, Sound
  <2>3. Paced(e, f)
    BY <1>5, <2>1 DEF Paced
  <2> QED
    BY <1>2, <1>9, <2>1, <2>2, <2>3 DEF Follows, f
<1> QED
  BY <1>8, <1>9

\* What is heard, or a timer, or the watchdog has made l of the link of e; the TX loop
\* runs at once if that has woken it.
LEMMA SettleEnd ==
  ASSUME NEW e, EndInv(e), NEW l, OpenInv(l), Heard(l), l.txTask = e.link.txTask
  PROVE  LET f == Settle(After(e, l))
         IN  /\ Follows(e, f) /\ f.silent = e.silent
             /\ SameFsm(l, f.link)
<1> DEFINE a == After(e, l)
           f == Settle(a)
<1>1. l \in LinkRecord /\ e \in EndRecord
  BY DEF OpenInv, Accounted, EndInv, Sound
<1>2. /\ a \in EndRecord /\ a.link = l /\ a.bits = e.bits /\ a.silent = e.silent
      /\ Paced(e, a)
  BY <1>1, AfterFields
<1> HIDE DEF a
<1>3. Sound(a) /\ Len(a.bits) <= 14 /\ (a.bits = <<>> <=> a.link.txTask = "PARKED")
  BY <1>2 DEF Sound, EndInv
<1>4. CASE l.txTask = "PARKED" /\ l.wakeup
  <2>1. f = Resume(a) /\ a.bits = <<>>
    BY <1>2, <1>3, <1>4 DEF Settle
  <2>2. /\ Follows(a, f) /\ f.silent = a.silent
        /\ SameFsm(a.link, f.link)
    BY <1>2, <1>3, <1>4, <2>1, ResumeEnd
  <2> HIDE DEF f
  <2>3. EndInv(f) /\ Paced(a, f) /\ (TxModeOf(f.link.fsm) = "RESET" => f.bits = a.bits)
    BY <2>2 DEF Follows
  <2>4. f.left \in Nat /\ a.left \in Nat /\ TicksOf("off") = 0
    BY <1>3, <2>3, SoundFields DEF EndInv, TicksOf
  <2>5. Paced(e, f)
    BY <1>2, <2>2, <2>3, <2>4 DEF Paced, SameFsm
  <2> QED
    BY <1>2, <2>2, <2>3, <2>5 DEF Follows, f, a
<1>5. CASE ~(l.txTask = "PARKED" /\ l.wakeup)
  <2>1. f = a
    BY <1>2, <1>5 DEF Settle
  <2>2. EndInv(a)
    BY <1>2, <1>3, <1>5 DEF EndInv
  <2> QED
    BY <1>2, <2>1, <2>2 DEF Follows, SameFsm, a
<1> QED
  BY <1>4, <1>5 DEF a

\* What the decoder hands out is a character of the link: never a bare ESC.
LEMMA DecodedType ==
  ASSUME NEW d \in DecoderRecord, NEW bit \in Bit, FeedBit(d, bit).chars # <<>>
  PROVE  Decoded(FeedBit(d, bit).chars[1]) \in RxChar
<1> DEFINE raw == Append(d.buffer, bit)
           t == PrimitiveType(raw)
           c == FeedBit(d, bit).chars[1]
<1>1. Whole(raw) /\ FeedBit(d, bit).chars = Resolve(d, raw)
  BY FeedBitEffect
<1>2. t \in {"FCT", "EOP", "EEP", "ESC", "DATA"}
  BY <1>1, TypeOfWhole DEF ControlType
<1> HIDE DEF raw
<1>3. \/ c.type \in {"FCT", "NULL", "TIMECODE", "BROADCAST", "DATA"} \cup {"EOP", "EEP"}
      \/ "escape_error" \in c.errors
  <2>1. CASE ~d.pending
    <3>1. t # "ESC"
      BY <1>1, <2>1 DEF Resolve
    <3>2. c.type = t
      BY <1>1, <2>1, <3>1 DEF Resolve
    <3> QED
      BY <1>2, <3>1, <3>2
  <2>2. CASE d.pending
    <3>1. c.type = EscapedType(raw) /\ EscapedErrors(raw) \subseteq c.errors
      BY <1>1, <2>2 DEF Resolve
    <3>2. CASE t \in {"FCT", "DATA"}
      BY <3>1, <3>2 DEF EscapedType
    <3>3. CASE t \notin {"FCT", "DATA"}
      BY <3>1, <3>3 DEF EscapedErrors
    <3> QED
      BY <3>2, <3>3
  <2> QED
    BY <2>1, <2>2
<1> HIDE DEF c
<1>4. DataChar(c.value) \in NChar
  <2> DEFINE named == {x \in DOMAIN Byte : Byte[x] = c.value}
  <2>1. DOMAIN Byte \subseteq NChar /\ Garbage \in NChar
    BY TimedConstants
  <2>2. named # {} => (CHOOSE x \in named : TRUE) \in named
    OBVIOUS
  <2>3. DataChar(c.value) = IF named = {} THEN Garbage ELSE CHOOSE x \in named : TRUE
    BY DEF DataChar
  <2> QED
    BY <2>1, <2>2, <2>3
<1>5. "EOP" \in NChar /\ "EEP" \in NChar
  BY TimedConstants, CharacterConstants
<1>6. CASE IsHardError(c)
  <2>1. EventOf(c) = "RX_ERR"
    BY <1>6 DEF EventOf
  <2> QED
    BY <2>1 DEF Decoded, RxChar, c
<1>7. CASE ~IsHardError(c)
  <2>1. c.type \in {"FCT", "NULL", "TIMECODE", "BROADCAST", "DATA", "EOP", "EEP"}
    BY <1>3, <1>7 DEF IsHardError
  <2>2. CASE c.type \in {"TIMECODE", "BROADCAST"}
    <3>1. EventOf(c) = "GOT_TIME_CODE"
      BY <1>7, <2>2 DEF EventOf
    <3> QED
      BY <3>1 DEF Decoded, RxChar, c
  <2>3. CASE c.type \notin {"TIMECODE", "BROADCAST"}
    <3>1. EventOf(c) \notin {"RX_ERR", "GOT_TIME_CODE"}
      BY <1>7, <2>1, <2>3 DEF EventOf
    <3>2. Decoded(c) = IF c.type = "DATA" THEN DataChar(c.value) ELSE c.type
      BY <3>1 DEF Decoded
    <3> QED
      BY <1>4, <1>5, <2>1, <2>3, <3>2 DEF RxChar, c
  <2> QED
    BY <2>2, <2>3
<1> QED
  BY <1>6, <1>7

\* The same with the same bits, timer and silence.
LEMMA HearEnd ==
  ASSUME NEW e, EndInv(e), NEW bit \in Bit, NEW f \in Hear(e, bit)
  PROVE  /\ Follows(e, f) /\ f.silent = 0
         /\ Untimed(e.link, f.link)
<1> DEFINE fed == FeedBit(e.dec, bit)
           next == [e EXCEPT !.dec = fed.dec, !.silent = 0]
           m == Dispatch(e.link, Decoded(fed.chars[1]))
           g == Settle(After(next, m))
<1>1. e \in EndRecord /\ OpenInv(e.link) /\ Heard(e.link) /\ e.dec \in DecoderRecord
  BY DEF EndInv, Sound, EndRecord
<1>2. fed.dec \in DecoderRecord
  BY <1>1, FeedBitEffect
<1>3. f \in IF fed.chars = <<>> THEN {next} ELSE Rounded(g, e.link.fsm.state)
  BY DEF Hear, Parsed
<1>4. fed.chars # <<>> => Decoded(fed.chars[1]) \in RxChar
  BY <1>1, DecodedType
<1> HIDE DEF fed
<1>5. /\ next \in EndRecord /\ next.link = e.link /\ next.bits = e.bits
      /\ next.left = e.left /\ next.silent = 0
  BY <1>1, <1>2 DEF EndRecord
<1> HIDE DEF next
<1>6. EndInv(next)
  BY <1>1, <1>5 DEF EndInv, Sound
<1>7. CASE fed.chars = <<>>
  <2>1. f = next
    BY <1>3, <1>7
  <2>2. Paced(e, next) /\ SameFsm(e.link, next.link)
    BY <1>5 DEF Paced, SameFsm
  <2> QED
    BY <1>5, <1>6, <2>1, <2>2, SameFsmUntimed DEF Follows
<1>8. CASE fed.chars # <<>>
  <2>1. /\ OpenInv(m) /\ Untimed(e.link, m) /\ m.txTask = e.link.txTask
    BY <1>1, <1>4, <1>8, DispatchKeeps, DispatchUntimed, DispatchQueue DEF SameQueue, OpenInv, Accounted
  <2>2. Heard(m)
    BY <1>1, <2>1 DEF Untimed
  <2> HIDE DEF m
  <2>3. Follows(next, g) /\ g.silent = 0 /\ SameFsm(m, g.link)
    BY <1>5, <1>6, <2>1, <2>2, SettleEnd
  <2>4. Untimed(e.link, g.link)
    BY <2>1, <2>3, SameFsmUntimed, UntimedTransitive
  <2> HIDE DEF g
  <2>5. /\ EndInv(g)
        /\ g.link.fsm.state = e.link.fsm.state /\ g.link.timer # "off" => g.left = e.left
        /\ g.link.fsm.state # e.link.fsm.state => g.left >= TicksOf(g.link.timer)
        /\ TxModeOf(g.link.fsm) = "RESET" => g.bits = e.bits
    BY <1>5, <2>3 DEF Follows, Paced
  <2>6. PICK r \in {0, 1} : \/ f = g
                            \/ /\ g.link.fsm.state # e.link.fsm.state
                               /\ f = [g EXCEPT !.left = g.left + r]
    BY <1>3, <1>8, TimedConstants DEF Rounded
  <2>7. CASE f = g
    BY <2>3, <2>4, <2>5, <2>7 DEF Follows, Paced
  <2>8. CASE g.link.fsm.state # e.link.fsm.state /\ f = [g EXCEPT !.left = g.left + r]
    <3>1. /\ g \in EndRecord /\ g.left \in Nat /\ g.left + r \in Nat /\ g.left + r >= g.left
          /\ TicksOf(g.link.timer) \in Nat
      BY <2>5, SoundFields, TicksAreNat DEF EndInv, Sound
    <3>2. /\ f \in EndRecord /\ f.link = g.link /\ f.bits = g.bits /\ f.silent = g.silent
          /\ f.left = g.left + r
      BY <2>8, <3>1 DEF EndRecord
    <3>3. EndInv(f)
      BY <2>5, <3>2 DEF EndInv, Sound
    <3>4. f.left >= TicksOf(f.link.timer)
      BY <2>5, <2>8, <3>1, <3>2
    <3>5. Paced(e, f)
      BY <2>8, <3>2, <3>4 DEF Paced
    <3> QED
      BY <2>3, <2>4, <2>5, <3>2, <3>3, <3>5 DEF Follows
  <2> QED
    BY <2>6, <2>7, <2>8
<1> QED
  BY <1>7, <1>8

\* recv_packet() takes what has come.
LEMMA CollectEnd ==
  ASSUME NEW e, EndInv(e)
  PROVE  LET f == [e EXCEPT !.link = Collect(@)]
         IN  /\ EndInv(f) /\ f.bits = e.bits /\ f.left = e.left /\ f.silent = e.silent
             /\ SameFsm(e.link, f.link)
<1> DEFINE m == Collect(e.link)
           f == [e EXCEPT !.link = m]
<1>1. e \in EndRecord /\ OpenInv(e.link) /\ Heard(e.link) /\ e.link \in LinkRecord
  BY DEF EndInv, Sound, EndRecord
<1>2. /\ SameQueue(e.link, m)
      /\ m.fsm = e.link.fsm /\ m.timer = e.link.timer /\ m.rate = e.link.rate
      /\ m.wakeup = e.link.wakeup /\ m.credit = e.link.credit
  BY <1>1, CollectFields
<1> HIDE DEF m
<1>3. OpenInv(m) /\ Heard(m) /\ m \in LinkRecord /\ m.txTask = e.link.txTask
  <2>1. Accounted(m, 0)
    BY <1>1, <1>2, SameQueueAccounted DEF OpenInv
  <2> QED
    BY <1>1, <1>2, <2>1 DEF OpenInv, Awake, Timed, Granted, Heard, SameQueue
<1>4. /\ f \in EndRecord /\ f.link = m /\ f.bits = e.bits /\ f.left = e.left
      /\ f.silent = e.silent
  BY <1>1, <1>3 DEF EndRecord
<1>5. f = [e EXCEPT !.link = Collect(@)]
  BY <1>1 DEF m, EndRecord
<1> HIDE DEF f
<1>6. EndInv(f)
  BY <1>2, <1>3, <1>4 DEF EndInv, Sound
<1> QED
  BY <1>2, <1>4, <1>5, <1>6 DEF SameFsm

-----------------------------------------------------------------------------
\* ErrorReset on its timer, and a state that waits for the other end to be silent.
Armed(l) == l.fsm.state = "ERROR_RESET" /\ l.timer = "6.4us"

Quiet(l) == \/ l.fsm.state \in {"ERROR_WAIT", "READY"}
            \/ l.fsm.state = "ERROR_RESET" /\ l.timer = "off"

One(b) == IF b THEN 1 ELSE 0

\* What holds of an end e whose watchdog needs n polls, against the other end f whose
\* watchdog needs m: mine says whether it is the instant of e, driv whether its driver
\* has driven its bit of it.  The 64 ticks of ErrorReset outlast the 14 bits of the longest
\* character by 49 and more, time enough for the other end to notice the silence; once
\* it has, only an end in ErrorReset or at the beginning of ErrorWait has heard a NULL.
Half(e, f, n, m, mine, driv) ==
  /\ e.silent <= n
  /\ Armed(e.link) /\ e.bits # <<>> => e.left + One(mine /\ ~driv) >= 49 + Len(e.bits)
  /\ Armed(e.link) => \/ ~f.link.fsm.gotNull \/ f.silent = m
                      \/ e.left + f.silent + One(mine) >= 50
  /\ WatchdogSees(e.link) /\ e.silent = n => mine
  /\ Quiet(e.link) => e.bits = <<>> /\ (~f.link.fsm.gotNull \/ f.silent = m)
  /\ Quiet(e.link) /\ f.link.fsm.gotNull =>
       \/ f.link.fsm.state = "ERROR_RESET"
       \/ f.link.fsm.state = "ERROR_WAIT" /\ f.left > 0

\* The same of both ends, e being the one whose instant it is.
Halves(e, f, n, m, driv) == Half(e, f, n, m, TRUE, driv) /\ Half(f, e, m, n, FALSE, driv)

\* The inductive invariant of the pair.
PairInv ==
  /\ turn \in End /\ driven \in BOOLEAN /\ wait \in Nat
  /\ ends = [i \in End |-> ends[i]]
  /\ \A i \in End : /\ EndInv(ends[i])
                    /\ ~Running(i) => ~ends[i].link.fsm.gotNull
  /\ Halves(ends[turn], ends[Other(turn)], DisconnectPolls(turn),
            DisconnectPolls(Other(turn)), driven)

\* The numbers of an end.
LEMMA EndNumbers ==
  ASSUME NEW e, EndInv(e)
  PROVE  /\ e.left \in Nat /\ e.silent \in Nat
         /\ Len(e.bits) \in Nat /\ Len(e.bits) <= 14
         /\ e.link.fsm.state = "ERROR_WAIT" => e.link.timer = "12.8us"
         /\ TicksOf("6.4us") = 64 /\ TicksOf("12.8us") = 128
<1>1. Sound(e) /\ Len(e.bits) <= 14 /\ Timed(e.link)
  BY DEF EndInv, Sound, OpenInv
<1>2. e.left \in Nat /\ e.silent \in Nat /\ e.bits \in Seq(Bit)
  BY <1>1, SoundFields
<1>3. Len(e.bits) \in Nat
  BY <1>2, LenProperties, Zenon
<1> QED
  BY <1>1, <1>2, <1>3 DEF Timed, TicksOf

\* Without a tick an end becomes quiet or armed only as it was, or with ErrorReset
\* entered anew.
LEMMA FollowsHalf ==
  ASSUME NEW e, NEW x, EndInv(e), Follows(e, x), Untimed(e.link, x.link)
  PROVE  /\ Quiet(x.link) => Quiet(e.link) /\ x.bits = e.bits
         /\ Armed(x.link) => /\ x.bits = e.bits
                             /\ \/ Armed(e.link) /\ x.left = e.left
                                \/ x.left >= 64
         /\ e.link.fsm.state = "ERROR_RESET" => x.link.fsm.state = "ERROR_RESET"
         /\ e.link.fsm.state = "ERROR_WAIT" /\ e.left > 0 =>
              \/ x.link.fsm.state = "ERROR_RESET"
              \/ x.link.fsm.state = "ERROR_WAIT" /\ x.left > 0
<1>1. EndInv(x) /\ Paced(e, x) /\ (TxModeOf(x.link.fsm) = "RESET" => x.bits = e.bits)
  BY DEF Follows
<1>2. x.link.fsm.state \in {"ERROR_RESET", "ERROR_WAIT", "READY"} => x.bits = e.bits
  BY <1>1 DEF TxModeOf
<1>3. Quiet(x.link) => Quiet(e.link)
  BY DEF Untimed, Quiet
<1>4. Armed(x.link) => (Armed(e.link) /\ x.left = e.left) \/ x.left >= 64
  BY <1>1, EndNumbers DEF Untimed, Armed, Paced
<1>5. x.link.fsm.state = "ERROR_WAIT" => x.left = e.left
  BY <1>1, EndNumbers DEF Untimed, Paced
<1> QED
  BY <1>2, <1>3, <1>4, <1>5 DEF Untimed, Quiet, Armed

\* The polls of the watchdogs, few enough for the 49 ticks.
Polls == {9, 10}

\* The tick of the timer of e.
LEMMA TimerHalves ==
  ASSUME NEW e, NEW f, EndInv(e), EndInv(f), NEW n \in Polls, NEW m \in Polls,
         NEW d \in BOOLEAN, Halves(e, f, n, m, d),
         e.link.timer # "off", e.left = 0
  PROVE  LET x == Settle(After(e, TimerExpired(e.link)))
         IN  EndInv(x) /\ NoNull(e.link, x.link) /\ Halves(x, f, n, m, d)
<1> DEFINE l == TimerExpired(e.link)
           x == Settle(After(e, l))
<1>1. OpenInv(e.link) /\ Heard(e.link) /\ e.link \in LinkRecord
  BY DEF EndInv, Sound, OpenInv, Accounted
<1>2. OpenInv(l) /\ l.txTask = e.link.txTask
  BY <1>1, TimerExpiredKeeps, TimerExpiredQueue DEF SameQueue
<1>3. /\ NoNull(e.link, l) /\ Heard(l)
      /\ e.link.timer = "6.4us" =>
           /\ e.link.fsm.state = "ERROR_RESET"
           /\ \/ l.fsm.state = "ERROR_WAIT"
              \/ l.fsm.state = "ERROR_RESET" /\ l.timer = "off"
      /\ e.link.timer = "12.8us" =>
           /\ e.link.fsm.state # "ERROR_RESET"
           /\ l.fsm.state # e.link.fsm.state /\ l.fsm.state # "ERROR_WAIT"
           /\ l.fsm.state = "ERROR_RESET" => l.timer = "6.4us"
           /\ l.fsm.state = "READY" => e.link.fsm.state = "ERROR_WAIT"
  BY <1>1, TimerExpiredMoves
<1> HIDE DEF l
<1>4. Follows(e, x) /\ x.silent = e.silent /\ SameFsm(l, x.link)
  BY <1>2, <1>3, SettleEnd
<1> HIDE DEF x
<1>5. /\ EndInv(x) /\ Paced(e, x)
      /\ x.link.fsm.state \in {"ERROR_RESET", "ERROR_WAIT", "READY"} => x.bits = e.bits
  BY <1>4 DEF Follows, TxModeOf
<1>6. x.link.fsm = l.fsm /\ x.link.timer = l.timer /\ NoNull(e.link, x.link)
  BY <1>3, <1>4 DEF SameFsm, NoNull
<1>7. e.link.timer \in {"6.4us", "12.8us"}
  BY SoundFields DEF EndInv
<1>8. /\ e.silent \in Nat /\ f.silent \in Nat /\ f.left \in Nat
      /\ Len(e.bits) \in Nat /\ Len(e.bits) <= 14 /\ x.left \in Nat
      /\ x.link.fsm.state = "ERROR_WAIT" => x.link.timer = "12.8us"
      /\ TicksOf("6.4us") = 64 /\ TicksOf("12.8us") = 128
  BY <1>5, EndNumbers
<1>9. Half(e, f, n, m, TRUE, d) /\ Half(f, e, m, n, FALSE, d)
  BY DEF Halves
<1>10. CASE e.link.timer = "6.4us"
  <2>1. Armed(e.link)
    BY <1>3, <1>10 DEF Armed
  <2>2. e.bits = <<>>
    BY <1>8, <1>9, <2>1 DEF Half, One
  <2>3. ~f.link.fsm.gotNull \/ f.silent = m
    BY <1>8, <1>9, <2>1 DEF Half, One, Polls
  <2>4. f.link.fsm.gotNull => f.link.fsm.state = "ERROR_RESET"
    BY <1>9, <2>3 DEF Half, WatchdogSees, RxEnabled
  <2>5. /\ Quiet(x.link) /\ ~Armed(x.link) /\ x.bits = <<>>
        /\ x.link.fsm.state = "ERROR_RESET" \/ x.link.fsm.state = "ERROR_WAIT"
    BY <1>3, <1>5, <1>6, <1>10, <2>2 DEF Quiet, Armed
  <2>6. x.link.fsm.state = "ERROR_WAIT" => x.left > 0
    BY <1>3, <1>5, <1>8, <1>10 DEF Paced
  <2>7. Half(x, f, n, m, TRUE, d)
    BY <1>4, <1>9, <2>3, <2>4, <2>5 DEF Half
  <2>8. Half(f, x, m, n, FALSE, d)
    BY <1>4, <1>6, <1>9, <2>5, <2>6 DEF Half, NoNull
  <2> QED
    BY <1>5, <1>6, <2>7, <2>8 DEF Halves, x, l
<1>11. CASE e.link.timer = "12.8us"
  <2>1. x.link.fsm.state # e.link.fsm.state /\ x.link.fsm.state # "ERROR_WAIT"
    BY <1>3, <1>6, <1>11
  <2>2. Armed(x.link) => x.left >= 64
    BY <1>5, <1>8, <2>1 DEF Paced, Armed
  <2>3. Quiet(x.link) => e.link.fsm.state = "ERROR_WAIT" /\ x.bits = e.bits
    BY <1>3, <1>5, <1>6, <1>11, <2>1 DEF Quiet
  <2>4. Half(x, f, n, m, TRUE, d)
    <3>1. Armed(x.link) => x.bits = e.bits
      BY <1>5 DEF Armed
    <3>2. Armed(x.link) /\ x.bits # <<>> => x.left + One(TRUE /\ ~d) >= 49 + Len(x.bits)
      BY <1>8, <2>2, <3>1 DEF One
    <3>3. Armed(x.link) => x.left + f.silent + One(TRUE) >= 50
      BY <1>8, <2>2 DEF One
    <3>4. Quiet(x.link) => Quiet(e.link)
      BY <2>3 DEF Quiet
    <3> QED
      BY <1>4, <1>9, <2>3, <3>2, <3>3, <3>4 DEF Half
  <2>5. Quiet(f.link) => ~x.link.fsm.gotNull
    BY <1>3, <1>6, <1>9, <1>11, <1>8 DEF Half, NoNull
  <2>6. Half(f, x, m, n, FALSE, d)
    BY <1>4, <1>6, <1>9, <2>5 DEF Half, NoNull
  <2> QED
    BY <1>5, <1>6, <2>4, <2>6 DEF Halves, x, l
<1> QED
  BY <1>7, <1>10, <1>11

\* A poll of the watchdog of e.
LEMMA DisconnectHalves ==
  ASSUME NEW e, NEW f, EndInv(e), EndInv(f), NEW n \in Polls, NEW m \in Polls,
         NEW d \in BOOLEAN, Halves(e, f, n, m, d)
  PROVE  LET x == Settle(After(e, FeedFsm(e.link, "RX_ERR")))
         IN  EndInv(x) /\ NoNull(e.link, x.link) /\ Halves(x, f, n, m, d)
<1> DEFINE l == FeedFsm(e.link, "RX_ERR")
           x == Settle(After(e, l))
<1>1. OpenInv(e.link) /\ Heard(e.link) /\ e.link \in LinkRecord
  BY DEF EndInv, Sound, OpenInv, Accounted
<1>2. /\ OpenInv(l) /\ l.txTask = e.link.txTask
      /\ Untimed(e.link, l) /\ NoNull(e.link, l)
  BY <1>1, FeedFsmKeeps, FeedFsmFields, FeedUntimed DEF Event
<1>3. Heard(l)
  BY <1>1, <1>2 DEF Untimed
<1> HIDE DEF l
<1>4. Follows(e, x) /\ x.silent = e.silent /\ SameFsm(l, x.link)
  BY <1>2, <1>3, SettleEnd
<1> HIDE DEF x
<1>5. EndInv(x) /\ NoNull(e.link, x.link) /\ Untimed(e.link, x.link)
  BY <1>2, <1>4, SameFsmUntimed, UntimedTransitive DEF Follows, SameFsm, NoNull
<1>6. /\ Quiet(x.link) => Quiet(e.link) /\ x.bits = e.bits
      /\ Armed(x.link) => /\ x.bits = e.bits
                          /\ \/ Armed(e.link) /\ x.left = e.left
                             \/ x.left >= 64
      /\ e.link.fsm.state = "ERROR_RESET" => x.link.fsm.state = "ERROR_RESET"
      /\ e.link.fsm.state = "ERROR_WAIT" /\ e.left > 0 =>
           \/ x.link.fsm.state = "ERROR_RESET"
           \/ x.link.fsm.state = "ERROR_WAIT" /\ x.left > 0
  BY <1>4, <1>5, FollowsHalf
<1>7. /\ f.silent \in Nat /\ x.left \in Nat
      /\ Len(e.bits) \in Nat /\ Len(e.bits) <= 14
  BY <1>5, EndNumbers
<1>8. Half(e, f, n, m, TRUE, d) /\ Half(f, e, m, n, FALSE, d)
  BY DEF Halves
<1>9. Half(x, f, n, m, TRUE, d)
  <2>1. Armed(x.link) /\ x.bits # <<>> => x.left + One(TRUE /\ ~d) >= 49 + Len(x.bits)
    BY <1>6, <1>7, <1>8 DEF Half, One
  <2>2. Armed(x.link) => \/ ~f.link.fsm.gotNull \/ f.silent = m
                         \/ x.left + f.silent + One(TRUE) >= 50
    BY <1>6, <1>7, <1>8 DEF Half, One
  <2> QED
    BY <1>4, <1>6, <1>8, <2>1, <2>2 DEF Half
<1>10. Half(f, x, m, n, FALSE, d)
  BY <1>4, <1>5, <1>6, <1>8 DEF Half, NoNull
<1> QED
  BY <1>5, <1>9, <1>10 DEF Halves, x, l

\* The driver of e drives a bit: what it leaves of its end,
LEMMA DrivenEnd ==
  ASSUME NEW e, EndInv(e), e.bits # <<>>
  PROVE  LET rest == [e EXCEPT !.bits = Tail(@)]
             x == IF rest.bits = <<>> THEN Resume(rest) ELSE rest
         IN  /\ EndInv(x) /\ x.silent = e.silent
             /\ Untimed(e.link, x.link) /\ NoNull(e.link, x.link)
             /\ Armed(x.link) => \/ Armed(e.link) /\ x.left = e.left
                                 \/ x.left >= 64
             /\ Armed(x.link) /\ x.bits # <<>> =>
                  Armed(e.link) /\ x.left = e.left /\ Len(x.bits) = Len(e.bits) - 1
             /\ e.link.fsm.state = "ERROR_WAIT" /\ e.left > 0 =>
                  \/ x.link.fsm.state = "ERROR_RESET"
                  \/ x.link.fsm.state = "ERROR_WAIT" /\ x.left > 0
<1> DEFINE rest == [e EXCEPT !.bits = Tail(@)]
           x == IF rest.bits = <<>> THEN Resume(rest) ELSE rest
<1>1. /\ e \in EndRecord /\ OpenInv(e.link) /\ Heard(e.link) /\ e.bits \in Seq(Bit)
      /\ Len(e.bits) <= 14 /\ e.link.txTask # "PARKED"
  BY SoundFields DEF EndInv, Sound
<1>2. Tail(e.bits) \in Seq(Bit) /\ Len(Tail(e.bits)) = Len(e.bits) - 1 /\ Len(e.bits) \in Nat
  BY <1>1, HeadTailProperties, LenProperties
<1>3. /\ rest \in EndRecord /\ rest.link = e.link /\ rest.bits = Tail(e.bits)
      /\ rest.left = e.left /\ rest.silent = e.silent
  BY <1>1, <1>2 DEF EndRecord
<1> HIDE DEF rest
<1>4. Sound(rest)
  BY <1>1, <1>3 DEF Sound
<1>5. Untimed(e.link, rest.link) /\ NoNull(e.link, rest.link)
  BY <1>3, SameFsmUntimed DEF SameFsm
<1>6. CASE rest.bits # <<>>
  <2>1. x = rest
    BY <1>6
  <2>2. Len(rest.bits) <= 14
    BY <1>1, <1>2, <1>3
  <2>3. EndInv(rest)
    BY <1>1, <1>3, <1>4, <1>6, <2>2, Zenon DEF EndInv
  <2> HIDE DEF x
  <2> QED
    BY <1>2, <1>3, <1>5, <1>6, <2>1, <2>3 DEF x, rest
<1>7. CASE rest.bits = <<>>
  <2>1. x = Resume(rest)
    BY <1>7
  <2> HIDE DEF x
  <2>2. /\ Follows(rest, x) /\ x.silent = rest.silent
        /\ Untimed(rest.link, x.link) /\ NoNull(rest.link, x.link)
    BY <1>4, <1>7, <2>1, ResumeEnd
  <2>3. /\ EndInv(x) /\ Paced(rest, x)
        /\ x.link.fsm.state = "ERROR_RESET" => x.bits = <<>>
    BY <1>7, <2>2 DEF Follows, TxModeOf
  <2>4. Untimed(e.link, x.link) /\ NoNull(e.link, x.link)
    BY <1>3, <2>2
  <2>5. Armed(x.link) => (Armed(e.link) /\ x.left = e.left) \/ x.left >= 64
    BY <1>3, <2>3, <2>4, EndNumbers DEF Untimed, Armed, Paced
  <2>6. e.link.fsm.state = "ERROR_WAIT" /\ e.left > 0 =>
          \/ x.link.fsm.state = "ERROR_RESET"
          \/ x.link.fsm.state = "ERROR_WAIT" /\ x.left > 0
    BY <1>3, <2>3, <2>4, EndNumbers DEF Untimed, Paced
  <2> QED
    BY <1>3, <2>2, <2>3, <2>4, <2>5, <2>6 DEF Armed, x, rest
<1> QED
  BY <1>6, <1>7

\* what the other end makes of it, unless it does not run yet,
LEMMA HeardEnd ==
  ASSUME NEW f, EndInv(f), NEW bit \in Bit, NEW runs \in BOOLEAN,
         NEW g \in IF runs THEN Hear(f, bit) ELSE {f}
  PROVE  LET y == [g EXCEPT !.link = Collect(@)]
         IN  /\ EndInv(y) /\ Follows(f, y) /\ Untimed(f.link, y.link)
             /\ runs => y.silent = 0
             /\ ~runs => y.silent = f.silent /\ SameFsm(f.link, y.link)
<1> DEFINE y == [g EXCEPT !.link = Collect(@)]
<1>1. /\ EndInv(g) /\ Follows(f, g) /\ Untimed(f.link, g.link)
      /\ runs => g.silent = 0
      /\ ~runs => g = f
  <2>1. CASE runs
    BY <2>1, HearEnd DEF Follows
  <2>2. CASE ~runs
    <3>1. g = f
      BY <2>2
    <3>2. Paced(f, f) /\ Untimed(f.link, f.link)
      BY SameFsmUntimed DEF Paced, SameFsm
    <3> QED
      BY <2>2, <3>1, <3>2 DEF Follows
  <2> QED
    BY <2>1, <2>2
<1>2. /\ EndInv(y) /\ y.bits = g.bits /\ y.left = g.left /\ y.silent = g.silent
      /\ SameFsm(g.link, y.link)
  BY <1>1, CollectEnd
<1> HIDE DEF y
<1>3. Untimed(f.link, y.link)
  BY <1>1, <1>2, SameFsmUntimed, UntimedTransitive
<1>4. Follows(f, y)
  BY <1>1, <1>2 DEF Follows, Paced, SameFsm
<1> QED
  BY <1>1, <1>2, <1>3, <1>4 DEF y

\* and both together.
LEMMA DriveHalves ==
  ASSUME NEW e, NEW f, EndInv(e), EndInv(f), NEW n \in Polls, NEW m \in Polls,
         Halves(e, f, n, m, FALSE), e.bits # <<>>,
         NEW bit \in Bit, NEW runs \in BOOLEAN, ~runs => ~f.link.fsm.gotNull,
         NEW g \in IF runs THEN Hear(f, bit) ELSE {f}
  PROVE  LET rest == [e EXCEPT !.bits = Tail(@)]
             x == IF rest.bits = <<>> THEN Resume(rest) ELSE rest
             y == [g EXCEPT !.link = Collect(@)]
         IN  /\ EndInv(x) /\ EndInv(y)
             /\ NoNull(e.link, x.link) /\ (~runs => ~y.link.fsm.gotNull)
             /\ Halves(x, y, n, m, TRUE)
<1> DEFINE rest == [e EXCEPT !.bits = Tail(@)]
           x == IF rest.bits = <<>> THEN Resume(rest) ELSE rest
           y == [g EXCEPT !.link = Collect(@)]
<1>1. /\ EndInv(x) /\ x.silent = e.silent
      /\ Untimed(e.link, x.link) /\ NoNull(e.link, x.link)
      /\ Armed(x.link) => \/ Armed(e.link) /\ x.left = e.left
                          \/ x.left >= 64
      /\ Armed(x.link) /\ x.bits # <<>> =>
           Armed(e.link) /\ x.left = e.left /\ Len(x.bits) = Len(e.bits) - 1
      /\ e.link.fsm.state = "ERROR_WAIT" /\ e.left > 0 =>
           \/ x.link.fsm.state = "ERROR_RESET"
           \/ x.link.fsm.state = "ERROR_WAIT" /\ x.left > 0
  BY DrivenEnd
<1>2. /\ EndInv(y) /\ Follows(f, y) /\ Untimed(f.link, y.link)
      /\ runs => y.silent = 0
      /\ ~runs => y.silent = f.silent /\ SameFsm(f.link, y.link)
  BY HeardEnd
<1> HIDE DEF x, y
<1>3. /\ Quiet(y.link) => Quiet(f.link) /\ y.bits = f.bits
      /\ Armed(y.link) => /\ y.bits = f.bits
                          /\ \/ Armed(f.link) /\ y.left = f.left
                             \/ y.left >= 64
  BY <1>2, FollowsHalf
<1>4. /\ e.left \in Nat /\ e.silent \in Nat /\ x.left \in Nat /\ y.left \in Nat
      /\ y.silent \in Nat /\ f.left \in Nat
      /\ Len(e.bits) \in Nat /\ Len(f.bits) \in Nat /\ Len(f.bits) <= 14
  BY <1>1, <1>2, EndNumbers
<1>5. Half(e, f, n, m, TRUE, FALSE) /\ Half(f, e, m, n, FALSE, FALSE)
  BY DEF Halves
<1>6. Armed(e.link) => e.left >= 48 + Len(e.bits) /\ e.left >= 49
  <2>1. Armed(e.link) => e.left + 1 >= 49 + Len(e.bits)
    BY <1>5 DEF Half, One
  <2>2. Len(e.bits) # 0
    BY EmptySeq, SoundFields DEF EndInv
  <2> QED
    BY <1>4, <2>1, <2>2
<1>7. ~Quiet(x.link)
  BY <1>1, <1>5 DEF Half, Quiet, Untimed
<1>8. Half(x, y, n, m, TRUE, TRUE)
  <2>1. Armed(x.link) /\ x.bits # <<>> => x.left + One(TRUE /\ ~TRUE) >= 49 + Len(x.bits)
    BY <1>1, <1>4, <1>6 DEF One
  <2>2. Armed(x.link) => x.left + y.silent + One(TRUE) >= 50
    BY <1>1, <1>4, <1>6 DEF One
  <2> QED
    BY <1>1, <1>5, <1>7, <2>1, <2>2 DEF Half
<1>9. ~runs => ~y.link.fsm.gotNull
  BY <1>2 DEF SameFsm
<1>10. Half(y, x, m, n, FALSE, TRUE)
  <2>1. y.silent <= m /\ ~(WatchdogSees(y.link) /\ y.silent = m)
    BY <1>2, <1>5, <1>9 DEF Half, Polls, WatchdogSees
  <2>2. Armed(y.link) /\ y.bits # <<>> => y.left + One(FALSE /\ ~TRUE) >= 49 + Len(y.bits)
    BY <1>3, <1>4, <1>5 DEF Half, One
  <2>3. Armed(y.link) => \/ ~x.link.fsm.gotNull \/ x.silent = n
                         \/ y.left + x.silent + One(FALSE) >= 50
    BY <1>1, <1>3, <1>4, <1>5 DEF Half, One, NoNull
  <2>4. Quiet(y.link) => y.bits = <<>> /\ (~x.link.fsm.gotNull \/ x.silent = n)
    BY <1>1, <1>3, <1>5 DEF Half, NoNull
  <2>5. Quiet(y.link) /\ x.link.fsm.gotNull =>
          \/ x.link.fsm.state = "ERROR_RESET"
          \/ x.link.fsm.state = "ERROR_WAIT" /\ x.left > 0
    BY <1>1, <1>3, <1>5 DEF Half, NoNull, Untimed
  <2> QED
    BY <2>1, <2>2, <2>3, <2>4, <2>5 DEF Half
<1> QED
  BY <1>1, <1>2, <1>8, <1>9, <1>10 DEF Halves, x, y

\* A tick passes to the instant of f, which may not have been started yet.
Passes(f, m, y) == y = Tick(f, m) \/ (y = f /\ ~f.link.fsm.gotNull)

\* The watchdog of e had its poll and its driver its bit before time passed.
LEMMA PassHalves ==
  ASSUME NEW e, NEW f, EndInv(e), EndInv(f), NEW n \in Polls, NEW m \in Polls,
         NEW d \in BOOLEAN, Halves(e, f, n, m, d),
         e.silent = n => ~WatchdogSees(e.link), e.bits # <<>> => d,
         NEW y, Passes(f, m, y)
  PROVE  EndInv(y) /\ y.link = f.link /\ Halves(y, e, m, n, FALSE)
<1> DEFINE left == IF f.left = 0 THEN 0 ELSE f.left - 1
           silent == IF f.silent = m THEN f.silent ELSE f.silent + 1
<1>1. Sound(f) /\ f \in EndRecord
  BY DEF EndInv, Sound
<1>2. /\ e.left \in Nat /\ e.silent \in Nat /\ Len(e.bits) \in Nat
      /\ f.left \in Nat /\ f.silent \in Nat /\ Len(f.bits) \in Nat /\ m \in Nat
  BY EndNumbers DEF Polls
<1>3. left \in Nat /\ silent \in Nat
  BY <1>2
<1>4. /\ y \in EndRecord /\ y.link = f.link /\ y.bits = f.bits
      /\ (y.left = left /\ y.silent = silent) \/ (y = f /\ ~f.link.fsm.gotNull)
  <2>1. CASE y = Tick(f, m)
    <3>1. y = [f EXCEPT !.left = left, !.silent = silent]
      BY <2>1 DEF Tick
    <3> HIDE DEF left, silent
    <3> QED
      BY <1>1, <1>3, <3>1 DEF EndRecord
  <2>2. CASE y = f /\ ~f.link.fsm.gotNull
    BY <1>1, <2>2
  <2> QED
    BY <2>1, <2>2 DEF Passes
<1>5. EndInv(y)
  BY <1>1, <1>4 DEF EndInv, Sound
<1>6. Half(e, f, n, m, TRUE, d) /\ Half(f, e, m, n, FALSE, d)
  BY DEF Halves
<1>7. Half(e, y, n, m, FALSE, FALSE)
  <2>1. Armed(e.link) /\ e.bits # <<>> => e.left + One(FALSE /\ ~FALSE) >= 49 + Len(e.bits)
    BY <1>6 DEF Half, One
  <2>2. Armed(e.link) => \/ ~y.link.fsm.gotNull \/ y.silent = m
                         \/ e.left + y.silent + One(FALSE) >= 50
    BY <1>2, <1>4, <1>6 DEF Half, One
  <2>3. f.silent = m => y.silent = m
    BY <1>4
  <2>4. Quiet(e.link) /\ f.link.fsm.gotNull => f.link.fsm.state = "ERROR_RESET"
    BY <1>6 DEF Half, WatchdogSees, RxEnabled
  <2> QED
    BY <1>4, <1>6, <2>1, <2>2, <2>3, <2>4 DEF Half
<1>8. Half(y, e, m, n, TRUE, FALSE)
  <2>1. y.silent <= m
    BY <1>2, <1>4, <1>6 DEF Half
  <2>2. Armed(y.link) /\ y.bits # <<>> => y.left + One(TRUE /\ ~FALSE) >= 49 + Len(y.bits)
    BY <1>2, <1>4, <1>6 DEF Half, One
  <2>3. Armed(y.link) => \/ ~e.link.fsm.gotNull \/ e.silent = n
                         \/ y.left + e.silent + One(TRUE) >= 50
    BY <1>2, <1>4, <1>6 DEF Half, One
  <2> QED
    BY <1>4, <1>6, <2>1, <2>2, <2>3 DEF Half
<1> QED
  BY <1>4, <1>5, <1>7, <1>8 DEF Halves

-----------------------------------------------------------------------------
\* There are two ends.
LEMMA Ends ==
  /\ \A i \in End : /\ Other(i) \in End /\ Other(i) # i /\ Other(Other(i)) = i
                    /\ DisconnectPolls(i) \in Polls
                    /\ \A k \in End : k = i \/ k = Other(i)
BY DEF End, Other, DisconnectPolls, Polls

\* Both ends are started in ErrorReset with nothing on the line.
LEMMA StartedEnd ==
  ASSUME NEW i \in End
  PROVE  /\ EndInv(Started(i)) /\ Started(i).bits = <<>> /\ Started(i).silent = 0
         /\ Armed(Started(i).link) /\ ~Started(i).link.fsm.gotNull
<1> DEFINE new == NewLink(Capacity, MaxCredit, FALSE)
           k == FeedFsm(new, "LINK_START")
           l == Enqueue(k, Workload[i])
<1>1. /\ new \in LinkRecord /\ OpenInv(new)
      /\ new.fsm = NewFsm /\ new.timer = "6.4us" /\ new.txTask = "PARKED"
      /\ ~new.wakeup
  <2>1. Capacity \in Nat /\ MaxCredit \in Nat /\ FALSE \in BOOLEAN
    BY TimedConstants, CreditConstants
  <2>2. OpenInv(new)
    BY <2>1, NewLinkInv, Zenon
  <2>3. ~new.wakeup
    BY DEF NewLink
  <2> QED
    BY <2>1, <2>2, <2>3, NewLinkFields, Zenon
<1> HIDE DEF new
<1>2. new.fsm.state = "ERROR_RESET" /\ ~new.fsm.gotNull /\ new.fsm \in FsmRecord
  BY <1>1, LinkFields DEF NewFsm
<1>3. "LINK_START" \in Event
  BY DEF Event
<1>4. /\ Feed(new.fsm, "LINK_START").state = "ERROR_RESET"
      /\ ~Feed(new.fsm, "LINK_START").gotNull
  <2> DEFINE g == new.fsm
             r == Feed(g, "LINK_START")
             fell == r.state = "ERROR_RESET" /\ g.state # "ERROR_RESET"
  <2>1. /\ ~fell => (r.gotNull <=> g.gotNull \/ "LINK_START" = "GOT_NULL")
        /\ g.state = "ERROR_RESET" /\ r.state # g.state => "LINK_START" = "TICK_6_4US"
    BY <1>2, <1>3, FeedEffect
  <2> HIDE DEF r
  <2> QED
    BY <1>2, <2>1 DEF r
<1>5. /\ k \in LinkRecord /\ OpenInv(k)
      /\ k.fsm.state = "ERROR_RESET" /\ ~k.fsm.gotNull
      /\ k.timer = "6.4us" /\ k.txTask = "PARKED" /\ ~k.wakeup
  BY <1>1, <1>2, <1>3, <1>4, FeedFsmFields, FeedFsmKeeps
<1> HIDE DEF k
<1>6. Workload[i] \in Seq(NChar)
  BY TimedConstants
<1>7. /\ l \in LinkRecord /\ l.fsm = k.fsm /\ l.timer = k.timer /\ l.rate = k.rate
      /\ l.wakeup = k.wakeup /\ l.credit = k.credit /\ l.txTask = k.txTask
      /\ Accounted(l, 0)
  BY <1>5, <1>6, EnqueueFields, EnqueueAccounted DEF OpenInv
<1> HIDE DEF l
<1>8. OpenInv(l) /\ Heard(l)
  BY <1>5, <1>7 DEF OpenInv, Awake, Timed, Granted, Heard
<1>9. /\ NewEncoder \in EncoderRecord /\ NewDecoder \in DecoderRecord
      /\ <<>> \in Seq(Bit) /\ TicksOf("6.4us") \in Nat /\ Len(<<>>) = 0
  BY TicksAreNat DEF NewEncoder, EncoderRecord, NewDecoder, DecoderRecord
<1> DEFINE e == [link |-> l, enc |-> NewEncoder, dec |-> NewDecoder, bits |-> <<>>,
                 left |-> TicksOf("6.4us"), silent |-> 0]
<1>10. Started(i) = e
  BY DEF Started, l, k, new
<1>11. e \in EndRecord /\ e.link = l /\ e.bits = <<>> /\ e.silent = 0
  BY <1>7, <1>9 DEF EndRecord
<1> HIDE DEF e
<1>12. EndInv(e)
  BY <1>5, <1>7, <1>8, <1>9, <1>11 DEF EndInv, Sound
<1> QED
  BY <1>5, <1>7, <1>10, <1>11, <1>12 DEF Armed

\* Started with the same timer the invariant holds,
LEMMA PairInvInit == Init => PairInv
<1> SUFFICES ASSUME Init PROVE PairInv
  OBVIOUS
<1>1. /\ ends = [i \in End |-> Started(i)]
      /\ turn = "a" /\ driven = FALSE /\ wait \in Nat
  BY TimedConstants DEF Init
<1>2. turn \in End /\ Other(turn) \in End
  BY <1>1, Ends DEF End
<1>3. \A i \in End : ends[i] = Started(i)
  BY <1>1, Zenon
<1>4. \A i \in End : /\ EndInv(ends[i]) /\ ends[i].bits = <<>> /\ ends[i].silent = 0
                     /\ Armed(ends[i].link) /\ ~ends[i].link.fsm.gotNull
  BY <1>3, StartedEnd, Zenon
<1>5. \A i \in End : ~Quiet(ends[i].link) /\ ~WatchdogSees(ends[i].link)
  BY <1>4 DEF Quiet, Armed, WatchdogSees
<1>6. \A i \in End : DisconnectPolls(i) \in Polls
  BY Ends
<1>7. Halves(ends[turn], ends[Other(turn)], DisconnectPolls(turn),
             DisconnectPolls(Other(turn)), driven)
  <2>1. ASSUME NEW e, NEW f, NEW n \in Polls, NEW m, NEW b, NEW d,
               e.bits = <<>>, e.silent = 0, ~f.link.fsm.gotNull,
               ~Quiet(e.link), ~WatchdogSees(e.link)
        PROVE  Half(e, f, n, m, b, d)
    BY <2>1 DEF Half, Polls
  <2> QED
    BY <1>2, <1>4, <1>5, <1>6, <2>1, Zenon DEF Halves
<1>8. ends = [i \in End |-> ends[i]]
  BY <1>1, Zenon
<1> QED
  BY <1>1, <1>2, <1>4, <1>7, <1>8 DEF PairInv

\* is kept by what happens at an instant,
LEMMA InstantKeeps ==
  ASSUME PairInv, NEW x, NEW y, EndInv(x), EndInv(y),
         ends' = [ends EXCEPT ![turn] = x, ![Other(turn)] = y],
         turn' = turn, wait' = wait, driven' \in BOOLEAN,
         Halves(x, y, DisconnectPolls(turn), DisconnectPolls(Other(turn)), driven'),
         ~Running(turn) => ~x.link.fsm.gotNull,
         ~Running(Other(turn)) => ~y.link.fsm.gotNull
  PROVE  PairInv'
<1>1. turn \in End /\ wait \in Nat /\ ends = [i \in End |-> ends[i]]
  BY DEF PairInv
<1>2. ends'[turn] = x /\ ends'[Other(turn)] = y /\ ends' = [i \in End |-> ends'[i]]
  BY <1>1, Ends
<1>3. \A i \in End : EndInv(ends'[i]) /\ (~Running(i) => ~ends'[i].link.fsm.gotNull)
  BY <1>1, <1>2, Ends
<1>4. Halves(ends'[turn'], ends'[Other(turn')], DisconnectPolls(turn'),
             DisconnectPolls(Other(turn')), driven')
  BY <1>2, Zenon
<1>5. \A i \in End : Running(i)' <=> Running(i)
  BY DEF Running
<1> QED
  BY <1>1, <1>2, <1>3, <1>4, <1>5 DEF PairInv

\* and by every step.
LEMMA PairInvStep == PairInv /\ [Next]_vars => PairInv'
<1> SUFFICES ASSUME PairInv, [Next]_vars PROVE PairInv'
  OBVIOUS
<1> DEFINE e == ends[turn]
           f == ends[Other(turn)]
           n == DisconnectPolls(turn)
           m == DisconnectPolls(Other(turn))
<1>1. /\ turn \in End /\ Other(turn) \in End /\ Other(turn) # turn
      /\ Other(Other(turn)) = turn
      /\ driven \in BOOLEAN /\ wait \in Nat /\ ends = [i \in End |-> ends[i]]
      /\ n \in Polls /\ m \in Polls
  BY Ends DEF PairInv
<1>2. /\ EndInv(e) /\ EndInv(f) /\ Halves(e, f, n, m, driven)
      /\ ~Running(turn) => ~e.link.fsm.gotNull
      /\ ~Running(Other(turn)) => ~f.link.fsm.gotNull
  BY <1>1 DEF PairInv
<1>3. ASSUME NEW x, ends' = [ends EXCEPT ![turn] = x]
      PROVE  ends' = [ends EXCEPT ![turn] = x, ![Other(turn)] = f]
  BY <1>1, <1>3
<1>4. CASE TimerExpires
  <2> DEFINE x == Settle(After(e, TimerExpired(e.link)))
  <2>1. /\ e.link.timer # "off" /\ e.left = 0
        /\ ends' = [ends EXCEPT ![turn] = x]
        /\ turn' = turn /\ driven' = driven /\ wait' = wait
    BY <1>4 DEF TimerExpires, TimerDue
  <2>2. EndInv(x) /\ NoNull(e.link, x.link) /\ Halves(x, f, n, m, driven)
    BY <1>1, <1>2, <2>1, TimerHalves
  <2> HIDE DEF x, e, f, n, m
  <2> QED
    BY <1>1, <1>2, <1>3, <2>1, <2>2, InstantKeeps DEF NoNull, n, m
<1>5. CASE DisconnectSeen
  <2> DEFINE x == Settle(After(e, FeedFsm(e.link, "RX_ERR")))
  <2>1. /\ ends' = [ends EXCEPT ![turn] = x]
        /\ turn' = turn /\ driven' = driven /\ wait' = wait
    BY <1>5 DEF DisconnectSeen
  <2>2. EndInv(x) /\ NoNull(e.link, x.link) /\ Halves(x, f, n, m, driven)
    BY <1>1, <1>2, DisconnectHalves
  <2> HIDE DEF x, e, f, n, m
  <2> QED
    BY <1>1, <1>2, <1>3, <2>1, <2>2, InstantKeeps DEF NoNull, n, m
<1>6. ASSUME NEW bit \in Bit, DriveBit(bit)
      PROVE  PairInv'
  <2> DEFINE rest == [e EXCEPT !.bits = Tail(@)]
             x == IF rest.bits = <<>> THEN Resume(rest) ELSE rest
  <2>1. /\ e.bits # <<>> /\ driven = FALSE
        /\ turn' = turn /\ driven' = TRUE /\ wait' = wait
    BY <1>1, <1>6 DEF DriveBit, DriverDue
  <2>2. PICK g \in IF Running(Other(turn)) THEN Hear(f, bit) ELSE {f} :
          ends' = [ends EXCEPT ![turn] = x, ![Other(turn)] = [g EXCEPT !.link = Collect(@)]]
    BY <1>6 DEF DriveBit
  <2> DEFINE y == [g EXCEPT !.link = Collect(@)]
  <2>3. Running(Other(turn)) \in BOOLEAN
    BY DEF Running
  <2>4. /\ EndInv(x) /\ EndInv(y)
        /\ NoNull(e.link, x.link)
        /\ ~Running(Other(turn)) => ~y.link.fsm.gotNull
        /\ Halves(x, y, n, m, TRUE)
    BY <1>1, <1>2, <2>1, <2>2, <2>3, DriveHalves
  <2>5. ends' = [ends EXCEPT ![turn] = x, ![Other(turn)] = y]
    BY <2>2
  <2> HIDE DEF x, y, e, f, n, m
  <2> QED
    BY <1>1, <1>2, <2>1, <2>4, <2>5, InstantKeeps DEF NoNull, n, m
<1>7. CASE DriverRuns \/ Flip
  <2>1. e.bits # <<>> /\ e.bits \in Seq(Bit)
    BY <1>2, <1>7, SoundFields DEF DriverRuns, Flip, DriveBit, DriverDue, EndInv
  <2>2. Head(e.bits) \in Bit /\ 1 - Head(e.bits) \in Bit
    BY <2>1, HeadTailProperties DEF Bit
  <2> QED
    BY <1>6, <1>7, <2>2 DEF DriverRuns, Flip
<1>8. CASE PassTime
  <2> DEFINE r == Running(Other(turn))
             y == IF r THEN Tick(f, m) ELSE f
  <2>1. /\ e.silent = n => ~WatchdogSees(e.link)
        /\ e.bits # <<>> => driven
        /\ turn' = Other(turn) /\ driven' = FALSE
        /\ wait' = IF turn' = "b" /\ wait > 0 THEN wait - 1 ELSE wait
        /\ ends' = IF Running(turn') THEN [ends EXCEPT ![turn'] = Tick(@, DisconnectPolls(turn'))]
                   ELSE ends
    BY <1>8 DEF PassTime, DisconnectDue, DriverDue
  <2>2. Running(turn') <=> r
    BY <2>1 DEF Running
  <2>3. EndInv(y) /\ y.link = f.link /\ Halves(y, e, m, n, FALSE)
    <3>1. Passes(f, m, y)
      BY <1>2 DEF Passes
    <3> HIDE DEF e, f, n, m, y
    <3>2. n \in Polls /\ m \in Polls
      BY <1>1
    <3>3. EndInv(e) /\ EndInv(f) /\ Halves(e, f, n, m, driven) /\ driven \in BOOLEAN
      BY <1>1, <1>2
    <3>4. (e.silent = n => ~WatchdogSees(e.link)) /\ (e.bits # <<>> => driven)
      BY <2>1
    <3> QED
      BY <3>1, <3>2, <3>3, <3>4, PassHalves, Zenon
  <2>4. ends'[turn'] = y /\ ends'[turn] = e /\ ends' = [i \in End |-> ends'[i]]
    <3>1. CASE r
      BY <1>1, <2>1, <2>2, <3>1
    <3>2. CASE ~r
      BY <1>1, <2>1, <2>2, <3>2
    <3> QED
      BY <3>1, <3>2
  <2> HIDE DEF y, r, e
  <2>5. Halves(ends'[turn'], ends'[Other(turn')], DisconnectPolls(turn'),
               DisconnectPolls(Other(turn')), driven')
    BY <1>1, <2>1, <2>3, <2>4
  <2>6. wait' \in Nat /\ (wait = 0 => wait' = 0)
    BY <1>1, <2>1
  <2>7. \A i \in End : ~Running(i)' => ~Running(i)
    BY <2>6 DEF Running
  <2>8. \A i \in End : EndInv(ends'[i]) /\ (~Running(i)' => ~ends'[i].link.fsm.gotNull)
    BY <1>1, <1>2, <2>1, <2>3, <2>4, <2>7, Ends
  <2> QED
    BY <1>1, <2>1, <2>4, <2>5, <2>6, <2>8 DEF PairInv
<1>9. CASE UNCHANGED vars
  BY <1>9 DEF vars, PairInv, Running
<1> QED
  BY <1>4, <1>5, <1>7, <1>8, <1>9 DEF Next

\* It always holds.
LEMMA PairInvHolds == Spec => []PairInv
BY PairInvInit, PairInvStep, PTL DEF Spec

\* Whenever both ends were started, whatever is sent and whichever bits are inverted, an
\* end that leaves ErrorReset finds the session of before over on both sides (_run_timer,
\* _tx_loop and _disconnect_watchdog of link.py).
THEOREM NoHalfOpenAlways == Spec => []NoHalfOpenLink
<1>1. PairInv => NoHalfOpenLink
  <2> SUFFICES ASSUME PairInv, NEW i \in End,
                      ends[i].link.fsm.state \in {"ERROR_WAIT", "READY"}
               PROVE  /\ ends[i].bits = <<>>
                      /\ ends[Other(i)].link.fsm.state \notin {"CONNECTING", "RUN"}
    BY DEF NoHalfOpenLink
  <2>1. PICK n, m, mine, d : Half(ends[i], ends[Other(i)], n, m, mine, d)
    BY Ends DEF PairInv, Halves
  <2>2. Heard(ends[Other(i)].link)
    BY Ends DEF PairInv, EndInv, Sound
  <2> QED
    BY <2>1, <2>2 DEF Half, Quiet, Heard
<1> QED
  BY <1>1, PairInvHolds, PTL

\* Each endpoint keeps on a real line what it keeps against a peer that does anything:
\* its types, the account of send_packet(), the wake-up of the TX loop, the timer and
\* bit rate of its state, and no credit granted outside a session.
THEOREM EndsKeepOpenInv == Spec => [](\A i \in End : OpenInv(ends[i].link))
<1>1. PairInv => \A i \in End : OpenInv(ends[i].link)
  BY DEF PairInv, EndInv, Sound
<1> QED
  BY <1>1, PairInvHolds, PTL

\* The TX loop waits for the driver exactly while the driver has bits of its character,
\* and never sleeps through a wake-up (_tx_loop of link.py, _drain of driver.py).
THEOREM LoopWaitsForDriver ==
  Spec => [](\A i \in End : LET l == ends[i].link
                            IN  /\ ends[i].bits = <<>> <=> l.txTask = "PARKED"
                                /\ ~(l.txTask = "PARKED" /\ l.wakeup))
<1>1. PairInv => \A i \in End : LET l == ends[i].link
                                IN  /\ ends[i].bits = <<>> <=> l.txTask = "PARKED"
                                    /\ ~(l.txTask = "PARKED" /\ l.wakeup)
  BY DEF PairInv, EndInv
<1> QED
  BY <1>1, PairInvHolds, PTL

\* What SpwLinkOpen assumes of time is so between two ends: a timer expires only when
\* the TX loop has nothing to do, and that of ErrorReset only when no character is on
\* the line any more.
THEOREM TimeIsAsAssumed ==
  Spec => [](TimerDue => LET l == ends[turn].link
                         IN  /\ ~(l.txTask = "PARKED" /\ l.wakeup)
                             /\ l.timer = "6.4us" => l.txTask = "PARKED")
<1>1. PairInv /\ TimerDue => LET l == ends[turn].link
                             IN  /\ ~(l.txTask = "PARKED" /\ l.wakeup)
                                 /\ l.timer = "6.4us" => l.txTask = "PARKED"
  <2> SUFFICES ASSUME PairInv, TimerDue
               PROVE  LET l == ends[turn].link
                      IN  /\ ~(l.txTask = "PARKED" /\ l.wakeup)
                          /\ l.timer = "6.4us" => l.txTask = "PARKED"
    OBVIOUS
  <2> DEFINE e == ends[turn]
  <2>1. EndInv(e) /\ e.left = 0 /\ e.link.timer # "off"
    BY DEF PairInv, TimerDue
  <2>2. OpenInv(e.link) /\ Heard(e.link)
    BY <2>1 DEF EndInv, Sound
  <2>3. PICK f, n, m, d : Half(e, f, n, m, TRUE, d)
    BY DEF PairInv, Halves
  <2> HIDE DEF e
  <2>4. e.link.timer = "6.4us" => Armed(e.link)
    BY <2>1, <2>2, TimerExpiredMoves DEF Armed
  <2>5. e.link.timer = "6.4us" => e.bits = <<>>
    BY <2>1, <2>3, <2>4, EndNumbers DEF Half, One
  <2> QED
    BY <2>1, <2>5 DEF EndInv, e
<1> QED
  BY <1>1, PairInvHolds, PTL
=============================================================================
