------------------------------- MODULE LinkFSM -------------------------------
(***************************************************************************)
(* The link initialization state machine of link_fsm.py (ECSS-E-ST-50-12C  *)
(* Rev.1, 8.5), as operators over one record f: feeding an event is a pure *)
(* function of the machine, so the endpoint can feed several events in one *)
(* atomic step.  Members of the enums State and Event are strings of the   *)
(* same name; NoEvent is the synthetic None of a chained transition.       *)
(***************************************************************************)
EXTENDS Naturals

State == {"ERROR_RESET", "ERROR_WAIT", "READY", "STARTED", "CONNECTING", "RUN"}

TxMode == {"RESET", "SEND_NULLS", "SEND_NULLS_FCTS",
           "SEND_NULLS_FCTS_NCHARS_TIMECODES"}

Event == {"GOT_NULL", "GOT_FCT", "GOT_N_CHAR", "GOT_TIME_CODE",
          "RX_ERR", "CREDIT_ERR", "SENT_NULL", "SENT_FCT",
          "LINK_START", "LINK_START_CLEAR", "LINK_DISABLE", "LINK_DISABLE_CLEAR",
          "AUTO_START", "AUTO_START_CLEAR", "TICK_6_4US", "TICK_12_8US"}

NoEvent == "NONE"

(***************************************************************************)
(* The machine: its state, the gotNULL qualifier, the three application    *)
(* flags, and the three flags of the visit to Started or Connecting.       *)
(***************************************************************************)
FsmRecord == [state       : State,
              gotNull     : BOOLEAN,
              linkStart   : BOOLEAN,
              linkDisable : BOOLEAN,
              autoStart   : BOOLEAN,
              sentNull    : BOOLEAN,
              sentFct     : BOOLEAN,
              gotFct      : BOOLEAN]

\* Mutant: the state left at None.
NewFsmUnset == [state |-> NoEvent, gotNull |-> FALSE, linkStart |-> FALSE,
                linkDisable |-> FALSE, autoStart |-> FALSE, sentNull |-> FALSE,
                sentFct |-> FALSE, gotFct |-> FALSE]

NewFsm == [state       |-> "ERROR_RESET",
           gotNull     |-> FALSE,
           linkStart   |-> FALSE,
           linkDisable |-> FALSE,
           autoStart   |-> FALSE,
           sentNull    |-> FALSE,
           sentFct     |-> FALSE,
           gotFct      |-> FALSE]

\* The ways up the diagram of 8.5.2, the one through Ready in one feed included.
Climb == {<<"ERROR_RESET", "ERROR_WAIT">>, <<"ERROR_WAIT", "READY">>,
          <<"ERROR_WAIT", "STARTED">>, <<"READY", "STARTED">>,
          <<"STARTED", "CONNECTING">>, <<"CONNECTING", "RUN">>}

\* What the machine tells the outer world: output() of link_fsm.py.
TxModeOf(f) == CASE f.state = "STARTED"    -> "SEND_NULLS"
                 [] f.state = "CONNECTING" -> "SEND_NULLS_FCTS"
                 [] f.state = "RUN"        -> "SEND_NULLS_FCTS_NCHARS_TIMECODES"
                 [] OTHER                  -> "RESET"

RxEnabled(f) == f.state # "ERROR_RESET"

RateOf(f) == IF f.state = "RUN" THEN "target" ELSE "initial"

-----------------------------------------------------------------------------
\* Mutant: SENT_NULL counts in any state.
UpdateFlagsAnyState(f, e) ==
  [f EXCEPT !.gotNull     = @ \/ e = "GOT_NULL",
            !.linkStart   = (@ \/ e = "LINK_START") /\ e # "LINK_START_CLEAR",
            !.linkDisable = (@ \/ e = "LINK_DISABLE") /\ e # "LINK_DISABLE_CLEAR",
            !.autoStart   = (@ \/ e = "AUTO_START") /\ e # "AUTO_START_CLEAR",
            !.sentNull    = @ \/ e = "SENT_NULL",
            !.sentFct     = @ \/ (e = "SENT_FCT" /\ f.state = "CONNECTING"),
            !.gotFct      = @ \/ (e = "GOT_FCT" /\ f.state = "CONNECTING")]

\* Flag and latch bookkeeping, before the transition decision.
UpdateFlags(f, e) ==
  [state       |-> f.state,
   gotNull     |-> f.gotNull \/ e = "GOT_NULL",
   linkStart   |-> (f.linkStart \/ e = "LINK_START") /\ e # "LINK_START_CLEAR",
   linkDisable |-> (f.linkDisable \/ e = "LINK_DISABLE") /\ e # "LINK_DISABLE_CLEAR",
   autoStart   |-> (f.autoStart \/ e = "AUTO_START") /\ e # "AUTO_START_CLEAR",
   sentNull    |-> f.sentNull \/ (e = "SENT_NULL" /\ f.state = "STARTED"),
   sentFct     |-> f.sentFct \/ (e = "SENT_FCT" /\ f.state = "CONNECTING"),
   gotFct      |-> f.gotFct \/ (e = "GOT_FCT" /\ f.state = "CONNECTING")]

\* Mutants: gotNULL survives ErrorReset; the FCT flags of an earlier visit survive.
EnterKeepsNull(f, s) ==
  [f EXCEPT !.state = s, !.sentNull = @ /\ s \notin {"ERROR_RESET", "STARTED"},
            !.sentFct = @ /\ s \notin {"ERROR_RESET", "CONNECTING"},
            !.gotFct = @ /\ s \notin {"ERROR_RESET", "CONNECTING"}]

EnterKeepsFlags(f, s) ==
  [f EXCEPT !.state = s, !.gotNull = @ /\ s # "ERROR_RESET",
            !.sentNull = @ /\ s \notin {"ERROR_RESET", "STARTED"}]

\* Transition into s, with the per-visit flags that s resets.
Enter(f, s) ==
  [state       |-> s,
   gotNull     |-> f.gotNull /\ s # "ERROR_RESET",
   linkStart   |-> f.linkStart,
   linkDisable |-> f.linkDisable,
   autoStart   |-> f.autoStart,
   sentNull    |-> f.sentNull /\ s \notin {"ERROR_RESET", "STARTED"},
   sentFct     |-> f.sentFct /\ s \notin {"ERROR_RESET", "CONNECTING"},
   gotFct      |-> f.gotFct /\ s \notin {"ERROR_RESET", "CONNECTING"}]

\* Mutant: link_disable is forgotten.
LinkEnabledAnyway(f) == f.linkStart \/ (f.autoStart /\ f.gotNull)

LinkEnabled(f) ==
  /\ ~f.linkDisable
  /\ f.linkStart \/ (f.autoStart /\ f.gotNull)

WaitStateError(f, e) ==
  \/ e = "RX_ERR"
  \/ f.gotNull /\ e \in {"GOT_FCT", "GOT_N_CHAR", "GOT_TIME_CODE"}

-----------------------------------------------------------------------------
\* The per-state handlers: the next state, or the current one to stay put.
\* Mutant: a late 12.8 us tick ends ErrorReset too.
InErrorResetAnyTick(f, e) ==
  IF e \in {"TICK_6_4US", "TICK_12_8US"} /\ ~f.linkDisable THEN "ERROR_WAIT" ELSE f.state

InErrorReset(f, e) ==
  IF e = "TICK_6_4US" /\ ~f.linkDisable THEN "ERROR_WAIT" ELSE f.state

InErrorWait(f, e) ==
  CASE WaitStateError(f, e) -> "ERROR_RESET"
    [] e = "TICK_12_8US"    -> "READY"
    [] OTHER                -> f.state

InReady(f, e) ==
  IF WaitStateError(f, e) THEN "ERROR_RESET"
  ELSE IF LinkEnabled(f) THEN "STARTED" ELSE f.state

InStarted(f, e) ==
  IF WaitStateError(f, e) \/ e = "TICK_12_8US" THEN "ERROR_RESET"
  ELSE IF f.sentNull /\ f.gotNull THEN "CONNECTING" ELSE f.state

InConnecting(f, e) ==
  IF e \in {"RX_ERR", "CREDIT_ERR", "GOT_N_CHAR", "GOT_TIME_CODE", "TICK_12_8US"}
  THEN "ERROR_RESET"
  ELSE IF f.sentFct /\ f.gotFct THEN "RUN" ELSE f.state

\* Mutant: an error in Run skips ErrorReset.
InRunSkips(f, e) == IF e \in {"RX_ERR", "CREDIT_ERR"} THEN "ERROR_WAIT" ELSE f.state

InRun(f, e) ==
  IF e \in {"RX_ERR", "CREDIT_ERR", "LINK_DISABLE"} THEN "ERROR_RESET" ELSE f.state

Handler(f, e) ==
  CASE f.state = "ERROR_RESET" -> InErrorReset(f, e)
    [] f.state = "ERROR_WAIT"  -> InErrorWait(f, e)
    [] f.state = "READY"       -> InReady(f, e)
    [] f.state = "STARTED"     -> InStarted(f, e)
    [] f.state = "CONNECTING"  -> InConnecting(f, e)
    [] f.state = "RUN"         -> InRun(f, e)

-----------------------------------------------------------------------------
(***************************************************************************)
(* feed(): the flags, then at most eight turns of the transition loop.  A  *)
(* loop configuration is the machine, the event of the next turn (the fed  *)
(* one, then NoEvent) and whether the loop has broken out.                 *)
(***************************************************************************)
LoopConfig == [fsm : FsmRecord, event : Event \cup {NoEvent}, done : BOOLEAN]

FirstTurn(f, e) == [fsm |-> UpdateFlags(f, e), event |-> e, done |-> FALSE]

Turn ==
  [c \in LoopConfig |->
     LET next == Handler(c.fsm, c.event)
     IN  IF c.done \/ next = c.fsm.state
         THEN [fsm |-> c.fsm, event |-> c.event, done |-> TRUE]
         ELSE [fsm |-> Enter(c.fsm, next), event |-> NoEvent, done |-> FALSE]]

TwoTurns(c)   == Turn[Turn[c]]
FourTurns(c)  == TwoTurns(TwoTurns(c))
\* Mutant: feed() makes a single transition.
SingleTurn(c) == Turn[c]

EightTurns(c) == FourTurns(FourTurns(c))

Feed(f, e) == EightTurns(FirstTurn(f, e)).fsm
=============================================================================
