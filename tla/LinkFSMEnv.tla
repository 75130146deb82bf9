----------------------------- MODULE LinkFSMEnv ------------------------------
(***************************************************************************)
(* LinkFSM on its own: the outer world feeds it any event at any time.     *)
(* The history variable passed collects what the link has gone through     *)
(* since it last entered ErrorReset.  It is computed from the event fed    *)
(* and the state it was fed in, never from the machine's flags, so the     *)
(* properties below compare the flags with what really happened.           *)
(***************************************************************************)
EXTENDS LinkFSM

VARIABLES fsm, passed

fsmVars == <<fsm, passed>>

\* Each milestone of the initialization, as the (state, event) pairs that pass it.
MilestonePairs ==
  [servedReset |-> {<<"ERROR_RESET", "TICK_6_4US">>},
   servedWait  |-> {<<"ERROR_WAIT", "TICK_12_8US">>},
   heardNull   |-> State \X {"GOT_NULL"},
   sentNull    |-> {<<"STARTED", "SENT_NULL">>},
   sentFct     |-> {<<"CONNECTING", "SENT_FCT">>},
   heardFct    |-> {<<"CONNECTING", "GOT_FCT">>}]

Milestone == {"servedReset", "servedWait", "heardNull", "sentNull", "sentFct", "heardFct"}

PassedBy(s, e) == {m \in Milestone : <<s, e>> \in MilestonePairs[m]}

FsmInit ==
  /\ fsm = NewFsm
  /\ passed = {}

FeedEvent(e) ==
  /\ fsm' = Feed(fsm, e)
  /\ passed' = IF fsm'.state = "ERROR_RESET" /\ fsm.state # "ERROR_RESET"
               THEN {}
               ELSE passed \cup PassedBy(fsm.state, e)

\* The receiver decodes a character, or reports an error.
Receive == \E e \in {"GOT_NULL", "GOT_FCT", "GOT_N_CHAR", "GOT_TIME_CODE",
                     "RX_ERR", "CREDIT_ERR"} : FeedEvent(e)

\* The transmitter has driven a NULL or an FCT.
Transmit == \E e \in {"SENT_NULL", "SENT_FCT"} : FeedEvent(e)

\* The application sets or clears one of its flags.
Command == \E e \in {"LINK_START", "LINK_START_CLEAR", "LINK_DISABLE",
                     "LINK_DISABLE_CLEAR", "AUTO_START", "AUTO_START_CLEAR"} :
             FeedEvent(e)

\* A timer expires, the right one for the state or a late one.
Expire == \E e \in {"TICK_6_4US", "TICK_12_8US"} : FeedEvent(e)

FsmNext == Receive \/ Transmit \/ Command \/ Expire

FsmSpec == FsmInit /\ [][FsmNext]_fsmVars

-----------------------------------------------------------------------------
\* The machine's fields keep their types (the dataclass LinkFSM).
TypeOK ==
  /\ fsm \in FsmRecord
  /\ passed \subseteq Milestone

\* Rev.1's two critical transitions (link_fsm.py:9-11): a link that is
\* Connecting has, since its last ErrorReset, heard a NULL and driven one in
\* Started; a link in Run has also driven an FCT and heard one in Connecting.
\* A flag left over from an earlier attempt would break it.
HandshakeHonest ==
  /\ fsm.state \in {"CONNECTING", "RUN"} => {"heardNull", "sentNull"} \subseteq passed
  /\ fsm.state = "RUN" => {"sentFct", "heardFct"} \subseteq passed

\* Both silences of the standard were served since the last ErrorReset: 6.4 us
\* before ErrorWait, and 12.8 us more before Ready (_in_error_reset and
\* _in_error_wait).  A late tick of the other timer must not count.
DelaysServed ==
  /\ fsm.state # "ERROR_RESET" => "servedReset" \in passed
  /\ fsm.state \notin {"ERROR_RESET", "ERROR_WAIT"} => "servedWait" \in passed

\* feed() runs its loop to the end (link_fsm.py:159-168): no transition whose
\* condition already holds is left waiting for a later event, and the cap of
\* eight turns is never what stops the loop (three suffice).
Settled == Handler(fsm, NoEvent) = fsm.state

\* The gotNULL qualifier and the per-visit flags are exactly the history: what
\* _update_flags sets and _enter clears is neither lost nor left over.
FlagsMatchHistory ==
  /\ fsm.gotNull  <=> "heardNull" \in passed
  /\ fsm.sentNull <=> "sentNull" \in passed
  /\ fsm.sentFct  <=> "sentFct" \in passed
  /\ fsm.gotFct   <=> "heardFct" \in passed

\* The link starts only by permission: when it enters Started it is not
\* disabled, and either the application asked for it or autoStart is set and a
\* NULL was heard since the last ErrorReset (_link_enabled).
StartedByPermission ==
  [][fsm.state # "STARTED" /\ fsm'.state = "STARTED"
       => /\ ~fsm'.linkDisable
          /\ fsm'.linkStart \/ (fsm'.autoStart /\ "heardNull" \in passed')]_fsmVars

\* The link climbs one state at a time, or through Ready in one feed when it is
\* already enabled, and falls nowhere but to ErrorReset (the diagram of 8.5.2).
FollowsDiagram ==
  [][fsm'.state # fsm.state
       => fsm'.state = "ERROR_RESET" \/ <<fsm.state, fsm'.state>> \in Climb]_fsmVars
=============================================================================
