------------------------------ MODULE ParserLink ------------------------------
(***************************************************************************)
(* The receive side of an endpoint down to the bits: _CharacterParser and  *)
(* its Decoder under the LinkFSM, against a peer that drives whole         *)
(* characters, one after another or with silences between them.  The peer  *)
(* resets its own encoder whenever it likes, and what it has begun to      *)
(* drive it ends (its TX loop waits for the last bit).  Everything above   *)
(* the parser is the events it feeds; credit is abstracted to an error     *)
(* that any FCT or N-Char may be.                                          *)
(***************************************************************************)
EXTENDS LinkFSM, Characters

CONSTANTS
  Requests,   \* what the peer sends
  Commands    \* the application events that may be fed

ASSUME ParserLinkConstants ==
  /\ Requests \subseteq Request
  /\ Commands \subseteq {"LINK_START", "LINK_START_CLEAR", "LINK_DISABLE",
                         "LINK_DISABLE_CLEAR", "AUTO_START", "AUTO_START_CLEAR"}

VARIABLES
  fsm, dec,
  peer,   \* the peer's encoder
  line,   \* bits of the character the peer is driving, not yet heard
  cut,    \* history: the parser was reset in the middle of a character
  data    \* history: it has heard a data character since a reset between characters

vars == <<fsm, dec, peer, line, cut, data>>

Init ==
  /\ fsm = [NewFsm EXCEPT !.linkStart = TRUE]
  /\ dec = NewDecoder
  /\ peer = NewEncoder
  /\ line = <<>>
  /\ cut = FALSE
  /\ data = FALSE

\* Feeding an event that did not come out of the decoder, with the reset of the
\* parser in the state-change hook.
FeedEvent(e) ==
  /\ fsm' = Feed(fsm, e)
  /\ IF fsm'.state = "ERROR_RESET" /\ fsm.state # "ERROR_RESET"
     THEN /\ dec' = ResetDecoder(dec)
          /\ cut' = (cut \/ line # <<>>)
          /\ data' = (data /\ line # <<>>)
     ELSE UNCHANGED <<dec, cut, data>>
  /\ UNCHANGED <<peer, line>>

PeerSends(r) ==
  /\ line = <<>>
  /\ line' = Encode(peer, r).bits
  /\ peer' = Encode(peer, r).enc
  /\ data' = (data \/ r.type \notin ControlType \cup {"NULL"})
  /\ UNCHANGED <<fsm, dec, cut>>

PeerResets ==
  /\ peer' = NewEncoder
  /\ UNCHANGED <<fsm, dec, line, cut, data>>

\* What the events of a decoded character make of the machine: its own, and for an
\* FCT or an N-Char the credit error that may follow.
Heard(chars) ==
  IF chars = <<>> THEN {fsm}
  ELSE LET e == EventOf(chars[1])
           f == Feed(fsm, e)
       IN  IF e \in {"GOT_FCT", "GOT_N_CHAR"} THEN {f, Feed(f, "CREDIT_ERR")} ELSE {f}

\* feed_bit: the decoder is reset when the character it has just completed resets
\* the link.
HearBit ==
  /\ line # <<>>
  /\ LET fed == FeedBit(dec, Head(line))
     IN  /\ fsm' \in Heard(fed.chars)
         /\ dec' = IF fsm'.state = "ERROR_RESET" /\ fsm.state # "ERROR_RESET"
                   THEN ResetDecoder(fed.dec) ELSE fed.dec
  /\ line' = Tail(line)
  /\ UNCHANGED <<peer, cut, data>>

\* The endpoint's own TX loop.
Transmitted ==
  \/ /\ TxModeOf(fsm) # "RESET"
     /\ FeedEvent("SENT_NULL")
  \/ /\ TxModeOf(fsm) \in {"SEND_NULLS_FCTS", "SEND_NULLS_FCTS_NCHARS_TIMECODES"}
     /\ FeedEvent("SENT_FCT")

TimerExpires ==
  \/ /\ fsm.state = "ERROR_RESET"
     /\ FeedEvent("TICK_6_4US")
  \/ /\ fsm.state \in {"ERROR_WAIT", "STARTED", "CONNECTING"}
     /\ FeedEvent("TICK_12_8US")

\* The watchdog has seen 850 ns of silence, so no character is under way.
PeerSilent ==
  /\ line = <<>>
  /\ RxEnabled(fsm) /\ fsm.gotNull
  /\ FeedEvent("RX_ERR")

Command == \E e \in Commands : FeedEvent(e)

Next ==
  \/ \E r \in Requests : PeerSends(r)
  \/ PeerResets \/ HearBit \/ Transmitted \/ TimerExpires \/ PeerSilent \/ Command

Spec == Init /\ [][Next]_vars

-----------------------------------------------------------------------------
\* A reset that a character brings about leaves the parser in step: as long as no
\* timer or command has cut a character, the decoder has nothing left over when
\* the peer has ended a character, whatever was decoded, refused or reset before.
InStepUnlessCut ==
  ~cut /\ line = <<>> => dec.buffer = <<>> /\ ~dec.pending

\* Every character has an even number of bits, so however many are heard, refused
\* or answered with a reset, the decoder and the peer stay in phase, or out of it.
\* Only a reset that no character brought about changes that, and it puts them out
\* of phase only in the middle of a character.
OutOfPhase == (Len(line) + Len(dec.buffer)) % 2 = 1

PhaseKept ==
  [][/\ OutOfPhase' # OutOfPhase => fsm'.state = "ERROR_RESET" /\ UNCHANGED line
     /\ ~OutOfPhase /\ OutOfPhase' => line # <<>>]_vars

\* And out of phase the endpoint is deaf: of any stream of NULLs, FCTs and other
\* control characters it never decodes one NULL without an error, so no handshake
\* comes past Started.
DeafOutOfPhase == OutOfPhase /\ ~data => ~fsm.gotNull
=============================================================================
