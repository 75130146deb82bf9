---------------------------- MODULE CreditCounter ----------------------------
(***************************************************************************)
(* The flow-control counters of flow_control.py (ECSS 5.5.4 and 5.5.5), as *)
(* operators over one record c: max is max_rx_credit, tx the credit to     *)
(* send, rx the credit granted to the peer and not yet used by it.  The    *)
(* statistics the class also counts (_fcts_received, _nchars_sent, ...)    *)
(* are never read and are left out.                                        *)
(***************************************************************************)
EXTENDS Integers

CONSTANTS
  FctCreditUnits,      \* N-Chars one FCT stands for (8)
  MaxCredit,           \* the most a tx credit may count (56)
  MaxOutstandingFcts   \* the most FCTs of an initial burst (7)

ASSUME CreditConstants ==
  /\ FctCreditUnits \in Nat \ {0}
  /\ MaxCredit \in Nat
  /\ MaxOutstandingFcts \in Nat

CreditRecord == [max : 0 .. MaxCredit, tx : Nat, rx : Nat]

NewCredit(max) == [max |-> max, tx |-> 0, rx |-> 0]

\* What __init__ of the link passes as max_rx_credit: the user's wish, capped by
\* the FIFO and by the standard.
CappedMax(wish, capacity) ==
  LET capped == IF capacity < MaxCredit THEN capacity ELSE MaxCredit
  IN  IF wish < capped THEN wish ELSE capped

-----------------------------------------------------------------------------
\* The TX side.  on_fct_received raises CreditError when FctOverflows.
FctOverflows(c) == c.tx + FctCreditUnits > MaxCredit

AfterFctReceived(c) == [c EXCEPT !.tx = @ + FctCreditUnits]

\* Mutant: off by one at zero.
CanSendAtZero(c) == c.tx >= 0

CanSend(c) == c.tx > 0

AfterNCharSent(c) == [c EXCEPT !.tx = @ - 1]

-----------------------------------------------------------------------------
\* The RX side.  on_fct_sent raises RuntimeError when FctSentOverMax, and
\* on_nchar_received raises CreditError when NCharUnderflows.
FctSentOverMax(c) == c.rx + FctCreditUnits > c.max

\* Mutant: the wrong constant.
AfterFctSentBySeven(c) == [c EXCEPT !.rx = @ + MaxOutstandingFcts]

AfterFctSent(c) == [c EXCEPT !.rx = @ + FctCreditUnits]

NCharUnderflows(c) == c.rx <= 0

\* Mutant: the decrement is missing.
AfterNCharReceivedUncounted(c) == c

AfterNCharReceived(c) == [c EXCEPT !.rx = @ - 1]

\* Mutants: each condition of 5.5.4p dropped in turn.
ShouldSendFctNoRoom(c, headroom) == c.rx <= c.max - FctCreditUnits

ShouldSendFctNoMax(c, headroom) == headroom >= FctCreditUnits

ShouldSendFct(c, headroom) ==
  /\ headroom >= FctCreditUnits
  /\ c.rx <= c.max - FctCreditUnits

\* Mutant: only one of the counters is reset.
ResetTxCredit(c) == [c EXCEPT !.tx = 0]

ResetCredit(c) == [c EXCEPT !.tx = 0, !.rx = 0]

\* Mutant: rounded up.
InitialFctCountUp(capacity) ==
  LET slots == (capacity + FctCreditUnits - 1) \div FctCreditUnits
  IN  IF slots < MaxOutstandingFcts THEN slots ELSE MaxOutstandingFcts

InitialFctCount(capacity) ==
  LET slots == capacity \div FctCreditUnits
  IN  IF slots < MaxOutstandingFcts THEN slots ELSE MaxOutstandingFcts
=============================================================================
