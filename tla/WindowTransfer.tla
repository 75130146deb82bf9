--------------------------- MODULE WindowTransfer ----------------------------
(***************************************************************************)
(* What credit-based flow control promises, without counters or FCTs: the  *)
(* receiver opens a window in batches, the sender uses it one N-Char at a  *)
(* time, whatever is sent arrives and is stored, and what is granted or    *)
(* under way never exceeds the window.  CreditFlow implements it.          *)
(***************************************************************************)
EXTENDS Naturals

CONSTANTS Batch, MaxWindow, MaxBacklog

VARIABLES
  window,    \* N-Chars the sender may still send
  nchars,    \* N-Chars under way
  queued,    \* N-Chars stored at the receiver
  backlog    \* N-Chars the application wants sent

vars == <<window, nchars, queued, backlog>>

Init ==
  /\ window = 0
  /\ nchars = 0
  /\ queued \in Nat
  /\ backlog = 0

Grant ==
  /\ window + nchars + Batch <= MaxWindow
  /\ window' = window + Batch
  /\ UNCHANGED <<nchars, queued, backlog>>

Want ==
  /\ backlog < MaxBacklog
  /\ backlog' = backlog + 1
  /\ UNCHANGED <<window, nchars, queued>>

Send ==
  /\ backlog > 0 /\ window > 0
  /\ backlog' = backlog - 1
  /\ window' = window - 1
  /\ nchars' = nchars + 1
  /\ UNCHANGED queued

Arrive ==
  /\ nchars > 0
  /\ nchars' = nchars - 1
  /\ queued' = queued + 1
  /\ UNCHANGED <<window, backlog>>

Collect ==
  /\ queued > 0
  /\ queued' = queued - 1
  /\ UNCHANGED <<window, nchars, backlog>>

Next == Grant \/ Want \/ Send \/ Arrive \/ Collect

Spec == Init /\ [][Next]_vars
=============================================================================
