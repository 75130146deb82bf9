-------------------------- MODULE CreditFlowProofs ---------------------------
(***************************************************************************)
(* CreditFlow proved for every capacity, window and unit of credit, and    *)
(* for whatever stale credit the sender brings into the session.  What     *)
(* depends on it states the one condition on the constants that the code   *)
(* does not enforce: that the credit window holds at least one FCT.        *)
(***************************************************************************)
EXTENDS CreditFlow, TLAPS

WindowHoldsAnFct == MaxRxCredit >= FctCreditUnits

\* The constants are numbers, in their order.
LEMMA ConstantTypes ==
  /\ FctCreditUnits \in Nat /\ FctCreditUnits > 0
  /\ MaxCredit \in Nat
  /\ MaxRxCredit \in Nat /\ MaxRxCredit <= MaxCredit /\ MaxRxCredit <= RxCapacity
  /\ RxCapacity \in Nat /\ CarriedNChars \in Nat /\ MaxBacklog \in Nat /\ StaleFcts \in Nat
BY CreditConstants, FlowConstants DEF MaxRxCredit, CappedMax

\* One FCT more or less on the line is one unit of credit.
LEMMA OneFct ==
  ASSUME NEW n \in Nat
  PROVE  /\ FctCreditUnits * n \in Nat
         /\ FctCreditUnits * (n + 1) = FctCreditUnits * n + FctCreditUnits
         /\ n > 0 => FctCreditUnits * (n - 1) = FctCreditUnits * n - FctCreditUnits
         /\ n > 0 => FctCreditUnits * n >= FctCreditUnits
<1>1. FctCreditUnits \in Nat
  BY ConstantTypes
<1>2. n > 0 => n - 1 \in Nat
  OBVIOUS
<1>3. n > 0 => FctCreditUnits * (n - 1) \in Nat
  BY <1>1, <1>2
<1> QED
  BY <1>1, <1>2, <1>3

\* Stale credit is credit, within the limit.
LEMMA StaleCreditType == \A c \in StaleCredit : c \in Nat /\ c <= MaxCredit
BY ConstantTypes DEF StaleCredit

-----------------------------------------------------------------------------
\* Type correctness needs no condition on the window.
LEMMA TypeInductive ==
  /\ Init => TypeOK
  /\ TypeOK /\ [Next]_vars => TypeOK'
<1>1. Init => TypeOK
  <2>1. NewCredit(MaxCredit) \in CreditRecord /\ NewCredit(MaxRxCredit) \in CreditRecord
    BY ConstantTypes DEF CreditRecord, NewCredit
  <2>2. Init => queued \in Nat /\ stale \in Nat
    BY ConstantTypes, StaleCreditType DEF Init
  <2>3. Init => sender \in CreditRecord
    BY <2>1, <2>2 DEF Init, CreditRecord
  <2>4. 0 \in Nat
    OBVIOUS
  <2> QED
    BY <2>1, <2>2, <2>3, <2>4, Zenon DEF Init, TypeOK
<1>2. TypeOK /\ [Next]_vars => TypeOK'
  <2> SUFFICES ASSUME TypeOK, [Next]_vars PROVE TypeOK'
    OBVIOUS
  <2> USE ConstantTypes DEF TypeOK, CreditRecord
  <2>1. CASE SendHandshakeFct
    BY <2>1 DEF SendHandshakeFct, AfterFctSent
  <2>2. CASE SendRunFct
    BY <2>2 DEF SendRunFct, AfterFctSent
  <2>3. CASE DeliverFct
    BY <2>3 DEF DeliverFct, AfterFctReceived
  <2>4. CASE Enqueue
    BY <2>4 DEF Enqueue
  <2>5. CASE SendNChar
    BY <2>5 DEF SendNChar, CanSend, AfterNCharSent
  <2>6. CASE DeliverNChar
    BY <2>6 DEF DeliverNChar, NCharUnderflows, AfterNCharReceived
  <2>7. CASE Consume
    BY <2>7 DEF Consume
  <2>8. CASE UNCHANGED vars
    BY <2>8 DEF vars
  <2> QED
    BY <2>1, <2>2, <2>3, <2>4, <2>5, <2>6, <2>7, <2>8 DEF Next
<1> QED
  BY <1>1, <1>2

\* The counters and counts keep their types, whatever the constants.
THEOREM FlowTypeCorrect == Spec => []TypeOK
BY TypeInductive, PTL DEF Spec

-----------------------------------------------------------------------------
\* The inductive invariant.  From a clean start no credit error is possible because
\* the counters agree across the line and the receiver's never passes its maximum;
\* the bound on the queue is kept as a sum with the credit still out.
FlowInv ==
  /\ TypeOK
  /\ receiver.max = MaxRxCredit
  /\ NoCreditError
  /\ CreditConserved
  /\ receiver.rx <= MaxRxCredit
  /\ ~connected => receiver.rx = 0 /\ queued <= CarriedNChars
  /\ QueueBound

\* What QueueBound says, as two facts the provers can use.
GrantedIn == RxCapacity + MaxRxCredit - FctCreditUnits
CarriedIn == CarriedNChars + FctCreditUnits

\* The bound of the queue without its maximum.
LEMMA QueueBoundAsSum ==
  ASSUME NEW n \in Nat
  PROVE  n <= (IF CarriedIn < GrantedIn THEN GrantedIn ELSE CarriedIn)
           <=> n <= GrantedIn \/ n <= CarriedIn
BY ConstantTypes DEF GrantedIn, CarriedIn

\* The counters agree at first,
LEMMA FlowInvInit == ASSUME WindowHoldsAnFct, Init PROVE FlowInv
<1>1. TypeOK
  BY TypeInductive
<1>2. /\ receiver.max = MaxRxCredit /\ receiver.rx = 0
      /\ fcts = 0 /\ nchars = 0 /\ queued \in Nat /\ queued <= CarriedNChars
      /\ creditError = "none"
  BY ConstantTypes DEF Init, NewCredit
<1>3. QueueBound
  BY <1>2, ConstantTypes DEF QueueBound
<1>4. sender.tx = stale /\ stale \in Nat
  BY StaleCreditType DEF Init, NewCredit
<1>5. CreditConserved
  BY <1>2, <1>4, ConstantTypes DEF CreditConserved
<1>6. NoCreditError
  BY <1>2 DEF NoCreditError
<1> QED
  BY <1>1, <1>2, <1>3, <1>5, <1>6, ConstantTypes DEF FlowInv

\* every step keeps them in agreement,
LEMMA FlowInvStep == ASSUME WindowHoldsAnFct, FlowInv, [Next]_vars PROVE FlowInv'
<1>1. TypeOK /\ TypeOK'
  BY TypeInductive DEF FlowInv
<1>2. /\ sender.tx \in Nat /\ receiver.rx \in Nat /\ receiver.max \in Nat
      /\ stale \in Nat /\ fcts \in Nat /\ nchars \in Nat /\ queued \in Nat
      /\ sender'.tx \in Nat /\ receiver'.rx \in Nat /\ fcts' \in Nat
      /\ queued' \in Nat /\ nchars' \in Nat
  BY <1>1 DEF TypeOK, CreditRecord
<1>3. /\ FctCreditUnits * fcts \in Nat
      /\ FctCreditUnits * (fcts + 1) = FctCreditUnits * fcts + FctCreditUnits
      /\ fcts > 0 => FctCreditUnits * (fcts - 1) = FctCreditUnits * fcts - FctCreditUnits
      /\ fcts > 0 => FctCreditUnits * fcts >= FctCreditUnits
  BY <1>2, OneFct
<1>4. /\ receiver.max = MaxRxCredit
      /\ receiver.rx <= MaxRxCredit
      /\ stale = 0 => creditError = "none"
      /\ creditError = "none" => receiver.rx + stale = sender.tx + FctCreditUnits * fcts + nchars
      /\ ~connected => receiver.rx = 0 /\ queued <= CarriedNChars
  BY DEF FlowInv, NoCreditError, CreditConserved
<1>5. queued + receiver.rx <= GrantedIn \/ queued + receiver.rx <= CarriedIn
  BY <1>2, QueueBoundAsSum DEF FlowInv, QueueBound, GrantedIn, CarriedIn
<1>6. ASSUME queued' + receiver'.rx <= GrantedIn \/ queued' + receiver'.rx <= CarriedIn
      PROVE  QueueBound'
  BY <1>2, <1>6, QueueBoundAsSum DEF QueueBound, GrantedIn, CarriedIn
<1>7. ASSUME queued' + receiver'.rx <= queued + receiver.rx
      PROVE  QueueBound'
  <2>1. GrantedIn \in Int /\ CarriedIn \in Int
    BY ConstantTypes DEF GrantedIn, CarriedIn
  <2>2. queued + receiver.rx \in Int /\ queued' + receiver'.rx \in Int
    BY <1>2
  <2> QED
    BY <1>5, <1>6, <1>7, <2>1, <2>2
<1>8. ASSUME receiver'.max = MaxRxCredit, stale' = 0 => creditError' = "none",
             creditError' = "none" =>
               receiver'.rx + stale' = sender'.tx + FctCreditUnits * fcts' + nchars',
             receiver'.rx <= MaxRxCredit,
             ~connected' => receiver'.rx = 0 /\ queued' <= CarriedNChars,
             QueueBound'
      PROVE  FlowInv'
  BY <1>1, <1>8 DEF FlowInv, NoCreditError, CreditConserved
<1> USE ConstantTypes DEF WindowHoldsAnFct
<1>9. CASE SendHandshakeFct
  <2>1. ~FctSentOverMax(receiver)
    BY <1>2, <1>4, <1>9 DEF SendHandshakeFct, FctSentOverMax
  <2>2. receiver' = [receiver EXCEPT !.rx = @ + FctCreditUnits]
    BY <1>9, <2>1 DEF SendHandshakeFct, AfterFctSent
  <2>3. receiver'.rx = receiver.rx + FctCreditUnits /\ receiver'.max = receiver.max
    BY <1>1, <2>2 DEF TypeOK, CreditRecord
  <2>4. /\ UNCHANGED <<sender, stale, nchars, queued, creditError>>
        /\ fcts' = fcts + 1 /\ connected' = TRUE /\ ~connected /\ creditError = "none"
    BY <1>9 DEF SendHandshakeFct
  <2>5. queued' + receiver'.rx <= CarriedIn
    BY <1>2, <1>4, <2>3, <2>4 DEF CarriedIn
  <2>6. receiver'.rx + stale' = sender'.tx + FctCreditUnits * fcts' + nchars'
    BY <1>2, <1>3, <1>4, <2>3, <2>4
  <2> QED
    BY <1>2, <1>4, <1>6, <1>8, <2>3, <2>4, <2>5, <2>6
<1>10. CASE SendRunFct
  <2>1. receiver' = [receiver EXCEPT !.rx = @ + FctCreditUnits]
    BY <1>10 DEF SendRunFct, AfterFctSent
  <2>2. receiver'.rx = receiver.rx + FctCreditUnits /\ receiver'.max = receiver.max
    BY <1>1, <2>1 DEF TypeOK, CreditRecord
  <2>3. /\ RxCapacity - queued >= FctCreditUnits
        /\ receiver.rx <= MaxRxCredit - FctCreditUnits
    BY <1>4, <1>10 DEF SendRunFct, ShouldSendFct, Headroom
  <2>4. /\ UNCHANGED <<sender, stale, connected, nchars, queued, creditError>>
        /\ fcts' = fcts + 1 /\ connected /\ creditError = "none"
    BY <1>10 DEF SendRunFct
  <2>5. queued' + receiver'.rx <= GrantedIn
    BY <1>2, <2>2, <2>3, <2>4 DEF GrantedIn
  <2>6. receiver'.rx + stale' = sender'.tx + FctCreditUnits * fcts' + nchars'
    BY <1>2, <1>3, <1>4, <2>2, <2>4
  <2>7. receiver'.rx <= MaxRxCredit
    BY <1>2, <2>2, <2>3
  <2> QED
    BY <1>4, <1>6, <1>8, <2>2, <2>4, <2>5, <2>6, <2>7
<1>11. CASE DeliverFct
  <2>1. /\ UNCHANGED <<receiver, stale, connected, nchars, queued>>
        /\ fcts' = fcts - 1 /\ fcts > 0 /\ creditError = "none"
    BY <1>11 DEF DeliverFct
  <2>2. QueueBound'
    BY <1>2, <1>7, <2>1
  <2>3. CASE FctOverflows(sender)
    <3>1. sender.tx + FctCreditUnits > MaxCredit /\ creditError' = "fct_overflow"
      BY <1>11, <2>3 DEF DeliverFct, FctOverflows
    <3>2. stale # 0
      BY <1>2, <1>3, <1>4, <2>1, <3>1
    <3> QED
      BY <1>4, <1>8, <2>1, <2>2, <3>1, <3>2
  <2>4. CASE ~FctOverflows(sender)
    <3>1. sender' = [sender EXCEPT !.tx = @ + FctCreditUnits] /\ creditError' = creditError
      BY <1>11, <2>4 DEF DeliverFct, AfterFctReceived
    <3>2. sender'.tx = sender.tx + FctCreditUnits
      BY <1>1, <3>1 DEF TypeOK, CreditRecord
    <3>3. receiver'.rx + stale' = sender'.tx + FctCreditUnits * fcts' + nchars'
      BY <1>2, <1>3, <1>4, <2>1, <3>2
    <3> QED
      BY <1>4, <1>8, <2>1, <2>2, <3>1, <3>3
  <2> QED
    BY <2>3, <2>4
<1>12. CASE Enqueue
  <2>1. UNCHANGED <<sender, receiver, stale, connected, fcts, nchars, queued, creditError>>
    BY <1>12 DEF Enqueue
  <2> QED
    BY <1>2, <1>4, <1>7, <1>8, <2>1
<1>13. CASE SendNChar
  <2>1. sender'.tx = sender.tx - 1 /\ sender.tx > 0
    BY <1>1, <1>13 DEF SendNChar, AfterNCharSent, CanSend, TypeOK, CreditRecord
  <2>2. /\ UNCHANGED <<receiver, stale, connected, fcts, queued, creditError>>
        /\ nchars' = nchars + 1
    BY <1>13 DEF SendNChar
  <2>3. creditError' = "none" =>
          receiver'.rx + stale' = sender'.tx + FctCreditUnits * fcts' + nchars'
    BY <1>2, <1>3, <1>4, <2>1, <2>2
  <2> QED
    BY <1>2, <1>4, <1>7, <1>8, <2>2, <2>3
<1>14. CASE DeliverNChar
  <2>1. /\ UNCHANGED <<sender, stale, connected, fcts>>
        /\ nchars' = nchars - 1 /\ nchars > 0 /\ creditError = "none"
    BY <1>14 DEF DeliverNChar
  <2>2. CASE NCharUnderflows(receiver)
    <3>1. receiver.rx <= 0 /\ creditError' = "nchar_with_zero_rx_credit"
          /\ UNCHANGED <<receiver, queued>>
      BY <1>14, <2>2 DEF DeliverNChar, NCharUnderflows
    <3>2. stale # 0
      BY <1>2, <1>3, <1>4, <2>1, <3>1
    <3> QED
      BY <1>2, <1>4, <1>7, <1>8, <2>1, <3>1, <3>2
  <2>3. CASE ~NCharUnderflows(receiver)
    <3>1. /\ receiver' = [receiver EXCEPT !.rx = @ - 1] /\ receiver.rx > 0
          /\ queued' = queued + 1 /\ creditError' = creditError
      BY <1>2, <1>14, <2>3 DEF DeliverNChar, NCharUnderflows, AfterNCharReceived
    <3>2. receiver'.rx = receiver.rx - 1 /\ receiver'.max = receiver.max
      BY <1>1, <3>1 DEF TypeOK, CreditRecord
    <3>3. connected
      BY <1>2, <1>4, <3>1
    <3>4. receiver'.rx + stale' = sender'.tx + FctCreditUnits * fcts' + nchars'
      BY <1>2, <1>3, <1>4, <2>1, <3>2
    <3>5. QueueBound'
      BY <1>2, <1>7, <3>1, <3>2
    <3> QED
      BY <1>2, <1>4, <1>8, <2>1, <3>1, <3>2, <3>3, <3>4, <3>5
  <2> QED
    BY <2>2, <2>3
<1>15. CASE Consume
  <2>1. /\ UNCHANGED <<sender, receiver, stale, connected, fcts, nchars, creditError>>
        /\ queued' = queued - 1
    BY <1>15 DEF Consume
  <2>2. QueueBound'
    BY <1>2, <1>7, <2>1
  <2> QED
    BY <1>2, <1>4, <1>8, <2>1, <2>2
<1>16. CASE UNCHANGED vars
  <2>1. UNCHANGED <<sender, receiver, stale, connected, fcts, nchars, queued, creditError>>
    BY <1>16 DEF vars
  <2> QED
    BY <1>2, <1>4, <1>7, <1>8, <2>1
<1> HIDE DEF WindowHoldsAnFct
<1> QED
  BY <1>9, <1>10, <1>11, <1>12, <1>13, <1>14, <1>15, <1>16 DEF Next

\* and so they agree throughout.
LEMMA FlowInvHolds == ASSUME WindowHoldsAnFct PROVE Spec => []FlowInv
<1>1. Init => FlowInv
  BY FlowInvInit
<1>2. FlowInv /\ [Next]_vars => FlowInv'
  BY FlowInvStep
<1> QED
  BY <1>1, <1>2, PTL DEF Spec

\* The counters of the two endpoints agree across the line but for the stale credit
\* the sender started with, for every capacity, window and unit (on_fct_sent,
\* on_fct_received, on_nchar_sent, on_nchar_received).
THEOREM CreditAlwaysConserved == ASSUME WindowHoldsAnFct PROVE Spec => []CreditConserved
<1>1. FlowInv => CreditConserved
  BY DEF FlowInv
<1> QED
  BY <1>1, FlowInvHolds, PTL

\* A session of two such endpoints ends with a credit error only if its sender held
\* stale credit when it started (link.py:454); nothing is assumed about that.
THEOREM NeverCreditError == ASSUME WindowHoldsAnFct PROVE Spec => []NoCreditError
<1>1. FlowInv => NoCreditError
  BY DEF FlowInv
<1> QED
  BY <1>1, FlowInvHolds, PTL

\* The bound the receiver's queue does keep, whatever credit the sender holds.
THEOREM QueueAlwaysBounded == ASSUME WindowHoldsAnFct PROVE Spec => []QueueBound
<1>1. FlowInv => QueueBound
  BY DEF FlowInv
<1> QED
  BY <1>1, FlowInvHolds, PTL

-----------------------------------------------------------------------------
\* Of a session that starts clean, the counters implement the window transfer: every
\* step is a step of it, or leaves its variables alone.
THEOREM FlowImplementsWindow == ASSUME WindowHoldsAnFct PROVE Spec => ImplementsWindow
<1>1. Init => Transfer!Init
  <2> SUFFICES ASSUME Init PROVE Transfer!Init
    OBVIOUS
  <2>1. /\ stale = 0 => sender.tx = 0
        /\ fcts = 0 /\ queued \in Nat /\ nchars = 0 /\ backlog = 0
    BY ConstantTypes DEF Init, NewCredit
  <2> QED
    BY <2>1, ConstantTypes DEF Transfer!Init, Promised
<1>2. FlowInv /\ FlowInv' /\ [Next]_vars => [Transfer!Next]_(Transfer!vars)
  <2> SUFFICES ASSUME FlowInv, FlowInv', [Next]_vars
               PROVE  Transfer!Next \/ UNCHANGED Transfer!vars
    OBVIOUS
  <2> DEFINE w == sender.tx + FctCreditUnits * fcts
  <2>0. stale' = stale
    BY DEF Next, SendHandshakeFct, SendRunFct, DeliverFct, Enqueue, SendNChar,
           DeliverNChar, Consume, vars
  <2>1. CASE stale # 0
    BY <2>0, <2>1 DEF Promised, Transfer!vars
  <2>2. CASE stale = 0
    <3>1. /\ sender.tx \in Nat /\ receiver.rx \in Nat /\ receiver.max = MaxRxCredit
          /\ fcts \in Nat /\ nchars \in Nat /\ queued \in Nat
          /\ receiver.rx = w + nchars
          /\ receiver'.rx = w' + nchars'
          /\ receiver'.rx <= MaxRxCredit
          /\ creditError' = "none"
      <4>1. creditError = "none" /\ creditError' = "none"
        BY <2>0, <2>2 DEF FlowInv, NoCreditError
      <4>2. /\ sender.tx \in Nat /\ receiver.rx \in Nat /\ sender'.tx \in Nat
            /\ receiver'.rx \in Nat /\ fcts \in Nat /\ nchars \in Nat /\ queued \in Nat
        BY DEF FlowInv, TypeOK, CreditRecord
      <4>3. receiver.rx + 0 = w + nchars /\ receiver'.rx + 0 = w' + nchars'
        BY <2>0, <2>2, <4>1 DEF FlowInv, CreditConserved
      <4>4. receiver.max = MaxRxCredit /\ receiver'.rx <= MaxRxCredit
        BY DEF FlowInv
      <4> QED
        BY <4>1, <4>2, <4>3, <4>4
    <3>2. /\ FctCreditUnits * fcts \in Nat
          /\ FctCreditUnits * (fcts + 1) = FctCreditUnits * fcts + FctCreditUnits
          /\ fcts > 0 => FctCreditUnits * (fcts - 1) = FctCreditUnits * fcts - FctCreditUnits
      BY <3>1, OneFct
    <3>3. \A n : Promised(n) = n
      BY <2>2 DEF Promised
    <3>4. /\ Promised(w)' = w' /\ Promised(nchars)' = nchars'
          /\ Promised(queued)' = queued' /\ Promised(backlog)' = backlog'
      BY <2>0, <2>2 DEF Promised
    <3> USE ConstantTypes
    <3>5. CASE SendHandshakeFct \/ SendRunFct
      <4>1. /\ sender' = sender /\ fcts' = fcts + 1
            /\ UNCHANGED <<nchars, queued, backlog>>
        BY <3>5 DEF SendHandshakeFct, SendRunFct
      <4>2. w' = w + FctCreditUnits
        BY <3>1, <3>2, <4>1
      <4>3. w + nchars + FctCreditUnits <= MaxRxCredit
        BY <3>1, <3>2, <4>1, <4>2
      <4> QED
        BY <3>3, <3>4, <4>1, <4>2, <4>3 DEF Transfer!Next, Transfer!Grant
    <3>6. CASE DeliverFct
      <4>1. sender' = [sender EXCEPT !.tx = @ + FctCreditUnits]
        BY <3>1, <3>6 DEF DeliverFct, AfterFctReceived
      <4>2. sender'.tx = sender.tx + FctCreditUnits
        BY <4>1 DEF FlowInv, TypeOK, CreditRecord
      <4>3. w' = w /\ UNCHANGED <<nchars, queued, backlog>>
        BY <3>1, <3>2, <3>6, <4>2 DEF DeliverFct
      <4> QED
        BY <3>3, <3>4, <4>3 DEF Transfer!vars
    <3>7. CASE Enqueue
      BY <3>3, <3>4, <3>7 DEF Enqueue, Transfer!Next, Transfer!Want
    <3>8. CASE SendNChar
      <4>1. sender'.tx = sender.tx - 1 /\ sender.tx > 0
        BY <3>8 DEF SendNChar, AfterNCharSent, CanSend, FlowInv, TypeOK, CreditRecord
      <4>2. w' = w - 1 /\ w > 0
        BY <3>1, <3>2, <3>8, <4>1 DEF SendNChar
      <4> QED
        BY <3>3, <3>4, <3>8, <4>2 DEF SendNChar, Transfer!Next, Transfer!Send
    <3>9. CASE DeliverNChar
      <4>1. queued' = queued + 1
        BY <3>1, <3>9 DEF DeliverNChar
      <4> QED
        BY <3>3, <3>4, <3>9, <4>1 DEF DeliverNChar, Transfer!Next, Transfer!Arrive
    <3>10. CASE Consume
      BY <3>3, <3>4, <3>10 DEF Consume, Transfer!Next, Transfer!Collect
    <3>11. CASE UNCHANGED vars
      BY <3>11 DEF vars, Transfer!vars, Promised
    <3> QED
      BY <3>5, <3>6, <3>7, <3>8, <3>9, <3>10, <3>11 DEF Next
  <2> QED
    BY <2>1, <2>2
<1> QED
  BY <1>1, <1>2, FlowInvHolds, PTL DEF Spec, ImplementsWindow, Transfer!Spec

-----------------------------------------------------------------------------
\* Division by the unit of credit, by its two bounds.
LEMMA UnitsIn ==
  ASSUME NEW n \in Nat, NEW k \in Nat,
         FctCreditUnits * k <= n, n < FctCreditUnits * k + FctCreditUnits
  PROVE  n \div FctCreditUnits = k
<1> DEFINE q == n \div FctCreditUnits
<1>0. FctCreditUnits \in Nat /\ FctCreditUnits > 0
  BY ConstantTypes
<1>1. q \in Nat /\ FctCreditUnits * q <= n /\ n < FctCreditUnits * q + FctCreditUnits
  BY <1>0
<1> HIDE DEF q
<1>2. ASSUME NEW x \in Nat, NEW y \in Nat, x > y
      PROVE  FctCreditUnits * x >= FctCreditUnits * y + FctCreditUnits
  <2> DEFINE z == x - y - 1
  <2>1. z \in Nat /\ x = y + 1 + z
    BY <1>2
  <2> HIDE DEF z
  <2>2. FctCreditUnits * x = FctCreditUnits * y + FctCreditUnits + FctCreditUnits * z
    BY <1>0, <2>1
  <2>3. FctCreditUnits * z \in Nat /\ FctCreditUnits * y \in Nat
    BY <1>0, <2>1
  <2> QED
    BY <1>0, <2>2, <2>3
<1>3. FctCreditUnits * k \in Nat /\ FctCreditUnits * q \in Nat
  BY <1>0, <1>1
<1>4. ~(q > k) /\ ~(k > q)
  BY <1>0, <1>1, <1>2, <1>3
<1> QED
  BY <1>1, <1>4 DEF q

\* Until an N-Char comes, the receiver has granted whole FCTs only.
WholeFcts == ~heard => \E k \in Nat : receiver.rx = FctCreditUnits * k

\* Nothing is granted at first,
LEMMA WholeFctsInit == Init => WholeFcts
<1> SUFFICES ASSUME Init PROVE WholeFcts
  OBVIOUS
<1>1. receiver.rx = FctCreditUnits * 0
  BY ConstantTypes DEF Init, NewCredit
<1> QED
  BY <1>1 DEF WholeFcts

\* and credit is granted in whole FCTs.
LEMMA WholeFctsStep == FlowInv /\ WholeFcts /\ [Next]_vars => WholeFcts'
<1> SUFFICES ASSUME FlowInv, WholeFcts, [Next]_vars PROVE WholeFcts'
  OBVIOUS
<1>1. ASSUME UNCHANGED <<receiver, heard>>
      PROVE  WholeFcts'
  BY <1>1 DEF WholeFcts
<1>2. ASSUME receiver' = AfterFctSent(receiver), heard' = heard
      PROVE  WholeFcts'
  <2>1. SUFFICES ASSUME ~heard
                 PROVE  \E k \in Nat : receiver'.rx = FctCreditUnits * k
    BY <1>2 DEF WholeFcts
  <2>2. receiver'.rx = receiver.rx + FctCreditUnits
    BY <1>2 DEF AfterFctSent, FlowInv, TypeOK, CreditRecord
  <2>3. PICK k \in Nat : receiver.rx = FctCreditUnits * k
    BY <2>1 DEF WholeFcts
  <2>4. receiver'.rx = FctCreditUnits * (k + 1) /\ k + 1 \in Nat
    BY <2>2, <2>3, OneFct
  <2> QED
    BY <2>4
<1>3. CASE SendHandshakeFct \/ SendRunFct
  BY <1>1, <1>2, <1>3 DEF SendHandshakeFct, SendRunFct
<1>4. CASE DeliverNChar
  BY <1>4 DEF DeliverNChar, WholeFcts
<1>5. CASE DeliverFct \/ Enqueue \/ SendNChar \/ Consume \/ UNCHANGED vars
  BY <1>1, <1>5 DEF DeliverFct, Enqueue, SendNChar, Consume, vars
<1> QED
  BY <1>3, <1>4, <1>5 DEF Next

\* The constructor's default: the wish for a window asks for no less than the FIFO and
\* the standard allow, and the standard's credit is its FCTs in full.
WindowInFull ==
  /\ MaxRxCredit = CappedMax(MaxCredit, RxCapacity)
  /\ MaxCredit = FctCreditUnits * MaxOutstandingFcts

\* What the Run loop leaves granted when it has nothing more to grant.
LEMMA BurstCounted ==
  ASSUME WindowHoldsAnFct, WindowInFull, FlowInv, WholeFcts
  PROVE  BurstExact
<1> SUFFICES ASSUME creditError = "none", connected, ~heard, queued = 0, fcts = 0,
                    ~ShouldSendFct(receiver, Headroom)
             PROVE  sender.tx + nchars = stale + FctCreditUnits * InitialFctCount(RxCapacity)
  BY DEF BurstExact
<1> USE ConstantTypes
<1>1. /\ receiver.max = MaxRxCredit /\ receiver.rx <= MaxRxCredit /\ receiver.rx \in Nat
      /\ sender.tx \in Nat /\ nchars \in Nat /\ stale \in Nat
      /\ receiver.rx + stale = sender.tx + FctCreditUnits * fcts + nchars
  BY DEF FlowInv, CreditConserved, TypeOK, CreditRecord
<1>2. receiver.rx + stale = sender.tx + nchars
  BY <1>1
<1>3. receiver.rx > MaxRxCredit - FctCreditUnits
  <2>1. Headroom >= FctCreditUnits
    BY DEF Headroom, WindowHoldsAnFct
  <2> QED
    BY <1>1, <2>1 DEF ShouldSendFct
<1>4. PICK k \in Nat : receiver.rx = FctCreditUnits * k
  BY DEF WholeFcts
<1>5. MaxRxCredit \div FctCreditUnits = k
  BY <1>1, <1>3, <1>4, UnitsIn
<1>6. MaxOutstandingFcts \in Nat /\ MaxCredit \div FctCreditUnits = MaxOutstandingFcts
  <2>1. MaxOutstandingFcts \in Nat
    BY CreditConstants
  <2>2. /\ FctCreditUnits * MaxOutstandingFcts <= MaxCredit
        /\ MaxCredit < FctCreditUnits * MaxOutstandingFcts + FctCreditUnits
    BY DEF WindowInFull
  <2> QED
    BY <2>1, <2>2, UnitsIn
<1>7. InitialFctCount(RxCapacity) = k
  <2> DEFINE slots == RxCapacity \div FctCreditUnits
  <2>1. /\ slots \in Nat
        /\ FctCreditUnits * slots <= RxCapacity
        /\ RxCapacity < FctCreditUnits * slots + FctCreditUnits
    OBVIOUS
  <2>2. InitialFctCount(RxCapacity) = IF slots < MaxOutstandingFcts THEN slots
                                      ELSE MaxOutstandingFcts
    BY DEF InitialFctCount
  <2> HIDE DEF slots
  <2>3. CASE RxCapacity < MaxCredit
    <3>1. slots = k
      BY <1>5, <2>3 DEF WindowInFull, CappedMax, slots
    <3>2. FctCreditUnits * k < FctCreditUnits * MaxOutstandingFcts
      BY <2>1, <2>3, <3>1 DEF WindowInFull
    <3>3. k <= MaxOutstandingFcts
      BY <1>6, <3>2
    <3> QED
      BY <1>6, <2>2, <3>1, <3>3
  <2>4. CASE RxCapacity >= MaxCredit
    <3>1. k = MaxOutstandingFcts
      BY <1>5, <1>6, <2>4 DEF WindowInFull, CappedMax
    <3>2. FctCreditUnits * MaxOutstandingFcts < FctCreditUnits * (slots + 1)
      BY <1>6, <2>1, <2>4 DEF WindowInFull
    <3>3. ~(slots < MaxOutstandingFcts)
      BY <1>6, <2>1, <3>2
    <3> QED
      BY <2>2, <3>1, <3>3
  <2> QED
    BY <2>3, <2>4
<1> QED
  BY <1>1, <1>2, <1>4, <1>7

\* With nothing collected and nothing heard yet, the Run loop grants exactly the initial
\* burst that initial_fct_count() computes, no FCT more and none less (link.py:341-346).
THEOREM BurstAlwaysExact ==
  ASSUME WindowHoldsAnFct, WindowInFull
  PROVE  Spec => []BurstExact
<1>1. FlowInv /\ WholeFcts => BurstExact
  BY BurstCounted
<1> QED
  BY <1>1, WholeFctsInit, WholeFctsStep, FlowInvHolds, PTL DEF Spec
=============================================================================
