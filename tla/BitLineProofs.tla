---------------------------- MODULE BitLineProofs -----------------------------
(***************************************************************************)
(* BitLine proved for every number of callers and readers, every batch and *)
(* every timeout.  The argument has three parts: the driver's two counters *)
(* against the history of what it has driven, the levels it leaves against *)
(* those the simulator shows, and the readers against the queue.           *)
(***************************************************************************)
EXTENDS BitLine, TLAPS, SequenceTheorems, WellFoundedInduction

DriverRecord ==
  [level : Level, queue : Seq(Bit), task : {"stopped", "ready", "Timer"},
   enqueued : Nat, driven : Nat]

MonitorRecord ==
  [queue : Seq(Bit), running : BOOLEAN, disconnected : BOOLEAN, silent : Nat]

LogRecord ==
  [step : Seq(Bit), driven : Seq(Bit), last : [Caller -> Nat], underrun : BOOLEAN]

TypeOK ==
  /\ driver \in DriverRecord /\ monitor \in MonitorRecord /\ log \in LogRecord
  /\ calls \in [Caller -> Nat]
  /\ pins \in Level /\ line \in Level
  /\ reads \in [Reader -> {"idle", "waiting", "woken"}]

-----------------------------------------------------------------------------
\* The fields of the records, and those of a level after a bit.
LEMMA RecordFields ==
  ASSUME TypeOK
  PROVE  /\ driver.level \in Level /\ driver.queue \in Seq(Bit)
         /\ driver.task \in {"stopped", "ready", "Timer"}
         /\ driver.enqueued \in Nat /\ driver.driven \in Nat
         /\ monitor.queue \in Seq(Bit) /\ monitor.running \in BOOLEAN
         /\ monitor.disconnected \in BOOLEAN /\ monitor.silent \in Nat
         /\ log.step \in Seq(Bit) /\ log.driven \in Seq(Bit)
         /\ log.last \in [Caller -> Nat] /\ log.underrun \in BOOLEAN
BY DEF TypeOK, DriverRecord, MonitorRecord, LogRecord

\* Exactly one of D and S changes with a bit, and D carries it.
LEMMA OneChanges ==
  ASSUME NEW before \in Level, NEW bit \in Bit
  PROVE  LET after == NextLevel(before, bit)
         IN  /\ after \in Level /\ after.d = bit /\ after # before
             /\ ValidTransition(before, after)
             /\ ~(after.d # before.d /\ after.s # before.s)
<1>1. before.d \in {0, 1} /\ before.s \in {0, 1} /\ bit \in {0, 1}
  BY DEF Level, Bit
<1>2. NextLevel(before, bit) \in Level
  BY <1>1 DEF NextLevel, Level, Bit
<1> QED
  BY <1>1, <1>2 DEF NextLevel, ValidTransition

\* The sequences of bits the actions build.
LEMMA BitSequences ==
  ASSUME NEW q \in Seq(Bit), NEW r \in Seq(Bit), NEW b \in Bit
  PROVE  /\ q \o r \in Seq(Bit) /\ Len(q \o r) = Len(q) + Len(r)
         /\ Append(q, b) \in Seq(Bit) /\ Len(Append(q, b)) = Len(q) + 1 /\ Len(q) \in Nat
         /\ q # <<>> => Head(q) \in Bit /\ Tail(q) \in Seq(Bit) /\ Len(Tail(q)) = Len(q) - 1
         /\ q = <<>> <=> Len(q) = 0
OBVIOUS

\* What the actions write to the records of the driver, the history and the monitor.
AfterEnqueue(d, q, n) == [d EXCEPT !.queue = q, !.enqueued = n]
AfterDrive(d, v, q, n) == [d EXCEPT !.level = v, !.queue = q, !.task = "Timer", !.driven = n]
LogAfterDrive(h, a, b) == [h EXCEPT !.step = a, !.driven = b]
LogAfterSettle(h) == [h EXCEPT !.step = <<>>]
LogAfterSubmit(h, c, n) == [h EXCEPT !.last[c] = n]
AfterSample(m, q) == [m EXCEPT !.queue = q, !.disconnected = FALSE, !.silent = 0]
AfterRead(m, q) == [m EXCEPT !.queue = q]

\* The driver with bits queued, field by field,
LEMMA DriverEnqueues ==
  ASSUME NEW d \in DriverRecord, NEW q \in Seq(Bit), NEW n \in Nat
  PROVE  AfterEnqueue(d, q, n) = [level |-> d.level, queue |-> q, task |-> d.task,
                                  enqueued |-> n, driven |-> d.driven]
<1> DEFINE e == AfterEnqueue(d, q, n)
<1>1. e \in DriverRecord
  BY DEF DriverRecord, AfterEnqueue
<1>2. /\ e.level = d.level /\ e.queue = q /\ e.task = d.task
      /\ e.enqueued = n /\ e.driven = d.driven
  BY DEF DriverRecord, AfterEnqueue
<1> HIDE DEF e
<1>3. e = [level |-> e.level, queue |-> e.queue, task |-> e.task,
           enqueued |-> e.enqueued, driven |-> e.driven]
  BY <1>1 DEF DriverRecord
<1> QED
  BY <1>2, <1>3, Zenon DEF e

\* and with a bit driven.
LEMMA DriverDrives ==
  ASSUME NEW d \in DriverRecord, NEW q \in Seq(Bit), NEW n \in Nat, NEW v \in Level
  PROVE  AfterDrive(d, v, q, n) = [level |-> v, queue |-> q, task |-> "Timer",
                                   enqueued |-> d.enqueued, driven |-> n]
<1> DEFINE e == AfterDrive(d, v, q, n)
<1>1. e \in DriverRecord
  BY DEF DriverRecord, AfterDrive
<1>2. /\ e.level = v /\ e.queue = q /\ e.task = "Timer"
      /\ e.enqueued = d.enqueued /\ e.driven = n
  BY DEF DriverRecord, AfterDrive
<1> HIDE DEF e
<1>3. e = [level |-> e.level, queue |-> e.queue, task |-> e.task,
           enqueued |-> e.enqueued, driven |-> e.driven]
  BY <1>1 DEF DriverRecord
<1> QED
  BY <1>2, <1>3, Zenon DEF e

\* The log with a bit driven, field by field,
LEMMA LogDrives ==
  ASSUME NEW h \in LogRecord, NEW a \in Seq(Bit), NEW b \in Seq(Bit)
  PROVE  LET e == LogAfterDrive(h, a, b)
         IN  /\ e \in LogRecord /\ e.step = a /\ e.driven = b
             /\ e.last = h.last /\ e.underrun = h.underrun
BY DEF LogRecord, LogAfterDrive

\* with a time step ended,
LEMMA LogStep ==
  ASSUME NEW h \in LogRecord
  PROVE  LET e == LogAfterSettle(h)
         IN  /\ e \in LogRecord /\ e.step = <<>> /\ e.driven = h.driven
             /\ e.last = h.last /\ e.underrun = h.underrun
<1>1. <<>> \in Seq(Bit)
  OBVIOUS
<1> QED
  BY <1>1 DEF LogRecord, LogAfterSettle

\* and with a call noted.
LEMMA LogLast ==
  ASSUME NEW h \in LogRecord, NEW c \in Caller, NEW n \in Nat
  PROVE  LET e == LogAfterSubmit(h, c, n)
         IN  /\ e \in LogRecord /\ e.step = h.step /\ e.driven = h.driven
             /\ e.last = [h.last EXCEPT ![c] = n] /\ e.underrun = h.underrun
BY DEF LogRecord, LogAfterSubmit

\* The monitor with another queue, field by field.
LEMMA MonitorFields ==
  ASSUME NEW m \in MonitorRecord, NEW q \in Seq(Bit)
  PROVE  /\ LET e == AfterRead(m, q)
            IN  e \in MonitorRecord /\ e.queue = q /\ e.running = m.running
         /\ LET e == AfterSample(m, q)
            IN  e \in MonitorRecord /\ e.queue = q /\ e.running = m.running
BY DEF MonitorRecord, AfterRead, AfterSample

-----------------------------------------------------------------------------
\* The bits driven so far, and those in the queue.
Driven == Len(log.driven)
Queued == Len(driver.queue)

\* The counted lengths are numbers.
LEMMA CountTypes == TypeOK => Driven \in Nat /\ Queued \in Nat
<1> SUFFICES ASSUME TypeOK PROVE Driven \in Nat /\ Queued \in Nat
  OBVIOUS
<1>1. log.driven \in Seq(Bit) /\ driver.queue \in Seq(Bit)
  BY RecordFields
<1> QED
  BY <1>1 DEF Driven, Queued

\* The actions, field by field.
LEMMA EnqueueStep ==
  ASSUME TypeOK, NEW bits \in Batch, Enqueue(bits)
  PROVE  /\ driver' \in DriverRecord /\ Len(bits) \in Nat
         /\ Queued' = Queued + Len(bits)
         /\ driver'.enqueued = driver.enqueued + Len(bits)
         /\ driver'.level = driver.level /\ driver'.driven = driver.driven
<1>1. bits \in Seq(Bit)
  BY BitLineConstants
<1> DEFINE q == driver.queue \o bits
           n == driver.enqueued + Len(bits)
<1>2. driver \in DriverRecord /\ driver.queue \in Seq(Bit) /\ driver.enqueued \in Nat
  BY RecordFields DEF TypeOK
<1>3. q \in Seq(Bit) /\ Len(q) = Queued + Len(bits) /\ n \in Nat /\ Len(bits) \in Nat
  BY <1>1, <1>2 DEF Queued
<1>4. driver' = AfterEnqueue(driver, q, n)
  BY DEF Enqueue, AfterEnqueue
<1>5. driver.level \in Level /\ driver.task \in {"stopped", "ready", "Timer"}
      /\ driver.driven \in Nat
  BY RecordFields
<1> HIDE DEF q, n
<1>6. driver' = [level |-> driver.level, queue |-> q, task |-> driver.task,
                 enqueued |-> n, driven |-> driver.driven]
  BY <1>2, <1>3, <1>4, DriverEnqueues
<1>7. driver' \in DriverRecord
  BY <1>3, <1>5, <1>6 DEF DriverRecord
<1>8. Queued' = Len(q)
  BY <1>6 DEF Queued
<1>9. /\ driver'.level = driver.level /\ driver'.driven = driver.driven
      /\ driver'.enqueued = n
  BY <1>6
<1> QED
  BY <1>3, <1>7, <1>8, <1>9 DEF n

\* A call of send_bits, field by field.
LEMMA SubmitStep ==
  ASSUME TypeOK, NEW c \in Caller, NEW bits \in Batch, Submit(c, bits)
  PROVE  LET n == IF bits = <<>> THEN log.last[c] ELSE Driven + Queued + Len(bits)
         IN  /\ n \in Nat
             /\ log' \in LogRecord /\ log'.last = [log.last EXCEPT ![c] = n]
             /\ log'.step = log.step /\ log'.driven = log.driven
             /\ log'.underrun = log.underrun
<1> DEFINE n == IF bits = <<>> THEN log.last[c] ELSE Driven + Queued'
           e == LogAfterSubmit(log, c, n)
<1>1. Enqueue(bits) /\ log' = e
  BY DEF Submit, Driven, Queued, LogAfterSubmit
<1>2. Queued' = Queued + Len(bits) /\ Len(bits) \in Nat /\ Driven \in Nat /\ Queued \in Nat
  BY <1>1, EnqueueStep, CountTypes
<1>3. log \in LogRecord
  BY DEF TypeOK
<1>4. log.last[c] \in Nat
  BY RecordFields
<1>5. n = IF bits = <<>> THEN log.last[c] ELSE Driven + Queued + Len(bits)
  BY <1>2
<1>6. n \in Nat
  BY <1>2, <1>4
<1> HIDE DEF n
<1>7. /\ e \in LogRecord /\ e.last = [log.last EXCEPT ![c] = n]
      /\ e.step = log.step /\ e.driven = log.driven /\ e.underrun = log.underrun
  BY <1>3, <1>6, LogLast, Zenon
<1> HIDE DEF e
<1> QED
  BY <1>1, <1>5, <1>6, <1>7

\* A bit driven, field by field.
LEMMA DriveStep ==
  ASSUME TypeOK, DriveBit
  PROVE  LET bit   == Head(driver.queue)
             level == NextLevel(driver.level, bit)
         IN  /\ bit \in Bit /\ level \in Level
             /\ driver' \in DriverRecord /\ driver'.level = level /\ pins' = level
             /\ Queued > 0 /\ Queued' = Queued - 1 /\ Driven' = Driven + 1
             /\ driver'.enqueued = driver.enqueued /\ driver'.driven = driver.driven + 1
             /\ log' \in LogRecord /\ log'.last = log.last /\ log'.underrun = log.underrun
             /\ log'.step = Append(log.step, bit) /\ log'.driven = Append(log.driven, bit)
<1> DEFINE bit   == Head(driver.queue)
           level == NextLevel(driver.level, bit)
           q     == Tail(driver.queue)
           n     == driver.driven + 1
           step  == Append(log.step, bit)
           bits  == Append(log.driven, bit)
<1>1. /\ driver \in DriverRecord /\ driver.queue \in Seq(Bit) /\ driver.driven \in Nat
      /\ driver.level \in Level /\ driver.enqueued \in Nat /\ log \in LogRecord
      /\ log.step \in Seq(Bit) /\ log.driven \in Seq(Bit) /\ log.underrun \in BOOLEAN
  BY RecordFields DEF TypeOK
<1>2. driver.queue # <<>>
  BY DEF DriveBit
<1>3. /\ bit \in Bit /\ q \in Seq(Bit) /\ Len(q) = Queued - 1 /\ Queued > 0
      /\ n \in Nat
  BY <1>1, <1>2 DEF Queued
<1>4. step \in Seq(Bit) /\ bits \in Seq(Bit) /\ Len(bits) = Driven + 1
  BY <1>1, <1>3 DEF Driven
<1>5. level \in Level
  BY <1>1, <1>3, OneChanges
<1> DEFINE h == LogAfterDrive(log, step, bits)
<1>6. driver' = AfterDrive(driver, level, q, n) /\ pins' = level /\ log' = h
  BY DEF DriveBit, AfterDrive, LogAfterDrive
<1> HIDE DEF bit, level, q, n, step, bits
<1>7. driver' = [level |-> level, queue |-> q, task |-> "Timer",
                 enqueued |-> driver.enqueued, driven |-> n]
  BY <1>1, <1>3, <1>5, <1>6, DriverDrives
<1>8. driver' \in DriverRecord
  BY <1>1, <1>3, <1>5, <1>7 DEF DriverRecord
<1>9. /\ driver'.level = level /\ driver'.queue = q
      /\ driver'.enqueued = driver.enqueued /\ driver'.driven = n
  BY <1>7
<1>10. /\ h \in LogRecord /\ h.last = log.last /\ h.underrun = log.underrun
       /\ h.step = step /\ h.driven = bits
  BY <1>1, <1>4, LogDrives
<1> HIDE DEF h
<1>11. Queued' = Queued - 1 /\ Driven' = Driven + 1
  BY <1>3, <1>4, <1>6, <1>9, <1>10 DEF Queued, Driven
<1> QED
  BY <1>3, <1>5, <1>6, <1>8, <1>9, <1>10, <1>11, Zenon DEF bit, level, n, step, bits

\* The end of a time step, field by field.
LEMMA SettleStep ==
  ASSUME TypeOK, Settle
  PROVE  /\ monitor' \in MonitorRecord /\ monitor'.running = monitor.running
         /\ IF pins # line /\ monitor.running
            THEN /\ \E n \in Samples :
                      monitor'.queue = monitor.queue \o [i \in 1 .. n |-> pins.d]
                 /\ \A r \in Reader : reads'[r] # "waiting"
            ELSE monitor'.queue = monitor.queue /\ reads' = reads
         /\ reads' \in [Reader -> {"idle", "waiting", "woken"}]
         /\ log' \in LogRecord /\ log'.last = log.last /\ log'.underrun = log.underrun
         /\ log'.step = <<>> /\ log'.driven = log.driven
<1>1. /\ monitor \in MonitorRecord /\ monitor.queue \in Seq(Bit) /\ pins.d \in Bit
      /\ log \in LogRecord /\ log.underrun \in BOOLEAN /\ log.driven \in Seq(Bit)
  BY RecordFields DEF TypeOK, Level
<1>2. <<>> \in Seq(Bit)
  OBVIOUS
<1>3. /\ log' \in LogRecord /\ log'.last = log.last /\ log'.underrun = log.underrun
      /\ log'.step = <<>> /\ log'.driven = log.driven
  <2> DEFINE e == LogAfterSettle(log)
  <2>1. log' = e
    BY DEF Settle, LogAfterSettle
  <2>2. /\ e \in LogRecord /\ e.last = log.last /\ e.underrun = log.underrun
        /\ e.step = <<>> /\ e.driven = log.driven
    BY <1>1, LogStep, Zenon
  <2> QED
    BY <2>1, <2>2, Zenon
<1>4. reads' \in [Reader -> {"idle", "waiting", "woken"}]
  BY DEF Settle, TypeOK
<1>5. CASE ~(pins # line /\ monitor.running)
  BY <1>1, <1>3, <1>4, <1>5 DEF Settle
<1>6. CASE pins # line /\ monitor.running
  <2>1. PICK n \in Samples :
          monitor' = [monitor EXCEPT !.queue = @ \o [i \in 1 .. n |-> pins.d],
                                     !.disconnected = FALSE, !.silent = 0]
    BY <1>6 DEF Settle
  <2> DEFINE q == monitor.queue \o [i \in 1 .. n |-> pins.d]
  <2>2. n \in Nat
    BY DEF Samples
  <2>3. [i \in 1 .. n |-> pins.d] \in Seq(Bit)
    BY <1>1, <2>2
  <2>4. q \in Seq(Bit)
    BY <1>1, <2>3
  <2>5. monitor' = AfterSample(monitor, q)
    BY <2>1 DEF AfterSample
  <2> HIDE DEF q
  <2>6. monitor' \in MonitorRecord /\ monitor'.queue = q /\ monitor'.running = monitor.running
    BY <1>1, <2>4, <2>5, MonitorFields
  <2>7. reads' = [r \in Reader |-> IF reads[r] = "waiting" THEN "woken" ELSE reads[r]]
    BY <1>6 DEF Settle
  <2> QED
    BY <1>3, <1>4, <1>6, <2>6, <2>7 DEF q
<1> QED
  BY <1>5, <1>6

\* A reader served, field by field.
LEMMA ReadStep ==
  ASSUME TypeOK, NEW r \in Reader, Read(r)
  PROVE  /\ monitor' \in MonitorRecord /\ monitor'.running = monitor.running
         /\ reads' \in [Reader -> {"idle", "waiting", "woken"}]
         /\ log' \in LogRecord /\ log'.last = log.last /\ log'.step = log.step
         /\ log'.driven = log.driven /\ log'.underrun = log.underrun
         /\ IF monitor.queue = <<>>
            THEN monitor'.queue = monitor.queue
            ELSE \A x \in Reader : reads'[x] = "waiting" => reads[x] = "waiting"
<1>1. /\ monitor \in MonitorRecord /\ monitor.queue \in Seq(Bit)
      /\ log \in LogRecord /\ log.underrun \in BOOLEAN
      /\ log.step \in Seq(Bit) /\ log.driven \in Seq(Bit)
  BY RecordFields DEF TypeOK
<1>2. reads' \in [Reader -> {"idle", "waiting", "woken"}]
  BY DEF Read, TypeOK
<1>3. CASE monitor.queue = <<>>
  <2>1. monitor' = monitor /\ log' = log
    BY <1>3 DEF Read, MustWait
  <2>2. /\ monitor' \in MonitorRecord /\ monitor'.running = monitor.running
        /\ log' \in LogRecord /\ log'.last = log.last /\ log'.step = log.step
        /\ log'.driven = log.driven /\ log'.underrun = log.underrun
    BY <1>1, <2>1, Zenon
  <2>3. monitor'.queue = monitor.queue
    BY <2>1, Zenon
  <2> QED
    BY <1>2, <1>3, <2>2, <2>3, Zenon
<1>4. CASE monitor.queue # <<>>
  <2> DEFINE q == Tail(monitor.queue)
  <2>1. q \in Seq(Bit)
    BY <1>1, <1>4
  <2>2. monitor' = AfterRead(monitor, q) /\ log' = [log EXCEPT !.underrun = @]
    BY <1>1, <1>4 DEF Read, MustWait, AfterRead
  <2> HIDE DEF q
  <2>3. monitor' \in MonitorRecord /\ monitor'.running = monitor.running
    BY <1>1, <2>1, <2>2, MonitorFields
  <2>4. log' = log
    BY <1>1, <2>2 DEF LogRecord
  <2>5. \A x \in Reader : reads'[x] = "waiting" => reads[x] = "waiting"
    BY <1>4 DEF Read, MustWait, TypeOK
  <2>6. /\ log' \in LogRecord /\ log'.last = log.last /\ log'.step = log.step
        /\ log'.driven = log.driven /\ log'.underrun = log.underrun
    BY <1>1, <2>4, Zenon
  <2> QED
    BY <1>2, <1>4, <2>3, <2>5, <2>6, Zenon
<1> QED
  BY <1>3, <1>4

\* Stopping, starting and the end of a Timer change the driver's task alone.
LEMMA TaskStep ==
  ASSUME TypeOK, StopDriver \/ StartDriver \/ PassTime
  PROVE  /\ driver'.level = driver.level /\ Queued' = Queued
         /\ driver'.enqueued = driver.enqueued /\ driver'.driven = driver.driven
         /\ log' = log /\ calls' = calls
<1>1. PICK t : driver' = [driver EXCEPT !.task = t]
  BY DEF StopDriver, StartDriver, PassTime
<1>2. log' = log /\ calls' = calls
  BY DEF StopDriver, StartDriver, PassTime
<1>3. /\ driver'.level = driver.level /\ driver'.queue = driver.queue
      /\ driver'.enqueued = driver.enqueued /\ driver'.driven = driver.driven
  BY <1>1 DEF TypeOK, DriverRecord
<1> QED
  BY <1>2, <1>3, Zenon DEF Queued

-----------------------------------------------------------------------------
\* The initial state has its types,
LEMMA TypeInit == Init => TypeOK
<1> SUFFICES ASSUME Init PROVE TypeOK
  OBVIOUS
<1>1. NewDriver \in DriverRecord /\ NewDriver.level \in Level
  BY DEF NewDriver, DriverRecord, Level, Bit
<1>2. NewMonitor \in MonitorRecord
  BY DEF NewMonitor, MonitorRecord
<1>3. NewLog \in LogRecord
  BY DEF NewLog, LogRecord
<1> QED
  BY <1>1, <1>2, <1>3 DEF Init, TypeOK, NoCall

\* every step keeps them,
LEMMA TypeStep == TypeOK /\ [Next]_vars => TypeOK'
<1> SUFFICES ASSUME TypeOK, [Next]_vars PROVE TypeOK'
  OBVIOUS
<1>1. ASSUME NEW c \in Caller, NEW bits \in Batch, Submit(c, bits) PROVE TypeOK'
  <2>1. driver' \in DriverRecord /\ driver.enqueued \in Nat /\ Len(bits) \in Nat
    BY <1>1, EnqueueStep, RecordFields DEF Submit
  <2>2. calls' \in [Caller -> Nat]
    BY <1>1, <2>1 DEF Submit, Target, TypeOK, NoCall
  <2>3. log' \in LogRecord
    BY <1>1, SubmitStep
  <2> QED
    BY <1>1, <2>1, <2>2, <2>3 DEF Submit, TypeOK
<1>2. ASSUME NEW bits \in Batch, SendBits(bits) PROVE TypeOK'
  BY <1>2, EnqueueStep DEF SendBits, TypeOK
<1>3. CASE DriveBit
  <2>1. calls' \in [Caller -> Nat]
    BY <1>3 DEF DriveBit, TypeOK, NoCall
  <2> QED
    BY <1>3, <2>1, DriveStep DEF DriveBit, TypeOK
<1>4. CASE StopDriver \/ StartDriver
  BY <1>4 DEF StopDriver, StartDriver, TypeOK, DriverRecord, StartLevel
<1>5. CASE Settle
  BY <1>5, SettleStep DEF Settle, TypeOK
<1>6. ASSUME NEW r \in Reader, Read(r) PROVE TypeOK'
  BY <1>6, ReadStep DEF Read, TypeOK
<1>7. CASE StopMonitor \/ StartMonitor
  <2>1. monitor' \in MonitorRecord
    <3>1. CASE StopMonitor
      BY <3>1 DEF StopMonitor, TypeOK, MonitorRecord
    <3>2. CASE StartMonitor
      BY <3>2 DEF StartMonitor, TypeOK, MonitorRecord
    <3> QED
      BY <1>7, <3>1, <3>2
  <2> QED
    BY <1>7, <2>1 DEF StopMonitor, StartMonitor, TypeOK
<1>8. CASE PassTime
  <2>1. driver' \in DriverRecord
    BY <1>8 DEF PassTime, TypeOK, DriverRecord
  <2>2. (monitor.silent + 1) % Timeout \in Nat
    BY RecordFields, BitLineConstants
  <2>3. monitor' \in MonitorRecord
    BY <1>8, <2>2 DEF PassTime, TypeOK, MonitorRecord
  <2> QED
    BY <1>8, <2>1, <2>3 DEF PassTime, TypeOK
<1>9. CASE UNCHANGED vars
  BY <1>9 DEF vars, TypeOK
<1> QED
  BY <1>1, <1>2, <1>3, <1>4, <1>5, <1>6, <1>7, <1>8, <1>9 DEF Next

\* and so they hold throughout.
LEMMA TypeHolds == Spec => []TypeOK
BY TypeInit, TypeStep, PTL DEF Spec

-----------------------------------------------------------------------------
\* The two counters of the driver against the history, and what each caller waits for.
CountInv ==
  /\ driver.driven = Driven
  /\ driver.enqueued = Driven + Queued
  /\ \A c \in Caller : calls[c] = IF log.last[c] > Driven THEN log.last[c] ELSE NoCall

\* Nothing is counted at first,
LEMMA CountInit == Init => CountInv
<1> SUFFICES ASSUME Init PROVE CountInv
  OBVIOUS
<1>1. Driven = 0 /\ Queued = 0
  BY DEF Init, Driven, Queued, NewLog, NewDriver
<1>2. driver.driven = 0 /\ driver.enqueued = 0
  BY DEF Init, NewDriver
<1>3. \A c \in Caller : calls[c] = NoCall /\ log.last[c] = 0
  BY DEF Init, NewLog
<1> QED
  BY <1>1, <1>2, <1>3 DEF CountInv

\* and every step keeps the counts.
LEMMA CountStep == TypeOK /\ CountInv /\ [Next]_vars => CountInv'
<1> SUFFICES ASSUME TypeOK, CountInv, [Next]_vars PROVE CountInv'
  OBVIOUS
<1>0. /\ Driven \in Nat /\ Queued \in Nat
      /\ \A c \in Caller : calls[c] \in Nat /\ log.last[c] \in Nat
      /\ DOMAIN log.last = Caller /\ DOMAIN calls = Caller
      /\ driver.driven \in Nat /\ driver.enqueued \in Nat
  BY CountTypes, RecordFields DEF TypeOK
<1>1. ASSUME NEW b \in Caller, NEW bits \in Batch, Submit(b, bits) PROVE CountInv'
  <2> DEFINE n == IF bits = <<>> THEN log.last[b] ELSE Driven + Queued + Len(bits)
  <2>1. /\ Queued' = Queued + Len(bits) /\ Len(bits) \in Nat
        /\ driver'.enqueued = driver.enqueued + Len(bits) /\ driver'.driven = driver.driven
    BY <1>1, EnqueueStep DEF Submit
  <2>2. /\ log'.last = [log.last EXCEPT ![b] = n] /\ n \in Nat
        /\ Driven' = Driven
    BY <1>1, SubmitStep, Zenon DEF Driven
  <2>3. /\ bits # <<>> => Target(bits) = n
        /\ bits = <<>> => n <= Driven
    <3>1. bits # <<>> => Target(bits) = n
      BY <1>0, <2>1 DEF Target, CountInv
    <3>2. ~(log.last[b] > Driven)
      BY <1>0, <1>1 DEF Submit, CountInv, NoCall
    <3> QED
      BY <1>0, <3>1, <3>2
  <2>4. /\ calls' = [calls EXCEPT ![b] = IF n <= Driven THEN NoCall ELSE n]
        /\ calls[b] = NoCall
    <3>1. driver.driven = Driven
      BY DEF CountInv
    <3> HIDE DEF n
    <3> QED
      BY <1>1, <2>3, <3>1 DEF Submit
  <2> HIDE DEF n
  <2>5. ASSUME NEW c \in Caller
        PROVE  calls'[c] = IF log'.last[c] > Driven THEN log'.last[c] ELSE NoCall
    <3>1. CASE c = b
      BY <1>0, <2>2, <2>4, <3>1
    <3>2. CASE c # b
      BY <1>0, <2>2, <2>4, <3>2 DEF CountInv
    <3> QED
      BY <3>1, <3>2
  <2>6. driver'.driven = Driven /\ driver'.enqueued = Driven + Queued'
    BY <1>0, <2>1 DEF CountInv
  <2> QED
    BY <2>2, <2>5, <2>6 DEF CountInv
<1>2. ASSUME NEW bits \in Batch, SendBits(bits) PROVE CountInv'
  <2>1. /\ Queued' = Queued + Len(bits) /\ Len(bits) \in Nat
        /\ driver'.enqueued = driver.enqueued + Len(bits) /\ driver'.driven = driver.driven
    BY <1>2, EnqueueStep DEF SendBits
  <2>2. log' = log /\ calls' = calls /\ Driven' = Driven
    BY <1>2 DEF SendBits, Driven
  <2>3. driver'.driven = Driven /\ driver'.enqueued = Driven + Queued'
    BY <1>0, <2>1 DEF CountInv
  <2> QED
    BY <2>2, <2>3 DEF CountInv
<1>3. CASE DriveBit
  <2>1. /\ Queued > 0 /\ Queued' = Queued - 1 /\ Driven' = Driven + 1
        /\ driver'.enqueued = driver.enqueued /\ driver'.driven = driver.driven + 1
        /\ log'.last = log.last
    BY <1>3, DriveStep
  <2>2. calls' = [c \in Caller |-> IF calls[c] > Driven' THEN calls[c] ELSE NoCall]
    BY <1>3, <2>1 DEF DriveBit, StillWaiting, CountInv
  <2>3. ASSUME NEW c \in Caller
        PROVE  calls'[c] = IF log.last[c] > Driven + 1 THEN log.last[c] ELSE NoCall
    <3>1. calls[c] = IF log.last[c] > Driven THEN log.last[c] ELSE 0
      BY DEF CountInv, NoCall
    <3>2. calls'[c] = IF calls[c] > Driven + 1 THEN calls[c] ELSE 0
      BY <2>1, <2>2 DEF NoCall
    <3> QED
      BY <1>0, <3>1, <3>2 DEF NoCall
  <2>4. driver'.driven = Driven' /\ driver'.enqueued = Driven' + Queued'
    BY <1>0, <2>1 DEF CountInv
  <2> QED
    BY <2>1, <2>3, <2>4 DEF CountInv
<1>4. CASE StopDriver \/ StartDriver \/ PassTime
  BY <1>4, TaskStep, Zenon DEF CountInv, Driven
<1>5. CASE Settle
  BY <1>5, SettleStep, Zenon DEF Settle, CountInv, Driven, Queued
<1>6. ASSUME NEW r \in Reader, Read(r) PROVE CountInv'
  BY <1>6, ReadStep, Zenon DEF Read, CountInv, Driven, Queued
<1>7. CASE StopMonitor \/ StartMonitor \/ UNCHANGED vars
  BY <1>7, Zenon DEF StopMonitor, StartMonitor, vars, CountInv, Driven, Queued
<1> QED
  BY <1>1, <1>2, <1>3, <1>4, <1>5, <1>6, <1>7 DEF Next

\* send_bits_and_wait() returns with its own last bit, whoever else sends and whenever
\* the driver is stopped and started (driver.py:77-140).
THEOREM AlwaysReturnsWithItsLastBit == Spec => []ReturnsWithItsLastBit
<1>1. TypeOK /\ CountInv => ReturnsWithItsLastBit
  <2> SUFFICES ASSUME TypeOK, CountInv, NEW c \in Caller
               PROVE  calls[c] # NoCall <=> Driven < log.last[c]
    BY DEF ReturnsWithItsLastBit, Driven
  <2>1. log.last[c] \in Nat /\ Driven \in Nat
    BY CountTypes, RecordFields
  <2> QED
    BY <2>1 DEF CountInv, NoCall
<1> QED
  BY <1>1, CountInit, CountStep, TypeHolds, PTL DEF Spec

-----------------------------------------------------------------------------
\* No reader sleeps over a bit, and none takes one that is not there
\* (monitor.py:72-78).
THEOREM ReadersAlwaysServed == Spec => []ReadersServed
<1>1. Init => ReadersServed
  BY DEF Init, ReadersServed, NewLog, NewMonitor
<1>2. TypeOK /\ ReadersServed /\ [Next]_vars => ReadersServed'
  <2> SUFFICES ASSUME TypeOK, ReadersServed, [Next]_vars PROVE ReadersServed'
    OBVIOUS
  <2>1. CASE Settle
    <3>1. log'.underrun = log.underrun
      BY <2>1, SettleStep
    <3>2. ASSUME NEW r \in Reader, reads'[r] = "waiting" PROVE monitor'.queue = <<>>
      BY <2>1, <3>2, SettleStep, Zenon DEF ReadersServed
    <3> QED
      BY <3>1, <3>2, Zenon DEF ReadersServed
  <2>2. ASSUME NEW r \in Reader, Read(r) PROVE ReadersServed'
    <3>1. log'.underrun = log.underrun
      BY <2>2, ReadStep
    <3>2. ASSUME NEW x \in Reader, reads'[x] = "waiting" PROVE monitor'.queue = <<>>
      BY <2>2, <3>2, ReadStep, Zenon DEF ReadersServed
    <3> QED
      BY <3>1, <3>2, Zenon DEF ReadersServed
  <2>3. CASE DriveBit
    BY <2>3, DriveStep, Zenon DEF DriveBit, ReadersServed
  <2>4. ASSUME NEW c \in Caller, NEW bits \in Batch, Submit(c, bits) PROVE ReadersServed'
    BY <2>4, SubmitStep, Zenon DEF Submit, ReadersServed
  <2>5. ASSUME NEW bits \in Batch, SendBits(bits) PROVE ReadersServed'
    BY <2>5, Zenon DEF SendBits, ReadersServed
  <2>6. CASE StopDriver \/ StartDriver \/ UNCHANGED vars
    BY <2>6, Zenon DEF StopDriver, StartDriver, vars, ReadersServed
  <2>7. CASE StopMonitor \/ StartMonitor \/ PassTime
    <3>1. monitor'.queue = monitor.queue
      <4>1. CASE StopMonitor
        BY <4>1 DEF StopMonitor, TypeOK, MonitorRecord
      <4>2. CASE StartMonitor
        BY <4>2 DEF StartMonitor, TypeOK, MonitorRecord
      <4>3. CASE PassTime
        BY <4>3 DEF PassTime, TypeOK, MonitorRecord
      <4> QED
        BY <2>7, <4>1, <4>2, <4>3
    <3> QED
      BY <2>7, <3>1, Zenon DEF StopMonitor, StartMonitor, PassTime, ReadersServed
  <2> QED
    BY <2>1, <2>2, <2>3, <2>4, <2>5, <2>6, <2>7 DEF Next
<1> QED
  BY <1>1, <1>2, TypeHolds, PTL DEF Spec

-----------------------------------------------------------------------------
\* The levels written are the driver's, and within a time step they are at most one bit
\* ahead of those the simulator shows, unless two bits are driven in it.
LineInv ==
  /\ pins = driver.level
  /\ log.step = <<>> => pins = line
  /\ Len(log.step) = 1 => pins = NextLevel(line, log.step[1])

\* Sequences of at most one element, and what appending does to them.
LEMMA ShortSequences ==
  ASSUME NEW q \in Seq(Bit), NEW b \in Bit
  PROVE  /\ Append(q, b) # <<>>
         /\ Len(Append(q, b)) = 1 => q = <<>> /\ Append(q, b)[1] = b
         /\ q # <<>> /\ Len(q) <= 1 => Len(q) = 1 /\ q[1] \in Bit /\ q = <<q[1]>>
<1>1. Len(Append(q, b)) = Len(q) + 1 /\ Len(q) \in Nat
  OBVIOUS
<1>2. Append(q, b) # <<>>
  <2>1. Len(<<>>) = 0
    OBVIOUS
  <2> QED
    BY <1>1, <2>1
<1>3. Len(Append(q, b)) = 1 => q = <<>> /\ Append(q, b)[1] = b
  BY <1>1
<1>4. ASSUME q # <<>>, Len(q) <= 1 PROVE Len(q) = 1 /\ q[1] \in Bit /\ q = <<q[1]>>
  <2>1. Len(q) # 0
    BY <1>4
  <2>2. Len(q) = 1
    <3>1. \A n \in Nat : n <= 1 /\ n # 0 => n = 1
      OBVIOUS
    <3> QED
      BY <1>1, <1>4, <2>1, <3>1, Zenon
  <2>3. q[1] \in Bit
    BY <2>2
  <2> QED
    BY <2>2, <2>3
<1> QED
  BY <1>2, <1>3, <1>4

\* The line is quiet at first,
LEMMA LineInit == Init => LineInv
<1> SUFFICES ASSUME Init PROVE LineInv
  OBVIOUS
<1>1. log.step = <<>> /\ Len(log.step) # 1
  BY DEF Init, NewLog
<1> QED
  BY <1>1 DEF Init, LineInv

\* and every step keeps it as it was driven.
LEMMA LineStep == TypeOK /\ LineInv /\ [Next]_vars => LineInv'
<1> SUFFICES ASSUME TypeOK, LineInv, [Next]_vars PROVE LineInv'
  OBVIOUS
<1>1. CASE DriveBit
  <2> DEFINE bit == Head(driver.queue)
  <2>1. /\ bit \in Bit /\ pins' = NextLevel(pins, bit) /\ driver'.level = pins'
        /\ log'.step = Append(log.step, bit) /\ line' = line
    BY <1>1, DriveStep DEF LineInv, DriveBit
  <2>2. log.step \in Seq(Bit)
    BY RecordFields
  <2> HIDE DEF bit
  <2>3. log'.step # <<>>
    BY <2>1, <2>2, ShortSequences, Zenon
  <2>4. ASSUME Len(log'.step) = 1 PROVE log.step = <<>> /\ log'.step[1] = bit
    BY <2>1, <2>2, <2>4, ShortSequences, Zenon
  <2>5. Len(log'.step) = 1 => pins' = NextLevel(line, log'.step[1])
    BY <2>1, <2>4 DEF LineInv
  <2> QED
    BY <2>1, <2>3, <2>5, Zenon DEF LineInv
<1>2. CASE Settle
  <2>1. log'.step = <<>> /\ line' = pins /\ pins' = pins /\ driver' = driver
    BY <1>2, SettleStep DEF Settle
  <2>2. Len(log'.step) # 1
    BY <2>1
  <2> QED
    BY <2>1, <2>2, Zenon DEF LineInv
<1>3. CASE StopDriver \/ StartDriver \/ PassTime
  <2>1. log' = log /\ driver'.level = driver.level
    BY <1>3, TaskStep
  <2>2. pins' = pins /\ line' = line
    BY <1>3 DEF StopDriver, StartDriver, PassTime, StartLevel, LineInv
  <2> QED
    BY <2>1, <2>2, Zenon DEF LineInv
<1>4. ASSUME NEW c \in Caller, NEW bits \in Batch, Submit(c, bits) PROVE LineInv'
  <2>1. log'.step = log.step /\ driver'.level = driver.level
    BY <1>4, SubmitStep, EnqueueStep, Zenon DEF Submit
  <2> QED
    BY <1>4, <2>1, Zenon DEF Submit, LineInv
<1>5. ASSUME NEW bits \in Batch, SendBits(bits) PROVE LineInv'
  <2>1. driver'.level = driver.level
    BY <1>5, EnqueueStep, Zenon DEF SendBits
  <2> QED
    BY <1>5, <2>1, Zenon DEF SendBits, LineInv
<1>6. ASSUME NEW r \in Reader, Read(r) PROVE LineInv'
  BY <1>6, ReadStep, Zenon DEF Read, LineInv
<1>7. CASE StopMonitor \/ StartMonitor \/ UNCHANGED vars
  BY <1>7, Zenon DEF StopMonitor, StartMonitor, vars, LineInv
<1> QED
  BY <1>1, <1>2, <1>3, <1>4, <1>5, <1>6, <1>7 DEF Next

\* One bit in the step is one edge, of D or of S, and one sample.
LEMMA SettleHears ==
  ASSUME TypeOK, LineInv, Settle, Len(log.step) <= 1
  PROVE  monitor'.queue = monitor.queue \o (IF monitor.running THEN log.step ELSE <<>>)
<1>1. log.step \in Seq(Bit) /\ monitor.queue \in Seq(Bit) /\ line \in Level
  BY RecordFields DEF TypeOK
<1>2. log.step # <<>>
  BY DEF Settle, LineInv
<1>3. Len(log.step) = 1 /\ log.step[1] \in Bit /\ log.step = <<log.step[1]>>
  <2>1. 0 \in Bit
    BY DEF Bit
  <2> QED
    BY <1>1, <1>2, <2>1, ShortSequences, Zenon
<1>4. pins = NextLevel(line, log.step[1])
  BY <1>3 DEF LineInv
<1>5. pins # line /\ pins.d = log.step[1] /\ ~(pins.d # line.d /\ pins.s # line.s)
  BY <1>1, <1>3, <1>4, OneChanges
<1>6. CASE monitor.running
  <2>1. PICK n \in Samples : monitor'.queue = monitor.queue \o [i \in 1 .. n |-> pins.d]
    BY <1>5, <1>6, SettleStep
  <2>2. n = 1
    BY <1>5 DEF Samples
  <2>3. [i \in 1 .. 1 |-> pins.d] = <<pins.d>>
    OBVIOUS
  <2> QED
    BY <1>3, <1>5, <1>6, <2>1, <2>2, <2>3
<1>7. CASE ~monitor.running
  <2>1. monitor'.queue = monitor.queue
    BY <1>7, SettleStep
  <2>2. monitor.queue \o <<>> = monitor.queue
    BY <1>1
  <2> QED
    BY <1>7, <2>1, <2>2
<1> QED
  BY <1>6, <1>7

\* What is driven is heard once, in its own time step; starting the driver is no edge
\* (driver.py:56-70, :101-112, monitor.py:91-120).
THEOREM AlwaysHeardAsDriven == Spec => HeardAsDriven
<1> DEFINE Heard == StepEnds /\ Len(log.step) <= 1
                    => monitor'.queue = monitor.queue \o
                         (IF monitor.running THEN log.step ELSE <<>>)
<1>1. TypeOK /\ LineInv /\ [Next]_vars => [Heard]_vars
  <2> SUFFICES ASSUME TypeOK, LineInv, Next, StepEnds, Len(log.step) <= 1
               PROVE  monitor'.queue = monitor.queue \o
                        (IF monitor.running THEN log.step ELSE <<>>)
    BY Zenon DEF vars
  <2>1. line' # line \/ log'.step # log.step
    BY DEF StepEnds
  <2>2. CASE DriveBit
    <3>1. line' = line /\ log'.step = Append(log.step, Head(driver.queue))
      BY <2>2, DriveStep DEF DriveBit
    <3>2. log.step \in Seq(Bit)
      BY RecordFields
    <3>3. log'.step # <<>>
      BY <3>1, <3>2
    <3> QED
      BY <3>1, <3>3 DEF StepEnds
  <2>3. ASSUME NEW c \in Caller, NEW bits \in Batch, Submit(c, bits) PROVE FALSE
    BY <2>1, <2>3, SubmitStep, Zenon DEF Submit
  <2>4. ASSUME NEW r \in Reader, Read(r) PROVE FALSE
    BY <2>1, <2>4, ReadStep, Zenon DEF Read
  <2>5. CASE StopDriver \/ StartDriver \/ StopMonitor \/ StartMonitor \/ PassTime
             \/ \E bits \in Batch : SendBits(bits)
    BY <2>1, <2>5, Zenon DEF StopDriver, StartDriver, StopMonitor, StartMonitor, PassTime, SendBits
  <2> QED
    BY <2>2, <2>3, <2>4, <2>5, SettleHears DEF Next
<1> QED
  BY <1>1, LineInit, LineStep, TypeHolds, PTL DEF Spec, HeardAsDriven

-----------------------------------------------------------------------------
\* Every set of naturals that is not empty has a least element.
LEMMA LeastNat ==
  ASSUME NEW T \in SUBSET Nat, T # {}
  PROVE  \E x \in T : \A y \in T : x <= y
<1> DEFINE R == {p \in Nat \X Nat : p[1] < p[2]}
<1>1. IsWellFoundedOn(R, Nat)
  BY NatLessThanWellFounded, Zenon DEF OpToRel
<1>2. \E x \in T : \A y \in T : ~(<<y, x>> \in R)
  <2> HIDE DEF R
  <2> QED
    BY <1>1, WFMin
<1>3. \A x \in T, y \in T : ~(<<y, x>> \in R) => x <= y
  OBVIOUS
<1> QED
  BY <1>2, <1>3

\* A fact of 0 that each natural up to n hands on to the next holds of them all.
LEMMA UpTo ==
  ASSUME NEW n \in Nat, NEW T \in SUBSET (0 .. n), 0 \in T,
         \A i \in 1 .. n : i - 1 \in T => i \in T
  PROVE  T = 0 .. n
<1> DEFINE U == (0 .. n) \ T
<1>1. CASE U = {}
  BY <1>1
<1>2. CASE U # {}
  <2>1. U \in SUBSET Nat
    OBVIOUS
  <2>2. PICK i \in U : \A j \in U : i <= j
    BY <1>2, <2>1, LeastNat
  <2>3. i \in 1 .. n /\ i - 1 \in 0 .. n
    BY <2>2
  <2>4. i - 1 \notin U
    BY <2>2, <2>3
  <2> QED
    BY <2>2, <2>3, <2>4
<1> QED
  BY <1>1, <1>2

\* The function ds_encode()'s samples are taken from: the levels after each number of bits.
SampleRule(f, bits, initial) ==
  f = [i \in 0 .. Len(bits) |-> IF i = 0 THEN initial ELSE NextLevel(f[i - 1], bits[i])]

Sample(bits, initial) == CHOOSE f : SampleRule(f, bits, initial)

\* ds_encode is the recursive sampling of the levels.
LEMMA EncodeIsSample ==
  ASSUME NEW bits, NEW initial
  PROVE  DsEncode(bits, initial) = [i \in DOMAIN bits |-> Sample(bits, initial)[i]]
BY DEF DsEncode, Sample, SampleRule

\* Every sequence of bits has its levels.
LEMMA SampleExists ==
  ASSUME NEW bits \in Seq(Bit), NEW initial \in Level
  PROVE  \E f : SampleRule(f, bits, initial)
<1> DEFINE Levels(n, f) ==
             /\ f \in [0 .. n -> Level] /\ f[0] = initial
             /\ \A i \in 1 .. n : f[i] = NextLevel(f[i - 1], bits[i])
           T == {n \in 0 .. Len(bits) : \E f : Levels(n, f)}
<1>1. Len(bits) \in Nat
  OBVIOUS
<1>2. 0 \in T
  <2>1. Levels(0, [i \in 0 .. 0 |-> initial])
    OBVIOUS
  <2>2. 0 \in 0 .. Len(bits)
    BY <1>1
  <2> HIDE DEF Levels
  <2>3. \E f : Levels(0, f)
    BY <2>1, Zenon
  <2> QED
    BY <2>2, <2>3, Zenon
<1>3. ASSUME NEW n \in 1 .. Len(bits), n - 1 \in T PROVE n \in T
  <2>1. PICK f : Levels(n - 1, f)
    BY <1>3
  <2> DEFINE g == [i \in 0 .. n |-> IF i = n THEN NextLevel(f[n - 1], bits[n]) ELSE f[i]]
  <2>2. bits[n] \in Bit /\ f[n - 1] \in Level
    BY <2>1
  <2>3. NextLevel(f[n - 1], bits[n]) \in Level
    BY <2>2, OneChanges
  <2>4. g \in [0 .. n -> Level]
    BY <2>1, <2>3
  <2>5. g[0] = initial
    BY <2>1
  <2>6. ASSUME NEW i \in 1 .. n PROVE g[i] = NextLevel(g[i - 1], bits[i])
    <3>1. CASE i = n
      BY <3>1
    <3>2. CASE i # n
      <4>1. i \in 1 .. (n - 1) /\ i - 1 \in 0 .. (n - 1) /\ i - 1 # n
        BY <3>2
      <4>2. g[i] = f[i] /\ g[i - 1] = f[i - 1]
        BY <3>2, <4>1
      <4> QED
        BY <2>1, <4>1, <4>2, Zenon
    <3> QED
      BY <3>1, <3>2
  <2>7. Levels(n, g)
    BY <2>4, <2>5, <2>6, Zenon
  <2>8. n \in 0 .. Len(bits)
    BY <1>1
  <2> HIDE DEF Levels, g
  <2>9. \E h : Levels(n, h)
    BY <2>7, Zenon
  <2> QED
    BY <2>8, <2>9, Zenon
<1>4. T = 0 .. Len(bits)
  <2> HIDE DEF Levels
  <2>1. T \in SUBSET (0 .. Len(bits))
    OBVIOUS
  <2> HIDE DEF T
  <2> QED
    BY <1>1, <1>2, <1>3, <2>1, UpTo
<1>5. PICK f : Levels(Len(bits), f)
  BY <1>1, <1>4
<1>6. SampleRule(f, bits, initial)
  BY <1>1, <1>5 DEF SampleRule
<1> QED
  BY <1>6

\* What the sampling gives, level by level.
LEMMA SampleFacts ==
  ASSUME NEW bits \in Seq(Bit), NEW initial \in Level
  PROVE  LET f == Sample(bits, initial)
         IN  /\ f[0] = initial
             /\ \A i \in 1 .. Len(bits) : f[i] = NextLevel(f[i - 1], bits[i])
             /\ \A i \in 0 .. Len(bits) : f[i] \in Level
<1> DEFINE f == Sample(bits, initial)
<1>1. SampleRule(f, bits, initial)
  BY SampleExists, Zenon DEF Sample
<1>2. Len(bits) \in Nat
  OBVIOUS
<1> HIDE DEF f
<1>3. f[0] = initial /\ \A i \in 1 .. Len(bits) : f[i] = NextLevel(f[i - 1], bits[i])
  BY <1>1, <1>2 DEF SampleRule
<1> DEFINE T == {i \in 0 .. Len(bits) : f[i] \in Level}
<1>4. 0 \in T
  BY <1>2, <1>3
<1>5. ASSUME NEW i \in 1 .. Len(bits), i - 1 \in T PROVE i \in T
  <2>1. bits[i] \in Bit /\ f[i - 1] \in Level
    BY <1>5
  <2>2. NextLevel(f[i - 1], bits[i]) \in Level
    BY <2>1, OneChanges, Zenon
  <2>3. f[i] \in Level
    BY <1>3, <2>2, Zenon
  <2> QED
    BY <1>2, <2>3
<1>6. T = 0 .. Len(bits)
  <2>1. T \in SUBSET (0 .. Len(bits))
    OBVIOUS
  <2> HIDE DEF T
  <2> QED
    BY <1>2, <1>4, <1>5, <2>1, UpTo
<1>7. \A i \in 0 .. Len(bits) : f[i] \in Level
  BY <1>6
<1> QED
  BY <1>3, <1>7 DEF f

\* One bit more leaves the levels so far, and adds one.
LEMMA SampleAppend ==
  ASSUME NEW bits \in Seq(Bit), NEW initial \in Level, NEW b \in Bit
  PROVE  Sample(Append(bits, b), initial)[Len(bits) + 1] =
           NextLevel(Sample(bits, initial)[Len(bits)], b)
<1> DEFINE more == Append(bits, b)
           f == Sample(bits, initial)
           g == Sample(more, initial)
           n == Len(bits)
<1>1. /\ more \in Seq(Bit) /\ Len(more) = n + 1 /\ n \in Nat
      /\ more[n + 1] = b /\ \A i \in 1 .. n : more[i] = bits[i]
  OBVIOUS
<1>2. f[0] = initial /\ \A i \in 1 .. n : f[i] = NextLevel(f[i - 1], bits[i])
  BY SampleFacts, Zenon
<1> HIDE DEF more, f, n
<1>3. g[0] = initial /\ \A i \in 1 .. (n + 1) : g[i] = NextLevel(g[i - 1], more[i])
  BY <1>1, SampleFacts
<1> HIDE DEF g
<1> DEFINE T == {i \in 0 .. n : g[i] = f[i]}
<1>4. 0 \in T
  BY <1>1, <1>2, <1>3
<1>5. ASSUME NEW i \in 1 .. n, i - 1 \in T PROVE i \in T
  <2>1. g[i - 1] = f[i - 1] /\ more[i] = bits[i] /\ i \in 1 .. (n + 1)
    BY <1>1, <1>5
  <2>2. g[i] = f[i]
    BY <1>2, <1>3, <2>1, Zenon
  <2> QED
    BY <1>1, <2>2
<1>6. T = 0 .. n
  <2>1. T \in SUBSET (0 .. n)
    OBVIOUS
  <2> HIDE DEF T
  <2> QED
    BY <1>1, <1>4, <1>5, <2>1, UpTo
<1>7. g[n] = f[n]
  BY <1>1, <1>6
<1>8. n + 1 \in 1 .. (n + 1) /\ (n + 1) - 1 = n
  BY <1>1
<1>9. g[n + 1] = NextLevel(g[(n + 1) - 1], more[n + 1])
  BY <1>3, <1>8, Zenon
<1> QED
  BY <1>1, <1>7, <1>8, <1>9 DEF f, g, more, n

\* The level of samples before the i-th, as ds_decode() walks them.
Before(samples, initial, i) == IF i = 1 THEN initial ELSE samples[i - 1]

\* ds_encode(): a sample a bit, the D of each is the bit, and one level changes with each.
LEMMA EncodeFacts ==
  ASSUME NEW bits \in Seq(Bit), NEW initial \in Level
  PROVE  LET samples == DsEncode(bits, initial)
         IN  /\ samples \in Seq(Level) /\ Len(samples) = Len(bits)
             /\ \A i \in 1 .. Len(bits) :
                  /\ samples[i].d = bits[i]
                  /\ Before(samples, initial, i) \in Level
                  /\ ValidTransition(Before(samples, initial, i), samples[i])
<1> DEFINE samples == DsEncode(bits, initial)
           f == Sample(bits, initial)
           n == Len(bits)
<1>1. /\ f[0] = initial
      /\ \A i \in 1 .. n : f[i] = NextLevel(f[i - 1], bits[i])
      /\ \A i \in 0 .. n : f[i] \in Level
  BY SampleFacts, Zenon
<1>2. n \in Nat /\ DOMAIN bits = 1 .. n /\ \A i \in 1 .. n : bits[i] \in Bit
  OBVIOUS
<1>3. samples = [i \in 1 .. n |-> f[i]]
  BY <1>2, EncodeIsSample
<1> HIDE DEF samples, f, n
<1>4. samples \in Seq(Level) /\ Len(samples) = n
  BY <1>1, <1>2, <1>3
<1>5. ASSUME NEW i \in 1 .. n
      PROVE  /\ samples[i].d = bits[i]
             /\ Before(samples, initial, i) \in Level
             /\ ValidTransition(Before(samples, initial, i), samples[i])
  <2>1. i - 1 \in 0 .. n /\ (i # 1 => i - 1 \in 1 .. n) /\ (i = 1 => i - 1 = 0)
    BY <1>2
  <2>2. Before(samples, initial, i) = f[i - 1]
    <3>1. CASE i = 1
      BY <1>1, <2>1, <3>1, Zenon DEF Before
    <3>2. CASE i # 1
      BY <1>3, <2>1, <3>2 DEF Before
    <3> QED
      BY <3>1, <3>2
  <2>3. samples[i] = NextLevel(f[i - 1], bits[i]) /\ f[i - 1] \in Level /\ bits[i] \in Bit
    BY <1>1, <1>2, <1>3, <2>1
  <2>4. LET after == NextLevel(f[i - 1], bits[i])
        IN  after.d = bits[i] /\ ValidTransition(f[i - 1], after)
    BY <2>3, OneChanges, Zenon
  <2> QED
    BY <2>2, <2>3, <2>4, Zenon
<1> QED
  BY <1>4, <1>5 DEF samples, n

\* A level that is wrong, or a step over one sample, is no transition of one level.
LEMMA Parity ==
  ASSUME NEW a \in Level, NEW b \in Level, NEW c \in Level,
         ValidTransition(a, b)
  PROVE  /\ ~ValidTransition(a, [b EXCEPT !.d = 1 - @])
         /\ ~ValidTransition(a, [b EXCEPT !.s = 1 - @])
         /\ ValidTransition(b, c) => ~ValidTransition(a, c)
<1>1. /\ a.d \in {0, 1} /\ a.s \in {0, 1} /\ b.d \in {0, 1} /\ b.s \in {0, 1}
      /\ c.d \in {0, 1} /\ c.s \in {0, 1}
  BY DEF Level, Bit
<1>2. ~ValidTransition(a, [b EXCEPT !.d = 1 - @])
  <2> DEFINE e == [b EXCEPT !.d = 1 - @]
  <2>1. e.d = 1 - b.d /\ e.s = b.s
    BY DEF Level
  <2> HIDE DEF e
  <2>2. ~ValidTransition(a, e)
    BY <1>1, <2>1 DEF ValidTransition
  <2> QED
    BY <2>2 DEF e
<1>3. ~ValidTransition(a, [b EXCEPT !.s = 1 - @])
  <2> DEFINE e == [b EXCEPT !.s = 1 - @]
  <2>1. e.s = 1 - b.s /\ e.d = b.d
    BY DEF Level
  <2> HIDE DEF e
  <2>2. ~ValidTransition(a, e)
    BY <1>1, <2>1 DEF ValidTransition
  <2> QED
    BY <2>2 DEF e
<1>4. ValidTransition(b, c) => ~ValidTransition(a, c)
  BY <1>1 DEF ValidTransition
<1> QED
  BY <1>2, <1>3, <1>4

\* ds_decode() refuses samples of which one level is wrong.
LEMMA WrongLevelRefused ==
  ASSUME NEW samples \in Seq(Level), NEW initial \in Level, NEW i \in 1 .. Len(samples),
         NEW wrong, ~ValidTransition(Before(samples, initial, i), wrong)
  PROVE  ~DsAccepts([samples EXCEPT ![i] = wrong], initial)
<1> DEFINE c == [samples EXCEPT ![i] = wrong]
<1>1. /\ DOMAIN samples = 1 .. Len(samples) /\ Len(samples) \in Nat /\ i \in Nat
      /\ DOMAIN c = 1 .. Len(samples) /\ c[i] = wrong
      /\ i # 1 => c[i - 1] = samples[i - 1]
  OBVIOUS
<1> HIDE DEF c
<1>2. (IF i = 1 THEN initial ELSE c[i - 1]) = Before(samples, initial, i)
  BY <1>1 DEF Before
<1>3. ~DsAccepts(c, initial)
  BY <1>1, <1>2, Zenon DEF DsAccepts
<1> QED
  BY <1>3 DEF c

\* ds_decode() refuses samples of which one, not the last, is lost.
LEMMA LostSampleRefused ==
  ASSUME NEW samples \in Seq(Level), NEW initial \in Level, NEW i \in 1 .. Len(samples),
         i < Len(samples), ~ValidTransition(Before(samples, initial, i), samples[i + 1])
  PROVE  ~DsAccepts(Drop(samples, i), initial)
<1> DEFINE a == SubSeq(samples, 1, i - 1)
           b == SubSeq(samples, i + 1, Len(samples))
           c == a \o b
<1>1. Len(samples) \in Nat /\ i \in Nat /\ i >= 1
  OBVIOUS
<1>2. /\ a \in Seq(Level) /\ Len(a) = i - 1
      /\ \A j \in 1 .. (i - 1) : a[j] = samples[j]
  BY <1>1
<1>3. /\ b \in Seq(Level) /\ Len(b) = Len(samples) - i
      /\ b[1] = samples[i + 1]
  BY <1>1
<1> HIDE DEF a, b
<1>4. /\ DOMAIN c = 1 .. (Len(samples) - 1) /\ c[i] = b[1]
      /\ i # 1 => c[i - 1] = a[i - 1]
  <2>1. /\ c \in Seq(Level) /\ Len(c) = Len(a) + Len(b)
        /\ \A j \in 1 .. (Len(a) + Len(b)) : c[j] = IF j <= Len(a) THEN a[j] ELSE b[j - Len(a)]
    BY <1>2, <1>3, ConcatProperties
  <2> HIDE DEF c
  <2>2. Len(c) = Len(samples) - 1 /\ Len(a) + Len(b) = Len(samples) - 1
    BY <1>1, <1>2, <1>3, <2>1
  <2>3. DOMAIN c = 1 .. (Len(samples) - 1)
    BY <2>1, <2>2
  <2>4. i \in 1 .. (Len(samples) - 1) /\ ~(i <= i - 1) /\ i - (i - 1) = 1
    BY <1>1
  <2>5. c[i] = b[1]
    BY <1>2, <2>1, <2>2, <2>4
  <2>6. i # 1 => c[i - 1] = a[i - 1]
    BY <1>1, <1>2, <2>1, <2>2
  <2> QED
    BY <2>3, <2>5, <2>6
<1>5. i \in DOMAIN c
  BY <1>1, <1>4
<1>6. c[i] = samples[i + 1] /\ (i # 1 => c[i - 1] = samples[i - 1])
  BY <1>1, <1>2, <1>3, <1>4
<1> HIDE DEF c
<1>7. (IF i = 1 THEN initial ELSE c[i - 1]) = Before(samples, initial, i)
  BY <1>6 DEF Before
<1>8. ~DsAccepts(c, initial)
  BY <1>5, <1>6, <1>7, Zenon DEF DsAccepts
<1> QED
  BY <1>8 DEF a, b, c, Drop

\* ds_decode() of what ds_encode() makes of any bits: it is accepted, it is those bits, and
\* no single wrong level and no single lost sample, the last apart, is accepted.
LEMMA EncodeDecodes ==
  ASSUME NEW bits \in Seq(Bit), NEW initial \in Level
  PROVE  LET samples == DsEncode(bits, initial)
             n       == Len(samples)
         IN  /\ DsAccepts(samples, initial) /\ DsDecode(samples) = bits
             /\ \A i \in 1 .. n :
                  /\ ~DsAccepts([samples EXCEPT ![i].d = 1 - @], initial)
                  /\ ~DsAccepts([samples EXCEPT ![i].s = 1 - @], initial)
                  /\ i < n => ~DsAccepts(Drop(samples, i), initial)
<1> DEFINE samples == DsEncode(bits, initial)
           n       == Len(samples)
<1>1. /\ samples \in Seq(Level) /\ n = Len(bits)
      /\ \A i \in 1 .. n :
           /\ samples[i].d = bits[i]
           /\ Before(samples, initial, i) \in Level
           /\ ValidTransition(Before(samples, initial, i), samples[i])
  BY EncodeFacts
<1> HIDE DEF samples
<1>2. /\ DOMAIN samples = 1 .. n /\ n \in Nat /\ \A i \in 1 .. n : samples[i] \in Level
  BY <1>1
<1>3. DsAccepts(samples, initial)
  BY <1>1, <1>2 DEF DsAccepts, Before
<1>4. DsDecode(samples) = bits
  <2>1. DsDecode(samples) = [i \in 1 .. Len(bits) |-> bits[i]]
    BY <1>1, <1>2 DEF DsDecode
  <2>2. bits = [i \in 1 .. Len(bits) |-> bits[i]]
    OBVIOUS
  <2> QED
    BY <2>1, <2>2, Zenon
<1>5. ASSUME NEW i \in 1 .. n
      PROVE  /\ ~DsAccepts([samples EXCEPT ![i].d = 1 - @], initial)
             /\ ~DsAccepts([samples EXCEPT ![i].s = 1 - @], initial)
             /\ i < n => ~DsAccepts(Drop(samples, i), initial)
  <2> DEFINE b == Before(samples, initial, i)
  <2>1. b \in Level /\ samples[i] \in Level /\ ValidTransition(b, samples[i])
    BY <1>1, <1>2
  <2>2. ~DsAccepts([samples EXCEPT ![i].d = 1 - @], initial)
    <3> DEFINE wrong == [samples[i] EXCEPT !.d = 1 - @]
    <3>1. ~ValidTransition(b, wrong)
      BY <2>1, Parity
    <3> HIDE DEF wrong
    <3>2. ~DsAccepts([samples EXCEPT ![i] = wrong], initial)
      BY <1>1, <3>1, WrongLevelRefused
    <3> QED
      BY <3>2 DEF wrong
  <2>3. ~DsAccepts([samples EXCEPT ![i].s = 1 - @], initial)
    <3> DEFINE wrong == [samples[i] EXCEPT !.s = 1 - @]
    <3>1. ~ValidTransition(b, wrong)
      BY <2>1, Parity
    <3> HIDE DEF wrong
    <3>2. ~DsAccepts([samples EXCEPT ![i] = wrong], initial)
      BY <1>1, <3>1, WrongLevelRefused
    <3> QED
      BY <3>2 DEF wrong
  <2>4. ASSUME i < n PROVE ~DsAccepts(Drop(samples, i), initial)
    <3>1. /\ i + 1 \in 1 .. n /\ i + 1 # 1 /\ (i + 1) - 1 = i
      BY <1>2, <2>4
    <3>2. ValidTransition(samples[i], samples[i + 1]) /\ samples[i + 1] \in Level
      BY <1>1, <1>2, <3>1 DEF Before
    <3>3. ~ValidTransition(b, samples[i + 1])
      BY <2>1, <3>2, Parity, Zenon
    <3> QED
      BY <1>1, <2>4, <3>3, LostSampleRefused
  <2> QED
    BY <2>2, <2>3, <2>4
<1> QED
  BY <1>3, <1>4, <1>5 DEF samples

-----------------------------------------------------------------------------
\* The driver's level is the last of ds_encode()'s over all it has driven.
LevelInv == driver.level = Sample(log.driven, NewDriver.level)[Driven]

\* The driver begins with a level of the lines.
LEMMA InitialLevel == NewDriver.level \in Level
BY DEF NewDriver, Level, Bit

\* The initial levels are those of no bits driven,
LEMMA LevelInit == Init => LevelInv
<1> SUFFICES ASSUME Init PROVE LevelInv
  OBVIOUS
<1>1. log.driven = <<>> /\ driver.level = NewDriver.level /\ Driven = 0
  BY DEF Init, NewLog, Driven
<1>2. Sample(<<>>, NewDriver.level)[0] = NewDriver.level
  <2>1. <<>> \in Seq(Bit)
    OBVIOUS
  <2> QED
    BY <2>1, InitialLevel, SampleFacts, Zenon
<1> QED
  BY <1>1, <1>2, Zenon DEF LevelInv

\* and every step keeps the levels those of the bits driven.
LEMMA LevelStep == TypeOK /\ LevelInv /\ [Next]_vars => LevelInv'
<1> SUFFICES ASSUME TypeOK, LevelInv, [Next]_vars PROVE LevelInv'
  OBVIOUS
<1>1. CASE DriveBit
  <2> DEFINE bit == Head(driver.queue)
  <2>1. /\ bit \in Bit /\ driver'.level = NextLevel(driver.level, bit)
        /\ log'.driven = Append(log.driven, bit) /\ Driven' = Driven + 1
        /\ log.driven \in Seq(Bit)
    BY <1>1, DriveStep, RecordFields
  <2> HIDE DEF bit
  <2>2. Sample(Append(log.driven, bit), NewDriver.level)[Driven + 1] =
          NextLevel(Sample(log.driven, NewDriver.level)[Driven], bit)
    BY <2>1, InitialLevel, SampleAppend, Zenon DEF Driven
  <2> QED
    BY <2>1, <2>2, Zenon DEF LevelInv
<1>2. CASE Settle
  BY <1>2, SettleStep, Zenon DEF Settle, LevelInv, Driven
<1>3. CASE StopDriver \/ StartDriver \/ PassTime
  BY <1>3, TaskStep, Zenon DEF LevelInv, Driven
<1>4. ASSUME NEW c \in Caller, NEW bits \in Batch, Submit(c, bits) PROVE LevelInv'
  <2>1. log'.driven = log.driven /\ driver'.level = driver.level
    BY <1>4, SubmitStep, EnqueueStep, Zenon DEF Submit
  <2> QED
    BY <2>1, Zenon DEF LevelInv, Driven
<1>5. ASSUME NEW bits \in Batch, SendBits(bits) PROVE LevelInv'
  <2>1. driver'.level = driver.level
    BY <1>5, EnqueueStep, Zenon DEF SendBits
  <2> QED
    BY <1>5, <2>1, Zenon DEF SendBits, LevelInv, Driven
<1>6. ASSUME NEW r \in Reader, Read(r) PROVE LevelInv'
  BY <1>6, ReadStep, Zenon DEF Read, LevelInv, Driven
<1>7. CASE StopMonitor \/ StartMonitor \/ UNCHANGED vars
  BY <1>7, Zenon DEF StopMonitor, StartMonitor, vars, LevelInv, Driven
<1> QED
  BY <1>1, <1>2, <1>3, <1>4, <1>5, <1>6, <1>7 DEF Next

\* Whatever is sent and however often the driver is stopped and started, the levels it
\* leaves are those of ds_encode() over all of it, which ds_decode() gives back, and
\* refuses with one level wrong or one sample lost (driver.py:101-112, ds_codec.py:26-155).
THEOREM DsRuleAlways == Spec => []DsRule
<1>1. TypeOK /\ LevelInv => DsRule
  <2> SUFFICES ASSUME TypeOK, LevelInv PROVE DsRule
    OBVIOUS
  <2> DEFINE initial == NewDriver.level
             samples == DsEncode(log.driven, initial)
             n       == Len(samples)
  <2>1. log.driven \in Seq(Bit) /\ initial \in Level
    BY RecordFields, InitialLevel
  <2> HIDE DEF initial
  <2>2. n = Driven /\ Driven \in Nat
    BY <2>1, CountTypes, EncodeFacts DEF Driven
  <2>3. driver.level = IF n = 0 THEN initial ELSE samples[n]
    <3>1. driver.level = Sample(log.driven, initial)[Driven]
      BY DEF LevelInv, initial
    <3>2. CASE n = 0
      BY <2>1, <2>2, <3>1, <3>2, SampleFacts, Zenon
    <3>3. CASE n # 0
      <4>1. n \in DOMAIN log.driven
        BY <2>1, <2>2, <3>3 DEF Driven
      <4>2. samples[n] = Sample(log.driven, initial)[n]
        <5>1. samples = [i \in DOMAIN log.driven |-> Sample(log.driven, initial)[i]]
          BY EncodeIsSample, Zenon
        <5> HIDE DEF samples
        <5> QED
          BY <4>1, <5>1, Zenon
      <4> QED
        BY <2>2, <3>1, <3>3, <4>2, Zenon
    <3> QED
      BY <3>2, <3>3
  <2>4. /\ DsAccepts(samples, initial) /\ DsDecode(samples) = log.driven
        /\ \A i \in 1 .. n :
             /\ ~DsAccepts([samples EXCEPT ![i].d = 1 - @], initial)
             /\ ~DsAccepts([samples EXCEPT ![i].s = 1 - @], initial)
             /\ i < n => ~DsAccepts(Drop(samples, i), initial)
    BY <2>1, EncodeDecodes, Zenon
  <2> QED
    BY <2>3, <2>4, Zenon DEF DsRule, initial
<1> QED
  BY <1>1, LevelInit, LevelStep, TypeHolds, PTL DEF Spec
=============================================================================
