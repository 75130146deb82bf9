------------------------------- MODULE BitLine --------------------------------
(***************************************************************************)
(* A SpaceWireDriver of driver.py on the pins of a SpaceWireMonitor of     *)
(* monitor.py, with the tasks that use them: callers of send_bits() and    *)
(* send_bits_and_wait() and readers in recv_bit().  A tick is a bit        *)
(* period.  What the driver writes to the pins is seen by the monitor at   *)
(* the end of the time step (Settle): a second write in the same step      *)
(* overtakes the first.  Both may be stopped and started at any moment.    *)
(***************************************************************************)
EXTENDS DsCodec

CONSTANTS
  Caller, Reader,  \* the tasks
  Batch,           \* what a caller sends at once
  MaxBits,         \* bound on the bits given to the driver
  Timeout          \* disconnect_timeout_ns, in ticks

ASSUME BitLineConstants ==
  /\ Batch \subseteq Seq(Bit)
  /\ MaxBits \in Nat /\ Timeout \in Nat \ {0}

VARIABLES
  driver,    \* the SpaceWireDriver
  calls,     \* what each caller waits for, see NoCall
  pins,      \* the levels written
  line,      \* the levels the simulator shows
  monitor,   \* the SpaceWireMonitor
  reads,     \* each reader: "idle", "waiting" on _bit_available, or "woken"
  log        \* history, see NewLog

vars == <<driver, calls, pins, line, monitor, reads, log>>

(***************************************************************************)
(* level      _prev_d and _s                                               *)
(* queue      _queue                                                       *)
(* task       "stopped", "ready" to take a bit, or in the "Timer" of one   *)
(* enqueued, driven   _enqueued_bits and _driven_bits                      *)
(***************************************************************************)
NewDriver ==
  [level |-> [d |-> 0, s |-> 0], queue |-> <<>>, task |-> "ready", enqueued |-> 0, driven |-> 0]

(***************************************************************************)
(* silent is the time the pending with_timeout() has waited.               *)
(***************************************************************************)
NewMonitor == [queue |-> <<>>, running |-> TRUE, disconnected |-> FALSE, silent |-> 0]

\* A caller is not waiting, or it waits for a count of driven bits.
NoCall == 0

(***************************************************************************)
(* step       the bits driven in this time step                            *)
(* driven     every bit driven                                             *)
(* last       by caller, which of all the bits enqueued is the last it     *)
(*            gave to send_bits_and_wait()                                 *)
(* underrun   a reader took a bit that was not there (QueueEmpty)          *)
(***************************************************************************)
NewLog == [step |-> <<>>, driven |-> <<>>, last |-> [c \in Caller |-> 0], underrun |-> FALSE]

Init ==
  /\ driver = NewDriver
  /\ calls = [c \in Caller |-> NoCall]
  /\ pins = NewDriver.level
  /\ line = NewDriver.level
  /\ monitor = NewMonitor
  /\ reads = [r \in Reader |-> "idle"]
  /\ log = NewLog

-----------------------------------------------------------------------------
\* The target of _wait_until_driven().
Target(bits) == driver.enqueued + Len(bits)

\* _enqueue_bit() for each bit.
Enqueue(bits) ==
  /\ driver.enqueued + Len(bits) <= MaxBits
  /\ driver' = [driver EXCEPT !.queue = @ \o bits, !.enqueued = @ + Len(bits)]

SendBits(bits) ==
  /\ Enqueue(bits)
  /\ UNCHANGED <<calls, pins, line, monitor, reads, log>>

\* send_bits_and_wait() up to its await.  An empty batch returns at once, whatever
\* else is queued; any other when its target is driven.
Submit(c, bits) ==
  /\ calls[c] = NoCall
  /\ Enqueue(bits)
  /\ calls' = [calls EXCEPT ![c] = IF bits = <<>> \/ Target(bits) <= driver.driven
                                        THEN NoCall ELSE Target(bits)]
  /\ log' = [log EXCEPT !.last[c] = IF bits = <<>> THEN @
                                    ELSE Len(log.driven) + Len(driver'.queue)]
  /\ UNCHANGED <<pins, line, monitor, reads>>

\* Mutant: a caller is woken one bit late.
StillWaitingLate(target, driven) == target >= driven

\* _mark_bit_driven(): who stays in the list of waiters.
StillWaiting(target, driven) == target > driven

\* _run takes a bit and drives it; the callers whose target it is return.
DriveBit ==
  /\ driver.task = "ready"
  /\ driver.queue # <<>>
  /\ LET bit   == Head(driver.queue)
         level == NextLevel(driver.level, bit)
     IN  /\ driver' = [driver EXCEPT !.level = level, !.queue = Tail(@), !.task = "Timer",
                                     !.driven = @ + 1]
         /\ pins' = level
         /\ calls' = [c \in Caller |->
                        IF StillWaiting(calls[c], driver'.driven) THEN calls[c] ELSE NoCall]
         /\ log' = [log EXCEPT !.step = Append(@, bit), !.driven = Append(@, bit)]
  /\ UNCHANGED <<line, monitor, reads>>

StopDriver ==
  /\ driver.task # "stopped"
  /\ driver' = [driver EXCEPT !.task = "stopped"]
  /\ UNCHANGED <<calls, pins, line, monitor, reads, log>>

\* Mutant: start() drives the initial levels of the constructor.
StartLevelInitial == NewDriver.level

StartLevel == driver.level

StartDriver ==
  /\ driver.task = "stopped"
  /\ driver' = [driver EXCEPT !.task = "ready"]
  /\ pins' = StartLevel
  /\ UNCHANGED <<calls, line, monitor, reads, log>>

-----------------------------------------------------------------------------
\* How often the monitor samples.  When both levels change in one step the simulator
\* may report the second edge after the monitor has armed itself again, or before.
Samples == IF pins.d # line.d /\ pins.s # line.s THEN {1, 2} ELSE {1}

\* The end of the time step.  A change of D or S is an edge: the monitor samples D,
\* queues it and wakes every reader.
Settle ==
  /\ log.step # <<>> \/ pins # line
  /\ line' = pins
  /\ log' = [log EXCEPT !.step = <<>>]
  /\ IF pins # line /\ monitor.running
     THEN /\ \E n \in Samples :
               monitor' = [monitor EXCEPT !.queue = @ \o [i \in 1 .. n |-> pins.d],
                                          !.disconnected = FALSE, !.silent = 0]
          /\ reads' = [r \in Reader |-> IF reads[r] = "waiting" THEN "woken" ELSE reads[r]]
     ELSE UNCHANGED <<monitor, reads>>
  /\ UNCHANGED <<driver, calls, pins>>

\* Mutant: a reader that is woken does not look whether there is a bit.
MustWaitOnce(r) == reads[r] = "idle" /\ monitor.queue = <<>>

\* The condition of the loop of recv_bit().
MustWait(r) == monitor.queue = <<>>

\* recv_bit() is called, or resumes after its wait: it waits, or takes a bit.
Read(r) ==
  /\ reads[r] # "waiting"
  /\ IF MustWait(r)
     THEN /\ reads' = [reads EXCEPT ![r] = "waiting"]
          /\ UNCHANGED <<monitor, log>>
     ELSE /\ reads' = [reads EXCEPT ![r] = "idle"]
          /\ monitor' = [monitor EXCEPT !.queue = IF @ = <<>> THEN @ ELSE Tail(@)]
          /\ log' = [log EXCEPT !.underrun = @ \/ monitor.queue = <<>>]
  /\ UNCHANGED <<driver, calls, pins, line>>

StopMonitor ==
  /\ monitor.running
  /\ monitor' = [monitor EXCEPT !.running = FALSE]
  /\ UNCHANGED <<driver, calls, pins, line, reads, log>>

\* The flag and the queue are those of before.
StartMonitor ==
  /\ ~monitor.running
  /\ monitor' = [monitor EXCEPT !.running = TRUE, !.silent = 0]
  /\ UNCHANGED <<driver, calls, pins, line, reads, log>>

\* A bit period passes once nothing is due: the driver's Timer ends, and so may the
\* monitor's timeout, which it starts again.
PassTime ==
  /\ ~(driver.task = "ready" /\ driver.queue # <<>>)
  /\ log.step = <<>> /\ pins = line
  /\ \A r \in Reader : reads[r] # "woken"
  /\ driver' = [driver EXCEPT !.task = IF @ = "Timer" THEN "ready" ELSE @]
  /\ monitor' = IF ~monitor.running THEN monitor
                ELSE [monitor EXCEPT !.silent = (@ + 1) % Timeout,
                                     !.disconnected = @ \/ monitor.silent + 1 = Timeout]
  /\ UNCHANGED <<calls, pins, line, reads, log>>

Next ==
  \/ \E c \in Caller, bits \in Batch : Submit(c, bits)
  \/ \E bits \in Batch : SendBits(bits)
  \/ DriveBit \/ StopDriver \/ StartDriver
  \/ Settle \/ StopMonitor \/ StartMonitor \/ PassTime
  \/ \E r \in Reader : Read(r)

Spec == Init /\ [][Next]_vars

-----------------------------------------------------------------------------
\* send_bits_and_wait() returns when its own last bit is driven, neither with the bits
\* of another caller before it nor with those behind it, over every stop and start
\* of the driver (driver.py:77-140: the target is a count over all callers).
ReturnsWithItsLastBit ==
  \A c \in Caller : calls[c] # NoCall <=> Len(log.driven) < log.last[c]

\* What is driven is heard, once, in the time step it is driven in, and starting the
\* driver is no edge: unless a stop and a start put two bits into one step
\* (driver.py:56-70, :101-112, monitor.py:91-120).
StepEnds == line' # line \/ (log.step # <<>> /\ log'.step = <<>>)

HeardAsDriven ==
  [][StepEnds /\ Len(log.step) <= 1
       => monitor'.queue = monitor.queue \o (IF monitor.running THEN log.step ELSE <<>>)]_vars

\* No reader sleeps over a bit, and none takes from a queue that another has emptied:
\* a reader may well be woken to one, but looks again and waits again
\* (monitor.py:72-78: one event for all readers, cleared by whoever finds no bit).
ReadersServed ==
  /\ \A r \in Reader : reads[r] = "waiting" => monitor.queue = <<>>
  /\ ~log.underrun

\* s without its i-th element.
Drop(s, i) == SubSeq(s, 1, i - 1) \o SubSeq(s, i + 1, Len(s))

\* The driver's own rule is ds_encode(): the levels it leaves are the last sample of
\* what it has driven, over any stop and start.  ds_decode() gives the bits back, and
\* refuses the samples if one level is wrong or one sample, not the last, is lost.
DsRule ==
  LET initial == NewDriver.level
      samples == DsEncode(log.driven, initial)
      n       == Len(samples)
  IN  /\ driver.level = IF n = 0 THEN initial ELSE samples[n]
      /\ DsAccepts(samples, initial) /\ DsDecode(samples) = log.driven
      /\ \A i \in 1 .. n :
           /\ ~DsAccepts([samples EXCEPT ![i].d = 1 - @], initial)
           /\ ~DsAccepts([samples EXCEPT ![i].s = 1 - @], initial)
           /\ i < n => ~DsAccepts(Drop(samples, i), initial)
=============================================================================
