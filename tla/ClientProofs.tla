---------------------------- MODULE ClientProofs ----------------------------
(***************************************************************************)
(* The client's safety properties for every trace, every set of threads,   *)
(* every retry bound and every sampling period.                            *)
(***************************************************************************)
EXTENDS Client, TLAPS

-----------------------------------------------------------------------------
(* The inductive invariant.                                                *)

Counting == {"addBytes", "addReqs", "histogram"}
Busy == {"perform"} \cup Counting

(* The queue holds the records that were read and not taken, in order.     *)
QueueInv ==
  /\ next \in 1..(Len(Trace) + 1)
  /\ Len(queue) < next
  /\ \A i \in 1..Len(queue) : queue[i] + Len(queue) = next - 1 + i
  /\ \A r \in Records : outcome[r] = "unsent" <=> r + Len(queue) >= next

MainInv ==
  /\ mpc = "push" => next \in Records
  /\ mpc \notin {"read", "push"} /\ ~isStop => next = Len(Trace) + 1
  /\ queueFull <=> mpc \in {"join", "joinOutput", "end"}
  /\ mpc \in {"joinOutput", "end"} => \A w \in Workers : wpc[w] = "done"

WorkerInv ==
  \A w \in Workers :
    /\ wpc[w] = "testEmpty" => queueFull
    /\ wpc[w] = "done" /\ ~isStop => queueFull /\ queue = <<>>
    /\ wpc[w] \in Busy => cur[w] \in Records /\ samples[cur[w]] = 0
    /\ wpc[w] = "perform" => outcome[cur[w]] = "sending" /\ failc[w] < MaxTries
    /\ wpc[w] \in Counting => outcome[cur[w]] = "ok" /\ Trace[cur[w]] > 0

(* Two threads never fetch or count the same record.                       *)
OwnerInv ==
  \A v, w \in Workers :
    v # w /\ wpc[v] \in Busy /\ wpc[w] \in Busy => cur[v] # cur[w]

RecordInv ==
  \A r \in Records :
    /\ outcome[r] = "sending" => \E w \in Workers : wpc[w] = "perform" /\ cur[w] = r
    /\ samples[r] = 0 \/ (samples[r] = 1 /\ outcome[r] = "ok" /\ Trace[r] > 0)
    /\ outcome[r] = "ok" /\ Trace[r] > 0 /\ samples[r] = 0
         => \E w \in Workers : wpc[w] \in Counting /\ cur[w] = r

LogInv == mpc = "end" => logged = samples

StopInv ==
  /\ \A w \in Workers : /\ lateStarts[w] <= 1
                        /\ wpc[w] = "pop" => lateStarts[w] = 0
                        /\ ~isStop => lateStarts[w] = 0
  /\ latePushes <= 1
  /\ mpc = "push" => latePushes = 0
  /\ ~isStop => latePushes = 0

(* Between its load and its reset a counter has been taken already.        *)
CountInv ==
  /\ opc \in {"loadBytes", "storeReqs"} => tmpr <= reqs
  /\ opc = "storeReqs" \/ opc = "storeBytes" => tmpb <= bytes
  /\ takenReqs + reqs
       <= countedReqs + (IF opc \in {"loadBytes", "storeReqs"} THEN tmpr ELSE 0)
  /\ takenBytes + bytes
       <= countedBytes + (IF opc \in {"storeReqs", "storeBytes"} THEN tmpb ELSE 0)

(* throughput_counter tells the rows the present sample stands on already; *)
(* rows is 0 before the first sample.                                      *)
RowInv ==
  /\ opc \in {"test", "sleep", "done"} =>
       IF counter = 0 THEN rows \in {0, Period} ELSE rows = counter
  /\ opc \in {"loadReqs", "loadBytes", "storeReqs", "storeBytes"}
       => counter = 1 % Period
  /\ opc = "loadReqs" => rows \in {0, Period}
  /\ opc \in {"loadBytes", "storeReqs", "storeBytes"} => rows = 0
  /\ opc = "print" => rows + 1 = IF counter = 0 THEN Period ELSE counter

ControlInv == QueueInv /\ MainInv /\ WorkerInv /\ OwnerInv /\ RecordInv
                /\ LogInv /\ StopInv

IInv == TypeOK /\ ControlInv /\ CountInv /\ RowInv

-----------------------------------------------------------------------------
USE TraceAssumption, WorkerAssumption, TriesAssumption, PeriodAssumption

(* The inductive invariant holds when main() starts its threads.          *)
LEMMA InitIInv == Init => IInv
<1> SUFFICES ASSUME Init PROVE IInv
  OBVIOUS
<1>1. TypeOK
  <2>1. MainTypeOK
    <3>1. queue \in Seq(Records) /\ next \in Nat /\ latePushes \in Nat
      BY DEF Init
    <3> QED
      BY <3>1 DEF Init, MainTypeOK, MainStates
  <2>2. WorkerTypeOK
    BY DEF Init, WorkerTypeOK, WorkerStates, CurlCodes, Outcomes
  <2>3. OutputTypeOK
    BY DEF Init, OutputTypeOK, OutputStates
  <2> QED
    BY <2>1, <2>2, <2>3 DEF TypeOK
<1>2. QueueInv /\ MainInv /\ LogInv
  BY DEF Init, QueueInv, MainInv, LogInv, Records
<1>3. WorkerInv /\ OwnerInv /\ RecordInv
  BY DEF Init, WorkerInv, OwnerInv, RecordInv, Busy, Counting
<1>4. StopInv /\ CountInv /\ RowInv
  BY DEF Init, StopInv, CountInv, RowInv
<1> QED
  BY <1>1, <1>2, <1>3, <1>4 DEF IInv, ControlInv

(* What is in urlQueue is a record of the trace.                           *)
LEMMA QueueElements ==
  ASSUME MainTypeOK
  PROVE  /\ Len(Trace) \in Nat /\ Len(queue) \in Nat
         /\ \A i \in 1..Len(queue) : queue[i] \in Records /\ queue[i] \in Nat
BY DEF MainTypeOK, Records

(* A step of output() leaves everything but the counters alone.            *)
LEMMA OutputStep ==
  ASSUME IInv, Output
  PROVE  IInv'
<1> USE DEF IInv, TypeOK
<1>1. UNCHANGED <<mainVars, workerVars, queue, isStop>>
  BY DEF Output, TestRunning, Sleep, LoadReqs, LoadBytes, StoreReqs, StoreBytes,
         PrintRow
<1>2. MainTypeOK' /\ WorkerTypeOK'
  BY <1>1 DEF MainTypeOK, WorkerTypeOK, mainVars, workerVars
<1>3. OutputTypeOK' /\ CountInv' /\ RowInv'
  <2> USE DEF OutputTypeOK, OutputStates, CountInv, RowInv, workerVars, counted, taken
  <2>1. CASE TestRunning
    BY <2>1 DEF TestRunning
  <2>2. CASE Sleep
    <3>1. (counter + 1) % Period = IF counter + 1 = Period THEN 0 ELSE counter + 1
      OBVIOUS
    <3>2. counter = 0 => (counter + 1) % Period = 1 % Period
      OBVIOUS
    <3>3. counter' = (counter + 1) % Period
      BY <2>2 DEF Sleep, NextCounter
    <3> QED
      BY <2>2, <3>1, <3>2, <3>3 DEF Sleep
  <2>3. CASE LoadReqs
    BY <2>3 DEF LoadReqs
  <2>4. CASE LoadBytes
    BY <2>4 DEF LoadBytes
  <2>5. CASE StoreReqs
    BY <2>5 DEF StoreReqs, StoredReqs
  <2>6. CASE StoreBytes
    BY <2>6 DEF StoreBytes
  <2>7. CASE PrintRow
    BY <2>7 DEF PrintRow
  <2> QED
    BY <2>1, <2>2, <2>3, <2>4, <2>5, <2>6, <2>7 DEF Output
<1>4. ControlInv'
  BY <1>1 DEF ControlInv, QueueInv, MainInv, WorkerInv, OwnerInv, RecordInv,
              LogInv, StopInv, mainVars, workerVars
<1> QED
  BY <1>2, <1>3, <1>4

(* The counters are touched by no step of main() and by no signal.         *)
LEMMA MainStep ==
  ASSUME IInv, Main
  PROVE  IInv'
<1> USE DEF IInv, TypeOK, ControlInv
<1>1. UNCHANGED <<workerVars, outputVars, isStop, reqs, bytes>>
  BY DEF Main, ReadRecord, PushRecord, SetQueueFull, JoinWorkers, WriteHistograms
<1>2. WorkerTypeOK' /\ OutputTypeOK' /\ CountInv' /\ RowInv'
  BY <1>1 DEF WorkerTypeOK, OutputTypeOK, CountInv, RowInv, workerVars, outputVars,
              counted, taken
<1>3. OwnerInv' /\ RecordInv'
  BY <1>1 DEF OwnerInv, RecordInv, workerVars
<1>4. MainTypeOK' /\ QueueInv' /\ MainInv' /\ WorkerInv' /\ LogInv' /\ StopInv'
  <2>1. CASE ReadRecord
    <3>1. MainTypeOK'
      BY <2>1 DEF ReadRecord, MainTypeOK, MainStates, workerVars
    <3>2. QueueInv' /\ WorkerInv' /\ LogInv'
      BY <2>1, <1>1 DEF ReadRecord, QueueInv, WorkerInv, LogInv, workerVars
    <3>3. MainInv'
      BY <2>1, <1>1 DEF ReadRecord, MainInv, QueueInv, MainTypeOK, Records, workerVars
    <3>4. StopInv'
      BY <2>1, <1>1 DEF ReadRecord, StopInv, MainTypeOK, workerVars
    <3> QED
      BY <3>1, <3>2, <3>3, <3>4
  <2>2. CASE PushRecord
    <3>1. next \in Records /\ ~queueFull /\ Len(queue) \in Nat
      BY <2>2 DEF PushRecord, MainInv, MainTypeOK
    <3>2. MainTypeOK'
      BY <2>2, <3>1 DEF PushRecord, MainTypeOK, MainStates, Records
    <3>3. QueueInv'
      <4>1. Len(queue') = Len(queue) + 1 /\ next' = next + 1
        BY <2>2, <3>1 DEF PushRecord, MainTypeOK, Records
      <4>2. ASSUME NEW i \in 1..Len(queue')
            PROVE  queue'[i] + Len(queue') = next' - 1 + i
        <5>1. CASE i = Len(queue) + 1
          BY <5>1, <2>2, <3>1, <4>1 DEF PushRecord, MainTypeOK, Records
        <5>2. CASE i \in 1..Len(queue)
          <6>1. queue'[i] = queue[i]
            BY <5>2, <2>2, <3>1 DEF PushRecord, MainTypeOK, Records
          <6>2. queue[i] + Len(queue) = next - 1 + i
            BY <5>2 DEF QueueInv
          <6>3. queue[i] \in Nat
            BY <5>2, QueueElements
          <6> HIDE TraceAssumption, <2>2
          <6> QED
            BY <6>1, <6>2, <6>3, <4>1, <3>1, <5>2 DEF MainTypeOK
        <5> QED
          BY <5>1, <5>2, <4>1, <3>1
      <4>3. next' \in 1..(Len(Trace) + 1) /\ Len(queue') < next'
        BY <4>1, <3>1 DEF QueueInv, Records
      <4>4. \A r \in Records : outcome'[r] = "unsent" <=> r + Len(queue') >= next'
        BY <4>1, <3>1, <1>1 DEF QueueInv, Records, workerVars
      <4> QED
        BY <4>2, <4>3, <4>4 DEF QueueInv
    <3>4. MainInv' /\ LogInv'
      BY <2>2, <3>1, <1>1 DEF PushRecord, MainInv, LogInv, workerVars
    <3>5. WorkerInv'
      BY <2>2, <3>1, <1>1 DEF PushRecord, WorkerInv, workerVars
    <3>6. StopInv'
      BY <2>2, <1>1 DEF PushRecord, StopInv, MainTypeOK, workerVars
    <3> QED
      BY <3>2, <3>3, <3>4, <3>5, <3>6
  <2>3. CASE SetQueueFull
    BY <2>3, <1>1 DEF SetQueueFull, MainTypeOK, MainStates, QueueInv, MainInv,
                      WorkerInv, LogInv, StopInv, workerVars
  <2>4. CASE JoinWorkers
    <3>1. MainTypeOK'
      BY <2>4 DEF JoinWorkers, MainTypeOK, MainStates
    <3>4. LogInv' /\ StopInv'
      BY <2>4, <1>1 DEF JoinWorkers, LogInv, StopInv, workerVars
    <3>3. QueueInv'
      BY <2>4, <1>1 DEF JoinWorkers, QueueInv, workerVars
    <3>2. MainInv' /\ WorkerInv'
      BY <2>4, <1>1 DEF JoinWorkers, Joined, MainInv, WorkerInv, workerVars
    <3> QED
      BY <3>1, <3>2, <3>3, <3>4
  <2>5. CASE WriteHistograms
    BY <2>5, <1>1 DEF WriteHistograms, MainTypeOK, MainStates, WorkerTypeOK, QueueInv,
                      MainInv, WorkerInv, LogInv, StopInv, workerVars
  <2> QED
    BY <2>1, <2>2, <2>3, <2>4, <2>5 DEF Main
<1> QED
  BY <1>2, <1>3, <1>4

(* signalHandler() only sets is_stop.                                      *)
LEMMA SignalStep ==
  ASSUME IInv, Signal
  PROVE  IInv'
<1> USE DEF IInv, TypeOK, ControlInv, Signal, mainVars, workerVars, outputVars, counted,
            taken
<1>1. TypeOK' /\ CountInv' /\ RowInv'
  BY DEF MainTypeOK, WorkerTypeOK, OutputTypeOK, CountInv, RowInv
<1>2. QueueInv' /\ MainInv' /\ WorkerInv' /\ LogInv'
  BY DEF QueueInv, MainInv, WorkerInv, LogInv
<1>3. OwnerInv' /\ RecordInv' /\ StopInv'
  BY DEF OwnerInv, RecordInv, StopInv
<1> QED
  BY <1>1, <1>2, <1>3

(* The steps of a thread that only move its program counter, away from     *)
(* and to places where it holds no record.                                 *)
LEMMA ControlStep ==
  ASSUME IInv, NEW w \in Workers,
         TestQueueFull(w) \/ TestEmpty(w) \/ CheckStop(w)
  PROVE  IInv'
<1> USE DEF IInv, TypeOK, ControlInv
<1>1. UNCHANGED <<cur, failc, samples, outcome, lateStarts, counted, queue,
                  isStop, reqs, bytes, mainVars, outputVars>>
  BY DEF TestQueueFull, TestEmpty, CheckStop
<1>2. PICK c \in {"testEmpty", "checkStop", "pop", "done"} :
        /\ wpc' = [wpc EXCEPT ![w] = c]
        /\ wpc[w] \in {"test", "testEmpty", "checkStop"}
        /\ c = "testEmpty" => queueFull
        /\ c = "pop" => ~isStop
        /\ c = "done" /\ ~isStop => queueFull /\ queue = <<>>
  BY DEF TestQueueFull, TestEmpty, CheckStop, AfterFullTest, AfterEmptyTest,
         AfterStopCheck, WorkerInv
<1>3. wpc \in [Workers -> WorkerStates]
  BY DEF WorkerTypeOK
<1>4. \A v \in Workers : wpc'[v] = IF v = w THEN c ELSE wpc[v]
  BY <1>2, <1>3
<1>5. TypeOK' /\ CountInv' /\ RowInv' /\ QueueInv' /\ LogInv'
  BY <1>1, <1>2, <1>3 DEF MainTypeOK, WorkerTypeOK, WorkerStates, OutputTypeOK,
     CountInv, RowInv, QueueInv, LogInv, mainVars, outputVars, counted, taken
<1>6. MainInv' /\ WorkerInv' /\ StopInv'
  BY <1>1, <1>2, <1>4 DEF MainInv, WorkerInv, StopInv, Busy, Counting, mainVars
<1>7. OwnerInv'
  BY <1>1, <1>2, <1>4 DEF OwnerInv, Busy, Counting
<1>8. RecordInv'
  <2>1. \A v \in Workers : wpc[v] \in Busy => v # w /\ wpc'[v] = wpc[v]
    BY <1>2, <1>4 DEF Busy, Counting
  <2> QED
    BY <1>1, <2>1 DEF RecordInv, Busy, Counting
<1> QED
  BY <1>5, <1>6, <1>7, <1>8

(* Taking the front of urlQueue gives the thread a record of its own.      *)
LEMMA PopStep ==
  ASSUME IInv, NEW w \in Workers, PopRequest(w)
  PROVE  IInv'
<1> USE DEF IInv, TypeOK, ControlInv
<1> DEFINE h == Head(queue)
<1>1. UNCHANGED <<samples, counted, isStop, reqs, bytes, mainVars, outputVars>>
  BY DEF PopRequest
<1>2. wpc \in [Workers -> WorkerStates] /\ wpc[w] = "pop"
  BY DEF WorkerTypeOK, PopRequest
<1>3. OutputTypeOK' /\ CountInv' /\ RowInv' /\ LogInv'
  BY <1>1 DEF OutputTypeOK, CountInv, RowInv, LogInv, mainVars, outputVars, counted, taken
<1>4. CASE queue = <<>>
  <2>1. /\ UNCHANGED <<queue, cur, failc, outcome, lateStarts>>
        /\ wpc' = [wpc EXCEPT ![w] = "test"]
    BY <1>4 DEF PopRequest
  <2>2. \A v \in Workers : wpc'[v] = IF v = w THEN "test" ELSE wpc[v]
    BY <1>2, <2>1
  <2>3. MainTypeOK' /\ QueueInv' /\ WorkerTypeOK'
    BY <1>1, <1>2, <2>1 DEF MainTypeOK, QueueInv, WorkerTypeOK, WorkerStates, mainVars
  <2>4. MainInv' /\ WorkerInv' /\ StopInv'
    BY <1>1, <1>2, <2>1, <2>2 DEF MainInv, WorkerInv, StopInv, Busy, Counting, mainVars
  <2>5. OwnerInv'
    BY <1>1, <2>1, <2>2 DEF OwnerInv, Busy, Counting
  <2>6. RecordInv'
    <3>1. \A v \in Workers : wpc[v] \in Busy => v # w /\ wpc'[v] = wpc[v]
      BY <1>2, <2>2 DEF Busy, Counting
    <3> QED
      BY <1>1, <2>1, <3>1 DEF RecordInv, Busy, Counting
  <2> QED
    BY <1>3, <2>3, <2>4, <2>5, <2>6
<1>5. CASE queue # <<>>
  <2>1. /\ cur' = [cur EXCEPT ![w] = h]
        /\ queue' = Tail(queue)
        /\ failc' = [failc EXCEPT ![w] = 0]
        /\ wpc' = [wpc EXCEPT ![w] = "perform"]
        /\ outcome' = [outcome EXCEPT ![h] = "sending"]
        /\ lateStarts' = [lateStarts EXCEPT ![w] = IF isStop THEN @ + 1 ELSE @]
    BY <1>5 DEF PopRequest, Front, Popped
  <2>2. /\ h \in Records /\ h \in Nat
        /\ h + Len(queue) = next
        /\ Len(queue) \in Nat \ {0} /\ next \in Nat
        /\ Len(queue') = Len(queue) - 1
        /\ \A i \in 1..Len(queue') : queue'[i] = queue[i + 1]
    <3>1. h = queue[1] /\ 1 \in 1..Len(queue) /\ Len(queue) \in Nat \ {0}
      BY <1>5 DEF MainTypeOK
    <3>2. Len(queue') = Len(queue) - 1 /\ \A i \in 1..Len(queue') : queue'[i] = queue[i + 1]
      BY <1>5, <2>1, <3>1 DEF MainTypeOK
    <3>3. h \in Records /\ h \in Nat
      BY <3>1, QueueElements
    <3>4. h + Len(queue) = next - 1 + 1 /\ next \in Nat
      BY <3>1 DEF QueueInv, MainTypeOK
    <3> QED
      BY <3>1, <3>2, <3>3, <3>4
  <2> HIDE DEF h
  <2>3. outcome[h] = "unsent" /\ samples[h] = 0
    BY <2>2 DEF QueueInv, RecordInv
  <2>4. \A v \in Workers : wpc[v] \in Busy => v # w /\ cur[v] # h
    BY <1>2, <2>3 DEF WorkerInv, Busy, Counting
  <2>5. /\ wpc'[w] = "perform" /\ cur'[w] = h /\ failc'[w] = 0
        /\ \A v \in Workers : v # w => wpc'[v] = wpc[v] /\ cur'[v] = cur[v]
                                         /\ failc'[v] = failc[v]
        /\ outcome'[h] = "sending"
        /\ \A r \in Records : r # h => outcome'[r] = outcome[r]
    BY <2>1, <2>2 DEF WorkerTypeOK
  <2>6. MainTypeOK'
    BY <1>1, <1>5, <2>1 DEF MainTypeOK, mainVars
  <2>7. WorkerTypeOK'
    <3>1. wpc' \in [Workers -> WorkerStates]
      BY <1>2, <2>1 DEF WorkerStates
    <3>2. cur' \in [Workers -> Records \cup {0}]
      BY <2>1, <2>2 DEF WorkerTypeOK
    <3>3. failc' \in [Workers -> 0..MaxTries]
      BY <2>1 DEF WorkerTypeOK
    <3>4. samples' \in [Records -> Nat] /\ outcome' \in [Records -> Outcomes]
      BY <1>1, <2>1 DEF WorkerTypeOK, Outcomes
    <3>5. lateStarts' \in [Workers -> Nat]
      BY <2>1 DEF WorkerTypeOK
    <3> QED
      BY <3>1, <3>2, <3>3, <3>4, <3>5 DEF WorkerTypeOK
  <2>8. QueueInv'
    <3>1. next' = next /\ next \in 1..(Len(Trace) + 1)
      BY <1>1 DEF mainVars, QueueInv
    <3>2. Len(queue') < next'
      BY <3>1, <2>2
    <3>3. ASSUME NEW i \in 1..Len(queue')
          PROVE  queue'[i] + Len(queue') = next' - 1 + i
      <4>1. i + 1 \in 1..Len(queue) /\ i \in Nat
        BY <2>2
      <4>2. PICK x \in Nat : queue[i + 1] = x /\ x + Len(queue) = next - 1 + (i + 1)
        BY <4>1, QueueElements DEF QueueInv
      <4>3. queue'[i] = x
        BY <2>2, <4>2
      <4>4. Len(queue) \in Nat /\ Len(queue') = Len(queue) - 1 /\ next \in Nat
        BY <2>2
      <4>5. x + (Len(queue) - 1) = next - 1 + i
        BY <4>1, <4>2, <4>4
      <4> QED
        BY <4>3, <4>4, <4>5, <3>1
    <3>4. ASSUME NEW r \in Records
          PROVE  outcome'[r] = "unsent" <=> r + Len(queue') >= next'
      <4>1. r \in Nat /\ (outcome[r] = "unsent" <=> r + Len(queue) >= next)
        BY QueueElements DEF QueueInv, Records
      <4>2. PICK n \in Nat : Len(queue) = n + 1 /\ Len(queue') = n /\ h + n + 1 = next'
        BY <2>2, <3>1
      <4>3. CASE r = h
        BY <4>2, <4>3, <2>2, <2>5
      <4>4. CASE r # h
        <5>1. outcome'[r] = outcome[r]
          BY <4>4, <2>5
        <5>2. r + (n + 1) >= next <=> r + n >= next
          BY <4>1, <4>2, <4>4, <3>1, <2>2
        <5> QED
          BY <4>1, <4>2, <5>1, <5>2, <3>1
      <4> QED
        BY <4>3, <4>4
    <3> QED
      BY <3>1, <3>2, <3>3, <3>4 DEF QueueInv
  <2>9. MainInv'
    BY <1>1, <1>2, <2>5 DEF MainInv, mainVars
  <2>10. WorkerInv'
    <3> SUFFICES ASSUME NEW v \in Workers
                 PROVE  /\ wpc'[v] = "testEmpty" => queueFull'
                        /\ wpc'[v] = "done" /\ ~isStop' => queueFull' /\ queue' = <<>>
                        /\ wpc'[v] \in Busy => cur'[v] \in Records /\ samples'[cur'[v]] = 0
                        /\ wpc'[v] = "perform"
                             => outcome'[cur'[v]] = "sending" /\ failc'[v] < MaxTries
                        /\ wpc'[v] \in Counting
                             => outcome'[cur'[v]] = "ok" /\ Trace[cur'[v]] > 0
      BY DEF WorkerInv
    <3>1. CASE v = w
      BY <3>1, <1>1, <2>2, <2>3, <2>5 DEF Busy, Counting
    <3>2. CASE v # w
      BY <3>2, <1>1, <1>5, <2>4, <2>5 DEF WorkerInv, Busy, Counting, mainVars
    <3> QED
      BY <3>1, <3>2
  <2>11. OwnerInv'
    BY <2>4, <2>5 DEF OwnerInv, Busy, Counting
  <2>12. RecordInv'
    <3> SUFFICES ASSUME NEW r \in Records
                 PROVE  /\ outcome'[r] = "sending"
                             => \E v \in Workers : wpc'[v] = "perform" /\ cur'[v] = r
                        /\ \/ samples'[r] = 0
                           \/ samples'[r] = 1 /\ outcome'[r] = "ok" /\ Trace[r] > 0
                        /\ outcome'[r] = "ok" /\ Trace[r] > 0 /\ samples'[r] = 0
                             => \E v \in Workers : wpc'[v] \in Counting /\ cur'[v] = r
      BY DEF RecordInv
    <3>1. CASE r = h
      BY <3>1, <1>1, <2>3, <2>5
    <3>2. CASE r # h
      BY <3>2, <1>1, <2>4, <2>5 DEF RecordInv, Busy, Counting
    <3> QED
      BY <3>1, <3>2
  <2>13. StopInv'
    BY <1>1, <1>2, <2>1, <2>5 DEF StopInv, WorkerTypeOK, mainVars
  <2> QED
    BY <1>3, <2>6, <2>7, <2>8, <2>9, <2>10, <2>11, <2>12, <2>13
<1> QED
  BY <1>4, <1>5

(* One curl_easy_perform settles the thread's record, or uses up a try.    *)
LEMMA PerformStep ==
  ASSUME IInv, NEW w \in Workers, Perform(w)
  PROVE  IInv'
<1> USE DEF IInv, TypeOK, ControlInv
<1> DEFINE r == cur[w]
<1>1. PICK code \in CurlCodes : PerformAs(w, code)
  BY DEF Perform
<1>2. UNCHANGED <<cur, samples, lateStarts, counted, queue, isStop, reqs, bytes,
                  mainVars, outputVars>>
  BY <1>1 DEF PerformAs
<1>3. /\ wpc[w] = "perform" /\ wpc \in [Workers -> WorkerStates]
      /\ r \in Records /\ outcome[r] = "sending" /\ samples[r] = 0
      /\ failc[w] \in Nat /\ failc[w] < MaxTries
  BY <1>1 DEF PerformAs, WorkerTypeOK, WorkerInv, Busy
<1>4. PICK c \in {"perform", "addBytes", "test"}, o \in {"sending", "ok", "failed"} :
        /\ wpc' = [wpc EXCEPT ![w] = c]
        /\ outcome' = [outcome EXCEPT ![r] = o]
        /\ c = "perform" <=> o = "sending"
        /\ c = "addBytes" <=> o = "ok" /\ Trace[r] > 0
        /\ failc' = failc \/ failc' = [failc EXCEPT ![w] = @ + 1]
        /\ c = "perform" => failc'[w] < MaxTries
  <2>1. CASE code = "OK"
    BY <1>1, <1>3, <2>1 DEF PerformAs
  <2>2. CASE code # "OK" /\ LastTry(w)
    BY <1>1, <1>3, <2>2 DEF PerformAs
  <2>3. CASE code # "OK" /\ ~LastTry(w)
    <3>1. /\ wpc' = [wpc EXCEPT ![w] = "perform"]
          /\ outcome' = [outcome EXCEPT ![r] = "sending"]
          /\ failc' = [failc EXCEPT ![w] = @ + 1]
      BY <1>1, <1>3, <2>3 DEF PerformAs
    <3>2. failc'[w] = failc[w] + 1
      BY <3>1 DEF WorkerTypeOK
    <3>3. failc[w] + 1 < MaxTries
      BY <1>3, <2>3 DEF LastTry
    <3> QED
      BY <3>1, <3>2, <3>3
  <2> QED
    BY <2>1, <2>2, <2>3
<1> HIDE DEF r
<1>6. /\ wpc'[w] = c
      /\ \A v \in Workers : v # w => wpc'[v] = wpc[v] /\ failc'[v] = failc[v]
      /\ outcome'[r] = o
      /\ \A s \in Records : s # r => outcome'[s] = outcome[s]
  BY <1>3, <1>4 DEF WorkerTypeOK
<1>7. MainTypeOK' /\ OutputTypeOK' /\ CountInv' /\ RowInv' /\ LogInv'
  BY <1>2 DEF MainTypeOK, OutputTypeOK, CountInv, RowInv, LogInv, mainVars, outputVars,
              counted, taken
<1>8. WorkerTypeOK'
  <2>1. failc' \in [Workers -> 0..MaxTries]
    <3>1. failc[w] + 1 \in 0..MaxTries /\ failc \in [Workers -> 0..MaxTries]
      BY <1>3 DEF WorkerTypeOK
    <3> QED
      BY <3>1, <1>4
  <2> QED
    BY <2>1, <1>2, <1>3, <1>4 DEF WorkerTypeOK, WorkerStates, Outcomes
<1>9. QueueInv'
  BY <1>2, <1>3, <1>4, <1>6 DEF QueueInv, mainVars
<1>10. MainInv' /\ StopInv'
  BY <1>2, <1>3, <1>4, <1>6 DEF MainInv, StopInv, mainVars
<1>11. \A v \in Workers : v # w /\ wpc[v] \in Busy => cur[v] # r
  BY <1>3 DEF OwnerInv, Busy, r
<1>12. cur'[w] = r /\ \A v \in Workers : cur'[v] = cur[v]
  BY <1>2 DEF r
<1>13. WorkerInv'
  <2> SUFFICES ASSUME NEW v \in Workers
               PROVE  /\ wpc'[v] = "testEmpty" => queueFull'
                      /\ wpc'[v] = "done" /\ ~isStop' => queueFull' /\ queue' = <<>>
                      /\ wpc'[v] \in Busy => cur'[v] \in Records /\ samples'[cur'[v]] = 0
                      /\ wpc'[v] = "perform"
                           => outcome'[cur'[v]] = "sending" /\ failc'[v] < MaxTries
                      /\ wpc'[v] \in Counting
                           => outcome'[cur'[v]] = "ok" /\ Trace[cur'[v]] > 0
    BY DEF WorkerInv
  <2>1. CASE v = w
    BY <2>1, <1>2, <1>3, <1>4, <1>6, <1>12 DEF Busy, Counting
  <2>2. CASE v # w
    BY <2>2, <1>2, <1>6, <1>11, <1>12 DEF WorkerInv, Busy, Counting, mainVars
  <2> QED
    BY <2>1, <2>2
<1>14. OwnerInv'
  BY <1>3, <1>6, <1>11, <1>12 DEF OwnerInv, Busy, Counting
<1>15. RecordInv'
  <2> SUFFICES ASSUME NEW s \in Records
               PROVE  /\ outcome'[s] = "sending"
                           => \E v \in Workers : wpc'[v] = "perform" /\ cur'[v] = s
                      /\ \/ samples'[s] = 0
                         \/ samples'[s] = 1 /\ outcome'[s] = "ok" /\ Trace[s] > 0
                      /\ outcome'[s] = "ok" /\ Trace[s] > 0 /\ samples'[s] = 0
                           => \E v \in Workers : wpc'[v] \in Counting /\ cur'[v] = s
    BY DEF RecordInv
  <2>1. CASE s = r
    BY <2>1, <1>2, <1>3, <1>4, <1>6, <1>12 DEF Counting
  <2>2. CASE s # r
    <3>1. samples'[s] = samples[s] /\ outcome'[s] = outcome[s]
      BY <2>2, <1>2, <1>6
    <3>2. \A v \in Workers : cur[v] = s => v # w
      BY <2>2 DEF r
    <3> QED
      BY <3>1, <3>2, <1>6, <1>12 DEF RecordInv
  <2> QED
    BY <2>1, <2>2
<1> QED
  BY <1>7, <1>8, <1>9, <1>10, <1>13, <1>14, <1>15

(* Adding to a counter moves a thread on between two places of Counting.   *)
LEMMA AddStep ==
  ASSUME IInv, NEW w \in Workers, AddBytes(w) \/ AddReqs(w)
  PROVE  IInv'
<1> USE DEF IInv, TypeOK, ControlInv
<1>1. UNCHANGED <<cur, failc, samples, outcome, lateStarts, queue, isStop,
                  mainVars, outputVars>>
  BY DEF AddBytes, AddReqs
<1>2. PICK c \in {"addReqs", "histogram"} : wpc' = [wpc EXCEPT ![w] = c]
  BY DEF AddBytes, AddReqs
<1>3. wpc[w] \in Counting /\ wpc \in [Workers -> WorkerStates]
  BY DEF AddBytes, AddReqs, Counting, WorkerTypeOK
<1>4. wpc'[w] = c /\ \A v \in Workers : v # w => wpc'[v] = wpc[v]
  BY <1>2, <1>3
<1>5. MainTypeOK' /\ WorkerTypeOK' /\ QueueInv' /\ LogInv'
  BY <1>1, <1>2, <1>3 DEF MainTypeOK, WorkerTypeOK, WorkerStates, QueueInv, LogInv,
     mainVars
<1>6. OutputTypeOK' /\ CountInv' /\ RowInv'
  <2>1. Trace[cur[w]] \in Nat
    BY <1>3 DEF WorkerInv, Busy, Records
  <2>2. CASE AddBytes(w)
    <3>1. /\ bytes' = bytes + Trace[cur[w]]
          /\ countedBytes' = countedBytes + Trace[cur[w]]
      BY <2>2 DEF AddBytes
    <3>2. PICK n \in Nat : bytes' = bytes + n /\ countedBytes' = countedBytes + n
      BY <2>1, <3>1
    <3>3. UNCHANGED <<reqs, countedReqs, opc, counter, tmpr, tmpb, takenReqs,
                      takenBytes, rows>>
      BY <2>2 DEF AddBytes, outputVars, taken
    <3>4. OutputTypeOK'
      BY <3>2, <3>3 DEF OutputTypeOK
    <3>5. CountInv' /\ RowInv'
      BY <3>2, <3>3 DEF OutputTypeOK, CountInv, RowInv
    <3> QED
      BY <3>4, <3>5
  <2>3. CASE AddReqs(w)
    BY <2>3 DEF AddReqs, OutputTypeOK, CountInv, RowInv, outputVars, taken
  <2> QED
    BY <2>2, <2>3
<1>7. MainInv' /\ StopInv'
  BY <1>1, <1>3, <1>4 DEF MainInv, StopInv, Counting, mainVars
<1>8. WorkerInv'
  BY <1>1, <1>3, <1>4 DEF WorkerInv, Busy, Counting, mainVars
<1>9. OwnerInv'
  BY <1>1, <1>3, <1>4 DEF OwnerInv, Busy, Counting
<1>10. RecordInv'
  <2>1. \A v \in Workers : /\ wpc[v] = "perform" => wpc'[v] = "perform"
                           /\ wpc[v] \in Counting => wpc'[v] \in Counting
    BY <1>3, <1>4 DEF Counting
  <2> QED
    BY <1>1, <2>1 DEF RecordInv
<1> QED
  BY <1>5, <1>6, <1>7, <1>8, <1>9, <1>10

(* A counted record gets its one sample.                                   *)
LEMMA HistogramStep ==
  ASSUME IInv, NEW w \in Workers, Histogram(w)
  PROVE  IInv'
<1> USE DEF IInv, TypeOK, ControlInv
<1> DEFINE r == cur[w]
<1>1. UNCHANGED <<cur, failc, outcome, lateStarts, counted, queue, isStop,
                  reqs, bytes, mainVars, outputVars>>
  BY DEF Histogram
<1>2. /\ wpc[w] = "histogram" /\ wpc \in [Workers -> WorkerStates]
      /\ r \in Records /\ outcome[r] = "ok" /\ Trace[r] > 0 /\ samples[r] = 0
  BY DEF Histogram, WorkerTypeOK, WorkerInv, Busy, Counting
<1>3. wpc' = [wpc EXCEPT ![w] = "test"] /\ samples' = [samples EXCEPT ![r] = @ + 1]
  BY DEF Histogram
<1>4. \A v \in Workers : v # w /\ wpc[v] \in Busy => cur[v] # r
  BY <1>2 DEF OwnerInv, Busy, Counting
<1>5. cur[w] = r
  OBVIOUS
<1> HIDE DEF r
<1>6. /\ wpc'[w] = "test" /\ \A v \in Workers : v # w => wpc'[v] = wpc[v]
      /\ samples'[r] = 1 /\ \A s \in Records : s # r => samples'[s] = samples[s]
  BY <1>2, <1>3 DEF WorkerTypeOK
<1>7. MainTypeOK' /\ OutputTypeOK' /\ QueueInv' /\ CountInv' /\ RowInv'
  BY <1>1 DEF MainTypeOK, OutputTypeOK, QueueInv, CountInv, RowInv, mainVars, outputVars,
              counted, taken
<1>8. WorkerTypeOK'
  BY <1>1, <1>2, <1>3 DEF WorkerTypeOK, WorkerStates
<1>9. MainInv' /\ StopInv' /\ LogInv'
  BY <1>1, <1>2, <1>6 DEF MainInv, StopInv, LogInv, mainVars
<1>10. WorkerInv'
  BY <1>1, <1>2, <1>4, <1>6 DEF WorkerInv, Busy, Counting, mainVars
<1>11. OwnerInv'
  BY <1>1, <1>6 DEF OwnerInv, Busy, Counting
<1>12. RecordInv'
  <2> SUFFICES ASSUME NEW s \in Records
               PROVE  /\ outcome'[s] = "sending"
                           => \E v \in Workers : wpc'[v] = "perform" /\ cur'[v] = s
                      /\ \/ samples'[s] = 0
                         \/ samples'[s] = 1 /\ outcome'[s] = "ok" /\ Trace[s] > 0
                      /\ outcome'[s] = "ok" /\ Trace[s] > 0 /\ samples'[s] = 0
                           => \E v \in Workers : wpc'[v] \in Counting /\ cur'[v] = s
    BY DEF RecordInv
  <2>1. CASE s = r
    BY <2>1, <1>1, <1>2, <1>6
  <2>2. CASE s # r
    BY <2>2, <1>1, <1>5, <1>6 DEF RecordInv
  <2> QED
    BY <2>1, <2>2
<1> QED
  BY <1>7, <1>8, <1>9, <1>10, <1>11, <1>12

(* A step that changes no variable.                                        *)
LEMMA StutterStep ==
  ASSUME IInv, UNCHANGED vars
  PROVE  IInv'
<1> USE DEF IInv, TypeOK, ControlInv, vars, mainVars, workerVars, outputVars, counted,
            taken
<1>1. TypeOK' /\ CountInv' /\ RowInv'
  BY DEF MainTypeOK, WorkerTypeOK, OutputTypeOK, CountInv, RowInv
<1>2. QueueInv' /\ MainInv' /\ WorkerInv' /\ LogInv'
  BY DEF QueueInv, MainInv, WorkerInv, LogInv
<1>3. OwnerInv' /\ RecordInv' /\ StopInv'
  BY DEF OwnerInv, RecordInv, StopInv
<1> QED
  BY <1>1, <1>2, <1>3

(* Every step of the client preserves the inductive invariant.             *)
LEMMA NextIInv == IInv /\ [Next]_vars => IInv'
<1> SUFFICES ASSUME IInv, [Next]_vars PROVE IInv'
  OBVIOUS
<1>1. CASE Main
  BY <1>1, MainStep
<1>2. ASSUME NEW w \in Workers, Worker(w) PROVE IInv'
  <2>1. CASE TestQueueFull(w) \/ TestEmpty(w) \/ CheckStop(w)
    BY <2>1, ControlStep
  <2>2. CASE PopRequest(w)
    BY <2>2, PopStep
  <2>3. CASE Perform(w)
    BY <2>3, PerformStep
  <2>4. CASE AddBytes(w) \/ AddReqs(w)
    BY <2>4, AddStep
  <2>5. CASE Histogram(w)
    BY <2>5, HistogramStep
  <2> QED
    BY <1>2, <2>1, <2>2, <2>3, <2>4, <2>5 DEF Worker
<1>3. CASE Output
  BY <1>3, OutputStep
<1>4. CASE Signal
  BY <1>4, SignalStep
<1>5. CASE Exited \/ UNCHANGED vars
  BY <1>5, StutterStep DEF Exited
<1> QED
  BY <1>1, <1>2, <1>3, <1>4, <1>5 DEF Next

(* IInv is an invariant of the client.                                     *)
THEOREM Invariance == Spec => []IInv
<1>1. Init => IInv
  BY InitIInv
<1>2. IInv /\ [Next]_vars => IInv'
  BY NextIInv
<1> QED
  BY <1>1, <1>2, PTL DEF Spec

-----------------------------------------------------------------------------
(* Every variable of client.cpp keeps its type, for any trace and any      *)
(* number of threads.                                                      *)
THEOREM TypeCorrect == Spec => []TypeOK
<1>1. IInv => TypeOK
  BY DEF IInv
<1> QED
  BY <1>1, Invariance, PTL

(* The main result: a client that ran to its end without a signal has      *)
(* fetched every record of the trace.  The unlocked loop condition of      *)
(* measureThread (line 75) is safe because main() sets queueFull after the *)
(* last push and a thread reads the queue after it read queueFull.         *)
THEOREM AllSent == Spec => []EveryRequestSent
<1>1. ASSUME IInv PROVE EveryRequestSent
  <2> SUFFICES ASSUME mpc = "end", ~isStop, NEW r \in Records
               PROVE  outcome[r] \in {"ok", "failed"}
    BY DEF EveryRequestSent
  <2> USE <1>1 DEF IInv, TypeOK, ControlInv
  <2>1. \A w \in Workers : wpc[w] = "done"
    BY DEF MainInv
  <2>2. queue = <<>> /\ next = Len(Trace) + 1
    BY <2>1 DEF MainInv, WorkerInv
  <2>3. outcome[r] # "unsent"
    <3>1. Len(queue) = 0
      BY <2>2
    <3>2. outcome[r] = "unsent" <=> r + Len(queue) >= next
      BY DEF QueueInv
    <3> QED
      BY <2>2, <3>1, <3>2, QueueElements DEF Records
  <2>4. outcome[r] # "sending"
    BY <2>1 DEF RecordInv
  <2> QED
    BY <2>3, <2>4 DEF WorkerTypeOK, Outcomes
<1> QED
  BY <1>1, Invariance, PTL

(* Threads start the records in the order of the trace: urlQueue is FIFO   *)
(* and its front is read and popped in one critical section.               *)
THEOREM InOrder == Spec => []StartedInTraceOrder
<1>1. ASSUME IInv PROVE StartedInTraceOrder
  <2> SUFFICES ASSUME NEW r \in Records, NEW s \in Records, r < s,
                      outcome[s] # "unsent"
               PROVE  outcome[r] # "unsent"
    BY DEF StartedInTraceOrder
  <2>1. Len(queue) \in Nat /\ Len(Trace) \in Nat /\ next \in Nat
    BY <1>1, QueueElements DEF IInv, TypeOK, MainTypeOK
  <2>2. ~(s + Len(queue) >= next)
    BY <1>1 DEF IInv, ControlInv, QueueInv
  <2>3. ~(r + Len(queue) >= next)
    BY <2>1, <2>2 DEF Records
  <2> QED
    BY <1>1, <2>3 DEF IInv, ControlInv, QueueInv
<1> QED
  BY <1>1, Invariance, PTL

(* latency.log is complete when it is written.                             *)
THEOREM LogComplete == Spec => []HistogramsComplete
<1>1. ASSUME IInv PROVE HistogramsComplete
  <2> SUFFICES ASSUME mpc = "end", NEW r \in Records
               PROVE  logged[r] = IF outcome[r] = "ok" /\ Trace[r] > 0 THEN 1 ELSE 0
    BY DEF HistogramsComplete
  <2>1. logged = samples /\ \A w \in Workers : wpc[w] = "done"
    BY <1>1 DEF IInv, ControlInv, LogInv, MainInv
  <2> QED
    BY <1>1, <2>1 DEF IInv, ControlInv, RecordInv, Counting
<1> QED
  BY <1>1, Invariance, PTL

(* No request and no byte is taken twice in throughput.log.             *)
THEOREM ReportsSound == Spec => []ReportedAtMostCounted
<1>1. IInv => ReportedAtMostCounted
  BY DEF IInv, TypeOK, OutputTypeOK, OutputStates, CountInv, RowInv,
         ReportedAtMostCounted
<1> QED
  BY <1>1, Invariance, PTL

(* After a signal each thread starts at most one more request.             *)
THEOREM StopPrompt == Spec => []StopIsPrompt
<1>1. IInv => StopIsPrompt
  BY DEF IInv, ControlInv, StopInv, StopIsPrompt
<1> QED
  BY <1>1, Invariance, PTL

(* One step settles or hands out a record only once.                       *)
LEMMA StepSettlesOnce ==
  ASSUME IInv, [Next]_vars
  PROVE  SettledOnce \/ UNCHANGED vars
<1> USE DEF IInv, TypeOK, ControlInv
<1>1. ASSUME UNCHANGED <<wpc, outcome>> PROVE SettledOnce
  BY <1>1 DEF SettledOnce
<1>2. CASE Main \/ Output \/ Signal
  <2>1. UNCHANGED workerVars
    BY <1>2 DEF Main, ReadRecord, PushRecord, SetQueueFull, JoinWorkers,
                WriteHistograms, Output, TestRunning, Sleep, LoadReqs, LoadBytes,
                StoreReqs, StoreBytes, PrintRow, Signal
  <2> QED
    BY <1>1, <2>1 DEF workerVars
<1>3. ASSUME NEW v \in Workers, Worker(v) PROVE SettledOnce
  <2>1. ASSUME UNCHANGED outcome,
               NEW c \in WorkerStates \ {"perform"}, wpc' = [wpc EXCEPT ![v] = c]
        PROVE  SettledOnce
    BY <2>1 DEF SettledOnce, WorkerTypeOK
  <2>2. CASE \/ TestQueueFull(v) \/ TestEmpty(v) \/ CheckStop(v)
             \/ AddBytes(v) \/ AddReqs(v) \/ Histogram(v)
    BY <2>2, <2>1 DEF TestQueueFull, TestEmpty, CheckStop, AddBytes, AddReqs, Histogram,
       AfterFullTest, AfterEmptyTest, AfterStopCheck, WorkerStates
  <2>3. CASE PopRequest(v) /\ queue = <<>>
    BY <2>3, <2>1 DEF PopRequest, WorkerStates
  <2>4. CASE PopRequest(v) /\ queue # <<>>
    <3>1. /\ cur' = [cur EXCEPT ![v] = Head(queue)]
          /\ wpc' = [wpc EXCEPT ![v] = "perform"]
          /\ outcome' = [outcome EXCEPT ![Head(queue)] = "sending"]
      BY <2>4 DEF PopRequest, Front, Popped
    <3>2. PICK h \in Records : h = Head(queue) /\ h + Len(queue) = next /\ h \in Nat
      <4>1. Head(queue) = queue[1] /\ 1 \in 1..Len(queue)
        BY <2>4 DEF MainTypeOK
      <4>2. queue[1] \in Records /\ queue[1] \in Nat
        BY <4>1, QueueElements
      <4>3. queue[1] + Len(queue) = next - 1 + 1
        BY <4>1 DEF QueueInv
      <4> QED
        BY <4>1, <4>2, <4>3 DEF MainTypeOK
    <3>3. outcome[h] = "unsent"
      BY <3>2, QueueElements DEF QueueInv, MainTypeOK
    <3>4. cur'[v] = h /\ \A w \in Workers : w # v => wpc'[w] = wpc[w]
      BY <3>1, <3>2 DEF WorkerTypeOK
    <3>5. \A r \in Records : r # h => outcome'[r] = outcome[r]
      BY <3>1, <3>2 DEF WorkerTypeOK
    <3> QED
      BY <3>3, <3>4, <3>5 DEF SettledOnce
  <2>5. CASE Perform(v)
    <3>1. /\ wpc[v] = "perform"
          /\ \A w \in Workers : w # v => wpc'[w] = wpc[w]
          /\ \A r \in Records : r # cur[v] => outcome'[r] = outcome[r]
      BY <2>5 DEF Perform, PerformAs, WorkerTypeOK
    <3>2. outcome[cur[v]] = "sending"
      BY <3>1 DEF WorkerInv
    <3> QED
      BY <3>1, <3>2 DEF SettledOnce
  <2> QED
    BY <1>3, <2>2, <2>3, <2>4, <2>5 DEF Worker
<1> QED
  BY <1>2, <1>3 DEF Next, Exited

(* No record of the trace is fetched by two threads or after it was        *)
(* settled.                                                                *)
THEOREM SentOnce == Spec => NeverSentTwice
<1>1. IInv /\ [Next]_vars => [SettledOnce]_vars
  BY StepSettlesOnce
<1> QED
  BY <1>1, Invariance, PTL DEF Spec, NeverSentTwice
=============================================================================
