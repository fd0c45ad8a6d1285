------------------------------- MODULE Client -------------------------------
(***************************************************************************)
(* The trace-replaying HTTP client (client/client.cpp).                    *)
(*                                                                         *)
(* main() reads the trace and pushes one entry per record on urlQueue;     *)
(* measureThread()s pop entries and fetch them from the proxy with         *)
(* retries; output() samples and resets the two atomic counters; a signal  *)
(* sets is_stop.  A record of the trace is represented by its position;    *)
(* only its length matters to the client (a zero length is never counted). *)
(*                                                                         *)
(* Every access to a variable shared between threads is a step of its own. *)
(* What happens under urlMutex or histMutex is one step.  The two          *)
(* unsynchronised reads of line 75 are separate steps, each returning the  *)
(* value of the moment (x86 does not tear or reorder them).                *)
(***************************************************************************)
EXTENDS Naturals, Sequences

CONSTANTS Trace,      \* the lengths of the records of the trace file
          Workers,    \* the measureThreads (argv[2] of them)
          MaxTries,   \* attempts per request: 10 in the code
          Period      \* sleeps of output() per throughput sample: 10

ASSUME TraceAssumption  == Trace \in Seq(Nat)
ASSUME WorkerAssumption == Workers # {}
ASSUME TriesAssumption  == MaxTries \in Nat \ {0}
ASSUME PeriodAssumption == Period \in Nat \ {0}

VARIABLES
  mpc,        \* where main() is (requestCreate included)
  next,       \* the position of the record main() reads next
  queue,      \* urlQueue: the positions of the records waiting in it
  queueFull, running, isStop,
  wpc,        \* where each measureThread is
  cur,        \* currentID, current_len: the record each thread fetches
  failc,      \* the retry counter of each thread
  reqs, bytes,  \* the atomic counters
  samples,    \* the latency histograms: the samples each record put there
  logged,     \* the histograms as written to latency.log
  opc,        \* where output() is
  counter,    \* throughput_counter modulo Period
  tmpr, tmpb  \* what output() loaded last

(* History variables: they restrict nothing.                               *)
VARIABLES
  outcome,    \* what became of each record
  lateStarts, \* requests each thread took off the queue after the signal
  latePushes, \* records main() queued after the signal
  countedReqs, countedBytes,    \* everything ever added to reqs and bytes
  takenReqs, takenBytes,        \* everything output() ever took from them
  rows        \* the rows of throughput.log the present sample stands on

counted  == <<countedReqs, countedBytes>>
taken    == <<takenReqs, takenBytes>>
mainVars   == <<mpc, next, queueFull, running, logged, latePushes>>
workerVars == <<wpc, cur, failc, samples, outcome, lateStarts, counted>>
outputVars == <<opc, counter, tmpr, tmpb, taken, rows>>
vars == <<mainVars, workerVars, outputVars, queue, isStop, reqs, bytes>>

Records == 1..Len(Trace)

(* What curl_easy_perform returns, as far as the code tells apart.         *)
CurlCodes == {"OK", "COULDNT_CONNECT", "OTHER"}

Init ==
  /\ mpc = "read" /\ next = 1 /\ queue = <<>>
  /\ queueFull = FALSE /\ running = TRUE /\ isStop = FALSE
  /\ wpc = [w \in Workers |-> "test"]
  /\ cur = [w \in Workers |-> 0]
  /\ failc = [w \in Workers |-> 0]
  /\ reqs = 0 /\ bytes = 0
  /\ samples = [r \in Records |-> 0]
  /\ logged = [r \in Records |-> 0]
  /\ opc = "test" /\ counter = 0 /\ tmpr = 0 /\ tmpb = 0
  /\ outcome = [r \in Records |-> "unsent"]
  /\ lateStarts = [w \in Workers |-> 0]
  /\ latePushes = 0
  /\ countedReqs = 0 /\ countedBytes = 0
  /\ takenReqs = 0 /\ takenBytes = 0
  /\ rows = 0

-----------------------------------------------------------------------------
(* requestCreate() and main().                                             *)

(* Lines 158-160: the next record is read, or requestCreate returns at the *)
(* end of the trace or because of a stop.  The pacing and the courtesy     *)
(* sleep of lines 161-182 lie between this step and the push.              *)
ReadRecord ==
  /\ mpc = "read"
  /\ mpc' = IF next \in Records /\ ~isStop THEN "push" ELSE "full"
  /\ UNCHANGED <<next, queue, queueFull, running, isStop, logged, latePushes,
                 reqs, bytes, workerVars, outputVars>>

PushRecord ==
  /\ mpc = "push"
  /\ queue' = Append(queue, next)
  /\ next' = next + 1
  /\ mpc' = "read"
  /\ latePushes' = IF isStop THEN latePushes + 1 ELSE latePushes
  /\ UNCHANGED <<queueFull, running, isStop, logged, reqs, bytes, workerVars,
                 outputVars>>

SetQueueFull ==
  /\ mpc = "full"
  /\ queueFull' = TRUE
  /\ mpc' = "join"
  /\ UNCHANGED <<next, queue, running, isStop, logged, latePushes, reqs, bytes,
                 workerVars, outputVars>>

(* mutant: running on without the joins of lines 263-265 *)
Joined_Mutant == TRUE

Joined == \A w \in Workers : wpc[w] = "done"

JoinWorkers ==
  /\ mpc = "join"
  /\ Joined
  /\ running' = FALSE
  /\ mpc' = "joinOutput"
  /\ UNCHANGED <<next, queue, queueFull, isStop, logged, latePushes, reqs,
                 bytes, workerVars, outputVars>>

(* Lines 270-278: the output thread is joined, the histograms written.     *)
WriteHistograms ==
  /\ mpc = "joinOutput"
  /\ opc = "done"
  /\ logged' = samples
  /\ mpc' = "end"
  /\ UNCHANGED <<next, queue, queueFull, running, isStop, latePushes, reqs,
                 bytes, workerVars, outputVars>>

Main ==
  \/ ReadRecord \/ PushRecord \/ SetQueueFull \/ JoinWorkers
  \/ WriteHistograms

-----------------------------------------------------------------------------
(* measureThread().                                                        *)

(* mutant: the loop ends on queueFull alone *)
AfterFullTest_Mutant == IF queueFull THEN "done" ELSE "checkStop"

AfterFullTest == IF queueFull THEN "testEmpty" ELSE "checkStop"

(* Line 75, the read of queueFull.                                         *)
TestQueueFull(w) ==
  /\ wpc[w] = "test"
  /\ wpc' = [wpc EXCEPT ![w] = AfterFullTest]
  /\ UNCHANGED <<cur, failc, samples, outcome, lateStarts, counted, queue,
                 isStop, reqs, bytes, mainVars, outputVars>>

(* mutant: the loop never ends by itself *)
AfterEmptyTest_Mutant == "checkStop"

AfterEmptyTest == IF queue = <<>> THEN "done" ELSE "checkStop"

(* Line 75, the read of urlQueue.empty() outside the mutex.                *)
TestEmpty(w) ==
  /\ wpc[w] = "testEmpty"
  /\ wpc' = [wpc EXCEPT ![w] = AfterEmptyTest]
  /\ UNCHANGED <<cur, failc, samples, outcome, lateStarts, counted, queue,
                 isStop, reqs, bytes, mainVars, outputVars>>

(* mutant: no check of is_stop in the loop *)
AfterStopCheck_Mutant == "pop"

(* Lines 76-77.                                                            *)
AfterStopCheck == IF isStop THEN "done" ELSE "pop"

CheckStop(w) ==
  /\ wpc[w] = "checkStop"
  /\ wpc' = [wpc EXCEPT ![w] = AfterStopCheck]
  /\ UNCHANGED <<cur, failc, samples, outcome, lateStarts, counted, queue,
                 isStop, reqs, bytes, mainVars, outputVars>>

(* mutants: the last entry is taken; the entry is not popped *)
Front_Mutant == queue[Len(queue)]
Popped_Mutant == queue

(* Lines 80-82: urlQueue.front() and pop().                                *)
Front == Head(queue)
Popped == Tail(queue)

(* Lines 78-89: under urlMutex, take the front of the queue; when there is *)
(* none, sleep and start over.                                             *)
PopRequest(w) ==
  /\ wpc[w] = "pop"
  /\ \/ /\ queue # <<>>
        /\ cur' = [cur EXCEPT ![w] = Front]
        /\ queue' = Popped
        /\ failc' = [failc EXCEPT ![w] = 0]
        /\ wpc' = [wpc EXCEPT ![w] = "perform"]
        /\ outcome' = [outcome EXCEPT ![Front] = "sending"]
        /\ lateStarts' = [lateStarts EXCEPT ![w] = IF isStop THEN @ + 1 ELSE @]
     \/ /\ queue = <<>>
        /\ wpc' = [wpc EXCEPT ![w] = "test"]
        /\ UNCHANGED <<queue, cur, failc, outcome, lateStarts>>
  /\ UNCHANGED <<samples, counted, isStop, reqs, bytes, mainVars, outputVars>>

(* Line 97: this turn of the retry loop is its last.                       *)
LastTry(w) == failc[w] + 1 = MaxTries

(* Lines 97-106: one turn of the retry loop.  Whatever the failure, the    *)
(* loop goes on: `continue' starts the next turn as well.  A request that  *)
(* succeeded is counted when its length is not zero (line 117).            *)
PerformAs(w, code) ==
  /\ wpc[w] = "perform"
  /\ IF code = "OK"
     THEN /\ wpc' = [wpc EXCEPT ![w] =
                          IF Trace[cur[w]] > 0 THEN "addBytes" ELSE "test"]
          /\ outcome' = [outcome EXCEPT ![cur[w]] = "ok"]
          /\ UNCHANGED failc
     ELSE /\ failc' = [failc EXCEPT ![w] = @ + 1]
          /\ wpc' = [wpc EXCEPT ![w] = IF LastTry(w) THEN "test" ELSE @]
          /\ outcome' = [outcome EXCEPT ![cur[w]] =
                            IF LastTry(w) THEN "failed" ELSE @]
  /\ UNCHANGED <<cur, samples, lateStarts, counted, queue, isStop, reqs, bytes,
                 mainVars, outputVars>>

Perform(w) == \E code \in CurlCodes : PerformAs(w, code)

AddBytes(w) ==
  /\ wpc[w] = "addBytes"
  /\ bytes' = bytes + Trace[cur[w]]
  /\ countedBytes' = countedBytes + Trace[cur[w]]
  /\ wpc' = [wpc EXCEPT ![w] = "addReqs"]
  /\ UNCHANGED <<cur, failc, samples, outcome, lateStarts, countedReqs,
                 queue, isStop, reqs, mainVars, outputVars>>

AddReqs(w) ==
  /\ wpc[w] = "addReqs"
  /\ reqs' = reqs + 1
  /\ countedReqs' = countedReqs + 1
  /\ wpc' = [wpc EXCEPT ![w] = "histogram"]
  /\ UNCHANGED <<cur, failc, samples, outcome, lateStarts, countedBytes,
                 queue, isStop, bytes, mainVars, outputVars>>

(* Lines 121-127 and histogram(), under histMutex: one sample in each of   *)
(* the two histograms.  The buckets and the latency gauge are left out.    *)
Histogram(w) ==
  /\ wpc[w] = "histogram"
  /\ samples' = [samples EXCEPT ![cur[w]] = @ + 1]
  /\ wpc' = [wpc EXCEPT ![w] = "test"]
  /\ UNCHANGED <<cur, failc, outcome, lateStarts, counted, queue, isStop,
                 reqs, bytes, mainVars, outputVars>>

Worker(w) ==
  \/ TestQueueFull(w) \/ TestEmpty(w) \/ CheckStop(w) \/ PopRequest(w)
  \/ Perform(w) \/ AddBytes(w) \/ AddReqs(w) \/ Histogram(w)

-----------------------------------------------------------------------------
(* output(): the two counters are loaded and reset by four separate atomic *)
(* operations, on the first sleep and on every Period-th one after it.  A  *)
(* row of throughput.log is written on every sleep, with the last sample.  *)
TestRunning ==
  /\ opc = "test"
  /\ opc' = IF running THEN "sleep" ELSE "done"
  /\ UNCHANGED <<counter, tmpr, tmpb, taken, rows, queue, isStop, reqs,
                 bytes, mainVars, workerVars>>

(* mutant: the counter is not taken modulo the period *)
NextCounter_Mutant == counter + 1

NextCounter == (counter + 1) % Period

Sleep ==
  /\ opc = "sleep"
  /\ opc' = IF counter = 0 THEN "loadReqs" ELSE "print"
  /\ counter' = NextCounter
  /\ UNCHANGED <<tmpr, tmpb, taken, rows, queue, isStop, reqs, bytes, mainVars,
                 workerVars>>

LoadReqs ==
  /\ opc = "loadReqs"
  /\ tmpr' = reqs
  /\ takenReqs' = takenReqs + reqs
  /\ rows' = 0
  /\ opc' = "loadBytes"
  /\ UNCHANGED <<counter, tmpb, takenBytes, queue, isStop, reqs,
                 bytes, mainVars, workerVars>>

LoadBytes ==
  /\ opc = "loadBytes"
  /\ tmpb' = bytes
  /\ takenBytes' = takenBytes + bytes
  /\ opc' = "storeReqs"
  /\ UNCHANGED <<counter, tmpr, takenReqs, rows, queue, isStop, reqs,
                 bytes, mainVars, workerVars>>

(* mutant: reqs is not reset *)
StoredReqs_Mutant == reqs

StoredReqs == 0

StoreReqs ==
  /\ opc = "storeReqs"
  /\ reqs' = StoredReqs
  /\ opc' = "storeBytes"
  /\ UNCHANGED <<counter, tmpr, tmpb, taken, rows, queue, isStop, bytes,
                 mainVars, workerVars>>

StoreBytes ==
  /\ opc = "storeBytes"
  /\ bytes' = 0
  /\ opc' = "print"
  /\ UNCHANGED <<counter, tmpr, tmpb, taken, rows, queue, isStop, reqs, mainVars,
                 workerVars>>

(* Lines 205-209: one row of throughput.log, with a new sample or with the *)
(* one of the row before.  Its latency and time columns are left out.      *)
PrintRow ==
  /\ opc = "print"
  /\ rows' = rows + 1
  /\ opc' = "test"
  /\ UNCHANGED <<counter, tmpr, tmpb, taken, queue, isStop, reqs, bytes, mainVars,
                 workerVars>>

Output ==
  \/ TestRunning \/ Sleep \/ LoadReqs \/ LoadBytes \/ StoreReqs
  \/ StoreBytes \/ PrintRow

-----------------------------------------------------------------------------
(* signalHandler(): SIGTERM or SIGINT, at any moment.                      *)
Signal ==
  /\ ~isStop
  /\ mpc # "end"
  /\ isStop' = TRUE
  /\ UNCHANGED <<queue, reqs, bytes, mainVars, workerVars, outputVars>>

(* The process has exited.                                                 *)
Exited == mpc = "end" /\ UNCHANGED vars

Next ==
  \/ Main
  \/ \E w \in Workers : Worker(w)
  \/ Output
  \/ Signal
  \/ Exited

(* The scheduler runs every thread again and again.  A fetch ends because  *)
(* CURLOPT_TIMEOUT bounds it (line 93).  No signal needs to come.          *)
Fairness ==
  /\ WF_vars(Main)
  /\ \A w \in Workers : WF_vars(Worker(w))
  /\ WF_vars(Output)

Spec == Init /\ [][Next]_vars
FairSpec == Spec /\ Fairness

-----------------------------------------------------------------------------
(* Properties.                                                             *)

MainStates == {"read", "push", "full", "join", "joinOutput", "end"}
WorkerStates == {"test", "testEmpty", "checkStop", "pop", "perform", "addBytes",
                 "addReqs", "histogram", "done"}
OutputStates == {"test", "sleep", "loadReqs", "loadBytes", "storeReqs",
                 "storeBytes", "print", "done"}
Outcomes == {"unsent", "sending", "ok", "failed"}

MainTypeOK ==
  /\ mpc \in MainStates
  /\ next \in Nat
  /\ queue \in Seq(Records)
  /\ queueFull \in BOOLEAN /\ running \in BOOLEAN /\ isStop \in BOOLEAN
  /\ logged \in [Records -> Nat]
  /\ latePushes \in Nat

WorkerTypeOK ==
  /\ wpc \in [Workers -> WorkerStates]
  /\ cur \in [Workers -> Records \cup {0}]
  /\ failc \in [Workers -> 0..MaxTries]
  /\ samples \in [Records -> Nat]
  /\ outcome \in [Records -> Outcomes]
  /\ lateStarts \in [Workers -> Nat]

OutputTypeOK ==
  /\ reqs \in Nat /\ bytes \in Nat
  /\ opc \in OutputStates
  /\ counter \in 0..(Period - 1)
  /\ tmpr \in Nat /\ tmpb \in Nat
  /\ countedReqs \in Nat /\ countedBytes \in Nat
  /\ takenReqs \in Nat /\ takenBytes \in Nat
  /\ rows \in Nat

(* Every variable of the client holds a value of its C++ type; the retry   *)
(* counter and throughput_counter stay within their bounds.                *)
TypeOK == MainTypeOK /\ WorkerTypeOK /\ OutputTypeOK

(* When main() returns and nobody stopped the client, every record of the  *)
(* trace was taken off the queue and fetched to success or to the last     *)
(* retry: the unlocked loop condition of measureThread loses no request.   *)
EveryRequestSent ==
  mpc = "end" /\ ~isStop => \A r \in Records : outcome[r] \in {"ok", "failed"}

(* One step changes no settled record, and hands a thread only a record    *)
(* that no thread was handed before.                                       *)
SettledOnce ==
  /\ \A r \in Records : outcome[r] \in {"ok", "failed"} => outcome'[r] = outcome[r]
  /\ \A w \in Workers :
       wpc[w] = "pop" /\ wpc'[w] = "perform" => outcome[cur'[w]] = "unsent"

(* A request is sent and settled once: two threads never take the same     *)
(* entry of urlQueue, whatever the interleaving of their unlocked tests.   *)
NeverSentTwice == [][SettledOnce]_vars

(* The threads take the records in the order of the trace file.            *)
StartedInTraceOrder ==
  \A r, s \in Records :
    r < s /\ outcome[s] # "unsent" => outcome[r] # "unsent"

(* latency.log holds exactly one sample for each record that was fetched   *)
(* successfully and has a length, and none for any other: main() writes it *)
(* only after every thread has put its samples there.                      *)
HistogramsComplete ==
  mpc = "end" =>
    \A r \in Records :
      logged[r] = IF outcome[r] = "ok" /\ Trace[r] > 0 THEN 1 ELSE 0

(* output() takes no request and no byte from the counters twice, although *)
(* the load and the reset of a counter are two steps (an addition between  *)
(* the two is lost, so equality does not hold).  In throughput.log a       *)
(* sample stands on at most Period rows, and on all of them when the next  *)
(* one is taken: the rows of every second carry one sample.                *)
ReportedAtMostCounted ==
  /\ takenReqs <= countedReqs
  /\ takenBytes <= countedBytes
  /\ rows <= Period
  /\ opc = "loadReqs" => rows \in {0, Period}

(* A signal takes effect at once: after it each thread starts at most one  *)
(* more request and main() queues at most one more record.                 *)
StopIsPrompt ==
  /\ \A w \in Workers : lateStarts[w] <= 1
  /\ latePushes <= 1

(* The client ends by itself, whatever the proxy answers.                  *)
Terminates == <>(mpc = "end")
=============================================================================
