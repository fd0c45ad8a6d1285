------------------------------- MODULE Origin -------------------------------
(***************************************************************************)
(* The origin server (origin/origin.cpp), a FastCGI responder.             *)
(*                                                                         *)
(* main() loads the database, a table of rows (id, size, extra features),  *)
(* starts the serverThreads and output(), and joins them.  A serverThread  *)
(* answers requests until FCGX_Accept_r fails.  output() resets the two    *)
(* atomic counters, sleeps a second, and prints what it finds in them.     *)
(*                                                                         *)
(* What reads a response is the web server in front of the origin, and     *)
(* behind it the proxy, which takes the extra features out of the header   *)
(* when it admits the object (CacheVC::openWriteCloseDir).                 *)
(***************************************************************************)
EXTENDS Naturals, Sequences

CONSTANTS Rows,        \* the database file: records [id, size, feats]
          NExtra,      \* n_extra_features: columns of the first row minus 2
          Threads,     \* the serverThreads
          Uris,        \* what is asked for: an id, or NoId
          NoId,        \* a REQUEST_URI of at most one character
          MaxRequests  \* bound: requests in a behaviour

Uint16 == 0..65535
Row == [id : Nat, size : Nat, feats : [1..NExtra -> Nat]]

ASSUME NExtraAssumption == NExtra \in Nat
ASSUME RowsAssumption   == Rows \in Seq(Row)
ASSUME NoIdAssumption   == NoId \notin Nat
ASSUME UrisAssumption   == Uris \subseteq Nat \cup {NoId}
ASSUME BoundAssumption  == MaxRequests \in Nat

VARIABLES
  mpc,        \* where main() is
  pos,        \* the row of the file main() reads next
  good,       \* the state of the ifstream: no failbit
  featureMap, \* feature_map: the entries loaded so far, a function on ids
  running,
  tpc,        \* where each serverThread is
  uri,        \* the request each thread answers
  out,        \* what each thread has written to request.out
  reqs, bytes,
  opc, tmpr, tmpb,  \* output(): where it is and what it loaded
  (* history *)
  accepted, answered,           \* requests taken and finished
  countedReqs, countedBytes,    \* everything ever added to reqs and bytes
  reportedReqs, reportedBytes   \* everything output() ever printed

loadVars   == <<pos, good, featureMap>>
threadVars == <<tpc, uri, out, accepted, answered, countedReqs, countedBytes>>
outputVars == <<opc, tmpr, tmpb, reportedReqs, reportedBytes>>
vars == <<mpc, loadVars, running, threadVars, reqs, bytes, outputVars>>

-----------------------------------------------------------------------------
(* The conversions.                                                        *)

Min2(a, b) == IF a < b THEN a ELSE b

(* mutant: the field is read into a wider integer *)
Extracted_Mutant(v) == v

(* `infile >> extra_feature' into a uint16_t: a number that does not fit   *)
(* stores the largest value (and sets failbit).                            *)
Extracted(v) == Min2(v, 65535)

(* A failed extraction leaves the variable as it was, so every feature     *)
(* after the first one that does not fit is 65535 as well.                 *)
ReadFeatures(f) ==
  [i \in 1..NExtra |->
     IF \E j \in 1..(i - 1) : f[j] \notin Uint16 THEN 65535 ELSE Extracted(f[i])]

(* mutant: "%04d" *)
Digits_Mutant(v) ==
  <<(v \div 1000) % 10, (v \div 100) % 10, (v \div 10) % 10, v % 10>>

(* "%04x": the hexadecimal digits of a 16-bit number.                      *)
Digits(v) == <<v \div 4096, (v \div 256) % 16, (v \div 16) % 16, v % 16>>

(* The text after "X-extra-fields: ", one "%04x" after the other.          *)
FieldText(f) ==
  [p \in 1..(4 * NExtra) |-> Digits(f[((p - 1) \div 4) + 1])[((p - 1) % 4) + 1]]

(* The proxy takes n pieces of four digits out of that text, as many as    *)
(* its own setting n_extra_fields says, and reads each with                *)
(* std::stoi(sub, nullptr, 16).                                            *)
ParseFields(text, n) ==
  [j \in 1..n |->
     4096 * text[4 * (j - 1) + 1] + 256 * text[4 * (j - 1) + 2]
       + 16 * text[4 * (j - 1) + 3] + text[4 * (j - 1) + 4]]

(* mutant: the rest of the middle division is taken from the whole size *)
BodyBytes_Mutant(csize) ==
  32768 * (csize \div 32768) + 2048 * ((csize % 32768) \div 2048)
    + 64 * ((csize % 2048) \div 64) + (csize % 2048)

(* The bytes that the four loops of lines 70-83 write.                     *)
BodyBytes(csize) ==
  32768 * (csize \div 32768)
    + 2048 * ((csize % 32768) \div 2048)
    + 64 * (((csize % 32768) % 2048) \div 64)
    + (((csize % 32768) % 2048) % 64)

(* What is written before the body.  The line with the extra fields gets   *)
(* the first "\r\n" of line 68; without it both end up after the header.   *)
CRLF == "CRLF"
ObjectHeader ==
  <<"Content-length", CRLF, "Content-type", CRLF>>
    \o (IF NExtra # 0 THEN <<"X-extra-fields">> ELSE <<>>) \o <<CRLF, CRLF>>
PageHeader == <<"Content-type", CRLF, CRLF>>

NoResponse == [kind |-> "none"]

ObjectResponse(e) ==
  [kind |-> "object", header |-> ObjectHeader, length |-> e.size,
   fields |-> FieldText(e.feats), written |-> BodyBytes(e.size)]

(* "IDofcontent not found!" and "use:IPofserver/IDofcontent".              *)
PageResponse == [kind |-> "page", header |-> PageHeader]

(* The reader's side: the header ends with the first empty line.           *)
HeaderEnd(h) ==
  CHOOSE i \in 2..Len(h) :
    /\ h[i] = CRLF /\ h[i - 1] = CRLF
    /\ \A j \in 2..(i - 1) : ~(h[j] = CRLF /\ h[j - 1] = CRLF)

(* The bytes that follow the header: what is left of it, two bytes for     *)
(* each CRLF, and the body.                                                *)
BodyReceived(r) == 2 * (Len(r.header) - HeaderEnd(r.header)) + r.written

-----------------------------------------------------------------------------
Init ==
  /\ mpc = "load" /\ pos = 1 /\ good = TRUE /\ featureMap = <<>>
  /\ running = FALSE
  /\ tpc = [t \in Threads |-> "unborn"]
  /\ uri = [t \in Threads |-> NoId]
  /\ out = [t \in Threads |-> NoResponse]
  /\ reqs = 0 /\ bytes = 0
  /\ opc = "unborn" /\ tmpr = 0 /\ tmpb = 0
  /\ accepted = 0 /\ answered = 0
  /\ countedReqs = 0 /\ countedBytes = 0
  /\ reportedReqs = 0 /\ reportedBytes = 0

(* Lines 161-169: one row.  The entry is stored even when a feature failed *)
(* to parse; the loop ends at the next attempt to read.                    *)
LoadRow ==
  /\ mpc = "load"
  /\ good /\ pos \in 1..Len(Rows)
  /\ LET r == Rows[pos]
         e == [size |-> r.size, feats |-> ReadFeatures(r.feats)]
     IN  /\ featureMap' = [i \in DOMAIN featureMap \cup {r.id} |->
                             IF i = r.id THEN e ELSE featureMap[i]]
         /\ good' = (\A i \in 1..NExtra : r.feats[i] \in Uint16)
  /\ pos' = pos + 1
  /\ UNCHANGED <<mpc, running, threadVars, reqs, bytes, outputVars>>

(* Lines 172-188: the threads are started.                                 *)
StartThreads ==
  /\ mpc = "load"
  /\ ~good \/ pos > Len(Rows)
  /\ running' = TRUE
  /\ tpc' = [t \in Threads |-> "accept"]
  /\ opc' = "test"
  /\ mpc' = "join"
  /\ UNCHANGED <<loadVars, uri, out, accepted, answered, countedReqs,
                 countedBytes, reqs, bytes, tmpr, tmpb, reportedReqs,
                 reportedBytes>>

(* mutant: running stays set *)
RunningAfterJoin_Mutant == TRUE

RunningAfterJoin == FALSE

(* Lines 191-195.                                                          *)
JoinThreads ==
  /\ mpc = "join"
  /\ \A t \in Threads : tpc[t] = "done"
  /\ running' = RunningAfterJoin
  /\ mpc' = "joinOutput"
  /\ UNCHANGED <<loadVars, threadVars, reqs, bytes, outputVars>>

Exit ==
  /\ mpc = "joinOutput"
  /\ opc = "done"
  /\ mpc' = "end"
  /\ UNCHANGED <<loadVars, running, threadVars, reqs, bytes, outputVars>>

Main == LoadRow \/ StartThreads \/ JoinThreads \/ Exit

-----------------------------------------------------------------------------
(* serverThread().                                                         *)

Known(u) == u # NoId /\ u \in DOMAIN featureMap

(* FCGX_Accept_r returns a request; line 50 looks its id up.  (The map is  *)
(* not written any more, so the moment of the lookup does not matter.)     *)
Accept(t) ==
  /\ tpc[t] = "accept"
  /\ accepted < MaxRequests
  /\ \E u \in Uris :
       /\ uri' = [uri EXCEPT ![t] = u]
       /\ tpc' = [tpc EXCEPT ![t] = IF Known(u) THEN "countReq" ELSE "reply"]
  /\ out' = [out EXCEPT ![t] = NoResponse]
  /\ accepted' = accepted + 1
  /\ UNCHANGED <<mpc, loadVars, running, answered, countedReqs, countedBytes,
                 reqs, bytes, outputVars>>

(* FCGX_Accept_r fails: the listening socket was shut down.                *)
AcceptFails(t) ==
  /\ tpc[t] = "accept"
  /\ tpc' = [tpc EXCEPT ![t] = "done"]
  /\ UNCHANGED <<mpc, loadVars, running, uri, out, accepted, answered,
                 countedReqs, countedBytes, reqs, bytes, outputVars>>

CountReq(t) ==
  /\ tpc[t] = "countReq"
  /\ reqs' = reqs + 1
  /\ countedReqs' = countedReqs + 1
  /\ tpc' = [tpc EXCEPT ![t] = "countBytes"]
  /\ UNCHANGED <<mpc, loadVars, running, uri, out, accepted, answered,
                 countedBytes, bytes, outputVars>>

CountBytes(t) ==
  /\ tpc[t] = "countBytes"
  /\ bytes' = bytes + featureMap[uri[t]].size
  /\ countedBytes' = countedBytes + featureMap[uri[t]].size
  /\ tpc' = [tpc EXCEPT ![t] = "reply"]
  /\ UNCHANGED <<mpc, loadVars, running, uri, out, accepted, answered,
                 countedReqs, reqs, outputVars>>

(* Lines 60-97: the response is written and the request finished.          *)
Reply(t) ==
  /\ tpc[t] = "reply"
  /\ out' = [out EXCEPT ![t] = IF Known(uri[t])
                               THEN ObjectResponse(featureMap[uri[t]])
                               ELSE PageResponse]
  /\ answered' = answered + 1
  /\ tpc' = [tpc EXCEPT ![t] = "accept"]
  /\ UNCHANGED <<mpc, loadVars, running, uri, accepted, countedReqs,
                 countedBytes, reqs, bytes, outputVars>>

Server(t) ==
  Accept(t) \/ AcceptFails(t) \/ CountReq(t) \/ CountBytes(t) \/ Reply(t)

-----------------------------------------------------------------------------
(* output().                                                               *)
TestRunning ==
  /\ opc = "test"
  /\ opc' = IF running THEN "storeReqs" ELSE "done"
  /\ UNCHANGED <<mpc, loadVars, running, threadVars, reqs, bytes, tmpr, tmpb,
                 reportedReqs, reportedBytes>>

(* mutant: reqs is not reset *)
StoredReqs_Mutant == reqs

StoredReqs == 0

StoreReqs ==
  /\ opc = "storeReqs"
  /\ reqs' = StoredReqs
  /\ opc' = "storeBytes"
  /\ UNCHANGED <<mpc, loadVars, running, threadVars, bytes, tmpr, tmpb,
                 reportedReqs, reportedBytes>>

StoreBytes ==
  /\ opc = "storeBytes"
  /\ bytes' = 0
  /\ opc' = "loadReqs"
  /\ UNCHANGED <<mpc, loadVars, running, threadVars, reqs, tmpr, tmpb,
                 reportedReqs, reportedBytes>>

(* Lines 107-108: after the sleep of a second.                             *)
LoadReqs ==
  /\ opc = "loadReqs"
  /\ tmpr' = reqs
  /\ reportedReqs' = reportedReqs + reqs
  /\ opc' = "loadBytes"
  /\ UNCHANGED <<mpc, loadVars, running, threadVars, reqs, bytes, tmpb,
                 reportedBytes>>

LoadBytes ==
  /\ opc = "loadBytes"
  /\ tmpb' = bytes
  /\ reportedBytes' = reportedBytes + bytes
  /\ opc' = "test"
  /\ UNCHANGED <<mpc, loadVars, running, threadVars, reqs, bytes, tmpr,
                 reportedReqs>>

Output == TestRunning \/ StoreReqs \/ StoreBytes \/ LoadReqs \/ LoadBytes

Exited == mpc = "end" /\ UNCHANGED vars

Next == Main \/ (\E t \in Threads : Server(t)) \/ Output \/ Exited

(* The scheduler runs every thread.  Nothing obliges a client to ask, nor  *)
(* FCGX_Accept_r to fail.                                                  *)
Fairness ==
  /\ WF_vars(Main)
  /\ \A t \in Threads : WF_vars(CountReq(t) \/ CountBytes(t) \/ Reply(t))
  /\ WF_vars(Output)

Spec == Init /\ [][Next]_vars /\ Fairness

-----------------------------------------------------------------------------
(* Properties.                                                             *)

Entry == [size : Nat, feats : [1..NExtra -> Uint16]]

(* Every variable holds a value of its C++ type; in particular what is     *)
(* loaded from the file has 16-bit features.                               *)
TypeOK ==
  /\ mpc \in {"load", "join", "joinOutput", "end"}
  /\ pos \in Nat
  /\ good \in BOOLEAN /\ running \in BOOLEAN
  /\ DOMAIN featureMap \subseteq Nat
  /\ \A i \in DOMAIN featureMap : featureMap[i] \in Entry
  /\ tpc \in [Threads -> {"unborn", "accept", "countReq", "countBytes",
                          "reply", "done"}]
  /\ uri \in [Threads -> Uris \cup {NoId}]
  /\ DOMAIN out = Threads
  /\ opc \in {"unborn", "test", "storeReqs", "storeBytes", "loadReqs",
              "loadBytes", "done"}
  /\ reqs \in Nat /\ bytes \in Nat /\ tmpr \in Nat /\ tmpb \in Nat
  /\ accepted \in Nat /\ answered \in Nat
  /\ countedReqs \in Nat /\ countedBytes \in Nat
  /\ reportedReqs \in Nat /\ reportedBytes \in Nat

(* The rows the loop gets to see: it stops after the first one with a      *)
(* feature that does not fit.                                              *)
Fits(r) == \A i \in 1..NExtra : r.feats[i] \in Uint16
Seen == {i \in 1..Len(Rows) : \A j \in 1..(i - 1) : Fits(Rows[j])}
RowsOf(u) == {i \in Seen : Rows[i].id = u}
LastRow(u) == CHOOSE i \in RowsOf(u) : \A j \in RowsOf(u) : j <= i

(* The object the file lists for an id is what a request for it receives:  *)
(* the size and, as the proxy parses them, the features of the id's last   *)
(* row, or the first n of them where the proxy is set to read n; any other *)
(* request gets an error page.  A row that does not fit hides the rows     *)
(* after it.                                                               *)
AnsweredFromFile ==
  \A t \in Threads :
    out[t].kind # "none" =>
      IF RowsOf(uri[t]) = {} THEN out[t].kind = "page"
      ELSE LET r == Rows[LastRow(uri[t])]
           IN  /\ out[t].kind = "object"
               /\ out[t].length = r.size
               /\ Fits(r) => \A n \in 0..NExtra :
                    ParseFields(out[t].fields, n) = [j \in 1..n |-> r.feats[j]]

(* As many bytes follow the header of a response as it announces: the      *)
(* blocks of lines 70-83 add up, and the header ends where it should.      *)
ContentLengthMatchesBody ==
  \A t \in Threads :
    out[t].kind = "object" => BodyReceived(out[t]) = out[t].length

(* output() never prints a request or a byte twice, although threads count *)
(* while it resets and loads the two counters in four steps.               *)
ReportedAtMostCounted ==
  /\ reportedReqs <= countedReqs
  /\ reportedBytes <= countedBytes

(* Once FCGX_Accept_r has failed in every thread the process exits: the    *)
(* flag that ends output() is cleared before main() joins it.              *)
ExitsWhenAcceptFails ==
  (\A t \in Threads : tpc[t] = "done") ~> (mpc = "end")
=============================================================================
