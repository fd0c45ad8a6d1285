---------------------------- MODULE OriginProofs ----------------------------
(***************************************************************************)
(* The origin's safety properties for every database, every set of server  *)
(* threads and every sequence of requests.                                 *)
(***************************************************************************)
EXTENDS Origin, Integers, SequenceTheorems, TLAPS

-----------------------------------------------------------------------------
(* The inductive invariant.                                                *)

EntryOf(r) == [size |-> r.size, feats |-> ReadFeatures(r.feats)]

(* The rows read so far fit, but perhaps the last one, and the map holds,  *)
(* for each id in them, the entry of its last row.                         *)
FileInv ==
  /\ pos \in 1..(Len(Rows) + 1)
  /\ \A j \in 1..(pos - 1) : j < pos - 1 => Fits(Rows[j])
  /\ good <=> \A j \in 1..(pos - 1) : Fits(Rows[j])
  /\ mpc # "load" => ~good \/ pos > Len(Rows)

MapInv ==
  /\ \A j \in 1..(pos - 1) : Rows[j].id \in DOMAIN featureMap
  /\ \A u \in DOMAIN featureMap :
       \E i \in 1..(pos - 1) :
         /\ Rows[i].id = u
         /\ \A j \in 1..(pos - 1) : Rows[j].id = u => j <= i
         /\ featureMap[u] = EntryOf(Rows[i])

(* A thread has written nothing, or the answer to its request.             *)
ThreadInv ==
  \A t \in Threads :
    /\ mpc = "load" => tpc[t] = "unborn" /\ out[t] = NoResponse
    /\ tpc[t] \in {"countReq", "countBytes"} => Known(uri[t])
    /\ \/ out[t] = NoResponse
       \/ Known(uri[t]) /\ out[t] = ObjectResponse(featureMap[uri[t]])
       \/ ~Known(uri[t]) /\ out[t] = PageResponse

(* Between its reset and its load a counter holds what was counted since   *)
(* the reset, none of which has been printed.                              *)
CountInv ==
  /\ opc \in {"storeBytes", "loadReqs"} => reportedReqs + reqs <= countedReqs
  /\ opc \in {"loadReqs", "loadBytes"} => reportedBytes + bytes <= countedBytes
  /\ ReportedAtMostCounted

IInv == TypeOK /\ FileInv /\ MapInv /\ ThreadInv /\ CountInv

-----------------------------------------------------------------------------
USE NExtraAssumption, RowsAssumption, NoIdAssumption, UrisAssumption,
    BoundAssumption

(* A feature is read into 16 bits whatever the file holds.                 *)
LEMMA ReadFeaturesType ==
  ASSUME NEW f \in [1..NExtra -> Nat]
  PROVE  ReadFeatures(f) \in [1..NExtra -> Uint16]
<1>1. \A i \in 1..NExtra : Extracted(f[i]) \in Uint16 /\ 65535 \in Uint16
  <2> SUFFICES ASSUME NEW v \in Nat PROVE Extracted(v) \in Uint16 /\ 65535 \in Uint16
    OBVIOUS
  <2> QED
    BY DEF Extracted, Min2, Uint16
<1> QED
  BY <1>1 DEF ReadFeatures

(* The features of a row that fits are read as they stand in the file.     *)
LEMMA ReadFeaturesFit ==
  ASSUME NEW r \in Row, Fits(r)
  PROVE  ReadFeatures(r.feats) = r.feats
<1>1. r.feats \in [1..NExtra -> Nat] /\ \A i \in 1..NExtra : r.feats[i] \in Uint16
  BY DEF Row, Fits
<1>2. \A i \in 1..NExtra : Extracted(r.feats[i]) = r.feats[i]
  <2> SUFFICES ASSUME NEW v \in Uint16 PROVE Extracted(v) = v
    BY <1>1
  <2> QED
    BY DEF Extracted, Min2, Uint16
<1>3. \A i \in 1..NExtra : ~ \E j \in 1..(i - 1) : r.feats[j] \notin Uint16
  BY <1>1
<1>4. ReadFeatures(r.feats) = [i \in 1..NExtra |-> r.feats[i]]
  BY <1>2, <1>3 DEF ReadFeatures
<1> QED
  BY <1>1, <1>4

(* Every row makes an entry.                                               *)
LEMMA RowEntry ==
  ASSUME NEW i \in 1..Len(Rows)
  PROVE  Rows[i] \in Row /\ Rows[i].id \in Nat /\ EntryOf(Rows[i]) \in Entry
<1>1. Rows[i] \in Row
  OBVIOUS
<1>2. Rows[i].id \in Nat /\ Rows[i].size \in Nat /\ Rows[i].feats \in [1..NExtra -> Nat]
  BY <1>1 DEF Row
<1> QED
  BY <1>1, <1>2, ReadFeaturesType DEF EntryOf, Entry

(* Four hexadecimal digits give back the 16-bit number they were made of.  *)
LEMMA DigitsOfNumber ==
  ASSUME NEW v \in Uint16
  PROVE  4096 * Digits(v)[1] + 256 * Digits(v)[2] + 16 * Digits(v)[3]
           + Digits(v)[4] = v
<1>1. v \in Nat
  BY DEF Uint16
<1>2. v = 4096 * (v \div 4096) + 256 * ((v \div 256) % 16) + 16 * ((v \div 16) % 16) + (v % 16)
  <2> DEFINE a == v \div 16  b == v \div 256  c == v \div 4096
  <2>1. v = 16 * a + (v % 16) /\ v % 16 \in Nat /\ a \in Nat
    BY <1>1
  <2>2. b = a \div 16 /\ c = b \div 16
    BY <1>1
  <2> HIDE DEF a, b, c
  <2>3. a = 16 * b + (a % 16) /\ a % 16 \in Nat /\ b \in Nat
    BY <2>1, <2>2
  <2>4. b = 16 * c + (b % 16) /\ b % 16 \in Nat /\ c \in Nat
    <3>1. b \in Nat /\ c = b \div 16
      BY <2>2, <2>3
    <3> QED
      BY <3>1
  <2>5. v = 4096 * c + 256 * (b % 16) + 16 * (a % 16) + (v % 16)
    BY <2>1, <2>3, <2>4
  <2> QED
    BY <2>5 DEF a, b, c
<1> QED
  BY <1>2 DEF Digits

(* The proxy reads back the features that the origin formatted.            *)
LEMMA FieldsRoundTrip ==
  ASSUME NEW f \in [1..NExtra -> Uint16], NEW n \in 0..NExtra
  PROVE  ParseFields(FieldText(f), n) = [j \in 1..n |-> f[j]]
<1> DEFINE T == FieldText(f)
<1>1. ASSUME NEW j \in 1..NExtra, NEW k \in 1..4
      PROVE  T[4 * (j - 1) + k] = Digits(f[j])[k]
  <2> DEFINE p == 4 * (j - 1) + k
  <2>1. p \in 1..(4 * NExtra)
    OBVIOUS
  <2>2. (p - 1) \div 4 = j - 1 /\ (p - 1) % 4 = k - 1
    OBVIOUS
  <2>3. T[p] = Digits(f[((p - 1) \div 4) + 1])[((p - 1) % 4) + 1]
    BY <2>1 DEF FieldText
  <2> QED
    BY <2>2, <2>3
<1>2. ASSUME NEW j \in 1..NExtra
      PROVE  4096 * T[4 * (j - 1) + 1] + 256 * T[4 * (j - 1) + 2]
               + 16 * T[4 * (j - 1) + 3] + T[4 * (j - 1) + 4] = f[j]
  <2>1. f[j] \in Uint16
    OBVIOUS
  <2>2. /\ T[4 * (j - 1) + 1] = Digits(f[j])[1] /\ T[4 * (j - 1) + 2] = Digits(f[j])[2]
        /\ T[4 * (j - 1) + 3] = Digits(f[j])[3] /\ T[4 * (j - 1) + 4] = Digits(f[j])[4]
    BY <1>1
  <2> HIDE DEF T
  <2> QED
    BY <2>1, <2>2, DigitsOfNumber
<1>3. \A j \in 1..n : j \in 1..NExtra
  OBVIOUS
<1> QED
  BY <1>2, <1>3 DEF ParseFields

(* The four loops of the body write what the first one was to write.       *)
LEMMA BodyBytesExact ==
  ASSUME NEW n \in Nat
  PROVE  BodyBytes(n) = n
<1> DEFINE a == n % 32768  b == a % 2048
<1>1. n = 32768 * (n \div 32768) + a /\ a \in Nat /\ n \div 32768 \in Nat
  OBVIOUS
<1>2. BodyBytes(n) = 32768 * (n \div 32768) + 2048 * (a \div 2048) + 64 * (b \div 64) + (b % 64)
  BY DEF BodyBytes
<1> HIDE DEF a
<1>3. a = 2048 * (a \div 2048) + b /\ b \in Nat /\ a \div 2048 \in Nat
  BY <1>1
<1> HIDE DEF b
<1>4. b = 64 * (b \div 64) + (b % 64) /\ b \div 64 \in Nat /\ b % 64 \in Nat
  BY <1>3
<1> QED
  BY <1>1, <1>2, <1>3, <1>4

(* With a line of extra fields the header ends with its own last CRLF.     *)
LEMMA HeaderWhole ==
  ASSUME NExtra # 0
  PROVE  Len(ObjectHeader) = HeaderEnd(ObjectHeader)
<1> DEFINE h == ObjectHeader
           p == <<"Content-length", CRLF, "Content-type", CRLF>>
           q == <<"X-extra-fields">>
           e == <<CRLF, CRLF>>
           S == {"Content-length", "Content-type", "X-extra-fields", CRLF}
<1>1. p \in Seq(S) /\ q \in Seq(S) /\ e \in Seq(S) /\ Len(p) = 4 /\ Len(q) = 1 /\ Len(e) = 2
  OBVIOUS
<1>8. /\ p[1] = "Content-length" /\ p[2] = CRLF /\ p[3] = "Content-type" /\ p[4] = CRLF
      /\ q[1] = "X-extra-fields" /\ e[1] = CRLF /\ e[2] = CRLF
  OBVIOUS
<1>2. h = (p \o q) \o e
  BY DEF ObjectHeader
<1> HIDE DEF h, p, q, e, S
<1>5. /\ p \o q \in Seq(S) /\ Len(p \o q) = 5
      /\ \A i \in 1..5 : (p \o q)[i] = IF i <= 4 THEN p[i] ELSE q[i - 4]
  <2>1. /\ p \o q \in Seq(S) /\ Len(p \o q) = Len(p) + Len(q)
        /\ \A i \in 1..(Len(p) + Len(q)) :
              (p \o q)[i] = IF i <= Len(p) THEN p[i] ELSE q[i - Len(p)]
    BY <1>1, ConcatProperties
  <2> QED
    BY <1>1, <2>1
<1>6. /\ Len(h) = 7
      /\ \A i \in 1..7 : h[i] = IF i <= 5 THEN (p \o q)[i] ELSE e[i - 5]
  <2> DEFINE m == p \o q
  <2>1. m \in Seq(S) /\ Len(m) = 5
    BY <1>5
  <2> HIDE DEF m
  <2>2. /\ Len(m \o e) = Len(m) + Len(e)
        /\ \A i \in 1..(Len(m) + Len(e)) :
              (m \o e)[i] = IF i <= Len(m) THEN m[i] ELSE e[i - Len(m)]
    BY <1>1, <2>1, ConcatProperties
  <2> QED
    BY <1>1, <1>2, <2>1, <2>2 DEF m
<1>7. /\ h[1] = "Content-length" /\ h[2] = CRLF /\ h[3] = "Content-type" /\ h[4] = CRLF
      /\ h[5] = "X-extra-fields" /\ h[6] = CRLF /\ h[7] = CRLF
  BY <1>8, <1>5, <1>6
<1>3. \A j \in 2..6 : ~(h[j] = CRLF /\ h[j - 1] = CRLF)
  <2> SUFFICES ASSUME NEW j \in 2..6 PROVE ~(h[j] = CRLF /\ h[j - 1] = CRLF)
    OBVIOUS
  <2>1. j = 2 \/ j = 3 \/ j = 4 \/ j = 5 \/ j = 6
    OBVIOUS
  <2> QED
    BY <1>7, <2>1 DEF CRLF
<1>4. HeaderEnd(h) = 7
  <2>1. \A i \in 2..7 : (h[i] = CRLF /\ h[i - 1] = CRLF) <=> i = 7
    BY <1>7, <1>3 DEF CRLF
  <2>2. \A i \in 2..7 :
          (/\ h[i] = CRLF /\ h[i - 1] = CRLF
           /\ \A j \in 2..(i - 1) : ~(h[j] = CRLF /\ h[j - 1] = CRLF)) <=> i = 7
    BY <2>1
  <2> QED
    BY <2>2, <1>6 DEF HeaderEnd
<1> QED
  BY <1>4, <1>6 DEF h

-----------------------------------------------------------------------------
(* The inductive invariant holds when main() starts.                       *)
LEMMA InitIInv == Init => IInv
<1> SUFFICES ASSUME Init PROVE IInv
  OBVIOUS
<1>0. Len(Rows) \in Nat
  OBVIOUS
<1>1. TypeOK
  <2>1. DOMAIN featureMap = {}
    BY DEF Init
  <2>2. good \in BOOLEAN /\ running \in BOOLEAN
    BY DEF Init
  <2> QED
    BY <2>1, <2>2 DEF Init, TypeOK
<1>2. FileInv /\ MapInv
  BY <1>0 DEF Init, FileInv, MapInv
<1>3. ThreadInv /\ CountInv
  BY DEF Init, ThreadInv, CountInv, ReportedAtMostCounted
<1> QED
  BY <1>1, <1>2, <1>3 DEF IInv

(* Loading a row leaves the map with the last row of each id so far.       *)
LEMMA LoadRowStep ==
  ASSUME IInv, LoadRow
  PROVE  IInv'
<1> USE DEF IInv, loadVars, threadVars, outputVars
<1>0. Len(Rows) \in Nat /\ pos \in Nat /\ pos \in 1..Len(Rows) /\ pos' = pos + 1
  BY DEF LoadRow, FileInv
<1> DEFINE r == Rows[pos]
<1>1. r.id \in Nat /\ EntryOf(r) \in Entry
  BY <1>0, RowEntry
<1>2. featureMap' = [i \in DOMAIN featureMap \cup {r.id} |->
                       IF i = r.id THEN EntryOf(r) ELSE featureMap[i]]
  BY DEF LoadRow, EntryOf
<1>3. good' = Fits(r)
  BY DEF LoadRow, Fits
<1>4. TypeOK'
  <2>1. DOMAIN featureMap' \subseteq Nat
    BY <1>1, <1>2 DEF TypeOK
  <2>2. \A i \in DOMAIN featureMap' : featureMap'[i] \in Entry
    BY <1>1, <1>2 DEF TypeOK
  <2>3. good' \in BOOLEAN
    BY <1>3 DEF Fits
  <2>4. UNCHANGED <<mpc, running, threadVars, reqs, bytes, outputVars>> /\ pos' \in Nat
    BY <1>0 DEF LoadRow
  <2> HIDE DEF IInv
  <2>5. TypeOK
    BY DEF IInv
  <2> QED
    BY <2>1, <2>2, <2>3, <2>4, <2>5 DEF TypeOK
<1>5. FileInv'
  <2>1. \A j \in 1..(pos - 1) : Fits(Rows[j])
    BY DEF LoadRow, FileInv
  <2>2. \A j \in 1..pos : j = pos \/ j \in 1..(pos - 1)
    BY <1>0
  <2>3. pos \in 1..pos
    BY <1>0
  <2>4. mpc' = "load"
    BY DEF LoadRow
  <2>5. pos' - 1 = pos
    BY <1>0
  <2>6. good' <=> \A j \in 1..(pos' - 1) : Fits(Rows[j])
    BY <1>3, <2>1, <2>2, <2>3, <2>5
  <2>7. \A j \in 1..(pos' - 1) : j < pos' - 1 => Fits(Rows[j])
    BY <1>0, <2>1, <2>5
  <2>8. pos' \in 1..(Len(Rows) + 1)
    BY <1>0
  <2> QED
    BY <2>4, <2>6, <2>7, <2>8 DEF FileInv, Fits
<1>6. MapInv'
  <2>1. \A j \in 1..pos : j = pos \/ j \in 1..(pos - 1)
    BY <1>0
  <2>2. pos' - 1 = pos /\ pos \in 1..pos /\ 1..(pos - 1) \subseteq 1..pos
    BY <1>0
  <2>3. \A j \in 1..pos : Rows[j].id \in DOMAIN featureMap'
    BY <1>2, <2>1 DEF MapInv
  <2>4. ASSUME NEW u \in DOMAIN featureMap'
        PROVE  \E i \in 1..pos :
                 /\ Rows[i].id = u
                 /\ \A j \in 1..pos : Rows[j].id = u => j <= i
                 /\ featureMap'[u] = EntryOf(Rows[i])
    <3>1. CASE u = r.id
      <4>1. featureMap'[u] = EntryOf(r)
        BY <1>2, <3>1
      <4>2. \A j \in 1..pos : j <= pos
        BY <1>0
      <4> QED
        BY <2>2, <3>1, <4>1, <4>2
    <3>2. CASE u # r.id
      <4>1. u \in DOMAIN featureMap /\ featureMap'[u] = featureMap[u]
        BY <1>2, <3>2
      <4>2. PICK i \in 1..(pos - 1) :
               /\ Rows[i].id = u
               /\ \A j \in 1..(pos - 1) : Rows[j].id = u => j <= i
               /\ featureMap[u] = EntryOf(Rows[i])
        BY <4>1 DEF MapInv
      <4>3. \A j \in 1..pos : Rows[j].id = u => j <= i
        BY <2>1, <3>2, <4>2
      <4> QED
        BY <2>2, <4>1, <4>2, <4>3
    <3> QED
      BY <3>1, <3>2
  <2>5. \A u \in DOMAIN featureMap' :
          \E i \in 1..(pos' - 1) :
            /\ Rows[i].id = u
            /\ \A j \in 1..(pos' - 1) : Rows[j].id = u => j <= i
            /\ featureMap'[u] = EntryOf(Rows[i])
    BY <2>2, <2>4
  <2> QED
    BY <2>2, <2>3, <2>5 DEF MapInv, EntryOf, ReadFeatures
<1>7. ThreadInv'
  BY DEF LoadRow, ThreadInv, NoResponse
<1>8. CountInv'
  BY DEF LoadRow, CountInv, ReportedAtMostCounted
<1> QED
  BY <1>4, <1>5, <1>6, <1>7, <1>8

(* The other steps of main() only move it on.                              *)
LEMMA MainStep ==
  ASSUME IInv, Main
  PROVE  IInv'
<1> USE DEF IInv, loadVars, threadVars, outputVars
<1>1. CASE LoadRow
  BY <1>1, LoadRowStep
<1>2. CASE StartThreads
  <2>1. TypeOK'
    BY <1>2 DEF StartThreads, TypeOK
  <2>2. FileInv' /\ MapInv'
    BY <1>2 DEF StartThreads, FileInv, MapInv, EntryOf, Fits, ReadFeatures
  <2>3. ThreadInv' /\ CountInv'
    BY <1>2 DEF StartThreads, ThreadInv, TypeOK, CountInv, ReportedAtMostCounted
  <2> QED
    BY <2>1, <2>2, <2>3
<1>3. CASE JoinThreads \/ Exit
  <2>1. /\ mpc # "load" /\ mpc' # "load" /\ mpc' \in {"joinOutput", "end"}
        /\ running' \in BOOLEAN
        /\ UNCHANGED <<loadVars, threadVars, reqs, bytes, outputVars>>
    BY <1>3 DEF JoinThreads, Exit, RunningAfterJoin, TypeOK
  <2>2. TypeOK'
    BY <2>1 DEF TypeOK
  <2>3. FileInv' /\ MapInv'
    BY <2>1 DEF FileInv, MapInv, EntryOf, Fits, ReadFeatures
  <2>4. ThreadInv' /\ CountInv'
    BY <2>1 DEF ThreadInv, CountInv, ReportedAtMostCounted, Known, ObjectResponse
  <2> QED
    BY <2>2, <2>3, <2>4
<1> QED
  BY <1>1, <1>2, <1>3 DEF Main

(* A serverThread counts and writes what the map holds for its request.    *)
LEMMA ServerStep ==
  ASSUME IInv, NEW t \in Threads, Server(t)
  PROVE  IInv'
<1> USE DEF IInv
<1>1. /\ UNCHANGED <<mpc, loadVars, running, outputVars>>
      /\ tpc[t] # "unborn"
  BY DEF Server, Accept, AcceptFails, CountReq, CountBytes, Reply
<1>2. mpc # "load"
  BY <1>1 DEF ThreadInv
<1>3. FileInv' /\ MapInv'
  <2>1. UNCHANGED <<mpc, pos, good, featureMap>>
    BY <1>1 DEF loadVars
  <2>2. FileInv'
    BY <2>1 DEF FileInv, Fits
  <2>3. MapInv'
    BY <2>1 DEF MapInv, EntryOf, ReadFeatures
  <2> QED
    BY <2>2, <2>3
<1>4. ASSUME NEW u PROVE Known(u)' <=> Known(u)
  BY <1>1 DEF Known, loadVars
<1>5. \A v \in Threads :
        tpc[v] = "countBytes" => featureMap[uri[v]] \in Entry /\ featureMap[uri[v]].size \in Nat
  BY DEF ThreadInv, Known, TypeOK, Entry
<1> USE DEF loadVars, outputVars
<1>6. CASE Accept(t)
  <2>1. TypeOK'
    BY <1>6 DEF Accept, TypeOK
  <2>2. CountInv'
    BY <1>6 DEF Accept, CountInv, ReportedAtMostCounted
  <2>3. ThreadInv'
    BY <1>1, <1>2, <1>4, <1>6 DEF Accept, ThreadInv, TypeOK, ObjectResponse
  <2> QED
    BY <1>3, <2>1, <2>2, <2>3
<1>7. CASE AcceptFails(t)
  <2>1. TypeOK'
    BY <1>7 DEF AcceptFails, TypeOK
  <2>2. CountInv'
    BY <1>7 DEF AcceptFails, CountInv, ReportedAtMostCounted
  <2>3. ThreadInv'
    BY <1>1, <1>2, <1>4, <1>7 DEF AcceptFails, ThreadInv, TypeOK, ObjectResponse
  <2> QED
    BY <1>3, <2>1, <2>2, <2>3
<1>8. CASE CountReq(t)
  <2>1. TypeOK'
    BY <1>8 DEF CountReq, TypeOK
  <2>2. CountInv'
    BY <1>8 DEF CountReq, CountInv, ReportedAtMostCounted, TypeOK
  <2>3. ThreadInv'
    BY <1>1, <1>2, <1>4, <1>8 DEF CountReq, ThreadInv, TypeOK, ObjectResponse
  <2> QED
    BY <1>3, <2>1, <2>2, <2>3
<1>9. CASE CountBytes(t)
  <2> DEFINE n == featureMap[uri[t]].size
  <2>0. n \in Nat /\ bytes' = bytes + n /\ countedBytes' = countedBytes + n
    BY <1>5, <1>9 DEF CountBytes
  <2> HIDE DEF n
  <2>1. TypeOK'
    BY <1>9, <2>0 DEF CountBytes, TypeOK
  <2>2. CountInv'
    BY <1>9, <2>0 DEF CountBytes, CountInv, ReportedAtMostCounted, TypeOK
  <2>3. ThreadInv'
    BY <1>1, <1>2, <1>4, <1>9 DEF CountBytes, ThreadInv, TypeOK, ObjectResponse
  <2> QED
    BY <1>3, <2>1, <2>2, <2>3
<1>10. CASE Reply(t)
  <2>1. TypeOK'
    BY <1>10 DEF Reply, TypeOK
  <2>2. CountInv'
    BY <1>10 DEF Reply, CountInv, ReportedAtMostCounted
  <2>3. ThreadInv'
    BY <1>1, <1>2, <1>4, <1>10 DEF Reply, ThreadInv, TypeOK, ObjectResponse
  <2> QED
    BY <1>3, <2>1, <2>2, <2>3
<1> QED
  BY <1>6, <1>7, <1>8, <1>9, <1>10 DEF Server

(* output() prints only what was counted since its reset.                  *)
LEMMA OutputStep ==
  ASSUME IInv, Output
  PROVE  IInv'
<1> USE DEF IInv, loadVars, threadVars
<1>1. UNCHANGED <<mpc, loadVars, running, threadVars>>
  BY DEF Output, TestRunning, StoreReqs, StoreBytes, LoadReqs, LoadBytes
<1>2. FileInv' /\ MapInv' /\ ThreadInv'
  BY <1>1 DEF FileInv, MapInv, ThreadInv, EntryOf, Fits, ReadFeatures, Known, ObjectResponse
<1>3. /\ opc' \in {"test", "storeReqs", "storeBytes", "loadReqs", "loadBytes", "done"}
      /\ reqs' \in Nat /\ bytes' \in Nat /\ tmpr' \in Nat /\ tmpb' \in Nat
      /\ reportedReqs' \in Nat /\ reportedBytes' \in Nat
  <2>1. /\ reqs \in Nat /\ bytes \in Nat /\ tmpr \in Nat /\ tmpb \in Nat
        /\ reportedReqs \in Nat /\ reportedBytes \in Nat
    BY DEF TypeOK
  <2>2. CASE TestRunning
    BY <2>1, <2>2 DEF TestRunning
  <2>3. CASE StoreReqs
    BY <2>1, <2>3 DEF StoreReqs, StoredReqs
  <2>4. CASE StoreBytes
    BY <2>1, <2>4 DEF StoreBytes
  <2>5. CASE LoadReqs
    BY <2>1, <2>5 DEF LoadReqs
  <2>6. CASE LoadBytes
    BY <2>1, <2>6 DEF LoadBytes
  <2> QED
    BY <2>2, <2>3, <2>4, <2>5, <2>6 DEF Output
<1>4. TypeOK'
  <2>1. TypeOK
    OBVIOUS
  <2> HIDE DEF IInv
  <2> QED
    BY <1>1, <1>3, <2>1 DEF TypeOK
<1>5. CountInv'
  <2>1. CountInv /\ TypeOK
    OBVIOUS
  <2> HIDE DEF IInv
  <2> USE <2>1 DEF CountInv, ReportedAtMostCounted, TypeOK
  <2>2. CASE TestRunning
    BY <2>2 DEF TestRunning
  <2>3. CASE StoreReqs
    BY <2>3 DEF StoreReqs, StoredReqs
  <2>4. CASE StoreBytes
    BY <2>4 DEF StoreBytes
  <2>5. CASE LoadReqs
    BY <2>5 DEF LoadReqs
  <2>6. CASE LoadBytes
    BY <2>6 DEF LoadBytes
  <2> QED
    BY <2>2, <2>3, <2>4, <2>5, <2>6 DEF Output
<1> QED
  BY <1>2, <1>4, <1>5

(* The invariant is one of the specification.                              *)
THEOREM Invariance == Spec => []IInv
<1>1. IInv /\ [Next]_vars => IInv'
  <2> SUFFICES ASSUME IInv, [Next]_vars PROVE IInv'
    OBVIOUS
  <2>1. CASE Main
    BY <2>1, MainStep
  <2>2. CASE \E t \in Threads : Server(t)
    BY <2>2, ServerStep
  <2>3. CASE Output
    BY <2>3, OutputStep
  <2>4. CASE UNCHANGED vars
    <3> USE <2>4 DEF vars, loadVars, threadVars, outputVars, IInv
    <3>1. TypeOK' /\ CountInv'
      BY DEF TypeOK, CountInv, ReportedAtMostCounted
    <3>2. FileInv' /\ MapInv' /\ ThreadInv'
      BY DEF FileInv, MapInv, ThreadInv, EntryOf, Fits, ReadFeatures, Known,
             ObjectResponse
    <3> QED
      BY <3>1, <3>2
  <2> QED
    BY <2>1, <2>2, <2>3, <2>4 DEF Next, Exited
<1> QED
  BY <1>1, InitIInv, PTL DEF Spec

-----------------------------------------------------------------------------
(* Every variable of the origin keeps its type; what the file makes of the *)
(* features (origin.cpp 161-169) is always a vector of 16-bit numbers.     *)
THEOREM TypeCorrect == Spec => []TypeOK
<1>1. IInv => TypeOK
  BY DEF IInv
<1> QED
  BY <1>1, Invariance, PTL

(* Whatever the file holds and however requests interleave, a request is   *)
(* answered with the size and the features of the last row of its id that  *)
(* the loop read, and with the error page if there is none.                *)
THEOREM AnswersComeFromFile == Spec => []AnsweredFromFile
<1>1. IInv => AnsweredFromFile
  <2> SUFFICES ASSUME IInv, NEW t \in Threads, out[t].kind # "none"
               PROVE  IF RowsOf(uri[t]) = {} THEN out[t].kind = "page"
                      ELSE LET r == Rows[LastRow(uri[t])]
                           IN  /\ out[t].kind = "object"
                               /\ out[t].length = r.size
                               /\ Fits(r) => \A n \in 0..NExtra :
                                    ParseFields(out[t].fields, n)
                                      = [j \in 1..n |-> r.feats[j]]
    BY DEF AnsweredFromFile
  <2> DEFINE u == uri[t]
  <2>0. Len(Rows) \in Nat /\ pos \in 1..(Len(Rows) + 1)
    BY DEF IInv, FileInv
  <2>1. out[t] # NoResponse
    BY DEF NoResponse
  <2>2. ~good \/ pos > Len(Rows)
    BY <2>1 DEF IInv, ThreadInv, FileInv
  <2>3. Seen = 1..(pos - 1)
    <3>1. ASSUME NEW i \in 1..(pos - 1) PROVE i \in Seen
      BY <2>0 DEF Seen, IInv, FileInv
    <3>2. ASSUME NEW i \in Seen PROVE i \in 1..(pos - 1)
      <4>1. i \in 1..Len(Rows) /\ \A j \in 1..(i - 1) : Fits(Rows[j])
        BY DEF Seen
      <4>2. CASE pos > Len(Rows)
        BY <2>0, <4>1, <4>2
      <4>3. CASE ~good
        <5>1. PICK j \in 1..(pos - 1) : ~Fits(Rows[j])
          BY <4>3 DEF IInv, FileInv
        <5>2. ~(j \in 1..(i - 1))
          BY <4>1, <5>1
        <5> QED
          BY <2>0, <4>1, <5>1, <5>2
      <4> QED
        BY <2>2, <4>2, <4>3
    <3> QED
      BY <3>1, <3>2
  <2>4. CASE Known(u)
    <3>1. out[t] = ObjectResponse(featureMap[u])
      BY <2>1, <2>4 DEF IInv, ThreadInv
    <3>2. PICK i \in 1..(pos - 1) :
             /\ Rows[i].id = u
             /\ \A j \in 1..(pos - 1) : Rows[j].id = u => j <= i
             /\ featureMap[u] = EntryOf(Rows[i])
      BY <2>4 DEF IInv, MapInv, Known
    <3>3. i \in RowsOf(u) /\ \A j \in RowsOf(u) : j <= i
      BY <2>3, <3>2 DEF RowsOf
    <3>4. \A j \in RowsOf(u) : j \in Nat
      BY <2>3 DEF RowsOf
    <3>5. LastRow(u) = i
      <4>1. \A k \in RowsOf(u) : (\A j \in RowsOf(u) : j <= k) <=> k = i
        BY <3>3, <3>4
      <4> HIDE DEF u
      <4> QED
        BY <3>3, <4>1 DEF LastRow
    <3>6. i \in 1..Len(Rows)
      BY <2>0
    <3>7. Rows[i] \in Row
      BY <3>6, RowEntry
    <3>8. /\ out[t].kind = "object" /\ out[t].length = Rows[i].size
          /\ out[t].fields = FieldText(ReadFeatures(Rows[i].feats))
      BY <3>1, <3>2 DEF ObjectResponse, EntryOf
    <3>9. Fits(Rows[i]) => \A n \in 0..NExtra :
            ParseFields(out[t].fields, n) = [j \in 1..n |-> Rows[i].feats[j]]
      <4> SUFFICES ASSUME Fits(Rows[i]), NEW n \in 0..NExtra
                   PROVE  ParseFields(out[t].fields, n) = [j \in 1..n |-> Rows[i].feats[j]]
        OBVIOUS
      <4>1. Rows[i].feats \in [1..NExtra -> Uint16]
        BY <3>7 DEF Row, Fits
      <4>2. ReadFeatures(Rows[i].feats) = Rows[i].feats
        BY <3>7, ReadFeaturesFit
      <4> QED
        BY <3>8, <4>1, <4>2, FieldsRoundTrip
    <3> QED
      BY <3>3, <3>5, <3>8, <3>9
  <2>5. CASE ~Known(u)
    <3>1. out[t].kind = "page"
      BY <2>1, <2>5 DEF IInv, ThreadInv, PageResponse
    <3>2. \A i \in 1..(pos - 1) : Rows[i].id # u
      <4> SUFFICES ASSUME NEW i \in 1..(pos - 1) PROVE Rows[i].id # u
        OBVIOUS
      <4>1. i \in 1..Len(Rows)
        BY <2>0
      <4>2. Rows[i].id \in Nat
        BY <4>1, RowEntry
      <4> QED
        BY <2>5, <4>2 DEF Known, IInv, MapInv
    <3>3. RowsOf(u) = {}
      BY <2>3, <3>2 DEF RowsOf
    <3> QED
      BY <3>1, <3>3
  <2> QED
    BY <2>4, <2>5
<1> QED
  BY <1>1, Invariance, PTL

(* Whatever the size, as many bytes follow the header as it announces, if  *)
(* the database has extra features.  (Without them the header ends two     *)
(* bytes early: the run of MCOriginPlain.)                                 *)
THEOREM LengthMatchesBody ==
  ASSUME NExtra # 0
  PROVE  Spec => []ContentLengthMatchesBody
<1>1. IInv => ContentLengthMatchesBody
  <2> SUFFICES ASSUME IInv, NEW t \in Threads, out[t].kind = "object"
               PROVE  BodyReceived(out[t]) = out[t].length
    BY DEF ContentLengthMatchesBody
  <2>1. Known(uri[t]) /\ out[t] = ObjectResponse(featureMap[uri[t]])
    BY DEF IInv, ThreadInv, NoResponse, PageResponse
  <2> DEFINE n == featureMap[uri[t]].size
  <2>2. n \in Nat
    BY <2>1 DEF Known, IInv, TypeOK, Entry
  <2>3. out[t].header = ObjectHeader /\ out[t].length = n /\ out[t].written = BodyBytes(n)
    BY <2>1 DEF ObjectResponse
  <2>4. Len(ObjectHeader) = HeaderEnd(ObjectHeader) /\ BodyBytes(n) = n
    BY <2>2, HeaderWhole, BodyBytesExact
  <2>5. Len(ObjectHeader) \in Nat
    BY DEF ObjectHeader
  <2> QED
    BY <2>2, <2>3, <2>4, <2>5 DEF BodyReceived
<1> QED
  BY <1>1, Invariance, PTL

(* output() never prints a request or a byte that was not counted, nor one *)
(* of them twice, however its four steps interleave with the threads.      *)
THEOREM ReportsSound == Spec => []ReportedAtMostCounted
<1>1. IInv => ReportedAtMostCounted
  BY DEF IInv, CountInv
<1> QED
  BY <1>1, Invariance, PTL
=============================================================================
