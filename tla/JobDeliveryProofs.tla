------------------------- MODULE JobDeliveryProofs -------------------------
(***************************************************************************)
(* Background jobs and the way of their results to the conversation, for   *)
(* any number of jobs, polls, prompts, aborts and failed deliveries: what  *)
(* holds of the manager and its callers alone (module AsyncJobs), and of   *)
(* the yield queue and the session beside them.                            *)
(***************************************************************************)
EXTENDS JobDelivery, SequenceFacts

-----------------------------------------------------------------------------
(* The queue of deliveries *)

QueuedDelivery == [run : Runs, due : BOOLEAN]
RunsIn(q) == {q[k].run : k \in DOMAIN q}
NoneTwice(q) == \A j, k \in DOMAIN q : q[j].run = q[k].run => j = k

(* A queue made of different elements of another one.                      *)
LEMMA PartOfQueue ==
    ASSUME NEW q \in Seq(QueuedDelivery), NEW p \in Seq(QueuedDelivery), NoneTwice(q),
           NEW h \in [1..Len(p) -> 1..Len(q)],
           \A j, k \in 1..Len(p) : h[j] = h[k] => j = k,
           \A k \in 1..Len(p) : p[k].run = q[h[k]].run
    PROVE  NoneTwice(p) /\ \A r : r \in RunsIn(p) <=> \E k \in 1..Len(p) : r = q[h[k]].run
<1>1. DOMAIN p = 1..Len(p) /\ DOMAIN q = 1..Len(q)
  OBVIOUS
<1>2. NoneTwice(p)
  BY <1>1 DEF NoneTwice
<1>3. \A r : r \in RunsIn(p) <=> \E k \in 1..Len(p) : r = q[h[k]].run
  BY <1>1, SMTT(30) DEF RunsIn
<1>4. QED BY <1>2, <1>3

LEMMA QueueWithoutHead ==
    ASSUME NEW q \in Seq(QueuedDelivery), NoneTwice(q), q # <<>>
    PROVE  /\ Tail(q) \in Seq(QueuedDelivery) /\ NoneTwice(Tail(q))
           /\ Head(q).run \in RunsIn(q) /\ Head(q) \in QueuedDelivery
           /\ RunsIn(Tail(q)) = RunsIn(q) \ {Head(q).run}
<1>1. /\ Len(q) \in Nat /\ Len(q) >= 1 /\ DOMAIN q = 1..Len(q)
      /\ Tail(q) \in Seq(QueuedDelivery) /\ Len(Tail(q)) = Len(q) - 1
      /\ \A k \in 1..(Len(q) - 1) : Tail(q)[k] = q[k + 1]
      /\ Head(q) = q[1]
  OBVIOUS
<1> DEFINE h == [k \in 1..Len(Tail(q)) |-> k + 1]
<1>2. /\ h \in [1..Len(Tail(q)) -> 1..Len(q)]
      /\ \A j, k \in 1..Len(Tail(q)) : h[j] = h[k] => j = k
      /\ \A k \in 1..Len(Tail(q)) : Tail(q)[k].run = q[h[k]].run
  BY <1>1
<1>3. NoneTwice(Tail(q)) /\ \A r : r \in RunsIn(Tail(q)) <=> \E k \in 1..Len(Tail(q)) : r = q[h[k]].run
  <2> HIDE DEF h
  <2>1. QED BY <1>1, <1>2, PartOfQueue
<1>4. ASSUME NEW r PROVE r \in RunsIn(Tail(q)) <=> r \in RunsIn(q) \ {Head(q).run}
  <2>1. r \in RunsIn(q) <=> \E k \in 1..Len(q) : r = q[k].run
    BY <1>1 DEF RunsIn
  <2>2. r \in RunsIn(Tail(q)) <=> \E k \in 1..(Len(q) - 1) : r = q[k + 1].run
    BY <1>1, <1>3
  <2>3. ASSUME r \in RunsIn(Tail(q)) PROVE r \in RunsIn(q) /\ r # q[1].run
    <3>1. PICK k \in 1..(Len(q) - 1) : r = q[k + 1].run
      BY <2>2, <2>3
    <3>2. k + 1 \in 1..Len(q) /\ k + 1 # 1 /\ 1 \in 1..Len(q)
      BY <1>1
    <3>3. QED BY <3>1, <3>2, <2>1, <1>1 DEF NoneTwice
  <2>4. ASSUME r \in RunsIn(q), r # q[1].run PROVE r \in RunsIn(Tail(q))
    <3>1. PICK k \in 1..Len(q) : r = q[k].run
      BY <2>1, <2>4
    <3>2. k - 1 \in 1..(Len(q) - 1) /\ (k - 1) + 1 = k
      BY <1>1, <3>1, <2>4
    <3>3. QED BY <3>1, <3>2, <2>2
  <2>5. QED BY <2>3, <2>4, <1>1
<1>5. q[1].run \in RunsIn(q) /\ q[1] \in QueuedDelivery
  BY <1>1 DEF RunsIn
<1>6. QED BY <1>1, <1>3, <1>4, <1>5

LEMMA QueueWithAnother ==
    ASSUME NEW q \in Seq(QueuedDelivery), NoneTwice(q), NEW d \in QueuedDelivery, d.run \notin RunsIn(q)
    PROVE  /\ Append(q, d) \in Seq(QueuedDelivery) /\ NoneTwice(Append(q, d))
           /\ RunsIn(Append(q, d)) = RunsIn(q) \cup {d.run}
<1> DEFINE p == Append(q, d)
           L == Len(q)
<1>1. /\ L \in Nat /\ DOMAIN q = 1..L /\ p \in Seq(QueuedDelivery)
      /\ DOMAIN p = 1..(L + 1) /\ p[L + 1] = d
      /\ \A k \in 1..L : p[k] = q[k]
  BY AppendProperties
<1> HIDE DEF p, L
<1>2. \A k : k \in 1..(L + 1) <=> k \in 1..L \/ k = L + 1
  BY <1>1
<1>3. \A k \in 1..L : q[k].run # d.run
  BY <1>1 DEF RunsIn
<1>4. NoneTwice(p)
  BY <1>1, <1>2, <1>3, Zenon DEF NoneTwice
<1>5. RunsIn(p) = RunsIn(q) \cup {d.run}
  BY <1>1, <1>2, Zenon DEF RunsIn
<1>6. QED BY <1>1, <1>4, <1>5 DEF p

LEMMA QueueFiltered ==
    ASSUME NEW q \in Seq(QueuedDelivery), NoneTwice(q), NEW K
    PROVE  /\ Filtered(q, K) \in Seq(QueuedDelivery) /\ NoneTwice(Filtered(q, K))
           /\ RunsIn(Filtered(q, K)) = {q[k].run : k \in K \cap DOMAIN q}
<1> DEFINE p == Filtered(q, K)
<1>0. DOMAIN q = 1..Len(q)
  OBVIOUS
<1>1. p \in Seq(QueuedDelivery)
  BY FilteredPositions
<1>2. PICK h \in [1..Len(p) -> K \cap 1..Len(q)] :
          /\ \A i \in 1..Len(p) : p[i] = q[h[i]]
          /\ \A i, j \in 1..Len(p) : i < j => h[i] < h[j]
          /\ \A k \in K \cap 1..Len(q) : \E i \in 1..Len(p) : h[i] = k
  BY FilteredPositions
<1> HIDE DEF p
<1>3. \A i, j \in 1..Len(p) : h[i] = h[j] => i = j
  <2> SUFFICES ASSUME NEW i \in 1..Len(p), NEW j \in 1..Len(p), h[i] = h[j] PROVE i = j
    OBVIOUS
  <2>1. h[i] \in 1..Len(q) /\ h[j] \in 1..Len(q) /\ Len(p) \in Nat
    BY <1>1
  <2>2. ~(i < j) /\ ~(j < i)
    BY <1>2, <2>1
  <2>3. QED BY <2>1, <2>2
<1>4. h \in [1..Len(p) -> 1..Len(q)] /\ \A k \in 1..Len(p) : p[k].run = q[h[k]].run
  BY <1>2
<1>5. NoneTwice(p) /\ \A r : r \in RunsIn(p) <=> \E k \in 1..Len(p) : r = q[h[k]].run
  BY <1>1, <1>3, <1>4, PartOfQueue
<1>6. \A k \in 1..Len(p) : h[k] \in K \cap DOMAIN q
  BY <1>0
<1>7. ASSUME NEW r PROVE r \in RunsIn(p) <=> r \in {q[k].run : k \in K \cap DOMAIN q}
  <2>1. ASSUME NEW i \in 1..Len(p), r = q[h[i]].run
        PROVE  \E k \in K \cap DOMAIN q : r = q[k].run
    BY <1>6, <2>1
  <2>2. ASSUME NEW k \in K \cap DOMAIN q, r = q[k].run
        PROVE  \E i \in 1..Len(p) : r = q[h[i]].run
    <3>1. PICK i \in 1..Len(p) : h[i] = k
      BY <1>0, <1>2
    <3>2. QED BY <2>2, <3>1
  <2>3. QED BY <1>5, <2>1, <2>2
<1>8. QED BY <1>1, <1>5, <1>7 DEF p

(* A drain takes an element out of the middle.                             *)
LEMMA QueueWithout ==
    ASSUME NEW q \in Seq(QueuedDelivery), NoneTwice(q), NEW k \in DOMAIN q
    PROVE  LET p == SubSeq(q, 1, k - 1) \o SubSeq(q, k + 1, Len(q))
           IN  /\ p \in Seq(QueuedDelivery) /\ NoneTwice(p)
               /\ RunsIn(p) = RunsIn(q) \ {q[k].run}
<1> DEFINE a == SubSeq(q, 1, k - 1)
           b == SubSeq(q, k + 1, Len(q))
           p == a \o b
           L == Len(q)
<1>1. L \in Nat /\ k \in 1..L /\ DOMAIN q = 1..L
  OBVIOUS
<1>2. /\ a \in Seq(QueuedDelivery) /\ b \in Seq(QueuedDelivery)
      /\ Len(a) = k - 1 /\ Len(b) = L - k
      /\ \A i \in 1..(k - 1) : a[i] = q[i]
      /\ \A i \in 1..(L - k) : b[i] = q[i + k]
  <2>1. \A i \in 1..L : q[i] \in QueuedDelivery
    OBVIOUS
  <2>2. a \in Seq(QueuedDelivery) /\ Len(a) = k - 1 /\ \A i \in 1..(k - 1) : a[i] = q[i]
    BY <1>1, <2>1, SubSeqProperties
  <2>3. Len(b) = L - k /\ b \in Seq(QueuedDelivery)
    BY <1>1, <2>1, SubSeqProperties
  <2>4. \A i \in 1..(L - k) : b[i] = q[i + k]
    <3> SUFFICES ASSUME NEW i \in 1..(L - k) PROVE b[i] = q[i + k]
      OBVIOUS
    <3>1. i \in 1..Len(b) /\ (k + 1) + i - 1 = i + k
      BY <1>1, <2>3
    <3>2. b[i] = q[(k + 1) + i - 1]
      BY <1>1, <2>3, <3>1, SubSeqProperties
    <3>3. QED BY <3>1, <3>2
  <2>5. QED BY <2>2, <2>3, <2>4
<1> HIDE DEF a, b, L
<1>3. /\ p \in Seq(QueuedDelivery) /\ Len(p) = L - 1
      /\ \A i \in 1..(L - 1) : p[i] = IF i < k THEN q[i] ELSE q[i + 1]
  <2>1. p \in Seq(QueuedDelivery) /\ Len(p) = L - 1
    <3>1. p \in Seq(QueuedDelivery) /\ Len(p) = Len(a) + Len(b)
      BY <1>2, ConcatProperties
    <3>2. QED BY <3>1, <1>1, <1>2
  <2>2. ASSUME NEW i \in 1..(L - 1) PROVE p[i] = IF i < k THEN q[i] ELSE q[i + 1]
    <3>1. CASE i < k
      <4>1. i \in 1..(k - 1)
        BY <1>1, <3>1
      <4>2. p[i] = a[i]
        BY <1>2, <4>1
      <4>3. QED BY <1>2, <3>1, <4>1, <4>2
    <3>2. CASE ~(i < k)
      <4>1. i - (k - 1) \in 1..(L - k) /\ (i - (k - 1)) + k = i + 1
        BY <1>1, <3>2
      <4>2. p[i] = b[i - (k - 1)]
        BY <1>1, <1>2, <3>2
      <4>3. QED BY <1>2, <3>2, <4>1, <4>2
    <3>3. QED BY <3>1, <3>2
  <2>3. QED BY <2>1, <2>2
<1> HIDE DEF p
<1> DEFINE h == [i \in 1..Len(p) |-> IF i < k THEN i ELSE i + 1]
<1>4. /\ h \in [1..Len(p) -> 1..L]
      /\ \A i, j \in 1..Len(p) : h[i] = h[j] => i = j
      /\ \A i \in 1..Len(p) : p[i].run = q[h[i]].run /\ h[i] # k
      /\ \A j \in 1..L : j # k => \E i \in 1..Len(p) : h[i] = j
  <2>1. h \in [1..Len(p) -> 1..L]
    BY <1>1, <1>3
  <2>2. \A i, j \in 1..Len(p) : h[i] = h[j] => i = j
    BY <1>1, <1>3
  <2>3. \A i \in 1..Len(p) : p[i].run = q[h[i]].run /\ h[i] # k
    BY <1>1, <1>3
  <2>4. ASSUME NEW j \in 1..L, j # k PROVE \E i \in 1..Len(p) : h[i] = j
    <3>1. CASE j < k
      <4>1. j \in 1..Len(p)
        BY <1>1, <1>3, <3>1
      <4>2. QED BY <3>1, <4>1
    <3>2. CASE ~(j < k)
      <4>1. j - 1 \in 1..Len(p) /\ ~(j - 1 < k) /\ (j - 1) + 1 = j
        BY <1>1, <1>3, <2>4, <3>2
      <4>2. QED BY <4>1
    <3>3. QED BY <3>1, <3>2
  <2>5. QED BY <2>1, <2>2, <2>3, <2>4
<1> HIDE DEF h
<1>5. NoneTwice(p) /\ \A r : r \in RunsIn(p) <=> \E i \in 1..Len(p) : r = q[h[i]].run
  <2>1. h \in [1..Len(p) -> 1..Len(q)]
    BY <1>4 DEF L
  <2>2. p \in Seq(QueuedDelivery)
    BY <1>3
  <2>3. QED BY <1>4, <2>1, <2>2, PartOfQueue, ZenonT(60)
<1>6. ASSUME NEW r PROVE r \in RunsIn(p) <=> r \in RunsIn(q) \ {q[k].run}
  <2>1. r \in RunsIn(q) <=> \E j \in 1..L : r = q[j].run
    BY <1>1 DEF RunsIn
  <2>2. \A j \in 1..L : q[j].run = q[k].run => j = k
    BY <1>1 DEF NoneTwice
  <2>3. \A i \in 1..Len(p) : h[i] \in 1..L
    BY <1>4
  <2>4. QED BY <1>4, <1>5, <2>1, <2>2, <2>3
<1>7. QED BY <1>3, <1>5, <1>6 DEF p, a, b, L

LEMMA QueueDue ==
    ASSUME NEW q \in Seq(QueuedDelivery), NoneTwice(q), NEW k \in DOMAIN q
    PROVE  LET p == [q EXCEPT ![k].due = TRUE]
           IN  p \in Seq(QueuedDelivery) /\ NoneTwice(p) /\ RunsIn(p) = RunsIn(q)
<1> DEFINE p == [q EXCEPT ![k].due = TRUE]
<1>1. DOMAIN q = 1..Len(q) /\ q[k] \in QueuedDelivery
  OBVIOUS
<1>2. [q[k] EXCEPT !.due = TRUE] \in QueuedDelivery /\ [q[k] EXCEPT !.due = TRUE].run = q[k].run
  BY <1>1 DEF QueuedDelivery
<1>3. p \in Seq(QueuedDelivery)
  BY <1>2, ExceptSeq
<1>4. DOMAIN p = DOMAIN q /\ \A j \in DOMAIN q : p[j].run = q[j].run
  BY <1>1, <1>2
<1> HIDE DEF p
<1>5. NoneTwice(p) /\ RunsIn(p) = RunsIn(q)
  <2>1. NoneTwice(p)
    BY <1>4 DEF NoneTwice
  <2>2. \A r : r \in RunsIn(p) <=> r \in RunsIn(q)
    BY <1>4 DEF RunsIn
  <2>3. QED BY <2>1, <2>2
<1>6. QED BY <1>3, <1>5 DEF p

-----------------------------------------------------------------------------
(* The manager and its callers: the inductive invariant *)

(* Ranks are given in order; the map of jobs has the latest run of each id.*)
RecordsOK ==
    /\ \A r \in Registered :
           /\ idOf[r] \in Ids
           /\ \A q \in Runs : q < r => status[q] # "none"
    /\ \A i \in Ids : jobs[i] # NoRun =>
           /\ jobs[i] \in Registered /\ idOf[jobs[i]] = i
           /\ \A q \in Registered : idOf[q] = i => q <= jobs[i]
    /\ foreground \cup reported \subseteq Registered
    /\ \A p \in Polls : polls[p].tracked \subseteq Registered

HandedRuns == {handed[k] : k \in DOMAIN handed}

(* A result is in one place: queued once, in flight, or handed over once;  *)
(* and it is there only if its job ended without being cancelled.          *)
OneCopy ==
    /\ NoneTwice(deliveries) /\ HandedOnce
    /\ QueuedRuns \cap inFlight = {}
    /\ HandedRuns \cap (QueuedRuns \cup inFlight) = {}
    /\ \A r \in QueuedRuns \cup inFlight \cup HandedRuns : status[r] = "completed"

(* Who takes an id from a run that is over is not confused with it: that   *)
(* run is never cancelled, waited for or tracked again.                    *)
EarlierIsOver ==
    \A q, r \in Registered :
        q < r /\ idOf[q] = idOf[r] /\ r \notin overlapping => IsOver(q)

(* An id that is suppressed has been answered with, and who watches an id  *)
(* tracks its run.                                                         *)
SuppressedIsReported ==
    \A r \in Registered :
        ~IdShared(r) /\ idOf[r] \in suppressed => r \in reported
WatcherTracks ==
    \A r \in Registered, p \in Polls :
        ~IdShared(r) /\ idOf[r] \in polls[p].watching => r \in polls[p].tracked
WatchesTracked ==
    \A p \in Polls : \A i \in polls[p].watching : \E q \in polls[p].tracked : idOf[q] = i
WatchedByAPoll == \A i \in watched : \E p \in Polls : i \in polls[p].watching

ReportedIsSuppressed ==
    \A r \in reported : jobs[idOf[r]] = r => idOf[r] \in suppressed

CallersOK ==
    /\ EarlierIsOver /\ SuppressedIsReported /\ ReportedIsSuppressed
    /\ WatcherTracks /\ WatchesTracked /\ WatchedByAPoll

JobsInv == TypeOK /\ RecordsOK /\ OneCopy /\ CallersOK /\ ResultKept

LEMMA RunsFacts ==
    /\ Runs \subseteq Nat /\ Ids \subseteq Nat
    /\ NoRun \notin Runs /\ NoRun \notin Ids /\ Ids = Runs
  BY RunsAssumption, FailuresAssumption DEF Runs, Ids, NoRun

LEMMA JobsInit == Init => JobsInv
<1> SUFFICES ASSUME Init PROVE JobsInv
  OBVIOUS
<1>1. Registered = {} /\ QueuedRuns = {} /\ HandedRuns = {}
  BY DEF Init, Registered, QueuedRuns, HandedRuns
<1>2. TypeOK
  BY <1>1, RunsFacts, RunsAssumption, FailuresAssumption
  DEF Init, TypeOK, NotPolling, Statuses, NoRun
<1>3. RecordsOK
  BY <1>1 DEF RecordsOK, Init, NotPolling
<1>4. OneCopy
  BY <1>1 DEF OneCopy, Init, NoneTwice, HandedOnce
<1>5. CallersOK
  BY <1>1 DEF CallersOK, EarlierIsOver, SuppressedIsReported, WatcherTracks, WatchesTracked,
              WatchedByAPoll, ReportedIsSuppressed, Init, NotPolling
<1>6. ResultKept
  BY DEF ResultKept, Init
<1>7. QED BY <1>2, <1>3, <1>4, <1>5, <1>6 DEF JobsInv

-----------------------------------------------------------------------------
(* Deliveries *)

LEMMA QueueOfRuns == QueuedRuns = RunsIn(deliveries)
  BY DEF QueuedRuns, RunsIn

(* A run whose id is suppressed or watched is not forgotten.               *)
LEMMA SuppressedIsKept ==
    ASSUME JobsInv, NEW r \in Registered, ~IdShared(r), IsSuppressed(idOf[r])
    PROVE  r \in reported \/ \E p \in Polls : r \in polls[p].tracked
<1>1. CASE idOf[r] \in suppressed
  BY <1>1 DEF JobsInv, CallersOK, SuppressedIsReported
<1>2. CASE idOf[r] \in watched
  <2>1. PICK p \in Polls : idOf[r] \in polls[p].watching
    BY <1>2 DEF JobsInv, CallersOK, WatchedByAPoll
  <2>2. QED BY <2>1 DEF JobsInv, CallersOK, WatcherTracks
<1>3. QED BY <1>1, <1>2 DEF IsSuppressed

(* Steps after which no run is new, has another id, or is waited for anew. *)
LEMMA CallersFrame ==
    ASSUME JobsInv, Registered' = Registered,
           UNCHANGED <<idOf, overlapping, jobs, suppressed, watched, polls, reported>>,
           settled \subseteq settled', foreground' \subseteq foreground
    PROVE  RecordsOK' /\ CallersOK'
<1>0. \A r : IdShared(r)' <=> IdShared(r)
  BY DEF IdShared
<1>1. RecordsOK'
  <2>1. \A q \in Runs : status'[q] # "none" <=> status[q] # "none"
    BY DEF Registered
  <2>2. QED BY <2>1 DEF JobsInv, RecordsOK
<1>2. EarlierIsOver' /\ WatchesTracked' /\ WatchedByAPoll' /\ ReportedIsSuppressed'
  BY DEF JobsInv, CallersOK, EarlierIsOver, IsOver, WatchesTracked, WatchedByAPoll,
         ReportedIsSuppressed
<1>3. SuppressedIsReported' /\ WatcherTracks'
  BY <1>0 DEF JobsInv, CallersOK, SuppressedIsReported, WatcherTracks
<1>4. QED BY <1>1, <1>2, <1>3 DEF CallersOK

(* What a step of the delivery queue has to show: the types, one copy of   *)
(* each result, and that none is forgotten.                                *)
LEMMA DeliveryStep ==
    ASSUME JobsInv,
           UNCHANGED <<status, settled, idOf, overlapping, jobs, suppressed, watched, timers,
                       disposal, awaited, polls, foreground, reported>>,
           deliveries' \in Seq(QueuedDelivery), inFlight' \subseteq Runs,
           loopDelivery' \in inFlight' \cup {NoRun},
           failures' \in 0..MaxFailures, handed' \in Seq(Runs),
           NoneTwice(deliveries'), HandedOnce',
           QueuedRuns' \cap inFlight' = {},
           HandedRuns' \cap (QueuedRuns' \cup inFlight') = {},
           QueuedRuns' \cup inFlight' \cup HandedRuns'
               \subseteq QueuedRuns \cup inFlight \cup HandedRuns,
           \A r \in QueuedRuns \cup inFlight \cup HandedRuns :
               \/ r \in QueuedRuns' \cup inFlight' \cup HandedRuns'
               \/ IsSuppressed(idOf[r])
    PROVE  JobsInv'
<1>1. RecordsOK' /\ CallersOK'
  <2>1. Registered' = Registered
    BY DEF Registered
  <2>2. QED BY <2>1, CallersFrame
<1>2. TypeOK'
  BY DEF JobsInv, TypeOK, QueuedDelivery, Registered
<1>3. OneCopy'
  BY DEF JobsInv, OneCopy, NoneTwice
<1>4. ResultKept'
  <2> SUFFICES ASSUME NEW r \in Runs, status[r] = "completed", disposal # "done",
                      ~IdShared(r)'
               PROVE  \/ r \in QueuedRuns' \cup inFlight' \cup reported
                      \/ r \in HandedRuns'
                      \/ \E p \in Polls : r \in polls[p].tracked
    BY DEF ResultKept, WasHanded, HandedRuns
  <2>1. ~IdShared(r)
    BY DEF IdShared, Registered
  <2>2. r \in Registered
    BY DEF Registered
  <2>3. \/ r \in QueuedRuns \cup inFlight \cup HandedRuns
        \/ r \in reported \/ \E p \in Polls : r \in polls[p].tracked
    BY <2>1 DEF JobsInv, ResultKept, WasHanded, HandedRuns
  <2>4. QED BY <2>1, <2>2, <2>3, SuppressedIsKept
<1>5. QED BY <1>1, <1>2, <1>3, <1>4 DEF JobsInv

LEMMA QueueTypes ==
    ASSUME JobsInv
    PROVE  /\ deliveries \in Seq(QueuedDelivery) /\ NoneTwice(deliveries)
           /\ inFlight \subseteq Runs /\ loopDelivery \in inFlight \cup {NoRun}
           /\ QueuedRuns = RunsIn(deliveries)
           /\ handed \in Seq(Runs) /\ HandedOnce
           /\ QueuedRuns \cap inFlight = {}
           /\ HandedRuns \cap (QueuedRuns \cup inFlight) = {}
           /\ failures \in 0..MaxFailures
  BY QueueOfRuns DEF JobsInv, TypeOK, OneCopy, QueuedDelivery

LEMMA PlacesAreRuns ==
    ASSUME JobsInv
    PROVE  QueuedRuns \cup inFlight \cup HandedRuns \subseteq Runs
<1>1. \A k \in DOMAIN handed : handed[k] \in Runs
  BY QueueTypes
<1>2. \A k \in DOMAIN deliveries : deliveries[k] \in QueuedDelivery
  BY QueueTypes
<1>3. QueuedRuns \subseteq Runs
  BY <1>2 DEF QueuedRuns, QueuedDelivery
<1>4. QED BY <1>1, <1>3, QueueTypes DEF HandedRuns

LEMMA DropHeadKeeps ==
    ASSUME JobsInv, DropHead
    PROVE  JobsInv'
<1>1. /\ deliveries # <<>> /\ IsSuppressed(idOf[Head(deliveries).run])
      /\ deliveries' = Tail(deliveries)
      /\ UNCHANGED <<inFlight, loopDelivery, failures, handed>>
  BY DEF DropHead
<1>2. /\ deliveries' \in Seq(QueuedDelivery) /\ NoneTwice(deliveries')
      /\ RunsIn(deliveries') = QueuedRuns \ {Head(deliveries).run}
  BY <1>1, QueueTypes, QueueWithoutHead
<1>3. QueuedRuns' = QueuedRuns \ {Head(deliveries).run} /\ HandedRuns' = HandedRuns
  BY <1>1, <1>2 DEF QueuedRuns, RunsIn, HandedRuns
<1>4. HandedOnce'
  BY <1>1, QueueTypes DEF HandedOnce
<1>5. QED
  BY <1>1, <1>2, <1>3, <1>4, QueueTypes, DeliveryStep DEF DropHead, runVars, disposalVars, callerVars

LEMMA DeliverHeadKeeps ==
    ASSUME JobsInv, DeliverHead
    PROVE  JobsInv'
<1> DEFINE r == Head(deliveries).run
<1>1. /\ deliveries # <<>> /\ deliveries' = Tail(deliveries)
      /\ inFlight' = inFlight \cup {r} /\ loopDelivery' = r
      /\ UNCHANGED <<failures, handed>>
  BY DEF DeliverHead
<1>2. /\ deliveries' \in Seq(QueuedDelivery) /\ NoneTwice(deliveries')
      /\ RunsIn(deliveries') = QueuedRuns \ {r} /\ r \in QueuedRuns /\ r \in Runs
  BY <1>1, QueueTypes, QueueWithoutHead DEF QueuedDelivery
<1>3. QueuedRuns' = QueuedRuns \ {r} /\ HandedRuns' = HandedRuns
  BY <1>1, <1>2 DEF QueuedRuns, RunsIn, HandedRuns
<1>4. HandedOnce'
  BY <1>1, QueueTypes DEF HandedOnce
<1> HIDE DEF r
<1>5. QED
  BY <1>1, <1>2, <1>3, <1>4, QueueTypes, DeliveryStep DEF DeliverHead, runVars, disposalVars, callerVars

LEMMA DeliverDrainedKeeps ==
    ASSUME JobsInv, NEW k \in DOMAIN deliveries, DeliverDrained(k)
    PROVE  JobsInv'
<1> DEFINE r == deliveries[k].run
<1>1. /\ deliveries' = SubSeq(deliveries, 1, k - 1)
                           \o SubSeq(deliveries, k + 1, Len(deliveries))
      /\ inFlight' = inFlight \cup {r}
      /\ UNCHANGED <<loopDelivery, failures, handed>>
  BY DEF DeliverDrained
<1>2. /\ deliveries' \in Seq(QueuedDelivery) /\ NoneTwice(deliveries')
      /\ RunsIn(deliveries') = QueuedRuns \ {r}
  BY <1>1, QueueTypes, QueueWithout
<1>3. QueuedRuns' = QueuedRuns \ {r} /\ HandedRuns' = HandedRuns
  BY <1>1, <1>2 DEF QueuedRuns, RunsIn, HandedRuns
<1>4. r \in QueuedRuns /\ r \in Runs
  <2>1. deliveries \in Seq(QueuedDelivery) /\ deliveries[k] \in QueuedDelivery
    BY QueueTypes
  <2>2. QED BY <2>1 DEF QueuedRuns, QueuedDelivery
<1>5. HandedOnce'
  BY <1>1, QueueTypes DEF HandedOnce
<1> HIDE DEF r
<1>6. QED
  BY <1>1, <1>2, <1>3, <1>4, <1>5, QueueTypes, DeliveryStep DEF DeliverDrained, runVars, disposalVars, callerVars

LEMMA BackoffOverKeeps ==
    ASSUME JobsInv, NEW k \in DOMAIN deliveries, BackoffOver(k)
    PROVE  JobsInv'
<1>1. /\ deliveries' = [deliveries EXCEPT ![k].due = TRUE]
      /\ UNCHANGED <<inFlight, loopDelivery, failures, handed>>
  BY DEF BackoffOver
<1>2. /\ deliveries' \in Seq(QueuedDelivery) /\ NoneTwice(deliveries')
      /\ RunsIn(deliveries') = QueuedRuns
  BY <1>1, QueueTypes, QueueDue
<1>3. QueuedRuns' = QueuedRuns /\ HandedRuns' = HandedRuns
  BY <1>1, <1>2 DEF QueuedRuns, RunsIn, HandedRuns
<1>4. HandedOnce'
  BY <1>1, QueueTypes DEF HandedOnce
<1>5. QED
  BY <1>1, <1>2, <1>3, <1>4, QueueTypes, DeliveryStep DEF BackoffOver, runVars, disposalVars, callerVars

LEMMA HandedAnother ==
    ASSUME JobsInv, NEW r \in Runs, r \notin HandedRuns, handed' = Append(handed, r)
    PROVE  handed' \in Seq(Runs) /\ HandedOnce' /\ HandedRuns' = HandedRuns \cup {r}
<1> DEFINE L == Len(handed)
<1>1. /\ L \in Nat /\ DOMAIN handed = 1..L /\ handed' \in Seq(Runs)
      /\ DOMAIN handed' = 1..(L + 1) /\ handed'[L + 1] = r
      /\ \A k \in 1..L : handed'[k] = handed[k]
  BY QueueTypes, AppendProperties
<1> HIDE DEF L
<1>2. \A k : k \in 1..(L + 1) <=> k \in 1..L \/ k = L + 1
  BY <1>1
<1>3. \A k \in 1..L : handed[k] # r
  BY <1>1 DEF HandedRuns
<1>4. \A j, k \in 1..L : handed[j] = handed[k] => j = k
  BY <1>1, QueueTypes DEF HandedOnce
<1>5. HandedOnce'
  <2> SUFFICES ASSUME NEW j \in 1..(L + 1), NEW k \in 1..(L + 1), handed'[j] = handed'[k]
               PROVE  j = k
    BY <1>1 DEF HandedOnce
  <2>1. CASE j \in 1..L /\ k \in 1..L
    BY <2>1, <1>1, <1>4
  <2>2. CASE j = L + 1 \/ k = L + 1
    BY <2>2, <1>1, <1>2, <1>3
  <2>3. QED BY <2>1, <2>2, <1>2
<1>6. HandedRuns' = HandedRuns \cup {r}
  BY <1>1, <1>2, Zenon DEF HandedRuns
<1>7. QED BY <1>1, <1>5, <1>6

LEMMA FinishDeliveryKeeps ==
    ASSUME JobsInv, NEW r \in Runs, FinishDelivery(r)
    PROVE  JobsInv'
<1>1. /\ r \in inFlight /\ inFlight' = inFlight \ {r}
      /\ loopDelivery' = IF loopDelivery = r THEN NoRun ELSE loopDelivery
      /\ UNCHANGED <<deliveries, failures>>
      /\ UNCHANGED <<status, settled, idOf, overlapping, jobs, suppressed, watched, timers,
                     disposal, awaited, polls, foreground, reported>>
  BY DEF FinishDelivery, EndDelivery, runVars, disposalVars, callerVars
<1>2. QueuedRuns' = QueuedRuns /\ NoneTwice(deliveries')
  BY <1>1, QueueTypes DEF QueuedRuns
<1>3. loopDelivery' \in inFlight' \cup {NoRun} /\ deliveries' \in Seq(QueuedDelivery)
  BY <1>1, QueueTypes
<1>4. CASE IsSuppressed(idOf[r])
  <2>1. handed' = handed
    BY <1>4 DEF FinishDelivery
  <2>2. HandedRuns' = HandedRuns /\ HandedOnce'
    BY <2>1, QueueTypes DEF HandedRuns, HandedOnce
  <2>3. QED BY <1>1, <1>2, <1>3, <1>4, <2>1, <2>2, QueueTypes, DeliveryStep
<1>5. CASE ~IsSuppressed(idOf[r])
  <2>1. handed' = Append(handed, r)
    BY <1>5 DEF FinishDelivery
  <2>2. r \notin HandedRuns /\ r \notin QueuedRuns
    BY <1>1, QueueTypes
  <2>3. handed' \in Seq(Runs) /\ HandedOnce' /\ HandedRuns' = HandedRuns \cup {r}
    BY <2>1, <2>2, HandedAnother
  <2>4. QED BY <1>1, <1>2, <1>3, <2>2, <2>3, QueueTypes, DeliveryStep
<1>6. QED BY <1>4, <1>5

LEMMA FailDeliveryKeeps ==
    ASSUME JobsInv, NEW r \in Runs, FailDelivery(r)
    PROVE  JobsInv'
<1>1. /\ r \in inFlight /\ inFlight' = inFlight \ {r}
      /\ loopDelivery' = IF loopDelivery = r THEN NoRun ELSE loopDelivery
      /\ failures < MaxFailures /\ failures' = failures + 1 /\ handed' = handed
      /\ UNCHANGED <<status, settled, idOf, overlapping, jobs, suppressed, watched, timers,
                     disposal, awaited, polls, foreground, reported>>
  BY DEF FailDelivery, EndDelivery, runVars, disposalVars, callerVars
<1>2. HandedRuns' = HandedRuns /\ HandedOnce' /\ handed' \in Seq(Runs)
  BY <1>1, QueueTypes DEF HandedRuns, HandedOnce
<1>3. loopDelivery' \in inFlight' \cup {NoRun} /\ failures' \in 0..MaxFailures
  BY <1>1, QueueTypes, RunsAssumption, FailuresAssumption
<1>4. CASE IsSuppressed(idOf[r])
  <2>1. deliveries' = deliveries
    BY <1>4 DEF FailDelivery
  <2>2. QueuedRuns' = QueuedRuns /\ NoneTwice(deliveries')
    BY <2>1, QueueTypes DEF QueuedRuns
  <2>3. QED BY <1>1, <1>2, <1>3, <1>4, <2>1, <2>2, QueueTypes, DeliveryStep
<1>5. CASE ~IsSuppressed(idOf[r])
  <2> DEFINE d == [run |-> r, due |-> FALSE]
  <2>1. deliveries' = Append(deliveries, d) /\ d \in QueuedDelivery /\ d.run = r
    BY <1>5 DEF FailDelivery, QueuedDelivery
  <2>2. r \notin HandedRuns /\ r \notin QueuedRuns
    BY <1>1, QueueTypes
  <2> HIDE DEF d
  <2>3. /\ deliveries' \in Seq(QueuedDelivery) /\ NoneTwice(deliveries')
        /\ RunsIn(deliveries') = QueuedRuns \cup {r}
    BY <2>1, <2>2, QueueTypes, QueueWithAnother
  <2>4. QueuedRuns' = QueuedRuns \cup {r}
    BY <2>3 DEF QueuedRuns, RunsIn
  <2>5. QED BY <1>1, <1>2, <1>3, <2>2, <2>3, <2>4, QueueTypes, DeliveryStep
<1>6. QED BY <1>4, <1>5

-----------------------------------------------------------------------------
(* Ends and cancellations of jobs *)

(* Cancelling runs leaves the ones that have completed as they are.        *)
LEMMA CancelRunsFacts ==
    ASSUME JobsInv, NEW S, S \subseteq RunningJobs, CancelRuns(S)
    PROVE  /\ status' \in [Runs -> Statuses] /\ Registered' = Registered
           /\ \A r \in Runs : status'[r] = "completed" <=> status[r] = "completed"
           /\ timers' \subseteq timers \cup Ids
<1>1. \A r \in S : r \in Runs /\ status[r] = "running" /\ idOf[r] \in Ids
  BY DEF RunningJobs, Known, JobsInv, TypeOK, RecordsOK, Registered
<1>2. status \in [Runs -> Statuses]
  BY DEF JobsInv, TypeOK
<1>3. status' \in [Runs -> Statuses]
  BY <1>2 DEF CancelRuns, Statuses
<1>4. \A r \in Runs :
          /\ status'[r] = "completed" <=> status[r] = "completed"
          /\ status'[r] = "none" <=> status[r] = "none"
  BY <1>1 DEF CancelRuns
<1>5. Registered' = Registered
  BY <1>4 DEF Registered
<1>6. timers' \subseteq timers \cup Ids
  BY <1>1 DEF CancelRuns
<1>7. QED BY <1>3, <1>4, <1>5, <1>6

(* Steps that leave the deliveries alone, and complete nothing.            *)
LEMMA StatusStep ==
    ASSUME JobsInv, RecordsOK', CallersOK', TypeOK',
           Registered' = Registered,
           \A r \in Runs : status'[r] = "completed" <=> status[r] = "completed",
           UNCHANGED <<idOf, overlapping, deliveries, inFlight, handed, polls, reported>>,
           disposal' # "done" => disposal # "done"
    PROVE  JobsInv'
<1>0. QueuedRuns \cup inFlight \cup HandedRuns \subseteq Runs
  BY PlacesAreRuns
<1>1. QueuedRuns' = QueuedRuns /\ HandedRuns' = HandedRuns
  BY DEF QueuedRuns, HandedRuns
<1>2. OneCopy'
  BY <1>0, <1>1 DEF JobsInv, OneCopy, NoneTwice, HandedOnce
<1>3. \A r : IdShared(r)' <=> IdShared(r)
  BY DEF IdShared
<1>4. ResultKept'
  BY <1>1, <1>3 DEF JobsInv, ResultKept, WasHanded
<1>5. QED BY <1>2, <1>4 DEF JobsInv

LEMMA CancelAllKeeps ==
    ASSUME JobsInv, CancelAll
    PROVE  JobsInv'
<1>1. /\ CancelRuns(RunningJobs)
      /\ UNCHANGED <<settled, idOf, overlapping, jobs, deliveries, inFlight, loopDelivery,
                     failures, handed, suppressed, watched, disposal, awaited, polls,
                     foreground, reported>>
  BY DEF CancelAll, queueVars, disposalVars, callerVars
<1>2. /\ status' \in [Runs -> Statuses] /\ Registered' = Registered
      /\ \A r \in Runs : status'[r] = "completed" <=> status[r] = "completed"
      /\ timers' \subseteq timers \cup Ids
  BY <1>1, CancelRunsFacts
<1>3. RecordsOK' /\ CallersOK'
  BY <1>1, <1>2, CallersFrame
<1>4. TypeOK'
  BY <1>1, <1>2 DEF JobsInv, TypeOK
<1>5. QED BY <1>1, <1>2, <1>3, <1>4, StatusStep

LEMMA DisposeKeeps ==
    ASSUME JobsInv, Dispose
    PROVE  JobsInv'
<1>1. /\ disposal = "none" /\ disposal' = "waiting" /\ awaited' = Known
      /\ status' = [r \in Runs |-> IF r \in RunningJobs THEN "cancelled" ELSE status[r]]
      /\ timers' = {idOf[r] : r \in RunningJobs}
      /\ UNCHANGED <<settled, idOf, overlapping, jobs, deliveries, inFlight, loopDelivery,
                     failures, handed, suppressed, watched, polls, foreground, reported>>
  BY DEF Dispose, queueVars, callerVars
<1>2. \A r \in RunningJobs : r \in Runs /\ status[r] = "running" /\ idOf[r] \in Ids
  BY DEF RunningJobs, Known, JobsInv, TypeOK, RecordsOK, Registered
<1>3. /\ status' \in [Runs -> Statuses] /\ Registered' = Registered
      /\ \A r \in Runs : status'[r] = "completed" <=> status[r] = "completed"
  BY <1>1, <1>2 DEF JobsInv, TypeOK, Statuses, Registered
<1>4. RecordsOK' /\ CallersOK'
  BY <1>1, <1>3, CallersFrame
<1>5. Known \subseteq Runs
  BY DEF Known, JobsInv, TypeOK
<1>6. TypeOK'
  BY <1>1, <1>2, <1>3, <1>5 DEF JobsInv, TypeOK
<1>7. QED BY <1>1, <1>3, <1>4, <1>6, StatusStep

LEMMA BackgroundKeeps ==
    ASSUME JobsInv, NEW r \in Runs, Background(r)
    PROVE  JobsInv'
<1>1. /\ foreground' = foreground \ {r}
      /\ UNCHANGED <<status, settled, idOf, overlapping, jobs, deliveries, inFlight, loopDelivery,
                     failures, handed, suppressed, watched, timers, disposal, awaited, polls,
                     reported>>
  BY DEF Background, runVars, queueVars, disposalVars
<1>2. Registered' = Registered
  BY <1>1 DEF Registered
<1>3. RecordsOK' /\ CallersOK'
  BY <1>1, <1>2, CallersFrame
<1>4. TypeOK'
  BY <1>1, <1>2 DEF JobsInv, TypeOK
<1>5. QED BY <1>1, <1>2, <1>3, <1>4, StatusStep

LEMMA SettleKeeps ==
    ASSUME JobsInv, NEW r \in Runs, Settle(r)
    PROVE  JobsInv'
<1>1. /\ status[r] \in {"running", "cancelled"} /\ settled' = settled \cup {r}
      /\ timers' = timers \cup {idOf[r]}
      /\ UNCHANGED <<idOf, overlapping, jobs, inFlight, loopDelivery, failures, handed,
                     suppressed, watched, disposal, awaited, polls, foreground, reported>>
  BY DEF Settle, disposalVars, callerVars
<1>2. r \in Registered /\ idOf[r] \in Ids
  BY <1>1 DEF Registered, JobsInv, RecordsOK
<1>3. /\ status' \in [Runs -> Statuses] /\ Registered' = Registered
      /\ \A q \in Runs \ {r} : status'[q] = status[q]
  BY <1>1 DEF JobsInv, TypeOK, Statuses, Registered, Settle
<1>4. RecordsOK' /\ CallersOK'
  BY <1>1, <1>3, CallersFrame
<1>5. \A q : IdShared(q)' <=> IdShared(q)
  BY <1>1, <1>3 DEF IdShared
<1>6. CASE status[r] = "cancelled"
  <2>1. UNCHANGED <<status, deliveries>>
    BY <1>6 DEF Settle
  <2>2. TypeOK'
    BY <1>1, <1>2, <1>3, <2>1 DEF JobsInv, TypeOK
  <2>3. QED BY <1>1, <1>3, <1>4, <2>1, <2>2, StatusStep
<1>7. CASE status[r] # "cancelled"
  <2>0. status'[r] = "completed"
    BY <1>7 DEF Settle, JobsInv, TypeOK
  <2>1. r \notin QueuedRuns \cup inFlight \cup HandedRuns
    BY <1>1 DEF JobsInv, OneCopy
  <2>2. HandedRuns' = HandedRuns /\ HandedOnce'
    BY <1>1, QueueTypes DEF HandedRuns, HandedOnce
  <2>3. /\ deliveries' \in Seq(QueuedDelivery) /\ NoneTwice(deliveries')
        /\ QueuedRuns' = IF IsSuppressed(idOf[r]) THEN QueuedRuns
                              ELSE QueuedRuns \cup {r}
    <3>1. CASE IsSuppressed(idOf[r])
      <4>1. deliveries' = deliveries
        BY <1>7, <3>1 DEF Settle
      <4>2. QED BY <4>1, <3>1, QueueTypes DEF QueuedRuns
    <3>2. CASE ~IsSuppressed(idOf[r])
      <4> DEFINE d == [run |-> r, due |-> TRUE]
      <4>1. deliveries' = Append(deliveries, d) /\ d \in QueuedDelivery /\ d.run = r
        BY <1>7, <3>2 DEF Settle, QueuedDelivery
      <4> HIDE DEF d
      <4>2. /\ deliveries' \in Seq(QueuedDelivery) /\ NoneTwice(deliveries')
            /\ RunsIn(deliveries') = QueuedRuns \cup {r}
        BY <2>1, <4>1, QueueTypes, QueueWithAnother
      <4>3. QED BY <3>2, <4>2 DEF QueuedRuns, RunsIn
    <3>3. QED BY <3>1, <3>2
  <2>4. TypeOK'
    BY <1>1, <1>2, <1>3, <2>3 DEF JobsInv, TypeOK, QueuedDelivery
  <2>5. OneCopy'
    <3>1. QueuedRuns \cup inFlight \cup HandedRuns \subseteq Runs
      BY PlacesAreRuns
    <3>2. \A q \in QueuedRuns \cup inFlight \cup HandedRuns : status'[q] = "completed"
      BY <1>3, <2>1, <3>1 DEF JobsInv, OneCopy
    <3>3. QED BY <1>1, <2>0, <2>1, <2>2, <2>3, <3>2, QueueTypes DEF OneCopy
  <2>6. ResultKept'
    <3> SUFFICES ASSUME NEW q \in Runs, status'[q] = "completed", disposal # "done",
                        ~IdShared(q)
                 PROVE  \/ q \in QueuedRuns' \cup inFlight \cup reported
                        \/ q \in HandedRuns
                        \/ \E p \in Polls : q \in polls[p].tracked
      BY <1>1, <1>5, <2>2 DEF ResultKept, WasHanded, HandedRuns
    <3>1. CASE q = r
      BY <1>2, <2>3, <3>1, SuppressedIsKept
    <3>2. CASE q # r
      BY <1>3, <2>3, <3>2 DEF JobsInv, ResultKept, WasHanded, HandedRuns
    <3>3. QED BY <3>1, <3>2
  <2>7. QED BY <1>4, <2>4, <2>5, <2>6 DEF JobsInv
<1>8. QED BY <1>6, <1>7

-----------------------------------------------------------------------------
(* Answers of tools *)

(* Who shares its id with a run that is known or not over is that run, or  *)
(* the id is not its own.                                                  *)
LEMMA OwnId ==
    ASSUME JobsInv, NEW q \in Registered, NEW r \in Registered,
           idOf[q] = idOf[r], q \in Known \/ ~IsOver(q), ~IdShared(r)
    PROVE  q = r
<1>0. q \in Nat /\ r \in Nat
  BY RunsFacts DEF Registered
<1>1. ~(r < q)
  BY <1>0 DEF IdShared
<1>2. ASSUME q < r PROVE FALSE
  <2>1. IsOver(q)
    BY <1>2 DEF IdShared, JobsInv, CallersOK, EarlierIsOver
  <2>2. PICK i \in Ids : jobs[i] = q /\ q # NoRun
    BY <2>1 DEF Known
  <2>3. r <= q
    BY <2>2 DEF JobsInv, RecordsOK
  <2>4. QED BY <1>0, <1>2, <2>3
<1>3. QED BY <1>0, <1>1, <1>2

(* #snapshotJobs finds the run itself, or another one that has its id.     *)
LEMMA LatestFacts ==
    ASSUME JobsInv, NEW r \in Registered
    PROVE  /\ Latest(r) \in Registered /\ idOf[Latest(r)] = idOf[r]
           /\ Latest(r) \in Known \/ Latest(r) = r
           /\ ~IdShared(r) => Latest(r) = r
<1>0. idOf[r] \in Ids
  BY DEF JobsInv, RecordsOK
<1>1. CASE jobs[idOf[r]] = NoRun
  BY <1>1 DEF Latest
<1>2. CASE jobs[idOf[r]] # NoRun
  <2> DEFINE q == jobs[idOf[r]]
  <2>1. Latest(r) = q
    BY <1>2 DEF Latest
  <2>2. q \in Registered /\ idOf[q] = idOf[r]
    BY <1>0, <1>2 DEF JobsInv, RecordsOK
  <2>3. q \in Known
    BY <1>0, <1>2 DEF Known
  <2> HIDE DEF q
  <2>4. QED BY <2>1, <2>2, <2>3, OwnId
<1>3. QED BY <1>1, <1>2

LEMMA AnswerStep ==
    ASSUME JobsInv, NEW E, E \subseteq Registered,
           \A q \in E : q \in Known \/ ~IsOver(q),
           reported' = reported \cup E,
           Acknowledge({idOf[q] : q \in E}),
           status' \in [Runs -> Statuses], Registered' = Registered,
           \A r \in Runs : status'[r] = "completed" <=> status[r] = "completed",
           UNCHANGED <<settled, idOf, overlapping, jobs, inFlight, loopDelivery, failures,
                       handed, disposal, awaited>>,
           timers' \subseteq timers \cup Ids,
           foreground' \subseteq foreground, watched' \subseteq watched,
           polls' \in [Polls -> [tracked : SUBSET Runs, watching : SUBSET Ids]],
           \A p \in Polls :
               \/ polls'[p] = polls[p]
               \/ /\ polls'[p] = NotPolling
                  /\ watched' \cap polls[p].watching = {}
                  /\ \A r \in polls[p].tracked :
                         status[r] = "completed" /\ ~IdShared(r) => r \in E
    PROVE  JobsInv'
<1>0. /\ suppressed' = suppressed \cup {idOf[q] : q \in E}
      /\ deliveries' = Filtered(deliveries, {k \in DOMAIN deliveries :
                           idOf[deliveries[k].run] \notin suppressed' \cup watched'})
  BY Zenon DEF Acknowledge
<1>1. \A r : IdShared(r)' <=> IdShared(r)
  BY DEF IdShared
<1>2. \A q \in E : q \in Runs /\ idOf[q] \in Ids
  BY DEF JobsInv, RecordsOK, Registered
<1>3. RecordsOK'
  <2>1. \A q \in Runs : status'[q] # "none" <=> status[q] # "none"
    BY DEF Registered
  <2>2. \A p \in Polls : polls'[p].tracked \subseteq polls[p].tracked
    BY DEF NotPolling
  <2>3. QED BY <2>1, <2>2 DEF JobsInv, RecordsOK
<1>4. EarlierIsOver'
  <2>1. \A p \in Polls : polls'[p].tracked \subseteq polls[p].tracked
    BY DEF NotPolling
  <2>2. \A q : IsOver(q) => IsOver(q)'
    BY <2>1 DEF IsOver
  <2>3. QED BY <2>2 DEF JobsInv, CallersOK, EarlierIsOver
<1>5. SuppressedIsReported'
  <2> SUFFICES ASSUME NEW r \in Registered, ~IdShared(r), idOf[r] \in suppressed'
               PROVE  r \in reported'
    BY <1>1 DEF SuppressedIsReported
  <2>1. CASE idOf[r] \in suppressed
    BY <2>1 DEF JobsInv, CallersOK, SuppressedIsReported
  <2>2. ASSUME NEW q \in E, idOf[q] = idOf[r] PROVE r \in reported'
    <3>1. q = r
      BY <2>2, OwnId
    <3>2. QED BY <3>1
  <2>3. QED BY <1>0, <2>1, <2>2
<1>6. WatcherTracks'
  BY <1>1 DEF JobsInv, CallersOK, WatcherTracks, NotPolling
<1>7. WatchedByAPoll'
  <2> SUFFICES ASSUME NEW i \in watched' PROVE \E p \in Polls : i \in polls'[p].watching
    BY DEF WatchedByAPoll
  <2>1. PICK p \in Polls : i \in polls[p].watching
    BY DEF JobsInv, CallersOK, WatchedByAPoll
  <2>2. polls'[p] = polls[p]
    BY <2>1
  <2>3. QED BY <2>1, <2>2
<1>8. ReportedIsSuppressed'
  BY <1>0 DEF JobsInv, CallersOK, ReportedIsSuppressed
<1>9. CallersOK'
  <2>1. WatchesTracked'
    BY DEF JobsInv, CallersOK, WatchesTracked, NotPolling
  <2>2. QED BY <1>4, <1>5, <1>6, <1>7, <1>8, <2>1 DEF CallersOK
<1> DEFINE K == {k \in DOMAIN deliveries :
                     idOf[deliveries[k].run] \notin suppressed' \cup watched'}
<1>10. /\ deliveries' \in Seq(QueuedDelivery) /\ NoneTwice(deliveries')
       /\ QueuedRuns' = {deliveries[k].run : k \in K}
  <2>1. /\ deliveries' \in Seq(QueuedDelivery) /\ NoneTwice(deliveries')
        /\ RunsIn(deliveries') = {deliveries[k].run : k \in K \cap DOMAIN deliveries}
    BY <1>0, QueueTypes, QueueFiltered
  <2>2. QueuedRuns' = RunsIn(deliveries')
    BY DEF QueuedRuns, RunsIn
  <2>3. K \cap DOMAIN deliveries = K
    OBVIOUS
  <2>4. QED BY <2>1, <2>2, <2>3
<1>11. /\ \A r \in QueuedRuns' : r \in QueuedRuns
       /\ \A r \in QueuedRuns : r \in QueuedRuns' \/ idOf[r] \in suppressed' \cup watched'
  BY <1>10 DEF QueuedRuns
<1> HIDE DEF K
<1>12. TypeOK'
  <2>1. suppressed' \subseteq Ids /\ reported' \subseteq Runs
    BY <1>0, <1>2 DEF JobsInv, TypeOK
  <2>2. QED BY <1>10, <2>1 DEF JobsInv, TypeOK, QueuedDelivery
<1>13. OneCopy'
  <2>1. HandedRuns' = HandedRuns /\ HandedOnce'
    BY QueueTypes DEF HandedRuns, HandedOnce
  <2>2. \A r \in QueuedRuns \cup inFlight \cup HandedRuns : status'[r] = "completed"
    BY PlacesAreRuns DEF JobsInv, OneCopy
  <2>3. QED BY <1>10, <1>11, <2>1, <2>2, QueueTypes DEF OneCopy
<1>14. ResultKept'
  <2> SUFFICES ASSUME NEW r \in Runs, status'[r] = "completed", disposal # "done",
                      ~IdShared(r)
               PROVE  \/ r \in QueuedRuns' \cup inFlight \cup reported'
                      \/ WasHanded(r)
                      \/ \E p \in Polls : r \in polls'[p].tracked
    BY <1>1 DEF ResultKept, WasHanded
  <2>0. r \in Registered /\ status[r] = "completed"
    BY DEF Registered
  <2>1. CASE r \in QueuedRuns
    <3>1. CASE idOf[r] \in suppressed'
      BY <1>1, <1>5, <2>0, <3>1 DEF SuppressedIsReported
    <3>2. CASE idOf[r] \in watched'
      BY <1>1, <1>6, <1>7, <2>0, <3>2 DEF WatchedByAPoll, WatcherTracks
    <3>3. QED BY <1>11, <2>1, <3>1, <3>2
  <2>2. ASSUME NEW p \in Polls, r \in polls[p].tracked
        PROVE  r \in polls'[p].tracked \/ r \in reported'
    BY <2>0, <2>2
  <2>3. QED BY <2>0, <2>1, <2>2 DEF JobsInv, ResultKept
<1>15. QED BY <1>3, <1>9, <1>12, <1>13, <1>14 DEF JobsInv

LEMMA CancelJobKeeps ==
    ASSUME JobsInv, NEW r \in Runs, CancelJob(r)
    PROVE  JobsInv'
<1>1. /\ r \in RunningJobs /\ CancelRuns({r})
      /\ foreground' = foreground \ {r} /\ reported' = reported \cup {r}
      /\ watched' = watched /\ Acknowledge({idOf[r]})
      /\ UNCHANGED <<settled, idOf, overlapping, jobs, inFlight, loopDelivery, failures, handed,
                     disposal, awaited, polls>>
  BY DEF CancelJob, disposalVars
<1>2. /\ status' \in [Runs -> Statuses] /\ Registered' = Registered
      /\ \A q \in Runs : status'[q] = "completed" <=> status[q] = "completed"
      /\ timers' \subseteq timers \cup Ids
  BY <1>1, CancelRunsFacts
<1>3. r \in Known /\ {r} \subseteq Registered
  BY <1>1 DEF RunningJobs, Registered
<1> DEFINE E == {r}
<1>4. /\ E \subseteq Registered /\ \A q \in E : q \in Known
      /\ reported' = reported \cup E /\ {idOf[q] : q \in E} = {idOf[r]}
      /\ foreground' \subseteq foreground /\ watched' \subseteq watched
  BY <1>1, <1>3
<1>5. polls \in [Polls -> [tracked : SUBSET Runs, watching : SUBSET Ids]]
  BY DEF JobsInv, TypeOK
<1> HIDE DEF E
<1>6. polls' \in [Polls -> [tracked : SUBSET Runs, watching : SUBSET Ids]]
      /\ \A p \in Polls : polls'[p] = polls[p]
  BY <1>1, <1>5
<1>7. Acknowledge({idOf[q] : q \in E})
  BY <1>1, <1>4
<1>8. QED BY <1>1, <1>2, <1>4, <1>6, <1>7, AnswerStep

LEMMA ReturnForegroundKeeps ==
    ASSUME JobsInv, NEW r \in Runs, ReturnForeground(r)
    PROVE  JobsInv'
<1>1. /\ r \in foreground
      /\ foreground' = foreground \ {r} /\ reported' = reported \cup {r}
      /\ watched' = watched /\ Acknowledge({idOf[r]})
      /\ UNCHANGED <<status, settled, idOf, overlapping, jobs, inFlight, loopDelivery, failures,
                     handed, timers, disposal, awaited, polls>>
  BY DEF ReturnForeground, runVars, disposalVars
<1>2. status' \in [Runs -> Statuses] /\ Registered' = Registered
  BY <1>1 DEF JobsInv, TypeOK, Registered
<1>3. ~IsOver(r) /\ {r} \subseteq Registered
  BY <1>1 DEF IsOver, JobsInv, RecordsOK
<1> DEFINE E == {r}
<1>4. /\ E \subseteq Registered /\ \A q \in E : ~IsOver(q)
      /\ reported' = reported \cup E /\ {idOf[q] : q \in E} = {idOf[r]}
      /\ foreground' \subseteq foreground /\ watched' \subseteq watched
      /\ timers' \subseteq timers \cup Ids
  BY <1>1, <1>3
<1>5. polls \in [Polls -> [tracked : SUBSET Runs, watching : SUBSET Ids]]
  BY DEF JobsInv, TypeOK
<1> HIDE DEF E
<1>6. polls' \in [Polls -> [tracked : SUBSET Runs, watching : SUBSET Ids]]
      /\ \A p \in Polls : polls'[p] = polls[p]
  BY <1>1, <1>5
<1>7. Acknowledge({idOf[q] : q \in E})
  BY <1>1, <1>4
<1>8. \A q \in Runs : status'[q] = "completed" <=> status[q] = "completed"
  BY <1>1
<1>9. QED BY <1>1, <1>2, <1>4, <1>6, <1>7, <1>8, AnswerStep

(* What #buildResult reports for a set of runs: the latest ones that ended.*)
Ended(S) == {q \in {Latest(r) : r \in S} : status[q] # "running"}

LEMMA EndedFacts ==
    ASSUME JobsInv, NEW S, S \subseteq Registered,
           \A r \in S : r \in Known \/ ~IsOver(r)
    PROVE  /\ Ended(S) \subseteq Registered
           /\ \A q \in Ended(S) : q \in Known \/ ~IsOver(q)
           /\ \A r \in S : status[r] = "completed" /\ ~IdShared(r) => r \in Ended(S)
  BY LatestFacts DEF Ended

LEMMA ReturnPollKeeps ==
    ASSUME JobsInv, NEW p \in Polls, ReturnPoll(p)
    PROVE  JobsInv'
<1> DEFINE S == polls[p].tracked
           E == Ended(S)
<1>1. /\ polls' = [polls EXCEPT ![p] = NotPolling]
      /\ watched' = watched \ polls[p].watching
      /\ Acknowledge({idOf[q] : q \in E}) /\ reported' = reported \cup E
      /\ UNCHANGED <<status, settled, idOf, overlapping, jobs, inFlight, loopDelivery, failures,
                     handed, timers, disposal, awaited, foreground>>
  BY DEF ReturnPoll, BuildResult, runVars, disposalVars, Ended
<1>2. status' \in [Runs -> Statuses] /\ Registered' = Registered
  BY <1>1 DEF JobsInv, TypeOK, Registered
<1>3. S \subseteq Registered /\ \A r \in S : ~IsOver(r)
  BY DEF JobsInv, RecordsOK, IsOver
<1>4. /\ E \subseteq Registered
      /\ \A q \in E : q \in Known \/ ~IsOver(q)
      /\ \A r \in S : status[r] = "completed" /\ ~IdShared(r) => r \in E
  BY <1>3, EndedFacts
<1> HIDE DEF E
<1>5. polls \in [Polls -> [tracked : SUBSET Runs, watching : SUBSET Ids]]
  BY DEF JobsInv, TypeOK
<1>6. polls' \in [Polls -> [tracked : SUBSET Runs, watching : SUBSET Ids]]
  BY <1>1, <1>5 DEF NotPolling
<1>7. polls'[p] = NotPolling /\ \A o \in Polls \ {p} : polls'[o] = polls[o]
  BY <1>1, <1>5
<1>8. QED BY <1>1, <1>2, <1>4, <1>6, <1>7, AnswerStep

LEMMA StartPollKeeps ==
    ASSUME JobsInv, NEW p \in Polls, NEW S \in SUBSET Runs, StartPoll(p, S)
    PROVE  JobsInv'
<1> DEFINE running == S \cap RunningJobs
           E == Ended(S)
<1>0. /\ polls[p] = NotPolling /\ S \subseteq Known
      /\ UNCHANGED <<status, settled, idOf, overlapping, jobs, inFlight, loopDelivery, failures,
                     handed, timers, disposal, awaited, foreground>>
  BY DEF StartPoll, runVars, disposalVars
<1>1. status' \in [Runs -> Statuses] /\ Registered' = Registered
  BY <1>0 DEF JobsInv, TypeOK, Registered
<1>2. S \subseteq Registered
  BY <1>0 DEF Known, JobsInv, RecordsOK
<1>3. polls \in [Polls -> [tracked : SUBSET Runs, watching : SUBSET Ids]]
  BY DEF JobsInv, TypeOK
<1>4. CASE running = {}
  <2>1. /\ UNCHANGED <<polls, watched>>
        /\ Acknowledge({idOf[q] : q \in E}) /\ reported' = reported \cup E
    BY <1>4 DEF StartPoll, BuildResult, Ended
  <2>2. /\ E \subseteq Registered
        /\ \A q \in E : q \in Known \/ ~IsOver(q)
    BY <1>0, <1>2, EndedFacts
  <2> HIDE DEF E, running
  <2>3. QED BY <1>0, <1>1, <1>3, <2>1, <2>2, AnswerStep
<1>5. CASE running # {}
  <2> DEFINE poll == [tracked |-> S, watching |-> {idOf[r] : r \in running}]
  <2>1. /\ polls' = [polls EXCEPT ![p] = poll]
        /\ watched' = watched \cup poll.watching
        /\ UNCHANGED <<suppressed, deliveries, reported>>
    BY <1>5 DEF StartPoll
  <2>2. \A r \in running : r \in S /\ r \in Registered /\ idOf[r] \in Ids
    BY <1>2 DEF JobsInv, RecordsOK
  <2>3. /\ poll \in [tracked : SUBSET Runs, watching : SUBSET Ids]
        /\ poll.tracked = S /\ \A i \in poll.watching : \E r \in running : i = idOf[r]
    BY <2>2
  <2> HIDE DEF poll, running
  <2>4. /\ polls' \in [Polls -> [tracked : SUBSET Runs, watching : SUBSET Ids]]
        /\ polls'[p] = poll /\ \A o \in Polls \ {p} : polls'[o] = polls[o]
    BY <1>3, <2>1, <2>3
  <2>5. \A r : IdShared(r)' <=> IdShared(r)
    BY <1>0, <1>1 DEF IdShared
  <2>6. RecordsOK'
    BY <1>0, <1>1, <1>2, <2>1, <2>3, <2>4 DEF JobsInv, RecordsOK
  <2>7. EarlierIsOver'
    <3> SUFFICES ASSUME NEW q \in Registered, NEW r \in Registered, q < r,
                        idOf[q] = idOf[r], r \notin overlapping
                 PROVE  IsOver(q)'
      BY <1>0, <1>1 DEF EarlierIsOver
    <3>1. IsOver(q)
      BY DEF JobsInv, CallersOK, EarlierIsOver
    <3>2. q \notin Known
      <4> SUFFICES ASSUME NEW i \in Ids, jobs[i] = q, q # NoRun PROVE FALSE
        BY DEF Known
      <4>1. r <= q
        BY DEF JobsInv, RecordsOK
      <4>2. q \in Nat /\ r \in Nat
        BY RunsFacts DEF Registered
      <4>3. QED BY <4>1, <4>2
    <3>3. QED BY <1>0, <2>3, <2>4, <3>1, <3>2 DEF IsOver
  <2>8. SuppressedIsReported'
    BY <1>0, <1>1, <2>1, <2>5 DEF JobsInv, CallersOK, SuppressedIsReported
  <2>9. WatcherTracks'
    <3> SUFFICES ASSUME NEW r \in Registered, NEW o \in Polls, ~IdShared(r),
                        idOf[r] \in polls'[o].watching
                 PROVE  r \in polls'[o].tracked
      BY <1>0, <1>1, <2>5 DEF WatcherTracks
    <3>1. CASE o # p
      BY <2>4, <3>1 DEF JobsInv, CallersOK, WatcherTracks
    <3>2. CASE o = p
      <4>1. PICK q \in running : idOf[r] = idOf[q]
        BY <2>3, <2>4, <3>2
      <4>2. q = r
        BY <1>0, <2>2, <4>1, OwnId
      <4>3. QED BY <2>2, <2>3, <2>4, <3>2, <4>1, <4>2
    <3>3. QED BY <3>1, <3>2
  <2>10. WatchedByAPoll'
    <3> SUFFICES ASSUME NEW i \in watched' PROVE \E o \in Polls : i \in polls'[o].watching
      BY DEF WatchedByAPoll
    <3>1. CASE i \in poll.watching
      BY <2>4, <3>1
    <3>2. CASE i \notin poll.watching
      <4>1. PICK o \in Polls : i \in polls[o].watching
        BY <2>1, <3>2 DEF JobsInv, CallersOK, WatchedByAPoll
      <4>2. o # p
        BY <1>0, <4>1 DEF NotPolling
      <4>3. QED BY <2>4, <4>1, <4>2
    <3>3. QED BY <3>1, <3>2
  <2>11. ReportedIsSuppressed'
    BY <1>0, <2>1 DEF JobsInv, CallersOK, ReportedIsSuppressed
  <2>12. QueuedRuns' = QueuedRuns /\ HandedRuns' = HandedRuns
    BY <1>0, <2>1 DEF QueuedRuns, HandedRuns
  <2>13. OneCopy'
    BY <1>0, <2>1, <2>12 DEF JobsInv, OneCopy, NoneTwice, HandedOnce
  <2>14. TypeOK'
    <3>1. watched' \subseteq Ids
      BY <2>1, <2>3 DEF JobsInv, TypeOK
    <3>2. QED BY <1>0, <1>1, <2>1, <2>4, <3>1 DEF JobsInv, TypeOK
  <2>15. ResultKept'
    <3> SUFFICES ASSUME NEW r \in Runs, status[r] = "completed", disposal # "done",
                        ~IdShared(r)
                 PROVE  \/ r \in QueuedRuns \cup inFlight \cup reported
                        \/ WasHanded(r)
                        \/ \E o \in Polls : r \in polls'[o].tracked
      BY <1>0, <2>1, <2>5, <2>12 DEF ResultKept, WasHanded
    <3>1. ASSUME NEW o \in Polls, r \in polls[o].tracked PROVE r \in polls'[o].tracked
      BY <1>0, <2>4, <3>1 DEF NotPolling
    <3>2. QED BY <3>1 DEF JobsInv, ResultKept
  <2>16. WatchesTracked'
    BY <1>0, <2>2, <2>3, <2>4 DEF JobsInv, CallersOK, WatchesTracked
  <2>17. QED BY <2>16, <2>6, <2>7, <2>8, <2>9, <2>10, <2>11, <2>13, <2>14, <2>15 DEF JobsInv, CallersOK
<1>6. QED BY <1>4, <1>5

-----------------------------------------------------------------------------
(* Registration, eviction, and the end of dispose() *)

LEMMA EvictKeeps ==
    ASSUME JobsInv, NEW i \in Ids, Evict(i)
    PROVE  JobsInv'
<1>1. /\ timers' = timers \ {i} /\ jobs' = [jobs EXCEPT ![i] = NoRun]
      /\ suppressed' = suppressed \ {i} /\ watched' = watched \ {i}
      /\ UNCHANGED <<status, settled, idOf, overlapping, deliveries, inFlight, loopDelivery,
                     failures, handed, disposal, awaited, polls, foreground, reported>>
  BY DEF Evict, runVars, queueVars, disposalVars, callerVars
<1>2. Registered' = Registered
  BY <1>1 DEF Registered
<1>3. \A r : IdShared(r)' <=> IdShared(r)
  BY <1>1, <1>2 DEF IdShared
<1>4. /\ jobs' \in [Ids -> Runs \cup {NoRun}] /\ jobs'[i] = NoRun
      /\ \A j \in Ids \ {i} : jobs'[j] = jobs[j]
  BY <1>1 DEF JobsInv, TypeOK
<1>5. RecordsOK'
  BY <1>1, <1>2, <1>4 DEF JobsInv, RecordsOK
<1>6. EarlierIsOver' /\ WatchesTracked' /\ WatchedByAPoll'
  BY <1>1, <1>2 DEF JobsInv, CallersOK, EarlierIsOver, IsOver, WatchesTracked,
                    WatchedByAPoll
<1>7. SuppressedIsReported' /\ WatcherTracks'
  BY <1>1, <1>2, <1>3 DEF JobsInv, CallersOK, SuppressedIsReported, WatcherTracks
<1>8. ReportedIsSuppressed'
  <2> SUFFICES ASSUME NEW r \in reported, jobs'[idOf[r]] = r PROVE idOf[r] \in suppressed'
    BY <1>1 DEF ReportedIsSuppressed
  <2>1. r \in Runs /\ idOf[r] \in Ids
    BY DEF JobsInv, RecordsOK, Registered
  <2>2. idOf[r] # i
    BY <1>4, <2>1, RunsFacts
  <2>3. QED BY <1>1, <1>4, <2>1, <2>2 DEF JobsInv, CallersOK, ReportedIsSuppressed
<1>9. CallersOK'
  BY <1>6, <1>7, <1>8 DEF CallersOK
<1>10. TypeOK'
  BY <1>1, <1>2, <1>4 DEF JobsInv, TypeOK
<1>11. QED BY <1>1, <1>2, <1>5, <1>9, <1>10, StatusStep

LEMMA FinishDisposeKeeps ==
    ASSUME JobsInv, FinishDispose
    PROVE  JobsInv'
<1>1. /\ disposal' = "done" /\ jobs' = [i \in Ids |-> NoRun]
      /\ deliveries' = <<>> /\ suppressed' = {} /\ watched' = {} /\ timers' = {}
      /\ UNCHANGED <<status, settled, idOf, overlapping, inFlight, loopDelivery, failures,
                     handed, awaited, polls, foreground, reported>>
  BY DEF FinishDispose, runVars, callerVars
<1>2. Registered' = Registered
  BY <1>1 DEF Registered
<1>3. \A r : IdShared(r)' <=> IdShared(r)
  BY <1>1, <1>2 DEF IdShared
<1>4. RecordsOK'
  BY <1>1, <1>2 DEF JobsInv, RecordsOK
<1>5. EarlierIsOver' /\ WatchesTracked' /\ WatchedByAPoll'
  BY <1>1, <1>2 DEF JobsInv, CallersOK, EarlierIsOver, IsOver, WatchesTracked,
                    WatchedByAPoll
<1>6. SuppressedIsReported' /\ WatcherTracks'
  BY <1>1, <1>2, <1>3 DEF JobsInv, CallersOK, SuppressedIsReported, WatcherTracks
<1>7. ReportedIsSuppressed'
  <2>1. \A r \in reported : r \in Runs /\ idOf[r] \in Ids
    BY DEF JobsInv, RecordsOK, Registered
  <2>2. QED BY <1>1, <2>1, RunsFacts DEF ReportedIsSuppressed
<1>8. CallersOK'
  BY <1>5, <1>6, <1>7 DEF CallersOK
<1>9. QueuedRuns' = {} /\ HandedRuns' = HandedRuns /\ NoneTwice(deliveries')
  BY <1>1 DEF QueuedRuns, HandedRuns, NoneTwice
<1>10. OneCopy'
  BY <1>1, <1>9 DEF JobsInv, OneCopy, HandedOnce
<1>11. TypeOK'
  BY <1>1, <1>2 DEF JobsInv, TypeOK
<1>12. ResultKept'
  BY <1>1 DEF ResultKept
<1>13. QED BY <1>4, <1>8, <1>10, <1>11, <1>12 DEF JobsInv

LEMMA RegisterKeeps ==
    ASSUME JobsInv, NEW r \in Runs, NEW i \in Ids, NEW waiting \in BOOLEAN,
           Register(r, i, waiting)
    PROVE  JobsInv'
<1>1. /\ status[r] = "none" /\ \A q \in Runs : q < r => status[q] # "none"
      /\ jobs[i] = NoRun
      /\ suppressed' = suppressed \ {i}
      /\ status' = [status EXCEPT ![r] = "running"]
      /\ idOf' = [idOf EXCEPT ![r] = i] /\ jobs' = [jobs EXCEPT ![i] = r]
      /\ foreground \subseteq foreground' /\ foreground' \subseteq foreground \cup {r}
      /\ UNCHANGED <<settled, deliveries, inFlight, loopDelivery, failures, handed, watched,
                     timers, disposal, awaited, polls, reported>>
  BY DEF Register, FreeId, queueVars, disposalVars
<1>2. /\ overlapping \subseteq overlapping' /\ overlapping' \subseteq overlapping \cup {r}
      /\ r \in overlapping' \/ \A q \in Runs : idOf[q] = i => IsOver(q)
  BY DEF Register
<1>3. /\ status' \in [Runs -> Statuses] /\ status'[r] = "running"
      /\ idOf' \in [Runs -> Ids \cup {NoRun}] /\ idOf'[r] = i
      /\ jobs' \in [Ids -> Runs \cup {NoRun}] /\ jobs'[i] = r
      /\ \A q \in Runs \ {r} : status'[q] = status[q] /\ idOf'[q] = idOf[q]
      /\ \A j \in Ids \ {i} : jobs'[j] = jobs[j]
  BY <1>1 DEF JobsInv, TypeOK, Statuses
<1>4. r \notin Registered /\ Registered' = Registered \cup {r}
  BY <1>1, <1>3 DEF Registered
<1>5. \A q \in Registered : q \in Runs /\ q < r
  <2> SUFFICES ASSUME NEW q \in Registered PROVE q < r
    BY DEF Registered
  <2>1. ~(r < q)
    BY <1>1 DEF JobsInv, RecordsOK
  <2>2. q # r /\ q \in Nat /\ r \in Nat
    BY <1>4, RunsFacts DEF Registered
  <2>3. QED BY <2>1, <2>2
<1>6. ASSUME NEW q \in Registered, ~IdShared(q)'
      PROVE  ~IdShared(q) /\ idOf[q] # i
  <2>1. idOf[q] # i
    BY <1>3, <1>4, <1>5, <1>6 DEF IdShared
  <2>2. ~IdShared(q)
    BY <1>2, <1>3, <1>4, <1>5, <1>6 DEF IdShared
  <2>3. QED BY <2>1, <2>2
<1>7. \A q \in Registered :
          /\ q # r /\ status'[q] = status[q] /\ idOf'[q] = idOf[q]
          /\ IsOver(q) => IsOver(q)'
  BY <1>1, <1>3, <1>4, <1>5 DEF IsOver
<1>8. RecordsOK'
  <2>1. \A q \in Registered' :
           /\ idOf'[q] \in Ids
           /\ \A o \in Runs : o < q => status'[o] # "none"
    BY <1>1, <1>3, <1>4, <1>7 DEF JobsInv, RecordsOK
  <2>2. ASSUME NEW j \in Ids, jobs'[j] # NoRun
        PROVE  /\ jobs'[j] \in Registered' /\ idOf'[jobs'[j]] = j
               /\ \A q \in Registered' : idOf'[q] = j => q <= jobs'[j]
    <3>1. CASE j = i
      <4>1. \A q \in Registered' : q <= r
        <5>1. r \in Nat /\ \A q \in Registered : q \in Nat /\ q < r
          BY <1>5, RunsFacts
        <5>2. QED BY <1>4, <5>1
      <4>2. QED BY <1>3, <1>4, <3>1, <4>1
    <3>2. CASE j # i
      <4>1. /\ jobs'[j] = jobs[j] /\ jobs[j] \in Registered /\ idOf[jobs[j]] = j
            /\ \A q \in Registered : idOf[q] = j => q <= jobs[j]
        BY <1>3, <2>2, <3>2 DEF JobsInv, RecordsOK
      <4>2. QED BY <1>3, <1>4, <1>7, <3>2, <4>1
    <3>3. QED BY <3>1, <3>2
  <2>3. /\ foreground' \cup reported' \subseteq Registered'
        /\ \A p \in Polls : polls'[p].tracked \subseteq Registered'
    BY <1>1, <1>4 DEF JobsInv, RecordsOK
  <2>4. QED BY <2>1, <2>2, <2>3 DEF RecordsOK
<1>9. EarlierIsOver'
  <2> SUFFICES ASSUME NEW q \in Registered', NEW s \in Registered', q < s,
                      idOf'[q] = idOf'[s], s \notin overlapping'
               PROVE  IsOver(q)'
    BY DEF EarlierIsOver
  <2>0. q \in Nat /\ s \in Nat /\ r \in Nat
    BY RunsFacts, <1>4 DEF Registered
  <2>1. q \in Registered
    BY <1>4, <1>5, <2>0
  <2>2. CASE s = r
    BY <1>2, <1>3, <1>5, <1>7, <2>1, <2>2
  <2>3. CASE s # r
    <3>1. s \in Registered /\ s \notin overlapping /\ idOf[q] = idOf[s]
      BY <1>2, <1>4, <1>7, <2>1, <2>3
    <3>2. IsOver(q)
      BY <2>1, <3>1 DEF JobsInv, CallersOK, EarlierIsOver
    <3>3. QED BY <1>7, <2>1, <3>2
  <2>4. QED BY <2>2, <2>3
<1>10. SuppressedIsReported'
  <2> SUFFICES ASSUME NEW q \in Registered', ~IdShared(q)', idOf'[q] \in suppressed'
               PROVE  q \in reported
    BY <1>1 DEF SuppressedIsReported
  <2>1. q \in Registered
    BY <1>1, <1>3, <1>4
  <2>2. QED BY <1>1, <1>6, <1>7, <2>1 DEF JobsInv, CallersOK, SuppressedIsReported
<1>11. WatcherTracks'
  <2> SUFFICES ASSUME NEW q \in Registered', NEW p \in Polls, ~IdShared(q)',
                      idOf'[q] \in polls[p].watching
               PROVE  q \in polls[p].tracked
    BY <1>1 DEF WatcherTracks
  <2>1. ASSUME q = r PROVE FALSE
    <3>1. PICK o \in polls[p].tracked : idOf[o] = i
      BY <1>3, <2>1 DEF JobsInv, CallersOK, WatchesTracked
    <3>2. o \in Runs /\ ~IsOver(o)
      BY <3>1 DEF IsOver, JobsInv, RecordsOK, Registered
    <3>3. QED BY <1>2, <2>1, <3>1, <3>2 DEF IdShared
  <2>2. q \in Registered
    BY <1>4, <2>1
  <2>3. QED BY <1>6, <1>7, <2>2 DEF JobsInv, CallersOK, WatcherTracks
<1>12. WatchesTracked' /\ WatchedByAPoll'
  <2>1. \A p \in Polls : polls[p].tracked \subseteq Registered
    BY DEF JobsInv, RecordsOK
  <2>2. QED BY <1>1, <1>7, <2>1 DEF JobsInv, CallersOK, WatchesTracked, WatchedByAPoll
<1>13. ReportedIsSuppressed'
  <2> SUFFICES ASSUME NEW q \in reported, jobs'[idOf'[q]] = q PROVE idOf'[q] \in suppressed'
    BY <1>1 DEF ReportedIsSuppressed
  <2>1. q \in Registered /\ idOf[q] \in Ids
    BY DEF JobsInv, RecordsOK
  <2>2. idOf'[q] = idOf[q] /\ idOf[q] # i
    BY <1>3, <1>7, <2>1
  <2>3. QED BY <1>1, <1>3, <2>1, <2>2 DEF JobsInv, CallersOK, ReportedIsSuppressed
<1>14. CallersOK'
  BY <1>9, <1>10, <1>11, <1>12, <1>13 DEF CallersOK
<1>15. QueuedRuns' = QueuedRuns /\ HandedRuns' = HandedRuns
  BY <1>1 DEF QueuedRuns, HandedRuns
<1>16. OneCopy'
  <2>1. \A q \in QueuedRuns \cup inFlight \cup HandedRuns : status'[q] = "completed"
    BY <1>1, <1>3, PlacesAreRuns DEF JobsInv, OneCopy
  <2>2. HandedOnce' /\ NoneTwice(deliveries')
    BY <1>1, QueueTypes DEF HandedOnce, NoneTwice
  <2>3. QED BY <1>1, <1>15, <2>1, <2>2, QueueTypes DEF OneCopy
<1>17. TypeOK'
  BY <1>1, <1>2, <1>3, <1>4 DEF JobsInv, TypeOK
<1>18. ResultKept'
  <2> SUFFICES ASSUME NEW q \in Runs, status'[q] = "completed", disposal # "done",
                      ~IdShared(q)'
               PROVE  \/ q \in QueuedRuns \cup inFlight \cup reported
                      \/ WasHanded(q)
                      \/ \E p \in Polls : q \in polls[p].tracked
    BY <1>1, <1>15 DEF ResultKept, WasHanded
  <2>1. q \in Registered /\ status[q] = "completed"
    BY <1>3 DEF Registered
  <2>2. QED BY <1>6, <2>1 DEF JobsInv, ResultKept
<1>19. QED BY <1>8, <1>14, <1>16, <1>17, <1>18 DEF JobsInv

-----------------------------------------------------------------------------
(* The theorems about the manager and its callers *)

LEMMA JobsStutter == JobsInv /\ UNCHANGED jobVars => JobsInv'
<1> SUFFICES ASSUME JobsInv, UNCHANGED jobVars PROVE JobsInv'
  OBVIOUS
<1>1. UNCHANGED <<status, settled, idOf, overlapping, jobs, deliveries, inFlight, loopDelivery,
                  failures, handed, suppressed, watched, timers, disposal, awaited, polls,
                  foreground, reported>>
  BY DEF jobVars, runVars, queueVars, disposalVars, callerVars
<1>2. Registered' = Registered
  BY <1>1 DEF Registered
<1>3. RecordsOK' /\ CallersOK'
  BY <1>1, <1>2, CallersFrame
<1>4. TypeOK'
  BY <1>1, <1>2 DEF JobsInv, TypeOK
<1>5. QED BY <1>1, <1>2, <1>3, <1>4, StatusStep

LEMMA JobsStep == JobsInv /\ [Next]_jobVars => JobsInv'
<1> SUFFICES ASSUME JobsInv, Next PROVE JobsInv'
  BY JobsStutter
<1>1. ASSUME NEW r \in Runs,
             Settle(r) \/ CancelJob(r) \/ Background(r) \/ ReturnForeground(r)
      PROVE  JobsInv'
  BY <1>1, SettleKeeps, CancelJobKeeps, BackgroundKeeps, ReturnForegroundKeeps
<1>2. ASSUME NEW r \in Runs, FinishDelivery(r) \/ FailDelivery(r)
      PROVE  JobsInv'
  BY <1>2, FinishDeliveryKeeps, FailDeliveryKeeps
<1>3. CASE DropHead \/ DeliverHead
  BY <1>3, DropHeadKeeps, DeliverHeadKeeps
<1>4. ASSUME NEW k \in DOMAIN deliveries, BackoffOver(k) \/ DeliverDrained(k)
      PROVE  JobsInv'
  BY <1>4, BackoffOverKeeps, DeliverDrainedKeeps
<1>5. ASSUME NEW p \in Polls, ReturnPoll(p) \/ \E S \in SUBSET Runs : StartPoll(p, S)
      PROVE  JobsInv'
  BY <1>5, ReturnPollKeeps, StartPollKeeps
<1>6. ASSUME NEW r \in Runs, NEW i \in Ids, NEW waiting \in BOOLEAN,
             Register(r, i, waiting)
      PROVE  JobsInv'
  BY <1>6, RegisterKeeps
<1>7. CASE CancelAll \/ Dispose \/ FinishDispose
  BY <1>7, CancelAllKeeps, DisposeKeeps, FinishDisposeKeeps
<1>8. ASSUME NEW i \in Ids, Evict(i) PROVE JobsInv'
  BY <1>8, EvictKeeps
<1>9. QED BY <1>1, <1>2, <1>3, <1>4, <1>5, <1>6, <1>7, <1>8
       DEF Next, JobEnds, Delivery, Tools, Callers

THEOREM JobsSpecInv == Spec => []JobsInv
  BY JobsInit, JobsStep, PTL DEF Spec

(* job-manager.ts: the loop, a drain beside it and the retries hand a      *)
(* result over at most once, and never that of a cancelled job.            *)
THEOREM ResultsHeardAtMostOnce == Spec => []HeardAtMostOnce
<1>1. JobsInv => HeardAtMostOnce
  BY PlacesAreRuns DEF JobsInv, OneCopy, HeardAtMostOnce, CancelledIsSilent,
                       WasHanded, HandedRuns
<1>2. QED BY <1>1, JobsSpecInv, PTL

(* job-manager.ts and tools/job.ts: the outcome of a job that was not      *)
(* cancelled is always queued, in flight, handed over, answered with or    *)
(* tracked by a poll, whatever polls, retries and evictions do meanwhile.  *)
THEOREM ResultsAreKept == Spec => []ResultKept
<1>1. JobsInv => ResultKept
  BY DEF JobsInv
<1>2. QED BY <1>1, JobsSpecInv, PTL

(* sdk.ts, onJobComplete: what a tool has answered with is not handed over *)
(* by a delivery that was in flight, as long as the job is known.          *)
THEOREM ReportedAreNotHanded == Spec => ReportedIsNotHanded
<1>1. ASSUME JobsInv, [Next]_jobVars, NEW r \in reported,
             ~WasHanded(r), WasHanded(r)'
      PROVE  jobs[idOf[r]] # r
  <2> SUFFICES ASSUME jobs[idOf[r]] = r PROVE FALSE
    OBVIOUS
  <2>1. IsSuppressed(idOf[r])
    BY <1>1 DEF JobsInv, CallersOK, ReportedIsSuppressed, IsSuppressed
  <2>2. handed' # handed
    BY <1>1 DEF WasHanded
  <2>3. PICK q \in Runs : FinishDelivery(q)
    BY <1>1, <2>2
    DEF Next, JobEnds, Delivery, Tools, Callers, jobVars,
        queueVars, Settle, Register, Evict, DropHead, DeliverHead,
        BackoffOver, FailDelivery, DeliverDrained, StartPoll,
        ReturnPoll, CancelJob, ReturnForeground, Background, CancelAll,
        Dispose, FinishDispose
  <2>4. handed' = Append(handed, q) /\ ~IsSuppressed(idOf[q]) /\ q \in inFlight
    BY <2>2, <2>3 DEF FinishDelivery, EndDelivery
  <2>5. HandedRuns' = HandedRuns \cup {q}
    BY <1>1, <2>4, HandedAnother, QueueTypes
  <2>6. r = q
    BY <1>1, <2>5 DEF HandedRuns, WasHanded
  <2>7. QED BY <2>1, <2>4, <2>6
<1>2. JobsInv /\ [Next]_jobVars =>
          [\A r \in reported : ~WasHanded(r) /\ WasHanded(r)'
                                   => jobs[idOf[r]] # r]_jobVars
  BY <1>1
<1>3. QED BY <1>2, JobsSpecInv, PTL DEF Spec, ReportedIsNotHanded

-----------------------------------------------------------------------------
(* The yield queue and the session *)

(* A result that was handed over waits in the yield queue or is delivered, *)
(* unless a tool has answered with it or will.                             *)
HandedIsKept ==
    \A r \in HandedRuns : ~IdShared(r) =>
        \/ r \in reported \/ IsEntry(r) \/ IsDelivered(r)
        \/ \E p \in Polls : r \in polls[p].tracked

DeliveryInv == JobsInv /\ FlushInv /\ disposal = "none" /\ HandedIsKept

LEMMA DeliveryStarts == DeliveryInit => DeliveryInv
<1> SUFFICES ASSUME DeliveryInit PROVE DeliveryInv
  OBVIOUS
<1>1. JobsInv
  BY JobsInit DEF DeliveryInit
<1>2. ~ToolsWait
  BY DEF DeliveryInit, Init, ToolsWait
<1>3. FlushInv
  <2>1. TypeOK
    BY <1>1 DEF JobsInv
  <2>2. /\ entries = <<>> /\ delivered = <<>> /\ told = {} /\ session = "idle"
        /\ prompts = 0 /\ aborts = 0 /\ idleFlushPending = FALSE /\ flushTask = FALSE
    BY DEF DeliveryInit
  <2>3. prompts \in 0..MaxPrompts /\ aborts \in 0..MaxAborts
    BY <2>2, DeliveryAssumption
  <2>4. entries \in Seq(Runs) /\ delivered \in Seq(Runs)
    BY <2>2
  <2>5. /\ idleFlushPending \in BOOLEAN /\ flushTask \in BOOLEAN
        /\ flushTask => idleFlushPending
        /\ session \in SessionStates /\ told \subseteq reported
    BY <2>2 DEF SessionStates
  <2>6. DeliveryTypeOK
    BY <1>2, <2>1, <2>3, <2>4, <2>5, Zenon DEF DeliveryTypeOK
  <2>7. aborts = 0 => idleFlushPending = flushTask
    BY <2>2
  <2>8. QED BY <2>6, <2>7 DEF FlushInv, PendingMeansScheduled
<1>4. disposal = "none" /\ HandedIsKept
  BY DEF DeliveryInit, Init, HandedIsKept, HandedRuns
<1>5. QED BY <1>1, <1>3, <1>4 DEF DeliveryInv

LEMMA SameJobs ==
    UNCHANGED jobVars =>
        UNCHANGED <<status, idOf, overlapping, handed, disposal, polls, foreground, reported>>
  BY DEF jobVars, runVars, queueVars, disposalVars, callerVars

(* What the manager does in a step of each kind, and leaves alone.         *)
LEMMA CallToolJobs ==
    CallTool => Next /\ UNCHANGED <<reported, handed, disposal, polls>>
  BY DEF CallTool, Next, Callers, Register, Background, queueVars,
         disposalVars

LEMMA AnswerToolJobs ==
    ASSUME NEW shown \in BOOLEAN, AnswerTool(shown)
    PROVE  Next /\ UNCHANGED <<handed, disposal>>
  BY DEF AnswerTool, Next, Callers, Tools, StartPoll, ReturnPoll,
         CancelJob, ReturnForeground, disposalVars

LEMMA JobStepJobs ==
    JobStep => Next /\ UNCHANGED <<reported, handed, disposal, polls, foreground>>
<1>1. ASSUME NEW r \in Runs, Settle(r) \/ FailDelivery(r)
      PROVE  Next /\ UNCHANGED <<reported, handed, disposal, polls, foreground>>
  BY <1>1 DEF Next, JobEnds, Delivery, Settle, FailDelivery,
              EndDelivery, disposalVars, callerVars
<1>2. ASSUME NEW i \in Ids, Evict(i)
      PROVE  Next /\ UNCHANGED <<reported, handed, disposal, polls, foreground>>
  BY <1>2 DEF Next, Evict, queueVars, disposalVars, callerVars
<1>3. ASSUME DropHead \/ DeliverHead
      PROVE  Next /\ UNCHANGED <<reported, handed, disposal, polls, foreground>>
  BY <1>3 DEF Next, Delivery, DropHead, DeliverHead, disposalVars,
              callerVars
<1>4. ASSUME NEW k \in DOMAIN deliveries, BackoffOver(k) \/ DeliverDrained(k)
      PROVE  Next /\ UNCHANGED <<reported, handed, disposal, polls, foreground>>
  BY <1>4 DEF Next, Delivery, Callers, BackoffOver, DeliverDrained,
              disposalVars, callerVars
<1>5. QED BY <1>1, <1>2, <1>3, <1>4 DEF JobStep

LEMMA EnqueueJobs ==
    ASSUME NEW r \in Runs, Enqueue(r)
    PROVE  /\ Next /\ UNCHANGED <<reported, disposal, polls, foreground>>
           /\ handed' = handed \/ handed' = Append(handed, r)
  BY DEF Enqueue, Next, Delivery, FinishDelivery, EndDelivery,
         disposalVars, callerVars

LEMMA SwitchSessionJobs ==
    SwitchSession => Next /\ UNCHANGED <<reported, handed, disposal, polls, foreground>>
  BY DEF SwitchSession, Next, Callers, CancelAll, queueVars,
         disposalVars, callerVars

(* Jobs do not get their ids back for themselves, and a run that a tool    *)
(* has answered with, or tracks, is not dropped by the tools.              *)
LEMMA RunsStay ==
    JobsInv /\ [Next]_jobVars =>
        /\ Registered \subseteq Registered'
        /\ \A r \in Registered : idOf'[r] = idOf[r]
        /\ overlapping \subseteq overlapping' /\ reported \subseteq reported'
<1> SUFFICES ASSUME JobsInv, [Next]_jobVars
             PROVE  /\ Registered \subseteq Registered'
                    /\ \A r \in Registered : idOf'[r] = idOf[r]
                    /\ overlapping \subseteq overlapping' /\ reported \subseteq reported'
  OBVIOUS
<1>0. \A r \in RunningJobs : r \in Runs /\ status[r] = "running"
  BY DEF RunningJobs, Known, JobsInv, TypeOK
<1>1. ASSUME NEW r \in Runs, NEW i \in Ids, NEW waiting \in BOOLEAN,
             Register(r, i, waiting)
      PROVE  /\ \A q \in Registered : status'[q] = status[q] /\ idOf'[q] = idOf[q]
             /\ overlapping \subseteq overlapping' /\ reported \subseteq reported'
  BY <1>1 DEF Register, Registered, JobsInv, TypeOK
<1>2. ASSUME NEW r \in Runs, Settle(r) \/ CancelJob(r)
      PROVE  /\ \A q \in Registered : status'[q] # "none" /\ idOf'[q] = idOf[q]
             /\ overlapping \subseteq overlapping' /\ reported \subseteq reported'
  BY <1>2 DEF Settle, CancelJob, CancelRuns, callerVars, Registered,
              JobsInv, TypeOK
<1>3. CASE CancelAll \/ Dispose
  BY <1>3 DEF CancelAll, Dispose, CancelRuns, callerVars, Registered
<1>4. ASSUME UNCHANGED runVars, reported \subseteq reported'
      PROVE  /\ Registered \subseteq Registered'
             /\ \A r \in Registered : idOf'[r] = idOf[r]
             /\ overlapping \subseteq overlapping' /\ reported \subseteq reported'
  BY <1>4 DEF runVars, Registered
<1>5. ASSUME NEW r \in Runs,
             \/ ReturnForeground(r) \/ Background(r)
             \/ FinishDelivery(r) \/ FailDelivery(r)
      PROVE  UNCHANGED runVars /\ reported \subseteq reported'
  BY <1>5 DEF ReturnForeground, Background, FinishDelivery, FailDelivery,
              EndDelivery, callerVars
<1>6. ASSUME NEW k \in DOMAIN deliveries, BackoffOver(k) \/ DeliverDrained(k)
      PROVE  UNCHANGED runVars /\ reported \subseteq reported'
  BY <1>6 DEF BackoffOver, DeliverDrained, callerVars
<1>7. ASSUME NEW p \in Polls, ReturnPoll(p) \/ \E S \in SUBSET Runs : StartPoll(p, S)
      PROVE  UNCHANGED runVars /\ reported \subseteq reported'
  BY <1>7 DEF ReturnPoll, StartPoll, BuildResult
<1>8. ASSUME \/ DropHead \/ DeliverHead \/ FinishDispose
             \/ UNCHANGED jobVars \/ \E i \in Ids : Evict(i)
      PROVE  UNCHANGED runVars /\ reported \subseteq reported'
  BY <1>8 DEF DropHead, DeliverHead, FinishDispose, Evict, jobVars,
              callerVars
<1>9. ASSUME NEW r \in Runs, NEW i \in Ids, NEW waiting \in BOOLEAN,
             Register(r, i, waiting)
      PROVE  Registered \subseteq Registered'
  BY <1>1, <1>9 DEF Registered
<1>10. ASSUME NEW r \in Runs, Settle(r) \/ CancelJob(r)
       PROVE  Registered \subseteq Registered'
  BY <1>2, <1>10 DEF Registered
<1>11. QED
  BY <1>1, <1>2, <1>3, <1>4, <1>5, <1>6, <1>7, <1>8, <1>9, <1>10
  DEF Next, JobEnds, Delivery, Tools, Callers

LEMMA SharedStays ==
    ASSUME JobsInv, [Next]_jobVars, NEW r \in Registered, IdShared(r)
    PROVE  IdShared(r)'
  BY RunsStay DEF IdShared

LEMMA TrackedStays ==
    ASSUME JobsInv, [Next]_jobVars, NEW r \in Registered,
           status[r] = "completed", ~IdShared(r), NEW p \in Polls, r \in polls[p].tracked
    PROVE  r \in reported' \/ r \in polls'[p].tracked
<1>0. polls \in [Polls -> [tracked : SUBSET Runs, watching : SUBSET Ids]]
  BY DEF JobsInv, TypeOK
<1>1. ASSUME NEW o \in Polls, ReturnPoll(o)
      PROVE  r \in reported' \/ r \in polls'[p].tracked
  <2>1. CASE o = p
    <3>1. reported' = reported \cup Ended(polls[p].tracked)
      BY <1>1, <2>1 DEF ReturnPoll, BuildResult, Ended
    <3>2. Latest(r) = r
      BY LatestFacts
    <3>3. r \in Ended(polls[p].tracked)
      BY <3>2 DEF Ended
    <3>4. QED BY <3>1, <3>3
  <2>2. CASE o # p
    BY <1>0, <1>1, <2>2 DEF ReturnPoll
  <2>3. QED BY <2>1, <2>2
<1>2. ASSUME NEW o \in Polls, NEW S \in SUBSET Runs, StartPoll(o, S)
      PROVE  r \in polls'[p].tracked
  <2>1. o # p
    BY <1>2 DEF StartPoll, NotPolling
  <2>2. QED BY <1>0, <1>2, <2>1 DEF StartPoll
<1>3. \/ \E o \in Polls : ReturnPoll(o) \/ \E S \in SUBSET Runs : StartPoll(o, S)
      \/ polls' = polls
  BY DEF Next, JobEnds, Delivery, Tools, Callers, jobVars,
         callerVars, Settle, Register, Evict, DropHead,
         DeliverHead, BackoffOver, FinishDelivery, FailDelivery,
         EndDelivery, DeliverDrained, CancelJob, ReturnForeground,
         Background, CancelAll, Dispose, FinishDispose
<1>4. QED BY <1>1, <1>2, <1>3

(* What is handed over stays accounted for as long as entries only leave   *)
(* the yield queue for the conversation, or because they are suppressed.   *)
LEMMA HandedStays ==
    ASSUME DeliveryInv, [Next]_jobVars,
           \A r \in HandedRuns' : r \in HandedRuns \/ IsEntry(r)',
           \A r : IsDelivered(r) => IsDelivered(r)',
           \A r : IsEntry(r) => \/ IsEntry(r)' \/ IsDelivered(r)'
                                \/ IsSuppressed(idOf[r])
    PROVE  HandedIsKept'
<1> SUFFICES ASSUME NEW r \in HandedRuns', ~IdShared(r)'
             PROVE  \/ r \in reported' \/ IsEntry(r)' \/ IsDelivered(r)'
                    \/ \E p \in Polls : r \in polls'[p].tracked
  BY DEF HandedIsKept
<1>1. SUFFICES ASSUME r \in HandedRuns PROVE \/ r \in reported' \/ IsEntry(r)' \/ IsDelivered(r)'
                    \/ \E p \in Polls : r \in polls'[p].tracked
  OBVIOUS
<1>2. JobsInv /\ r \in Registered /\ status[r] = "completed"
  BY <1>1, PlacesAreRuns DEF DeliveryInv, JobsInv, OneCopy, Registered
<1>3. ~IdShared(r)
  BY <1>2, SharedStays
<1>4. ASSUME r \in reported \/ \E p \in Polls : r \in polls[p].tracked
      PROVE  r \in reported' \/ \E p \in Polls : r \in polls'[p].tracked
  BY <1>2, <1>3, <1>4, RunsStay, TrackedStays
<1>5. CASE IsEntry(r)
  BY <1>2, <1>3, <1>4, <1>5, SuppressedIsKept
<1>6. CASE ~IsEntry(r)
  BY <1>1, <1>3, <1>4, <1>6 DEF DeliveryInv, HandedIsKept
<1>7. QED BY <1>5, <1>6

(* A flush takes every entry, and delivers those not suppressed.           *)
LEMMA FlushFacts ==
    ASSUME DeliveryInv, Flush, idOf' = idOf
    PROVE  /\ entries' = <<>> /\ delivered' \in Seq(Runs)
           /\ \A r : IsDelivered(r) => IsDelivered(r)'
           /\ \A r : IsEntry(r) => IsDelivered(r)' \/ IsSuppressed(idOf[r])
           /\ \A r : IsDelivered(r)' => IsDelivered(r) \/ ~IsSuppressed(idOf[r])
<1> DEFINE K == {k \in DOMAIN entries : ~IsSuppressed(idOf[entries[k]])}
           new == Filtered(entries, K)
<1>0. entries \in Seq(Runs) /\ delivered \in Seq(Runs)
  BY DEF DeliveryInv, FlushInv, DeliveryTypeOK
<1>1. entries' = <<>> /\ delivered' = delivered \o new
  BY DEF Flush
<1> HIDE DEF K
<1>2. new \in Seq(Runs)
  BY <1>0, FilteredPositions
<1>3. PICK h \in [1..Len(new) -> K \cap 1..Len(entries)] :
          /\ \A i \in 1..Len(new) : new[i] = entries[h[i]]
          /\ \A i, j \in 1..Len(new) : i < j => h[i] < h[j]
          /\ \A k \in K \cap 1..Len(entries) : \E i \in 1..Len(new) : h[i] = k
  BY <1>0, FilteredPositions
<1> HIDE DEF new
<1>4. \A i \in 1..Len(new) : ~IsSuppressed(idOf[new[i]])
  <2> SUFFICES ASSUME NEW i \in 1..Len(new) PROVE ~IsSuppressed(idOf[new[i]])
    OBVIOUS
  <2>1. h[i] \in K /\ new[i] = entries[h[i]]
    BY <1>3
  <2>2. QED BY <2>1 DEF K
<1>5. ASSUME NEW k \in DOMAIN entries, ~IsSuppressed(idOf[entries[k]])
      PROVE  \E i \in 1..Len(new) : new[i] = entries[k]
  <2>1. k \in K \cap 1..Len(entries)
    BY <1>0, <1>5 DEF K
  <2>2. PICK i \in 1..Len(new) : h[i] = k
    BY <1>3, <2>1
  <2>3. QED BY <1>3, <2>2
<1> DEFINE N == Len(delivered)
<1>6. /\ delivered' \in Seq(Runs) /\ N \in Nat /\ Len(new) \in Nat
      /\ DOMAIN delivered = 1..N /\ DOMAIN delivered' = 1..(N + Len(new))
      /\ \A k \in 1..N : delivered'[k] = delivered[k]
      /\ \A k \in 1..Len(new) : delivered'[N + k] = new[k]
  BY <1>0, <1>1, <1>2, ConcatProperties
<1> HIDE DEF N
<1>7. ASSUME NEW r, IsDelivered(r) PROVE IsDelivered(r)'
  <2>1. PICK k \in 1..N : delivered[k] = r
    BY <1>6, <1>7 DEF IsDelivered
  <2>2. k \in DOMAIN delivered' /\ delivered'[k] = r
    BY <1>6, <2>1
  <2>3. QED BY <2>2 DEF IsDelivered
<1>8. ASSUME NEW r, IsEntry(r), ~IsSuppressed(idOf[r]) PROVE IsDelivered(r)'
  <2>1. PICK i \in 1..Len(new) : new[i] = r
    BY <1>5, <1>8 DEF IsEntry
  <2>2. N + i \in DOMAIN delivered' /\ delivered'[N + i] = r
    BY <1>6, <2>1
  <2>3. QED BY <2>2 DEF IsDelivered
<1>9. ASSUME NEW r, IsDelivered(r)', ~IsDelivered(r) PROVE ~IsSuppressed(idOf[r])
  <2>1. PICK k \in 1..(N + Len(new)) : delivered'[k] = r
    BY <1>6, <1>9 DEF IsDelivered
  <2>2. k \notin 1..N
    BY <1>6, <1>9, <2>1 DEF IsDelivered
  <2>3. k - N \in 1..Len(new) /\ N + (k - N) = k
    BY <1>6, <2>1, <2>2
  <2>4. new[k - N] = r
    BY <1>6, <2>1, <2>3
  <2>5. QED BY <1>4, <2>3, <2>4
<1>10. QED BY <1>1, <1>6, <1>7, <1>8, <1>9

(* The steps of the session. *)

(* A step that leaves the yield queue alone, or adds to it.                *)
LEMMA QueueStands ==
    ASSUME DeliveryInv, Next, handed' = handed, entries' = entries, delivered' = delivered
    PROVE  HandedIsKept'
<1>1. \A r : IsEntry(r)' <=> IsEntry(r)
  BY DEF IsEntry
<1>2. \A r : IsDelivered(r)' <=> IsDelivered(r)
  BY DEF IsDelivered
<1>3. HandedRuns' = HandedRuns
  BY DEF HandedRuns
<1>4. QED BY <1>1, <1>2, <1>3, HandedStays

LEMMA CallToolKeeps == DeliveryInv /\ CallTool => DeliveryInv'
<1> SUFFICES ASSUME DeliveryInv, CallTool PROVE DeliveryInv'
  OBVIOUS
<1>1. Next /\ UNCHANGED <<reported, handed, disposal, polls>>
  BY CallToolJobs
<1>2. JobsInv'
  BY <1>1, JobsStep DEF DeliveryInv
<1>3. FlushInv'
  <2>1. TypeOK'
    BY <1>2 DEF JobsInv
  <2>2. session' = "turn" /\ UNCHANGED <<flushVars, told, userVars>>
    BY DEF CallTool
  <2>3. QED BY <1>1, <2>1, <2>2
         DEF DeliveryInv, FlushInv, DeliveryTypeOK, PendingMeansScheduled, flushVars, userVars,
             SessionStates
<1>4. HandedIsKept'
  BY <1>1, QueueStands DEF CallTool, flushVars
<1>5. QED BY <1>1, <1>2, <1>3, <1>4 DEF DeliveryInv

LEMMA AnswerToolKeeps ==
    ASSUME DeliveryInv, NEW shown \in BOOLEAN, AnswerTool(shown)
    PROVE  DeliveryInv'
<1>1. Next /\ UNCHANGED <<handed, disposal>>
  BY AnswerToolJobs
<1>2. JobsInv'
  BY <1>1, JobsStep DEF DeliveryInv
<1>3. FlushInv'
  <2>1. TypeOK'
    BY <1>2 DEF JobsInv
  <2>2. session' = "turn" /\ UNCHANGED <<flushVars, userVars>>
    BY DEF AnswerTool
  <2>3. reported \subseteq reported'
    BY <1>1, RunsStay DEF DeliveryInv
  <2>4. told \subseteq reported
    BY DEF DeliveryInv, FlushInv, DeliveryTypeOK
  <2>5. told' \subseteq reported'
    BY <2>3, <2>4 DEF AnswerTool
  <2>6. QED BY <2>1, <2>2, <2>5
         DEF DeliveryInv, FlushInv, DeliveryTypeOK, PendingMeansScheduled, flushVars, userVars,
             SessionStates
<1>4. HandedIsKept'
  BY <1>1, QueueStands DEF AnswerTool, flushVars
<1>5. QED BY <1>1, <1>2, <1>3, <1>4 DEF DeliveryInv

LEMMA JobStepKeeps ==
    ASSUME DeliveryInv, JobStep \/ SwitchSession
    PROVE  DeliveryInv'
<1>1. Next /\ UNCHANGED <<reported, handed, disposal, polls, foreground>>
  BY JobStepJobs, SwitchSessionJobs
<1>2. JobsInv'
  BY <1>1, JobsStep DEF DeliveryInv
<1>3. UNCHANGED <<flushVars, session, told, userVars>>
  BY DEF JobStep, SwitchSession
<1>4. FlushInv'
  <2>1. TypeOK'
    BY <1>2 DEF JobsInv
  <2>2. ToolsWait' => ToolsWait
    BY <1>1 DEF ToolsWait, NotPolling
  <2>3. QED BY <1>1, <1>3, <2>1, <2>2
         DEF DeliveryInv, FlushInv, DeliveryTypeOK, PendingMeansScheduled, flushVars, userVars
<1>5. HandedIsKept'
  BY <1>1, <1>3, QueueStands DEF flushVars
<1>6. QED BY <1>1, <1>2, <1>4, <1>5 DEF DeliveryInv

LEMMA EnqueueKeeps ==
    ASSUME DeliveryInv, NEW r \in Runs, Enqueue(r)
    PROVE  DeliveryInv'
<1>1. /\ Next /\ UNCHANGED <<reported, disposal, polls, foreground>>
      /\ handed' = handed \/ handed' = Append(handed, r)
  BY EnqueueJobs
<1>2. JobsInv'
  BY <1>1, JobsStep DEF DeliveryInv
<1>3. TypeOK'
  BY <1>2 DEF JobsInv
<1>4. ToolsWait' => ToolsWait
  BY <1>1 DEF ToolsWait, NotPolling
<1>5. UNCHANGED <<session, told, userVars>>
  BY DEF Enqueue
<1>6. CASE handed' = handed
  <2>1. UNCHANGED flushVars
    BY <1>6 DEF Enqueue
  <2>2. FlushInv'
    BY <1>1, <1>3, <1>4, <1>5, <2>1
    DEF DeliveryInv, FlushInv, DeliveryTypeOK, PendingMeansScheduled, flushVars, userVars
  <2>3. HandedIsKept'
    BY <1>1, <1>6, <2>1, QueueStands DEF flushVars
  <2>4. QED BY <1>1, <1>2, <2>2, <2>3 DEF DeliveryInv
<1>7. CASE handed' # handed
  <2>1. /\ handed' = Append(handed, r) /\ entries' = Append(entries, r)
        /\ delivered' = delivered
    BY <1>1, <1>7 DEF Enqueue
  <2>2. /\ idleFlushPending' = (idleFlushPending \/ ~IsStreaming)
        /\ flushTask' = (flushTask \/ (~IsStreaming /\ ~idleFlushPending))
    BY <1>7 DEF Enqueue
  <2>3. entries \in Seq(Runs) /\ handed \in Seq(Runs)
    BY DEF DeliveryInv, FlushInv, DeliveryTypeOK, TypeOK
  <2>4. /\ entries' \in Seq(Runs)
        /\ DOMAIN entries' = 1..(Len(entries) + 1) /\ Len(entries) \in Nat
        /\ entries'[Len(entries) + 1] = r /\ DOMAIN entries = 1..Len(entries)
        /\ \A k \in 1..Len(entries) : entries'[k] = entries[k]
    BY <2>1, <2>3, AppendProperties
  <2>5. ASSUME NEW q, IsEntry(q) \/ q = r PROVE IsEntry(q)'
    <3>1. PICK k \in 1..(Len(entries) + 1) : entries'[k] = q
      BY <2>4, <2>5 DEF IsEntry
    <3>2. k \in DOMAIN entries'
      BY <2>4
    <3>3. QED BY <3>1, <3>2 DEF IsEntry
  <2>6. HandedRuns' = HandedRuns \cup {r}
    <3>1. r \in inFlight /\ JobsInv
      BY DEF Enqueue, FinishDelivery, EndDelivery, DeliveryInv
    <3>2. QED BY <2>1, <3>1, QueueTypes, HandedAnother
  <2>7. \A q : IsDelivered(q)' <=> IsDelivered(q)
    BY <2>1 DEF IsDelivered
  <2>8. HandedIsKept'
    BY <1>1, <2>5, <2>6, <2>7, HandedStays
  <2>9. FlushInv'
    <3>1. /\ idleFlushPending \in BOOLEAN /\ flushTask \in BOOLEAN
          /\ flushTask => idleFlushPending
          /\ aborts = 0 => idleFlushPending = flushTask
      BY DEF DeliveryInv, FlushInv, DeliveryTypeOK, PendingMeansScheduled
    <3>2. /\ idleFlushPending' \in BOOLEAN /\ flushTask' \in BOOLEAN
          /\ flushTask' => idleFlushPending'
          /\ aborts = 0 => idleFlushPending' = flushTask'
      BY <2>2, <3>1 DEF IsStreaming
    <3>3. DeliveryTypeOK'
      BY <1>1, <1>3, <1>4, <1>5, <2>1, <2>4, <3>2
      DEF DeliveryInv, FlushInv, DeliveryTypeOK, userVars
    <3>4. PendingMeansScheduled'
      BY <1>5, <3>2 DEF PendingMeansScheduled, userVars
    <3>5. QED BY <3>3, <3>4 DEF FlushInv
  <2>10. QED BY <1>1, <1>2, <2>8, <2>9 DEF DeliveryInv
<1>8. QED BY <1>6, <1>7

(* A flush by the end of a turn or by the task of an idle session.         *)
LEMMA FlushedIsKept ==
    ASSUME DeliveryInv, Flush, UNCHANGED jobVars
    PROVE  JobsInv' /\ HandedIsKept' /\ disposal' = "none"
<1>2. JobsInv'
  BY JobsStep DEF DeliveryInv
<1>3. idOf' = idOf /\ handed' = handed /\ disposal' = disposal
  BY SameJobs
<1>4. HandedRuns' = HandedRuns
  BY <1>3 DEF HandedRuns
<1>5. HandedIsKept'
  BY <1>3, <1>4, FlushFacts, HandedStays
<1>6. QED BY <1>2, <1>3, <1>5 DEF DeliveryInv

LEMMA LeftIsKept ==
    ASSUME DeliveryInv, UNCHANGED <<jobVars, entries, delivered>>
    PROVE  JobsInv' /\ HandedIsKept' /\ disposal' = "none"
<1>1. UNCHANGED <<status, idOf, overlapping, handed, disposal, polls, reported>>
  BY SameJobs
<1>2. JobsInv'
  BY JobsStep DEF DeliveryInv
<1>3. HandedIsKept'
  BY <1>1 DEF DeliveryInv, HandedIsKept, HandedRuns, IsEntry, IsDelivered, IdShared, Registered
<1>4. QED BY <1>1, <1>2, <1>3 DEF DeliveryInv

(* The session's own variables, when the jobs stand still.                 *)
LEMMA SameTools ==
    ASSUME DeliveryInv, UNCHANGED jobVars
    PROVE  /\ ToolsWait' <=> ToolsWait
           /\ (session = "turn" => ~ToolsWait) => ~ToolsWait /\ ~ToolsWait'
           /\ reported' = reported
<1>1. foreground' = foreground /\ polls' = polls /\ reported' = reported
  BY SameJobs
<1>2. ToolsWait' <=> ToolsWait
  BY <1>1 DEF ToolsWait, NotPolling
<1>3. ToolsWait => session = "turn"
  BY DEF DeliveryInv, FlushInv, DeliveryTypeOK
<1>4. QED BY <1>1, <1>2, <1>3

LEMMA YieldKeeps == DeliveryInv /\ Yield => DeliveryInv'
<1> SUFFICES ASSUME DeliveryInv, Yield PROVE DeliveryInv'
  OBVIOUS
<1>1. Flush /\ UNCHANGED <<jobVars, idleFlushPending, flushTask, told, userVars>>
  BY DEF Yield
<1>2. JobsInv' /\ HandedIsKept' /\ disposal' = "none"
  BY <1>1, FlushedIsKept
<1>3. entries' \in Seq(Runs) /\ delivered' \in Seq(Runs)
  BY <1>1, FlushFacts, SameJobs
<1>4. ~ToolsWait' /\ reported' = reported /\ session' \in SessionStates
  BY <1>1, SameTools DEF Yield, SessionStates
<1>5. FlushInv'
  BY <1>1, <1>2, <1>3, <1>4
  DEF DeliveryInv, FlushInv, DeliveryTypeOK, PendingMeansScheduled, userVars, JobsInv
<1>6. QED BY <1>2, <1>5 DEF DeliveryInv

LEMMA IdleFlushKeeps == DeliveryInv /\ IdleFlush => DeliveryInv'
<1> SUFFICES ASSUME DeliveryInv, IdleFlush PROVE DeliveryInv'
  OBVIOUS
<1>1. /\ UNCHANGED <<jobVars, told, userVars>>
      /\ flushTask' = FALSE /\ idleFlushPending' = FALSE
  BY DEF IdleFlush
<1>2. CASE IsStreaming
  <2>1. UNCHANGED <<entries, delivered, session>>
    BY <1>2 DEF IdleFlush
  <2>2. JobsInv' /\ HandedIsKept' /\ disposal' = "none"
    BY <1>1, <2>1, LeftIsKept
  <2>3. (ToolsWait' <=> ToolsWait) /\ reported' = reported
    BY <1>1, SameTools
  <2>4. FlushInv'
    BY <1>1, <2>1, <2>2, <2>3
    DEF DeliveryInv, FlushInv, DeliveryTypeOK, PendingMeansScheduled, userVars, JobsInv
  <2>5. QED BY <2>2, <2>4 DEF DeliveryInv
<1>3. CASE ~IsStreaming
  <2>1. Flush /\ session = "idle" /\ session' \in SessionStates
    BY <1>3 DEF IdleFlush, IsStreaming, SessionStates
  <2>2. JobsInv' /\ HandedIsKept' /\ disposal' = "none"
    BY <1>1, <2>1, FlushedIsKept
  <2>3. entries' \in Seq(Runs) /\ delivered' \in Seq(Runs)
    BY <1>1, <2>1, FlushFacts, SameJobs
  <2>4. ~ToolsWait' /\ reported' = reported
    BY <1>1, <2>1, SameTools
  <2>5. FlushInv'
    BY <1>1, <2>1, <2>2, <2>3, <2>4
    DEF DeliveryInv, FlushInv, DeliveryTypeOK, PendingMeansScheduled, userVars, JobsInv
  <2>6. QED BY <2>2, <2>5 DEF DeliveryInv
<1>4. QED BY <1>2, <1>3

TurnStep == FailTurn \/ Retry \/ EndTurn \/ Prompt \/ Abort

LEMMA TurnKeeps == DeliveryInv /\ TurnStep => DeliveryInv'
<1> SUFFICES ASSUME DeliveryInv, TurnStep PROVE DeliveryInv'
  OBVIOUS
<1> USE DEF TurnStep
<1>1. UNCHANGED <<jobVars, entries, idleFlushPending, delivered, told>>
  BY DEF FailTurn, Retry, EndTurn, Prompt, Abort, flushVars
<1>2. JobsInv' /\ HandedIsKept' /\ disposal' = "none"
  BY <1>1, LeftIsKept
<1>3. /\ session = "turn" => ~ToolsWait
      /\ session' \in SessionStates
  BY DEF FailTurn, Retry, EndTurn, Prompt, Abort, DeliveryInv, FlushInv, DeliveryTypeOK,
         SessionStates
<1>4. ~ToolsWait' /\ reported' = reported
  BY <1>1, <1>3, SameTools
<1>5. /\ flushTask' \in BOOLEAN
      /\ flushTask' => idleFlushPending
      /\ aborts' = 0 => idleFlushPending = flushTask'
      /\ prompts' \in 0..MaxPrompts /\ aborts' \in 0..MaxAborts
  <2>1. /\ flushTask \in BOOLEAN
        /\ flushTask => idleFlushPending
        /\ aborts = 0 => idleFlushPending = flushTask
        /\ prompts \in 0..MaxPrompts /\ aborts \in 0..MaxAborts
    BY DEF DeliveryInv, FlushInv, DeliveryTypeOK, PendingMeansScheduled
  <2>2. CASE FailTurn \/ Retry \/ EndTurn
    BY <2>1, <2>2 DEF FailTurn, Retry, EndTurn, flushVars, userVars
  <2>3. CASE Prompt
    BY <2>1, <2>3, DeliveryAssumption DEF Prompt, flushVars
  <2>4. CASE Abort
    <3>1. aborts < MaxAborts /\ aborts' = aborts + 1 /\ flushTask' = FALSE /\ prompts' = prompts
      BY <2>4 DEF Abort
    <3>2. MaxAborts \in Nat
      BY DeliveryAssumption
    <3>3. aborts' \in 0..MaxAborts /\ aborts' # 0
      BY <2>1, <3>1, <3>2
    <3>4. QED BY <2>1, <3>1, <3>3
  <2>5. QED BY <2>2, <2>3, <2>4
<1>6. FlushInv'
  BY <1>1, <1>2, <1>3, <1>4, <1>5
  DEF DeliveryInv, FlushInv, DeliveryTypeOK, PendingMeansScheduled, JobsInv
<1>7. QED BY <1>2, <1>6 DEF DeliveryInv

LEMMA SessionStep == DeliveryInv /\ [DeliveryNext]_deliveryVars => DeliveryInv'
<1> SUFFICES ASSUME DeliveryInv, [DeliveryNext]_deliveryVars PROVE DeliveryInv'
  OBVIOUS
<1>1. CASE UNCHANGED deliveryVars
  <2>1. UNCHANGED jobVars /\ UNCHANGED <<flushVars, session, told, userVars>>
    BY <1>1 DEF deliveryVars
  <2>2. JobsInv' /\ HandedIsKept' /\ disposal' = "none"
    BY <2>1, LeftIsKept DEF flushVars
  <2>3. (ToolsWait' <=> ToolsWait) /\ reported' = reported
    BY <2>1, SameTools
  <2>4. FlushInv'
    BY <2>1, <2>2, <2>3
    DEF DeliveryInv, FlushInv, DeliveryTypeOK, PendingMeansScheduled, flushVars, userVars, JobsInv
  <2>5. QED BY <2>2, <2>4 DEF DeliveryInv
<1>2. CASE DeliveryNext
  BY <1>2, CallToolKeeps, AnswerToolKeeps, JobStepKeeps, EnqueueKeeps, YieldKeeps,
     IdleFlushKeeps, TurnKeeps DEF DeliveryNext, TurnStep
<1>3. QED BY <1>1, <1>2

THEOREM DeliverySpecInv == DeliverySpec => []DeliveryInv
  BY DeliveryStarts, SessionStep, PTL DEF DeliverySpec

(* agent-session.ts and yield-queue.ts: no flush is pending for ever, so   *)
(* that the next result of an idle session schedules one.                  *)
THEOREM FlushesAreScheduled == DeliverySpec => []FlushInv
<1>1. DeliveryInv => FlushInv
  BY DEF DeliveryInv
<1>2. QED BY <1>1, DeliverySpecInv, PTL

(* job-manager.ts to yield-queue.ts: the outcome of a job that was not     *)
(* cancelled is on its way, in the yield queue, in the conversation or     *)
(* with a tool, whatever turns, prompts, aborts and flushes do.            *)
THEOREM EntriesAreKept == DeliverySpec => []EntryKept
<1>1. DeliveryInv => EntryKept
  <2> SUFFICES ASSUME DeliveryInv, NEW r \in Runs,
                      status[r] = "completed", ~IdShared(r)
               PROVE  \/ r \in QueuedRuns \cup inFlight \cup reported
                      \/ IsEntry(r) \/ IsDelivered(r)
                      \/ \E p \in Polls : r \in polls[p].tracked
    BY DEF EntryKept
  <2>1. \/ r \in QueuedRuns \cup inFlight \cup reported
        \/ WasHanded(r)
        \/ \E p \in Polls : r \in polls[p].tracked
    BY DEF DeliveryInv, JobsInv, ResultKept
  <2>2. ASSUME WasHanded(r)
        PROVE  \/ r \in reported \/ IsEntry(r) \/ IsDelivered(r)
               \/ \E p \in Polls : r \in polls[p].tracked
    <3>1. r \in HandedRuns
      BY <2>2 DEF HandedRuns, WasHanded
    <3>2. QED BY <3>1 DEF DeliveryInv, HandedIsKept
  <2>3. QED BY <2>1, <2>2
<1>2. QED BY <1>1, DeliverySpecInv, PTL

(* yield-queue.ts and sdk.ts, isStale: the flush drops an entry whose      *)
(* result a tool has answered with, as long as the job is known.           *)
THEOREM NoneToldTwice == DeliverySpec => NotToldTwice
<1>1. ASSUME DeliveryInv, [DeliveryNext]_deliveryVars, NEW r \in reported, ~IsDelivered(r), IsDelivered(r)'
      PROVE  jobs[idOf[r]] # r
  <2>1. delivered' # delivered
    BY <1>1 DEF IsDelivered
  <2>2. Flush /\ UNCHANGED jobVars
    BY <1>1, <2>1 DEF DeliveryNext, deliveryVars, flushVars, CallTool, AnswerTool, JobStep, Enqueue, Yield,
                      IdleFlush, FailTurn, Retry, EndTurn, Prompt, Abort, SwitchSession
  <2>3. ~IsSuppressed(idOf[r])
    BY <1>1, <2>2, FlushFacts, SameJobs
  <2>4. QED BY <1>1, <2>3
         DEF DeliveryInv, JobsInv, CallersOK, ReportedIsSuppressed, IsSuppressed
<1>2. DeliveryInv /\ [DeliveryNext]_deliveryVars =>
          [\A r \in reported : ~IsDelivered(r) /\ IsDelivered(r)' => jobs[idOf[r]] # r]_deliveryVars
  BY <1>1
<1>3. QED BY <1>2, DeliverySpecInv, PTL DEF DeliverySpec, NotToldTwice
=============================================================================
