---------------------------- MODULE RequestProofs ----------------------------
(***************************************************************************)
(* Requests over any cassette, with any number of clients, questions,      *)
(* answers and processes: what a process keeps and what the file says      *)
(* agree, and a replay gives out what was recorded.                        *)
(*                                                                         *)
(* Neither is inductive.  A process that has not read its file yet must    *)
(* hold nothing, or reading would not make the two equal; a replay must    *)
(* never be marked unsaved, and no request of one may wait for the model,  *)
(* whose answer it would get instead.  That a key has one line in the      *)
(* cassette makes looking it up a function of the key.                     *)
(***************************************************************************)
EXTENDS ModelRequests, SequenceTheorems, TLAPS

Lines == [key : Keys, response : Responses]

CassetteTypeOK ==
  /\ exists \in BOOLEAN /\ loaded \in BOOLEAN /\ dirty \in BOOLEAN
  /\ file \in Seq(Lines) /\ entries \in Seq(Lines)
  /\ mode \in Modes
  /\ faults \in Nat

UnreadIsEmpty == ~loaded => entries = <<>> /\ ~dirty

ReplaySavesNothing == mode = "replay" => ~dirty

Distinct(lines) == \A i, j \in DOMAIN lines : lines[i].key = lines[j].key => i = j

OneLineEach == Distinct(file) /\ Distinct(entries)

CassetteInv ==
  CassetteTypeOK /\ UnreadIsEmpty /\ ReplaySavesNothing /\ OneLineEach /\ CleanMeansSaved

RequestsTypeOK ==
  /\ request \in [Clients -> Requests]
  /\ bridged \in BOOLEAN /\ layered \in BOOLEAN
  /\ supported \in {None, TRUE, FALSE}
  /\ sessions \in Nat
  /\ \A c \in Clients : request[c].at # "idle" => request[c].key \in Keys

ReplayNeverAsks ==
  mode = "replay" /\ ~layered => \A c \in Clients : request[c].at = "idle"

RequestsInv == RequestsTypeOK /\ ReplayNeverAsks /\ ReplayGivesRecorded

IInv == CassetteInv /\ RequestsInv

-----------------------------------------------------------------------------
(* The lines of a cassette *)

LEMMA RecordedIsThere ==
  ASSUME NEW lines \in Seq(Lines), NEW k \in KeysOf(lines)
  PROVE  /\ \E i \in DOMAIN lines : lines[i].key = k /\ Recorded(lines, k) = lines[i].response
         /\ Recorded(lines, k) \in Responses
<1>1. PICK i \in DOMAIN lines : lines[i].key = k /\ Recorded(lines, k) = lines[i].response
  BY DEF KeysOf, Recorded
<1>2. lines[i] \in Lines
  BY ElementOfSeq, LenProperties
<1>3. QED
  BY <1>1, <1>2 DEF Lines

LEMMA StoredTyped ==
  ASSUME NEW lines \in Seq(Lines), NEW k \in Keys, NEW r \in Responses
  PROVE  Stored(lines, k, r) \in Seq(Lines)
<1> DEFINE new == [key |-> k, response |-> r]
<1>1. new \in Lines
  BY DEF Lines
<1>2. CASE k \in KeysOf(lines)
  <2> DEFINE put == [i \in DOMAIN lines |-> IF lines[i].key = k THEN new ELSE lines[i]]
  <2>1. put \in [1 .. Len(lines) -> Lines]
    BY <1>1, LenProperties
  <2>2. put \in Seq(Lines)
    BY <2>1, LenProperties
  <2>3. Stored(lines, k, r) = put
    BY <1>2 DEF Stored
  <2>4. QED
    BY <2>2, <2>3
<1>3. CASE k \notin KeysOf(lines)
  BY <1>1, <1>3 DEF Stored
<1>4. QED
  BY <1>2, <1>3

LEMMA StoredDistinct ==
  ASSUME NEW lines \in Seq(Lines), Distinct(lines), NEW k \in Keys, NEW r \in Responses
  PROVE  Distinct(Stored(lines, k, r))
<1>1. CASE k \in KeysOf(lines)
  BY <1>1 DEF Stored, Distinct
<1>2. CASE k \notin KeysOf(lines)
  <2>1. \A i \in 1 .. Len(lines) : lines[i].key # k
    BY <1>2, LenProperties DEF KeysOf
  <2>2. Stored(lines, k, r) = Append(lines, [key |-> k, response |-> r])
    BY <1>2 DEF Stored
  <2>3. QED
    BY <2>1, <2>2, LenProperties DEF Distinct
<1>3. QED
  BY <1>1, <1>2

\* What is put is what is found afterwards, and what was recorded under the
\* other keys stays (put, get): a record replaced in place, or added, touches
\* no other.
THEOREM PutThenGet ==
  ASSUME NEW lines \in Seq(Lines), Distinct(lines), NEW k \in Keys, NEW r \in Responses
  PROVE  /\ KeysOf(Stored(lines, k, r)) = KeysOf(lines) \union {k}
         /\ Recorded(Stored(lines, k, r), k) = r
         /\ \A j \in KeysOf(lines) \ {k} :
              Recorded(Stored(lines, k, r), j) = Recorded(lines, j)
<1> DEFINE put == Stored(lines, k, r)
<1>1. put \in Seq(Lines) /\ Distinct(put)
  BY StoredTyped, StoredDistinct
<1>2. /\ \A i \in DOMAIN put : put[i].key = k => put[i].response = r
      /\ \A i \in DOMAIN lines : lines[i].key # k => i \in DOMAIN put /\ put[i] = lines[i]
      /\ KeysOf(put) = KeysOf(lines) \union {k}
  <2>1. CASE k \in KeysOf(lines)
    BY <2>1 DEF Stored, KeysOf
  <2>2. CASE k \notin KeysOf(lines)
    <3>1. \A i \in 1 .. Len(lines) : lines[i].key # k
      BY <2>2, LenProperties DEF KeysOf
    <3>2. put = Append(lines, [key |-> k, response |-> r])
      BY <2>2 DEF Stored
    <3>3. /\ DOMAIN put = 1 .. Len(lines) + 1
          /\ DOMAIN lines = 1 .. Len(lines)
          /\ \A i \in 1 .. Len(lines) : put[i] = lines[i]
          /\ put[Len(lines) + 1] = [key |-> k, response |-> r]
          /\ Len(lines) \in Nat
      BY <3>2, LenProperties
    <3>4. QED
      BY <3>1, <3>3 DEF KeysOf
  <2>3. QED
    BY <2>1, <2>2
<1> HIDE DEF put
<1>3. Recorded(put, k) = r
  BY <1>1, <1>2, RecordedIsThere
<1>4. ASSUME NEW j \in KeysOf(lines) \ {k} PROVE Recorded(put, j) = Recorded(lines, j)
  <2>1. PICK i \in DOMAIN lines : lines[i].key = j /\ Recorded(lines, j) = lines[i].response
    BY RecordedIsThere
  <2>2. PICK h \in DOMAIN put : put[h].key = j /\ Recorded(put, j) = put[h].response
    BY <1>1, <1>2, RecordedIsThere
  <2>3. i = h
    BY <1>1, <1>2, <2>1, <2>2 DEF Distinct
  <2>4. QED
    BY <1>2, <2>1, <2>2, <2>3
<1>5. QED
  BY <1>2, <1>3, <1>4 DEF put

LEMMA PrefixDistinct ==
  ASSUME NEW lines \in Seq(Lines), Distinct(lines), NEW n \in 0 .. Len(lines)
  PROVE  SubSeq(lines, 1, n) \in Seq(Lines) /\ Distinct(SubSeq(lines, 1, n))
<1>1. Len(lines) \in Nat /\ DOMAIN lines = 1 .. Len(lines) /\ \A i \in 1 .. n : lines[i] \in Lines
  BY LenProperties, ElementOfSeq
<1>2. /\ SubSeq(lines, 1, n) \in Seq(Lines)
      /\ Len(SubSeq(lines, 1, n)) = n
      /\ \A i \in 1 .. n : SubSeq(lines, 1, n)[i] = lines[i]
  BY <1>1, SubSeqProperties
<1>3. DOMAIN SubSeq(lines, 1, n) = 1 .. n
  BY <1>2, LenProperties
<1>4. QED
  BY <1>1, <1>2, <1>3 DEF Distinct

-----------------------------------------------------------------------------
(* What each step does to the cassette *)

LEMMA NothingBefore ==
  ASSUME CassetteInv
  PROVE  /\ Loaded \in Seq(Lines) /\ Distinct(Loaded)
         /\ ~dirty /\ faults = 0 => Loaded = file
  BY ConcatEmptySeq DEF CassetteInv, CassetteTypeOK, UnreadIsEmpty, CleanMeansSaved, OneLineEach, Loaded

LEMMA GetKeeps ==
  ASSUME CassetteInv, Get, UNCHANGED faults PROVE CassetteInv'
  BY NothingBefore
  DEF Get, CassetteInv, CassetteTypeOK, UnreadIsEmpty, ReplaySavesNothing, CleanMeansSaved, OneLineEach

LEMMA LoadFailsKeeps ==
  ASSUME CassetteInv, LoadFails PROVE CassetteInv'
  BY DEF LoadFails, GetFails, CassetteInv, CassetteTypeOK, UnreadIsEmpty, ReplaySavesNothing,
         CleanMeansSaved, OneLineEach

LEMMA PutKeeps ==
  ASSUME CassetteInv, NEW k \in Keys, NEW r \in Responses, Put(k, r), UNCHANGED faults
  PROVE  CassetteInv'
<1>1. CASE mode = "replay"
  BY <1>1 DEF Put, cassetteVars, CassetteInv, CassetteTypeOK, UnreadIsEmpty, ReplaySavesNothing,
              CleanMeansSaved, OneLineEach
<1>2. CASE mode # "replay"
  <2>1. Stored(Loaded, k, r) \in Seq(Lines) /\ Distinct(Stored(Loaded, k, r))
    BY NothingBefore, StoredTyped, StoredDistinct
  <2>2. QED
    BY <1>2, <2>1
    DEF Put, CassetteInv, CassetteTypeOK, UnreadIsEmpty, ReplaySavesNothing, CleanMeansSaved,
        OneLineEach
<1>3. QED
  BY <1>1, <1>2

LEMMA StutterKeeps ==
  ASSUME CassetteInv, UNCHANGED <<cassetteVars, faults>> PROVE CassetteInv'
  BY DEF cassetteVars, CassetteInv, CassetteTypeOK, UnreadIsEmpty, ReplaySavesNothing,
         CleanMeansSaved, OneLineEach

LEMMA FlushKeeps ==
  ASSUME CassetteInv, Flush, UNCHANGED faults PROVE CassetteInv'
  BY DEF Flush, CassetteInv, CassetteTypeOK, UnreadIsEmpty, ReplaySavesNothing, CleanMeansSaved,
         OneLineEach

LEMMA FlushFailsKeeps ==
  ASSUME CassetteInv, FlushFails, faults' = faults + 1 PROVE CassetteInv'
<1>1. PICK n \in 0 .. Len(entries) - 1 : file' = SubSeq(entries, 1, n)
  BY DEF FlushFails
<1>2. entries \in Seq(Lines) /\ Distinct(entries) /\ Len(entries) \in Nat
  BY LenProperties DEF CassetteInv, CassetteTypeOK, OneLineEach
<1>3. n \in 0 .. Len(entries)
  BY <1>2
<1>4. file' \in Seq(Lines) /\ Distinct(file')
  BY <1>1, <1>2, <1>3, PrefixDistinct
<1>5. QED
  BY <1>4
  DEF FlushFails, CassetteInv, CassetteTypeOK, UnreadIsEmpty, ReplaySavesNothing, CleanMeansSaved,
      OneLineEach

LEMMA ReopenKeeps ==
  ASSUME CassetteInv, NEW m \in Modes, Reopen(m), UNCHANGED faults PROVE CassetteInv'
<1>1. entries' \in Seq(Lines) /\ DOMAIN entries' = {}
  BY EmptySeq, LenProperties DEF Reopen
<1>2. Distinct(entries') /\ Distinct(file')
  BY <1>1 DEF Reopen, Distinct, CassetteInv, OneLineEach
<1>3. QED
  BY <1>1, <1>2
  DEF Reopen, CassetteInv, CassetteTypeOK, UnreadIsEmpty, ReplaySavesNothing, CleanMeansSaved,
      OneLineEach

-----------------------------------------------------------------------------
(* What a turn of one client does to the requests *)

Given == Answers \union {Repaired, Fallback, None}

LEMMA ServedTyped ==
  ASSUME NEW k \in Keys, NEW r \in Responses
  PROVE  Served(k, r) \in Answers \union {Repaired, Fallback} /\ Wrapped(k, r) \in Responses
  BY DEF Served, Wrapped, Responses

LEMMA RequestsTyped ==
  /\ Idle(None, None) \in Requests
  /\ \A k \in Keys, g \in Given : Idle(k, g) \in Requests
  /\ \A k \in Keys, n \in 0 .. MaxRetries : Asking(k, n) \in Requests /\ Pausing(k, n) \in Requests
  BY RequestsAssumption DEF Idle, Asking, Pausing, Requests, Given

\* A client may turn to t when, in a replay over a plain cassette, t does not
\* wait and is what was recorded.
Rightly(t) ==
  mode = "replay" /\ ~layered =>
    /\ t.at = "idle"
    /\ faults' = 0 /\ t.key # None =>
         t.given = IF t.key \in KeysOf(file)
                   THEN Served(t.key, Recorded(file, t.key))
                   ELSE Fallback

LEMMA OneTurns ==
  ASSUME RequestsInv, faults \in Nat, faults' \in Nat, faults' = 0 => faults = 0,
         NEW c \in Clients, NEW t \in Requests, Turn(c, t), Rightly(t),
         t.at # "idle" => t.key \in Keys,
         supported' \in {None, TRUE, FALSE},
         UNCHANGED <<mode, file, bridged, layered, sessions>>
  PROVE  RequestsInv'
<1>1. /\ request' \in [Clients -> Requests]
      /\ request'[c] = t
      /\ \A d \in Clients \ {c} : request'[d] = request[d]
  BY DEF Turn, RequestsInv, RequestsTypeOK
<1>2. RequestsTypeOK'
  BY <1>1 DEF RequestsInv, RequestsTypeOK
<1>3. ReplayNeverAsks'
  BY <1>1 DEF RequestsInv, ReplayNeverAsks, Rightly
<1>4. ReplayGivesRecorded'
  BY <1>1 DEF RequestsInv, ReplayGivesRecorded, Rightly
<1>5. QED
  BY <1>2, <1>3, <1>4 DEF RequestsInv

\* A request that was under way ends: over a plain cassette this is not a
\* replay.
LEMMA OneEnds ==
  ASSUME RequestsInv, faults \in Nat, faults' \in Nat, faults' = 0 => faults = 0,
         NEW c \in Clients, request[c].at # "idle", NEW g \in Given, Give(c, g),
         supported' \in {None, TRUE, FALSE},
         UNCHANGED <<mode, file, bridged, layered, sessions>>
  PROVE  RequestsInv'
<1> DEFINE t == Over(request[c].key, g)
<1>1. request[c].key \in Keys \union {None}
  BY DEF RequestsInv, RequestsTypeOK, Requests
<1>2. t \in Requests
  BY <1>1, RequestsAssumption DEF Over, Idle, Requests, Given
<1>3. Rightly(t) /\ t.at = "idle"
  BY DEF Rightly, RequestsInv, ReplayNeverAsks, Over, Idle
<1>4. Turn(c, t)
  BY DEF Give
<1> HIDE DEF t
<1>5. QED
  BY <1>2, <1>3, <1>4, OneTurns

-----------------------------------------------------------------------------
(* The steps *)

\* The parts of the invariant that most steps need.
LEMMA Basics ==
  ASSUME IInv
  PROVE  /\ CassetteInv /\ RequestsInv
         /\ faults \in Nat /\ faults + 1 \in Nat \ {0}
         /\ supported \in {None, TRUE, FALSE}
         /\ mode = "replay" => ~dirty
         /\ \A c \in Clients :
              /\ request[c] \in Requests
              /\ request[c].at # "idle" => request[c].key \in Keys
<1>1. CassetteInv /\ RequestsInv
  BY DEF IInv
<1>2. faults \in Nat /\ faults + 1 \in Nat \ {0} /\ (mode = "replay" => ~dirty)
  BY <1>1 DEF CassetteInv, CassetteTypeOK, ReplaySavesNothing
<1>3. request \in [Clients -> Requests] /\ supported \in {None, TRUE, FALSE}
  BY <1>1 DEF RequestsInv, RequestsTypeOK
<1>4. \A c \in Clients : request[c] \in Requests
  BY <1>3
<1>5. \A c \in Clients : request[c].at # "idle" => request[c].key \in Keys
  BY <1>1 DEF RequestsInv, RequestsTypeOK
<1>6. QED
  BY <1>1, <1>2, <1>3, <1>4, <1>5

LEMMA BeginRecordedKeeps ==
  ASSUME IInv, NEW c \in Clients, NEW k \in Keys, BeginRecorded(c, k) PROVE IInv'
<1> DEFINE g == Served(k, Recorded(Loaded, k))
           t == Over(k, g)
<1>1. Recorded(Loaded, k) \in Responses
  BY Basics, NothingBefore, RecordedIsThere DEF BeginRecorded, Hits
<1>2. g \in Given
  BY <1>1, ServedTyped DEF Given
<1>3. t \in Requests /\ t.at = "idle"
  BY <1>2, RequestsTyped DEF Over, Idle
<1>4. Rightly(t)
  BY Basics, NothingBefore DEF Rightly, Over, Idle, BeginRecorded, Hits
<1>5. Turn(c, t)
  BY DEF BeginRecorded
<1> HIDE DEF g, t
<1>6. CassetteInv'
  BY Basics, GetKeeps DEF BeginRecorded
<1>7. RequestsInv'
  BY Basics, <1>3, <1>4, <1>5, OneTurns DEF BeginRecorded, Get
<1>8. QED
  BY <1>6, <1>7 DEF IInv

LEMMA BeginMissedKeeps ==
  ASSUME IInv, NEW c \in Clients, NEW k \in Keys, BeginMissed(c, k) PROVE IInv'
<1> DEFINE t == Over(k, Fallback)
<1>1. t \in Requests /\ t.at = "idle"
  BY RequestsTyped DEF Over, Idle, Given
<1>2. Rightly(t)
  BY Basics, NothingBefore DEF Rightly, Over, Idle, BeginMissed, Hits
<1>3. Turn(c, t)
  BY DEF BeginMissed
<1> HIDE DEF t
<1>4. CassetteInv'
  BY Basics, GetKeeps DEF BeginMissed
<1>5. RequestsInv'
  BY Basics, <1>1, <1>2, <1>3, OneTurns DEF BeginMissed, Get
<1>6. QED
  BY <1>4, <1>5 DEF IInv

LEMMA BeginUnreadKeeps ==
  ASSUME IInv, NEW c \in Clients, NEW k \in Keys, BeginUnread(c, k) PROVE IInv'
<1> DEFINE t == Over(k, Fallback)
<1>1. t \in Requests /\ t.at = "idle"
  BY RequestsTyped DEF Over, Idle, Given
<1>2. Rightly(t)
  BY Basics, <1>1 DEF Rightly, BeginUnread, LoadFails
<1>3. Turn(c, t)
  BY DEF BeginUnread
<1> HIDE DEF t
<1>4. CassetteInv'
  BY Basics, LoadFailsKeeps DEF BeginUnread
<1>5. RequestsInv'
  BY Basics, <1>1, <1>2, <1>3, OneTurns DEF BeginUnread, LoadFails, GetFails
<1>6. QED
  BY <1>4, <1>5 DEF IInv

LEMMA BeginAskingKeeps ==
  ASSUME IInv, NEW c \in Clients, NEW k \in Keys, BeginAsking(c, k) PROVE IInv'
<1>1. Asking(k, 0) \in Requests /\ Asking(k, 0).key = k
  BY RequestsTyped, RequestsAssumption DEF Asking
<1>2. Rightly(Asking(k, 0))
  BY DEF Rightly, BeginAsking
<1>3. CassetteInv'
  BY Basics, GetKeeps DEF BeginAsking
<1>4. RequestsInv'
  BY Basics, <1>1, <1>2, OneTurns DEF BeginAsking, Get
<1>5. QED
  BY <1>3, <1>4 DEF IInv

LEMMA BeginLayeredKeeps ==
  ASSUME IInv, NEW c \in Clients, NEW k \in Keys, BeginLayered(c, k) PROVE IInv'
<1>1. Asking(k, 0) \in Requests /\ Asking(k, 0).key = k
  BY RequestsTyped, RequestsAssumption DEF Asking
<1>2. Rightly(Asking(k, 0))
  BY DEF Rightly, BeginLayered, LooksFirst
<1>3. CassetteInv'
  BY Basics, StutterKeeps DEF BeginLayered
<1>4. RequestsInv'
  BY Basics, <1>1, <1>2, OneTurns DEF BeginLayered, cassetteVars
<1>5. QED
  BY <1>3, <1>4 DEF IInv

\* The attempts of a client go on where a request waits already.
LEMMA AttemptsKeep ==
  ASSUME IInv, NEW c \in Clients, Pause(c) \/ Retry(c) \/ Cancelled(c) PROVE IInv'
<1> USE DEF cassetteVars
<1>1. CassetteInv'
  BY Basics, StutterKeeps DEF Pause, Retry, Cancelled
<1>2. CASE Cancelled(c)
  <2>1. Fallback \in Given
    BY DEF Given
  <2>2. RequestsInv'
    BY Basics, <1>2, <2>1, OneEnds DEF Cancelled
  <2>3. QED
    BY <1>1, <2>2 DEF IInv
<1>3. CASE Pause(c) \/ Retry(c)
  <2>1. request[c].at # "idle" /\ request[c].key \in Keys /\ request[c].failures \in 0 .. MaxRetries
    BY <1>3, Basics DEF Pause, Retry, Requests
  <2>2. PICK t \in Requests : Turn(c, t) /\ t.key \in Keys
    <3>1. CASE Pause(c)
      <4>1. request[c].failures + 1 \in 0 .. MaxRetries
        BY <2>1, <3>1, RequestsAssumption DEF Pause, LastAttempt
      <4>2. Pausing(request[c].key, request[c].failures + 1) \in Requests
        BY <2>1, <4>1, RequestsTyped
      <4>3. QED
        BY <2>1, <3>1, <4>2 DEF Pause, Pausing
    <3>2. CASE Retry(c)
      <4>1. Asking(request[c].key, request[c].failures) \in Requests
        BY <2>1, RequestsTyped
      <4>2. QED
        BY <2>1, <3>2, <4>1 DEF Retry, Asking
    <3>3. QED
      BY <1>3, <3>1, <3>2
  <2>4. Rightly(t)
    BY Basics, <2>1 DEF Rightly, RequestsInv, ReplayNeverAsks
  <2>5. RequestsInv'
    BY Basics, <1>3, <2>2, <2>4, OneTurns DEF Pause, Retry
  <2>6. QED
    BY <1>1, <2>5 DEF IInv
<1>4. QED
  BY <1>2, <1>3

LEMMA EndCachedKeeps ==
  ASSUME IInv, NEW c \in Clients, NEW r \in Responses, EndCached(c, r) PROVE IInv'
<1>1. request[c].at # "idle" /\ request[c].key \in Keys
  BY Basics DEF EndCached, Ends
<1>2. Served(request[c].key, r) \in Given
  BY <1>1, ServedTyped DEF Given
<1>3. CASE Put(request[c].key, r) /\ UNCHANGED faults
  <2>1. CassetteInv'
    BY <1>1, <1>3, Basics, PutKeeps
  <2>2. RequestsInv'
    BY <1>1, <1>2, <1>3, Basics, OneEnds DEF EndCached, Serve, Put, cassetteVars
  <2>3. QED
    BY <2>1, <2>2 DEF IInv
<1>4. CASE LoadFails
  <2>1. CassetteInv'
    BY <1>4, Basics, LoadFailsKeeps
  <2>2. RequestsInv'
    BY <1>1, <1>2, <1>4, Basics, OneEnds DEF EndCached, Serve, LoadFails, GetFails
  <2>3. QED
    BY <2>1, <2>2 DEF IInv
<1>5. QED
  BY <1>3, <1>4 DEF EndCached

LEMMA EndSupportedKeeps ==
  ASSUME IInv, NEW c \in Clients, NEW r \in Responses, NEW b \in BOOLEAN, EndSupported(c, r, b)
  PROVE  IInv'
<1>1. request[c].at # "idle" /\ request[c].key \in Keys
  BY Basics DEF EndSupported, Ends
<1>2. Served(request[c].key, Wrapped(request[c].key, r)) \in Given
  BY <1>1, ServedTyped DEF Given
<1>3. CassetteInv'
  BY Basics, StutterKeeps DEF EndSupported
<1>4. RequestsInv'
  BY <1>1, <1>2, Basics, OneEnds DEF EndSupported, Serve, cassetteVars
<1>5. QED
  BY <1>3, <1>4 DEF IInv

LEMMA EndReplacedKeeps ==
  ASSUME IInv, NEW c \in Clients, NEW r \in Responses, NEW b \in BOOLEAN, EndReplaced(c, r, b)
  PROVE  IInv'
<1>1. request[c].at # "idle" /\ request[c].key \in Keys
  BY Basics DEF EndReplaced, Ends
<1>2. Recorded(Loaded, request[c].key) \in Responses
  BY Basics, NothingBefore, RecordedIsThere DEF EndReplaced, Hits
<1>3. Served(request[c].key, Recorded(Loaded, request[c].key)) \in Given
  BY <1>1, <1>2, ServedTyped DEF Given
<1>4. CassetteInv'
  BY Basics, GetKeeps DEF EndReplaced
<1>5. RequestsInv'
  BY <1>1, <1>3, Basics, OneEnds DEF EndReplaced, Serve, Get
<1>6. QED
  BY <1>4, <1>5 DEF IInv

LEMMA EndRecordedKeeps ==
  ASSUME IInv, NEW c \in Clients, NEW r \in Responses, NEW b \in BOOLEAN, EndRecorded(c, r, b)
  PROVE  IInv'
<1> DEFINE w == Wrapped(request[c].key, r)
<1>1. request[c].at # "idle" /\ request[c].key \in Keys
  BY Basics DEF EndRecorded, Ends
<1>2. w \in Responses /\ Served(request[c].key, w) \in Given
  BY <1>1, ServedTyped DEF Given
<1>3. /\ IF mode = "replay" THEN Get ELSE Put(request[c].key, w)
      /\ Give(c, Served(request[c].key, w))
      /\ UNCHANGED faults
  BY DEF EndRecorded, Serve
<1> HIDE DEF w
<1>4. CassetteInv'
  BY <1>1, <1>2, <1>3, Basics, GetKeeps, PutKeeps
<1>5. UNCHANGED <<file, mode>>
  BY <1>3 DEF Get, Put, cassetteVars
<1>6. RequestsInv'
  BY <1>1, <1>2, <1>3, <1>5, Basics, OneEnds DEF EndRecorded
<1>7. QED
  BY <1>4, <1>6 DEF IInv

LEMMA EndUnreadKeeps ==
  ASSUME IInv, NEW c \in Clients, NEW r \in Responses, NEW b \in BOOLEAN, EndUnread(c, r, b)
  PROVE  IInv'
<1>1. request[c].at # "idle" /\ Fallback \in Given
  BY DEF EndUnread, Ends, Given
<1>2. CassetteInv'
  BY Basics, LoadFailsKeeps DEF EndUnread
<1>3. RequestsInv'
  BY <1>1, Basics, OneEnds DEF EndUnread, LoadFails, GetFails
<1>4. QED
  BY <1>2, <1>3 DEF IInv

LEMMA RaisesKeeps ==
  ASSUME IInv, NEW c \in Clients, Raises(c) PROVE IInv'
<1>1. request[c].at # "idle" /\ request[c].key \in Keys /\ Fallback \in Given
  BY Basics DEF Raises, Given
<1>2. PICK g \in Given : Give(c, g)
  <2>1. ASSUME Hits(request[c].key), layered
        PROVE  Served(request[c].key, Recorded(Loaded, request[c].key)) \in Given
    BY <1>1, <2>1, Basics, NothingBefore, RecordedIsThere, ServedTyped DEF Hits, Given
  <2>2. QED
    BY <1>1, <2>1 DEF Raises, Serve
<1>3. CassetteInv'
  BY Basics, StutterKeeps, GetKeeps, LoadFailsKeeps DEF Raises
<1>4. RequestsInv'
  BY <1>1, <1>2, Basics, OneEnds DEF Raises, cassetteVars, Get, LoadFails, GetFails
<1>5. QED
  BY <1>3, <1>4 DEF IInv

LEMMA SaveKeeps ==
  ASSUME IInv, SaveCassette \/ SaveFails PROVE IInv'
<1>1. CassetteInv'
  BY Basics, FlushKeeps, FlushFailsKeeps DEF SaveCassette, SaveFails, requestVars
<1>2. RequestsInv'
  BY Basics
  DEF SaveCassette, SaveFails, Flush, FlushFails, requestVars, RequestsInv, RequestsTypeOK,
      ReplayNeverAsks, ReplayGivesRecorded
<1>3. QED
  BY <1>1, <1>2 DEF IInv

LEMMA RestartKeeps ==
  ASSUME IInv, NEW m \in UsedModes, Restart(m) PROVE IInv'
<1>1. CassetteInv'
  BY RequestsAssumption, Basics, ReopenKeeps DEF Restart
<1>2. \A c \in Clients : request'[c] = Idle(None, None)
  BY DEF Restart
<1>3. RequestsTypeOK'
  BY <1>2, Basics, RequestsTyped DEF Restart, Reopen, RequestsInv, RequestsTypeOK, Idle
<1>4. ReplayNeverAsks' /\ ReplayGivesRecorded'
  BY <1>2 DEF ReplayNeverAsks, ReplayGivesRecorded, Idle
<1>5. QED
  BY <1>1, <1>3, <1>4 DEF IInv, RequestsInv

LEMMA InitEstablishes == Init => IInv
<1> SUFFICES ASSUME Init PROVE IInv
  OBVIOUS
<1>1. file \in Seq(Lines) /\ entries = file /\ DOMAIN file = {}
  BY EmptySeq, LenProperties DEF Init, CassetteInit
<1>2. CassetteInv
  BY <1>1, RequestsAssumption
  DEF Init, CassetteInit, CassetteInv, CassetteTypeOK, UnreadIsEmpty, ReplaySavesNothing,
      CleanMeansSaved, OneLineEach, Distinct
<1>3. \A c \in Clients : request[c] = Idle(None, None)
  BY DEF Init
<1>4. RequestsInv
  BY <1>3, RequestsTyped
  DEF Init, RequestsInv, RequestsTypeOK, ReplayNeverAsks, ReplayGivesRecorded, Idle
<1>5. QED
  BY <1>2, <1>4 DEF IInv

LEMMA NextKeeps == IInv /\ [Next]_vars => IInv'
<1> SUFFICES ASSUME IInv, [Next]_vars PROVE IInv'
  OBVIOUS
<1>1. ASSUME NEW c \in Clients, NEW k \in Keys,
             \/ BeginRecorded(c, k) \/ BeginMissed(c, k) \/ BeginUnread(c, k)
             \/ BeginAsking(c, k) \/ BeginLayered(c, k)
      PROVE  IInv'
  BY <1>1, BeginRecordedKeeps, BeginMissedKeeps, BeginUnreadKeeps, BeginAskingKeeps, BeginLayeredKeeps
<1>2. ASSUME NEW c \in Clients, Proceed(c) \/ Cancelled(c) PROVE IInv'
  BY <1>2, AttemptsKeep, EndCachedKeeps, EndSupportedKeeps, EndReplacedKeeps, EndRecordedKeeps,
     EndUnreadKeeps, RaisesKeeps DEF Proceed
<1>3. CASE UNCHANGED vars
  <2>1. CassetteInv'
    BY <1>3, Basics, StutterKeeps DEF vars, requestVars
  <2>2. RequestsInv'
    BY <1>3, Basics
    DEF vars, cassetteVars, requestVars, RequestsInv, RequestsTypeOK, ReplayNeverAsks,
        ReplayGivesRecorded
  <2>3. QED
    BY <2>1, <2>2 DEF IInv
<1>4. QED
  BY <1>1, <1>2, <1>3, SaveKeeps, RestartKeeps DEF Next

\* The inductive invariant holds in every reachable state.
THEOREM RequestsInvariant == Spec => []IInv
  BY InitEstablishes, NextKeeps, PTL DEF Spec

\* What a process holds and has not marked unsaved is what its file says, as
\* long as no read and no write failed (get, put and flush).
THEOREM CleanIsSaved == Spec => []CleanMeansSaved
<1>1. IInv => CleanMeansSaved
  BY DEF IInv, CassetteInv
<1>2. QED
  BY <1>1, RequestsInvariant, PTL

\* A replay over the caching adapter answers what was recorded with what was
\* recorded, and everything else with the fallback.
THEOREM ReplayIsFaithful == Spec => []ReplayGivesRecorded
<1>1. IInv => ReplayGivesRecorded
  BY DEF IInv, RequestsInv
<1>2. QED
  BY <1>1, RequestsInvariant, PTL

\* A key has one line in the file and one entry in the process, whatever
\* fails: no recording is ever shadowed by an older one of the same key.
THEOREM OneRecordingPerKey == Spec => []OneLineEach
<1>1. IInv => OneLineEach
  BY DEF IInv, CassetteInv
<1>2. QED
  BY <1>1, RequestsInvariant, PTL

=============================================================================
