------------------------- MODULE ApiIngestion_proofs -------------------------
(***************************************************************************)
(* Proofs about RestApiClient and ApiIngestion, for every set of records,  *)
(* every retry policy and every bound.                                     *)
(***************************************************************************)
EXTENDS ApiIngestion, SequenceLemmas

(***************************************************************************)
(* The inductive invariant of the client.                                  *)
(***************************************************************************)
\* A call of fetch_all has yielded what comes before its cursor.
ProgressInv ==
  pc \in Fetching =>
    /\ feed \in Feeds /\ error = "none"
    /\ cursor <= Len(feed)
    /\ yielded = Upto(feed, cursor)
    /\ pc = "yield" => page = PageAt(cursor)
    /\ pc = "backoff" => attempt < MaxAttempts

EndInv ==
  /\ pc = "done" => error = "none"
  /\ pc = "failed" => error # "none"

\* A throttle that sleeps ends no sooner than the interval; up to the first
\* retry the last call is the one that was stamped.
TimeInv ==
  /\ pc = "wait" /\ sleeps => sinceStamp + sleeping >= MinInterval
  /\ pc \in Fetching /\ attempt = 1 => sinceCall = sinceStamp

ClientInv == ClientTypeOK /\ ProgressInv /\ EndInv /\ TimeInv /\ FeedYieldedOnce

(***************************************************************************)
(* The inductive invariant of the job around it.                           *)
(***************************************************************************)
\* There is a client just while the job fetches.
ClientOpenInv == step = "fetch" <=> pc # "idle"

\* A run that fetched has the whole feed, and takes its watermark from it.
FetchedInv ==
  step \in {"land", "quality", "reconcile"} =>
    /\ error = "none" /\ yielded = FlattenSeq(feed)
    /\ yielded # <<>> => IsLatest(newWatermark, yielded)

\* A run is committed with the records that passed the gate in raw.
CommittedInv ==
  /\ step \in TrySteps => stage # "COMMITTED"
  /\ step \in {"quality", "reconcile"} => raw = yielded
  /\ step = "reconcile" => Gated(yielded)
  /\ step = "finalize" /\ stage = "COMMITTED" =>
       Gated(raw) /\ IsLatest(newWatermark, raw)

\* A run past its try block is committed unless an exception ended it, which
\* has set the status if it is one that the except clause names.
OutcomeInv ==
  /\ step \in TrySteps => raised = "none" /\ status = "SUCCESS"
  /\ step \in {"finalize", "audit", "done"} =>
       /\ raised = "none" <=> stage = "COMMITTED"
       /\ status = "FAILED" <=> raised \notin Unnamed \union {"none"}
  /\ step \in {"audit", "done"} /\ stage = "COMMITTED" =>
       Gated(raw) /\ IsLatest(watermark, raw)
  /\ step \in {"audit", "done"} => lastStatus = status
  /\ step = "done" => auditRow = [status |-> status, error |-> status = "FAILED"]

JobInv ==
  TypeOK /\ ClientOpenInv /\ FetchedInv /\ CommittedInv /\ OutcomeInv

Inv == ClientInv /\ JobInv

-----------------------------------------------------------------------------
(***************************************************************************)
(* Pages and feeds.                                                        *)
(***************************************************************************)
LEMMA PageIsSequence ==
  Pages \subseteq Seq(Records) /\ <<>> \in Pages
<1>1. MaxPageSize \in Nat
  BY ClientConstantsAssumption
<1>2. ASSUME NEW p \in Pages PROVE p \in Seq(Records)
  <2>1. PICK m \in 0..MaxPageSize : p \in [1..m -> Records]
    BY DEF Pages, SeqOf
  <2> QED
    BY <1>1, <2>1
<1>3. <<>> \in [1..0 -> Records] /\ 0 \in 0..MaxPageSize
  BY <1>1
<1> QED
  BY <1>2, <1>3 DEF Pages, SeqOf

LEMMA RecordsRegrouped ==
  \A a, b, c \in Seq(Records) : (a \o b) \o c = a \o (b \o c)
BY ConcatRegrouped

LEMMA FeedIsSequence ==
  ASSUME NEW f \in Feeds
  PROVE  /\ f \in Seq(Pages) /\ f \in Seq(Seq(Records))
         /\ Len(f) \in 1..MaxPages
<1>1. PICK n \in 1..MaxPages : f \in [1..n -> Pages]
  BY DEF Feeds
<1>2. n \in Nat /\ f \in Seq(Pages) /\ Len(f) = n
  BY <1>1, ClientConstantsAssumption
<1> QED
  BY <1>1, <1>2, PageIsSequence

LEMMA PageAtType ==
  ASSUME feed \in Feeds, NEW i \in Nat
  PROVE  PageAt(i) \in Pages /\ PageAt(i) \in Seq(Records)
<1>1. feed \in Seq(Pages)
  BY FeedIsSequence
<1>2. i < Len(feed) => i + 1 \in 1..Len(feed)
  BY <1>1
<1>3. PageAt(i) \in Pages
  BY <1>1, <1>2, PageIsSequence DEF PageAt
<1> QED
  BY <1>3, PageIsSequence

\* What is yielded up to a cursor is a prefix of the feed, and still is with
\* any beginning of the page at the cursor.
LEMMA PartOfFeed ==
  ASSUME feed \in Feeds, NEW i \in Nat, i <= Len(feed),
         NEW k \in 0..Len(PageAt(i))
  PROVE  /\ Upto(feed, i) \in Seq(Records)
         /\ Upto(feed, i) \o SubSeq(PageAt(i), 1, k) \in Seq(Records)
         /\ IsPrefix(Upto(feed, i), FlattenSeq(feed))
         /\ IsPrefix(Upto(feed, i) \o SubSeq(PageAt(i), 1, k), FlattenSeq(feed))
<1> DEFINE R == Records
           first == Upto(feed, i)
           part == SubSeq(PageAt(i), 1, k)
<1>1. feed \in Seq(Seq(R)) /\ i \in 0..Len(feed) /\ Len(feed) \in Nat
  BY FeedIsSequence
<1>2. PICK t \in Seq(R) : FlattenSeq(feed) = first \o t
  BY <1>1, UptoIsBeginning
<1>3. first \in Seq(R)
  BY <1>1, UptoIsBeginning
<1>4. PageAt(i) \in Seq(R)
  BY PageAtType
<1>5. part \in Seq(R)
  BY <1>4
<1> HIDE DEF first, part
<1>6. IsPrefix(first, FlattenSeq(feed)) /\ first \o part \in Seq(R)
  BY <1>2, <1>3, <1>5, PrefixOfConcat, ConcatProperties
<1>7. CASE i = Len(feed)
  <2>1. PageAt(i) = <<>>
    BY <1>1, <1>7 DEF PageAt
  <2>2. k = 0
    BY <2>1
  <2>3. part = <<>>
    BY <2>1, <2>2, SubSeqEmpty DEF part
  <2>4. first \o part = first
    BY <1>3, <2>3, ConcatEmptySeq
  <2> QED
    BY <1>3, <1>6, <2>4 DEF first, part
<1>8. CASE i < Len(feed)
  <2> DEFINE rest == SubSeq(PageAt(i), k + 1, Len(PageAt(i)))
  <2>1. PageAt(i) = feed[i + 1] /\ i \in 0..(Len(feed) - 1) /\ i + 1 \in 0..Len(feed)
    BY <1>1, <1>8 DEF PageAt
  <2>2. Upto(feed, i + 1) = first \o PageAt(i)
    BY <1>1, <2>1, UptoNext DEF first
  <2>3. PICK u \in Seq(R) : FlattenSeq(feed) = Upto(feed, i + 1) \o u
    BY <1>1, <2>1, UptoIsBeginning
  <2>4. rest \in Seq(R)
    BY <1>4
  <2>5. part \o rest = PageAt(i)
    <3> DEFINE page_ == PageAt(i)
               n == Len(page_)
    <3>1. /\ n \in Nat /\ 1 \in 1..(n + 1) /\ k \in (1 - 1)..n /\ n \in k..n
      BY <1>4
    <3>2. SubSeq(page_, 1, k) \o SubSeq(page_, k + 1, n) = SubSeq(page_, 1, n)
      <4> HIDE DEF page_
      <4>1. page_ \in Seq(R)
        BY <1>4 DEF page_
      <4> QED
        BY <3>1, <4>1, ConcatAdjacentSubSeq
    <3>3. SubSeq(page_, 1, n) = page_
      BY <1>4, SubSeqFull
    <3> QED
      BY <3>2, <3>3 DEF part
  <2> HIDE DEF rest
  <2>6. FlattenSeq(feed) = (first \o (part \o rest)) \o u
    BY <2>2, <2>3, <2>5
  <2>7. FlattenSeq(feed) = (first \o part) \o (rest \o u) /\ rest \o u \in Seq(R)
    <3> DEFINE both == first \o part
    <3>1. both \in Seq(R)
      BY <1>6
    <3>2. both \o rest = first \o (part \o rest)
      BY <1>3, <1>5, <2>4, RecordsRegrouped, Zenon
    <3>3. rest \o u \in Seq(R)
      BY <2>4, ConcatProperties
    <3> HIDE DEF both
    <3>4. (both \o rest) \o u = both \o (rest \o u)
      BY <2>4, <3>1, RecordsRegrouped, Zenon
    <3> QED
      BY <2>6, <3>2, <3>3, <3>4 DEF both
  <2>8. IsPrefix(first \o part, (first \o part) \o (rest \o u))
    BY <1>6, <2>7, PrefixOfConcat
  <2> QED
    BY <1>3, <1>6, <2>7, <2>8 DEF first, part
<1>9. i = Len(feed) \/ i < Len(feed)
  BY <1>1
<1> QED
  BY <1>7, <1>8, <1>9

LEMMA WholeOfFeed ==
  ASSUME feed \in Feeds, NEW i \in Nat, i <= Len(feed)
  PROVE  /\ Upto(feed, i) \in Seq(Records)
         /\ IsPrefix(Upto(feed, i), FlattenSeq(feed))
<1>1. feed \in Seq(Seq(Records)) /\ Len(feed) \in Nat
  BY FeedIsSequence
<1> QED
  BY <1>1, BeginningIsPrefix

\* A whole page brings the cursor on by one, or is empty past the end.
LEMMA PageOfFeed ==
  ASSUME feed \in Feeds, NEW i \in Nat, i <= Len(feed)
  PROVE  /\ i < Len(feed) => Upto(feed, i) \o PageAt(i) = Upto(feed, i + 1)
         /\ i = Len(feed) => Upto(feed, i) \o PageAt(i) = FlattenSeq(feed)
         /\ Upto(feed, Len(feed)) = FlattenSeq(feed)
         /\ Upto(feed, 0) = <<>>
<1>1. feed \in Seq(Seq(Records)) /\ Len(feed) \in Nat
  BY FeedIsSequence
<1>2. ASSUME i < Len(feed)
      PROVE  Upto(feed, i) \o PageAt(i) = Upto(feed, i + 1)
  <2>1. PageAt(i) = feed[i + 1] /\ i \in 0..(Len(feed) - 1)
    BY <1>1, <1>2 DEF PageAt
  <2> QED
    BY <1>1, <2>1, UptoNext
<1>3. Upto(feed, Len(feed)) = FlattenSeq(feed) /\ Upto(feed, 0) = <<>>
  BY <1>1, UptoAll
<1>4. ASSUME i = Len(feed)
      PROVE  Upto(feed, i) \o PageAt(i) = FlattenSeq(feed)
  <2>1. PageAt(i) = <<>>
    BY <1>1, <1>4 DEF PageAt
  <2>2. FlattenSeq(feed) \in Seq(Records)
    BY <1>1, UptoAll
  <2> QED
    BY <1>3, <1>4, <2>1, <2>2, ConcatEmptySeq
<1> QED
  BY <1>2, <1>3, <1>4

\* The first invalid record of a page is one of its records.
LEMMA FirstInvalidType ==
  ASSUME page \in Seq(Records), FirstInvalid > 0
  PROVE  FirstInvalid \in 1..Len(page)
<1> DEFINE I == {i \in 1..Len(page) : validates /\ page[i] \in Invalid}
<1>1. FirstInvalid = IF I # {} THEN Min(I) ELSE 0
  BY DEF FirstInvalid, SelectInSeq
<1>2. I # {}
  <2> HIDE DEF I
  <2> QED
    BY <1>1
<1>3. \E x \in I : \A y \in I : x <= y
  <2>1. I \subseteq Nat
    OBVIOUS
  <2> HIDE DEF I
  <2> QED
    BY <1>2, <2>1, LeastElement
<1>4. Min(I) \in I
  <2> HIDE DEF I
  <2> QED
    BY <1>3 DEF Min
<1> QED
  BY <1>1, <1>2, <1>4

-----------------------------------------------------------------------------
(***************************************************************************)
(* The steps of the client.                                                *)
(***************************************************************************)
\* A new call of fetch_all, which has yielded nothing.
LEMMA StartFetchKeeps ==
  ASSUME ClientTypeOK, StartFetch
  PROVE  ClientInv'
<1>1. feed' \in Feeds /\ feed' \in Seq(Seq(Records)) /\ Len(feed') \in 1..MaxPages
  BY FeedIsSequence DEF StartFetch
<1>2. Upto(feed', 0) = <<>>
  BY <1>1, UptoAll
<1>3. IsPrefix(Upto(feed', 0), FlattenSeq(feed'))
  BY <1>1, BeginningIsPrefix
<1>4. ClientTypeOK'
  BY <1>1, ClientConstantsAssumption, PageIsSequence
     DEF ClientTypeOK, StartFetch, Fetching, Errors
<1>5. ProgressInv'
  BY <1>1, <1>2 DEF ProgressInv, StartFetch, Fetching
<1> QED
  BY <1>2, <1>3, <1>4, <1>5
     DEF ClientInv, EndInv, TimeInv, FeedYieldedOnce, StartFetch, Fetching

\* What is yielded stays with the caller.
LEMMA CloseClientKeeps ==
  ASSUME ClientInv, CloseClient
  PROVE  ClientInv'
<1>1. /\ feed' = feed /\ yielded' = yielded /\ error' = error /\ <<>> \in Pages
      /\ MinInterval \in Nat /\ MaxAttempts \in Nat \ {0} /\ MaxPages \in Nat
  BY ClientConstantsAssumption, PageIsSequence DEF CloseClient, resultVars
<1>2. overrun' \in BOOLEAN /\ sleeps' \in BOOLEAN /\ validates' \in BOOLEAN
  BY Zenon DEF CloseClient
<1>3. /\ pc' = "idle" /\ cursor' = 0 /\ attempt' = 1 /\ page' = <<>>
      /\ sleeping' = 0 /\ sinceStamp' = MinInterval /\ sinceCall' = MinInterval
  BY DEF CloseClient
<1>4. ClientTypeOK'
  BY <1>1, <1>2, <1>3 DEF ClientInv, ClientTypeOK, Ended
<1> QED
  BY <1>1, <1>3, <1>4
     DEF ClientInv, ProgressInv, EndInv, TimeInv, FeedYieldedOnce, Fetching

\* Time goes by.
LEMMA TickKeeps ==
  ASSUME ClientInv, Tick
  PROVE  ClientInv'
<1> USE DEF ClientInv, Tick, callVars, resultVars
<1>1. ClientTypeOK'
  BY ClientConstantsAssumption DEF ClientTypeOK
<1>2. ProgressInv' /\ EndInv' /\ FeedYieldedOnce'
  BY DEF ProgressInv, EndInv, FeedYieldedOnce, PageAt
<1>3. TimeInv'
  BY ClientConstantsAssumption DEF TimeInv, ClientTypeOK, Fetching
<1> QED
  BY <1>1, <1>2, <1>3

\* The throttle.
LEMMA ThrottleKeeps ==
  ASSUME ClientInv, Throttle
  PROVE  ClientInv'
<1> USE DEF ClientInv, Throttle, callVars, resultVars
<1>1. ClientTypeOK'
  BY ClientConstantsAssumption DEF ClientTypeOK, Wait, Fetching
<1>2. ProgressInv' /\ EndInv' /\ FeedYieldedOnce'
  BY DEF ProgressInv, EndInv, FeedYieldedOnce, PageAt, Fetching
<1>3. TimeInv'
  BY ClientConstantsAssumption DEF TimeInv, ClientTypeOK, Fetching, Wait
<1> QED
  BY <1>1, <1>2, <1>3

\* The first attempt of a page.
LEMMA FirstAttemptKeeps ==
  ASSUME ClientInv, FirstAttempt
  PROVE  ClientInv'
<1> USE DEF ClientInv, FirstAttempt, callVars, resultVars
<1>1. ClientTypeOK'
  BY ClientConstantsAssumption DEF ClientTypeOK, Fetching
<1>2. ProgressInv' /\ EndInv' /\ FeedYieldedOnce'
  BY DEF ProgressInv, EndInv, FeedYieldedOnce, PageAt, Fetching
<1>3. TimeInv'
  BY DEF TimeInv
<1> QED
  BY <1>1, <1>2, <1>3

\* A retry, of which there is one only while attempts are left.
LEMMA NextAttemptKeeps ==
  ASSUME ClientInv, NextAttempt
  PROVE  ClientInv'
<1> USE DEF ClientInv, NextAttempt, FollowingAttempt, callVars, resultVars
<1>1. attempt < MaxAttempts
  BY DEF ProgressInv, Fetching
<1>2. ClientTypeOK'
  BY <1>1, ClientConstantsAssumption DEF ClientTypeOK, Fetching
<1>3. ProgressInv' /\ EndInv' /\ FeedYieldedOnce'
  BY DEF ProgressInv, EndInv, FeedYieldedOnce, PageAt, Fetching
<1>4. TimeInv'
  BY <1>1 DEF TimeInv, ClientTypeOK
<1> QED
  BY <1>2, <1>3, <1>4

\* The server answers with the page of the cursor.
LEMMA PageArrivesKeeps ==
  ASSUME ClientInv, PageArrives
  PROVE  ClientInv'
<1> USE DEF ClientInv, PageArrives, callVars, resultVars, timeVars
<1>1. feed \in Feeds /\ cursor \in Nat
  BY ClientConstantsAssumption DEF ProgressInv, Fetching, ClientTypeOK
<1>2. PageAt(cursor) \in Pages
  BY <1>1, PageAtType
<1>3. ClientTypeOK'
  BY <1>2 DEF ClientTypeOK, Fetching
<1>4. ProgressInv' /\ EndInv' /\ FeedYieldedOnce'
  BY DEF ProgressInv, EndInv, FeedYieldedOnce, PageAt, Fetching
<1>5. TimeInv'
  BY DEF TimeInv, Fetching
<1> QED
  BY <1>3, <1>4, <1>5

\* A RetryableError: a backoff, or the end of the attempts.
LEMMA TransientErrorKeeps ==
  ASSUME ClientInv, TransientError
  PROVE  ClientInv'
<1> USE DEF ClientInv, TransientError, callVars, resultVars, Fail
<1>1. CASE Exhausted
  <2>1. ClientTypeOK'
    BY <1>1, ClientConstantsAssumption
       DEF ClientTypeOK, Fetching, Ended, Errors, Transient
  <2>2. ProgressInv' /\ EndInv' /\ FeedYieldedOnce' /\ TimeInv'
    BY <1>1 DEF ProgressInv, EndInv, FeedYieldedOnce, Fetching, TimeInv, Transient
  <2> QED
    BY <2>1, <2>2
<1>2. CASE ~Exhausted
  <2>1. attempt < MaxAttempts
    BY <1>2, ClientConstantsAssumption DEF Exhausted, ClientTypeOK
  <2>2. sleeping' \in 0..MaxDelay
    BY <1>2 DEF Backoff
  <2>3. ClientTypeOK'
    BY <1>2, <2>2 DEF ClientTypeOK, Fetching, CursorOfRetry
  <2>4. ProgressInv' /\ EndInv' /\ FeedYieldedOnce'
    BY <1>2, <2>1
       DEF ProgressInv, EndInv, FeedYieldedOnce, PageAt, Fetching, CursorOfRetry
  <2>5. TimeInv'
    BY <1>2 DEF TimeInv, Fetching
  <2> QED
    BY <2>3, <2>4, <2>5
<1> QED
  BY <1>1, <1>2

\* An error that is not retried.
LEMMA PermanentErrorKeeps ==
  ASSUME ClientInv, PermanentError
  PROVE  ClientInv'
<1> USE DEF ClientInv, PermanentError, callVars, timeVars, Fail
<1>1. ClientTypeOK'
  BY DEF ClientTypeOK, Fetching, Ended, Errors, Permanent
<1> QED
  BY <1>1 DEF ProgressInv, EndInv, FeedYieldedOnce, Fetching, TimeInv, Permanent

\* The records of a page: up to an invalid one, or all of them and then the
\* next page or the end.
LEMMA YieldPageKeeps ==
  ASSUME ClientInv, YieldPage
  PROVE  ClientInv'
<1> USE DEF ClientInv, YieldPage, callVars, timeVars, Fail
<1>1. /\ feed \in Feeds /\ cursor \in Nat /\ cursor <= Len(feed)
      /\ yielded = Upto(feed, cursor) /\ page = PageAt(cursor) /\ error = "none"
  BY ClientConstantsAssumption DEF ProgressInv, Fetching, ClientTypeOK
<1>2. Len(feed) \in 1..MaxPages
  BY <1>1, FeedIsSequence
<1>3. page \in Seq(Records)
  BY <1>1, PageAtType
<1>4. CASE FirstInvalid > 0
  <2> DEFINE k == FirstInvalid - 1
  <2>1. k \in 0..Len(PageAt(cursor))
    BY <1>1, <1>3, <1>4, FirstInvalidType
  <2>2. yielded' = Upto(feed, cursor) \o SubSeq(PageAt(cursor), 1, k)
    BY <1>1, <1>4
  <2> HIDE DEF k
  <2>3. yielded' \in Seq(Records) /\ IsPrefix(yielded', FlattenSeq(feed))
    BY <1>1, <2>1, <2>2, PartOfFeed
  <2>4. ClientTypeOK'
    BY <1>4, <2>3 DEF ClientTypeOK, Fetching, Ended, Errors, Permanent
  <2> QED
    BY <1>4, <2>3, <2>4 DEF ProgressInv, EndInv, FeedYieldedOnce, Fetching, TimeInv
<1>5. CASE ~(FirstInvalid > 0) /\ HasNext(cursor)
  <2>1. cursor < Len(feed) /\ cursor + 1 \in Nat /\ cursor + 1 <= Len(feed)
    BY <1>1, <1>2, <1>5 DEF HasNext
  <2>2. yielded' = Upto(feed, cursor + 1)
    BY <1>1, <1>5, <2>1, PageOfFeed
  <2>3. yielded' \in Seq(Records) /\ IsPrefix(yielded', FlattenSeq(feed))
    BY <1>1, <2>1, <2>2, WholeOfFeed
  <2>4. ClientTypeOK'
    BY <1>2, <1>5, <2>1, <2>3, ClientConstantsAssumption
       DEF ClientTypeOK, Fetching, Errors
  <2>5. ProgressInv'
    BY <1>1, <1>5, <2>1, <2>2 DEF ProgressInv
  <2> QED
    BY <1>5, <2>3, <2>4, <2>5 DEF EndInv, FeedYieldedOnce, Fetching, TimeInv
<1>6. CASE ~(FirstInvalid > 0) /\ ~HasNext(cursor)
  <2>1. yielded' = FlattenSeq(feed)
    <3>1. CASE cursor = Len(feed)
      BY <1>1, <1>6, <3>1, PageOfFeed
    <3>2. CASE cursor < Len(feed)
      <4>1. cursor + 1 = Len(feed)
        BY <1>1, <1>2, <1>6, <3>2 DEF HasNext
      <4> QED
        BY <1>1, <1>6, <3>2, <4>1, PageOfFeed
    <3> QED
      BY <1>1, <1>2, <3>1, <3>2
  <2>2. yielded' \in Seq(Records) /\ IsPrefix(yielded', FlattenSeq(feed))
    <3>1. Len(feed) \in Nat /\ Len(feed) <= Len(feed)
      BY <1>2
    <3>2. Upto(feed, Len(feed)) = FlattenSeq(feed)
      BY <1>1, PageOfFeed
    <3> QED
      BY <1>1, <2>1, <3>1, <3>2, WholeOfFeed
  <2>3. ClientTypeOK'
    BY <1>6, <2>2 DEF ClientTypeOK, Fetching, Ended, Errors, Permanent
  <2> QED
    BY <1>1, <1>6, <2>1, <2>2, <2>3
       DEF ProgressInv, EndInv, FeedYieldedOnce, Fetching, TimeInv
<1> QED
  BY <1>4, <1>5, <1>6

\* Every step of a fetch.
LEMMA FetchStepKeeps ==
  ASSUME ClientInv, FetchStep
  PROVE  ClientInv'
BY TickKeeps, ThrottleKeeps, FirstAttemptKeeps, NextAttemptKeeps, YieldPageKeeps,
   PageArrivesKeeps, TransientErrorKeeps, PermanentErrorKeeps
   DEF FetchStep, ClientStep, ServerStep

-----------------------------------------------------------------------------
(***************************************************************************)
(* The steps of the job.                                                   *)
(***************************************************************************)
\* A step that leaves the client alone.
LEMMA ClientStutters ==
  ASSUME ClientInv, UNCHANGED clientVars
  PROVE  ClientInv'
BY DEF ClientInv, ClientTypeOK, ProgressInv, EndInv, TimeInv, FeedYieldedOnce,
       PageAt, clientVars, callVars, resultVars, timeVars

\* The maximum that the job takes of a frame with records.
LEMMA LatestModifiedIsLatest ==
  ASSUME yielded \in Seq(Records), yielded # <<>>
  PROVE  LatestModified \in Nat /\ IsLatest(LatestModified, yielded)
<1> DEFINE n == Len(yielded)
           s == [i \in 1..n |-> yielded[i].updated_at]
           M == {yielded[i].updated_at : i \in DOMAIN yielded}
<1>1. n \in Nat /\ n # 0 /\ DOMAIN yielded = 1..n
  OBVIOUS
<1>2. \A i \in 1..n : yielded[i] \in Records
  OBVIOUS
<1>3. \A i \in 1..n : s[i] = yielded[i].updated_at /\ s[i] \in Nat
  BY <1>2, RecordsAssumption
<1>4. s \in Seq(Nat) /\ Len(s) = n /\ s # <<>>
  <2>1. s \in [1..n -> Nat]
    BY <1>3
  <2>2. s \in Seq(Nat) /\ Len(s) = n
    BY <1>1, <2>1
  <2> HIDE DEF s
  <2> QED
    BY <1>1, <2>2
<1> HIDE DEF s
<1>5. PICK i \in 1..n : \A j \in 1..n : s[j] <= s[i]
  BY <1>4, GreatestOfSequence
<1>6. s[i] \in M /\ \A y \in M : s[i] >= y
  BY <1>1, <1>3, <1>5
<1>7. LatestModified = Max(M)
  BY DEF LatestModified
<1>8. LatestModified \in M /\ \A y \in M : LatestModified >= y
  <2> HIDE DEF M
  <2> QED
    BY <1>6, <1>7 DEF Max
<1>9. PICK k \in 1..n : LatestModified = yielded[k].updated_at
  BY <1>1, <1>8
<1>10. \A j \in 1..n : yielded[j].updated_at <= LatestModified
  <2>1. \A j \in 1..n : yielded[j].updated_at \in M
    BY <1>1
  <2> HIDE DEF M
  <2>2. \A j \in 1..n : LatestModified >= yielded[j].updated_at
    BY <1>8, <2>1
  <2> QED
    BY <1>3, <1>9, <2>2
<1> QED
  BY <1>1, <1>3, <1>9, <1>10 DEF IsLatest

\* The client of a job step that closes it.
LEMMA ClosedClient ==
  ASSUME CloseClient
  PROVE  /\ pc' = "idle"
         /\ feed' = feed /\ yielded' = yielded /\ error' = error
BY DEF CloseClient, resultVars

LEMMA SameClient ==
  ASSUME UNCHANGED clientVars
  PROVE  /\ pc' = pc
         /\ feed' = feed /\ yielded' = yielded /\ error' = error
BY DEF clientVars, callVars, resultVars

\* start_run and the call of fetch_all.
LEMMA StartRunKeeps ==
  ASSUME Inv, StartRun
  PROVE  Inv'
<1> USE DEF Inv, JobInv, TypeOK, StartRun
<1>1. ClientInv'
  BY StartFetchKeeps
<1>2. pc' = "throttle" /\ error' = "none"
  BY DEF StartFetch
<1>3. TypeOK'
  BY <1>1, RecordsAssumption DEF ClientInv, Live, TrySteps, Stages, NoAudit, Errors
<1>4. ClientOpenInv' /\ FetchedInv' /\ CommittedInv' /\ OutcomeInv'
  BY <1>2 DEF ClientOpenInv, FetchedInv, CommittedInv, OutcomeInv,
              TrySteps
<1> QED
  BY <1>1, <1>3, <1>4

\* A step of the client or the server, or time, within the fetch.
LEMMA FetchKeeps ==
  ASSUME Inv, Fetch
  PROVE  Inv'
<1> USE DEF Inv, JobInv, TypeOK, Fetch, jobVars, controlVars, localVars, boundVars
<1>1. ClientInv'
  BY FetchStepKeeps
<1>2. pc' # "idle"
  BY DEF FetchStep, ClientStep, ServerStep, Tick, Throttle, FirstAttempt, NextAttempt,
         YieldPage, PageArrives, TransientError, PermanentError, Fail, Fetching
<1>3. TypeOK'
  BY <1>1 DEF ClientInv
<1>4. ClientOpenInv' /\ FetchedInv' /\ CommittedInv' /\ OutcomeInv'
  BY <1>2 DEF ClientOpenInv, FetchedInv, CommittedInv, OutcomeInv,
              TrySteps
<1> QED
  BY <1>1, <1>3, <1>4

\* The records of a fetch that ended without an error are the whole feed.
LEMMA ExtractKeeps ==
  ASSUME Inv, Extract
  PROVE  Inv'
<1> USE DEF Inv, JobInv, TypeOK, Extract, FetchedAll, controlVars, boundVars
<1>1. ClientInv'
  BY CloseClientKeeps
<1>2. /\ pc' = "idle"
      /\ feed' = feed /\ yielded' = yielded /\ error' = error
  BY ClosedClient
<1>3. yielded \in Seq(Records) /\ yielded = FlattenSeq(feed) /\ error = "none"
  BY DEF ClientInv, ClientTypeOK, FeedYieldedOnce, EndInv
<1>4. yielded # <<>> => LatestModified \in Nat /\ IsLatest(LatestModified, yielded)
  BY <1>3, LatestModifiedIsLatest
<1>5. newWatermark' \in Nat /\ (yielded # <<>> => IsLatest(newWatermark', yielded))
  BY <1>4
<1>6. TypeOK'
  BY <1>1, <1>5 DEF ClientInv, Live, TrySteps, Stages
<1>7. FetchedInv'
  BY <1>2, <1>3, <1>5 DEF FetchedInv
<1>8. ClientOpenInv' /\ CommittedInv' /\ OutcomeInv'
  BY <1>2 DEF ClientOpenInv, CommittedInv, OutcomeInv, TrySteps
<1> QED
  BY <1>1, <1>6, <1>7, <1>8

\* An exception leaves the try block: the run commits nothing, and its status
\* is FAILED just if the exception is named.
LEMMA RaiseKeeps ==
  ASSUME Inv, step \in TrySteps, pc' = "idle",
         NEW e \in (Errors \union {"DataQualityError"}) \ {"none"}, Raise(e)
  PROVE  ClientOpenInv' /\ FetchedInv' /\ CommittedInv' /\ OutcomeInv'
<1> USE DEF Inv, JobInv, Raise
<1>1. stage # "COMMITTED" /\ status = "SUCCESS"
  BY DEF CommittedInv, OutcomeInv
<1>2. Caught(e) <=> e \notin Unnamed \union {"none"}
  BY DEF Caught, Unnamed, Errors, Transient, Permanent
<1>3. OutcomeInv'
  BY <1>1, <1>2 DEF OutcomeInv, TrySteps
<1> QED
  BY <1>1, <1>3 DEF ClientOpenInv, FetchedInv, CommittedInv, TrySteps

\* The except clause.
LEMMA FetchRaisesKeeps ==
  ASSUME Inv, FetchRaises
  PROVE  Inv'
<1> USE DEF Inv, JobInv, TypeOK, FetchRaises, Raise, controlVars, boundVars
<1>1. ClientInv'
  BY CloseClientKeeps
<1>2. pc' = "idle" /\ error' = error
  BY ClosedClient
<1>3. error \in Errors \ {"none"}
  BY DEF ClientInv, EndInv, ClientTypeOK
<1>4. TypeOK'
  BY <1>1, <1>3 DEF ClientInv, Live
<1>5. ClientOpenInv' /\ FetchedInv' /\ CommittedInv' /\ OutcomeInv'
  BY <1>2, <1>3, RaiseKeeps DEF TrySteps
<1> QED
  BY <1>1, <1>4, <1>5

\* The raw prefix gets the records that were fetched.
LEMMA LandRawKeeps ==
  ASSUME Inv, LandRaw
  PROVE  Inv'
<1> USE DEF Inv, JobInv, TypeOK, LandRaw, controlVars, boundVars
<1>1. ClientInv'
  BY ClientStutters
<1>2. pc' = pc /\ feed' = feed /\ yielded' = yielded /\ error' = error
  BY SameClient
<1>3. yielded \in Seq(Records)
  BY DEF ClientInv, ClientTypeOK
<1>4. TypeOK'
  BY <1>1, <1>3 DEF ClientInv, Live, TrySteps, Stages
<1>5. ClientOpenInv' /\ FetchedInv' /\ CommittedInv' /\ OutcomeInv'
  BY <1>2 DEF ClientOpenInv, FetchedInv, CommittedInv, OutcomeInv, TrySteps
<1> QED
  BY <1>1, <1>4, <1>5

\* The gate.
LEMMA CheckQualityKeeps ==
  ASSUME Inv, CheckQuality
  PROVE  Inv'
<1> USE DEF Inv, JobInv, TypeOK, CheckQuality, controlVars, boundVars
<1>1. step = "quality" /\ UNCHANGED clientVars
  BY DEF PassGate
<1>2. ClientInv'
  BY <1>1, ClientStutters
<1>3. pc' = pc /\ feed' = feed /\ yielded' = yielded /\ error' = error
  BY <1>1, SameClient
<1>4. raw = yielded /\ error = "none" /\ pc = "idle"
  BY <1>1 DEF CommittedInv, FetchedInv, ClientOpenInv
<1>5. CASE Gated(yielded) /\ PassGate("quality", "reconcile", "DQ_PASSED")
  <2> USE <1>5 DEF PassGate
  <2>1. TypeOK'
    BY <1>2 DEF ClientInv, Live, TrySteps, Stages
  <2>2. ClientOpenInv' /\ FetchedInv' /\ CommittedInv' /\ OutcomeInv'
    BY <1>3, <1>4 DEF ClientOpenInv, FetchedInv, CommittedInv, OutcomeInv, TrySteps
  <2> QED
    BY <1>2, <2>1, <2>2
<1>6. CASE ~Gated(yielded) /\ Raise("DataQualityError") /\ UNCHANGED boundVars
  <2>1. TypeOK'
    BY <1>2, <1>6 DEF ClientInv, Live, Raise
  <2>2. "DataQualityError" # "none"
    OBVIOUS
  <2>3. ClientOpenInv' /\ FetchedInv' /\ CommittedInv' /\ OutcomeInv'
    BY <1>1, <1>3, <1>4, <1>6, <2>2, RaiseKeeps DEF TrySteps
  <2> QED
    BY <1>2, <2>1, <2>3
<1> QED
  BY <1>5, <1>6

\* What reaches COMMITTED has passed the gate and is not empty.
LEMMA ReconcileKeeps ==
  ASSUME Inv, Reconcile
  PROVE  Inv'
<1> USE DEF Inv, JobInv, TypeOK, Reconcile, PassGate, controlVars, boundVars
<1>1. ClientInv'
  BY ClientStutters
<1>2. pc' = pc /\ feed' = feed /\ yielded' = yielded /\ error' = error
  BY SameClient
<1>3. TypeOK'
  BY <1>1 DEF ClientInv, Live, Stages
<1>4. raw = yielded /\ error = "none" /\ Gated(yielded)
      /\ (yielded # <<>> => IsLatest(newWatermark, yielded))
  BY DEF CommittedInv, FetchedInv
<1>5. Gated(raw) /\ IsLatest(newWatermark, raw)
  BY <1>4 DEF Gated
<1>6. CommittedInv'
  BY <1>5 DEF CommittedInv, TrySteps
<1>7. ClientOpenInv' /\ FetchedInv' /\ OutcomeInv'
  BY <1>2, <1>4 DEF ClientOpenInv, FetchedInv, OutcomeInv, TrySteps
<1> QED
  BY <1>1, <1>3, <1>6, <1>7

\* complete_run.
LEMMA CompleteRunKeeps ==
  ASSUME Inv, CompleteRun
  PROVE  Inv'
<1> USE DEF Inv, JobInv, TypeOK, CompleteRun, localVars, boundVars
<1>1. ClientInv'
  BY ClientStutters
<1>2. pc' = pc /\ error' = error
  BY SameClient
<1>3. TypeOK'
  BY <1>1 DEF ClientInv, Live, ResolvedWatermark
<1>4. ClientOpenInv' /\ FetchedInv' /\ CommittedInv'
  BY <1>2 DEF ClientOpenInv, FetchedInv, CommittedInv, TrySteps
<1>5. stage = "COMMITTED" => watermark' = newWatermark
  <2>1. stage = "COMMITTED" => status = "SUCCESS"
    BY DEF OutcomeInv
  <2> QED
    BY <2>1 DEF ResolvedWatermark
<1>6. stage = "COMMITTED" => Gated(raw') /\ IsLatest(watermark', raw')
  BY <1>5 DEF CommittedInv
<1>7. OutcomeInv'
  BY <1>6 DEF OutcomeInv, TrySteps
<1> QED
  BY <1>1, <1>3, <1>4, <1>7

\* The audit row.
LEMMA WriteAuditKeeps ==
  ASSUME Inv, WriteAudit
  PROVE  Inv'
<1> USE DEF Inv, JobInv, TypeOK, WriteAudit, controlVars, localVars, boundVars
<1>1. ClientInv'
  BY ClientStutters
<1>2. pc' = pc /\ error' = error
  BY SameClient
<1>3. auditRow' \in [status : {"NONE", "SUCCESS", "FAILED"}, error : BOOLEAN]
  OBVIOUS
<1>4. TypeOK'
  BY <1>1, <1>3 DEF ClientInv, Over
<1>5. ClientOpenInv' /\ FetchedInv' /\ CommittedInv' /\ OutcomeInv'
  BY <1>2
     DEF ClientOpenInv, FetchedInv, CommittedInv, OutcomeInv,
         TrySteps
<1> QED
  BY <1>1, <1>4, <1>5

\* An exception outside fetch_all: no run is committed by it.
LEMMA RaiseUncaughtKeeps ==
  ASSUME Inv, RaiseUncaught
  PROVE  Inv'
<1> USE DEF Inv, JobInv, TypeOK, RaiseUncaught, Raise, controlVars
<1>1. ClientInv'
  BY CloseClientKeeps
<1>2. pc' = "idle" /\ error' = error
  BY ClosedClient
<1>3. TypeOK'
  BY <1>1, RecordsAssumption DEF ClientInv, Live, Errors, Permanent
<1>4. "Exception" \in Errors /\ "Exception" # "none"
  BY DEF Errors, Permanent
<1>5. ClientOpenInv' /\ FetchedInv' /\ CommittedInv' /\ OutcomeInv'
  BY <1>2, <1>4, RaiseKeeps
<1> QED
  BY <1>1, <1>3, <1>5

\* The death of the process.
LEMMA CrashKeeps ==
  ASSUME Inv, Crash
  PROVE  Inv'
<1> USE DEF Inv, JobInv, TypeOK, Crash, controlVars, localVars
<1>1. ClientInv'
  BY CloseClientKeeps
<1>2. pc' = "idle"
  BY ClosedClient
<1>3. TypeOK'
  BY <1>1, RecordsAssumption DEF ClientInv, Over
<1>4. ClientOpenInv' /\ FetchedInv' /\ CommittedInv' /\ OutcomeInv'
  BY <1>2 DEF ClientOpenInv, FetchedInv, CommittedInv, OutcomeInv,
              TrySteps
<1> QED
  BY <1>1, <1>3, <1>4

-----------------------------------------------------------------------------
(***************************************************************************)
(* The theorems.                                                           *)
(***************************************************************************)
\* The initial state satisfies the invariant.
LEMMA InitInv ==
  ASSUME Init
  PROVE  Inv
<1> USE DEF Init, ClientInit
<1>1. FlattenSeq(feed) = <<>> /\ yielded = <<>> /\ yielded \in Seq(Records)
  BY FlattenEmpty
<1>2. IsPrefix(yielded, FlattenSeq(feed))
  BY <1>1 DEF IsPrefix
<1>3. overrun \in BOOLEAN /\ sleeps \in BOOLEAN /\ validates \in BOOLEAN
  BY Zenon
<1>4. ClientTypeOK
  <2>1. /\ pc = "idle" /\ cursor = 0 /\ attempt = 1 /\ page = <<>> /\ feed = <<>>
        /\ error = "none" /\ sleeping = 0
        /\ sinceStamp = MinInterval /\ sinceCall = MinInterval
    OBVIOUS
  <2> QED
    BY <1>1, <1>3, <2>1, ClientConstantsAssumption, PageIsSequence
       DEF ClientTypeOK, Ended, Errors
<1>5. ClientInv
  BY <1>1, <1>2, <1>4
     DEF ClientInv, ProgressInv, EndInv, TimeInv, FeedYieldedOnce, Fetching
<1>6. TypeOK
  BY <1>4, RecordsAssumption DEF TypeOK, Over, Stages, NoAudit, Errors
<1> QED
  BY <1>5, <1>6
     DEF Inv, JobInv, ClientOpenInv, FetchedInv, CommittedInv, OutcomeInv, TrySteps

\* Every step preserves the invariant.
LEMMA NextInv ==
  ASSUME Inv, [Next]_vars
  PROVE  Inv'
<1>1. CASE Next
  BY <1>1, StartRunKeeps, FetchKeeps, ExtractKeeps, FetchRaisesKeeps, LandRawKeeps,
     CheckQualityKeeps, ReconcileKeeps, CompleteRunKeeps, WriteAuditKeeps,
     RaiseUncaughtKeeps, CrashKeeps DEF Next, JobStep
<1>2. CASE UNCHANGED vars
  <2> USE <1>2 DEF Inv, vars, jobVars, controlVars, localVars, boundVars
  <2>1. ClientInv'
    BY ClientStutters
  <2>2. pc' = pc /\ feed' = feed /\ yielded' = yielded /\ error' = error
    BY SameClient
  <2>3. TypeOK'
    BY <2>1 DEF ClientInv, JobInv, TypeOK
  <2> QED
    BY <2>1, <2>2, <2>3
       DEF JobInv, ClientOpenInv, FetchedInv, CommittedInv, OutcomeInv
<1> QED
  BY <1>1, <1>2

\* The invariant holds in every reachable state.
THEOREM Invariant == Spec => []Inv
<1>1. Init => Inv
  BY InitInv
<1>2. Inv /\ [Next]_vars => Inv'
  BY NextInv
<1> QED
  BY <1>1, <1>2, PTL DEF Spec

\* Every variable keeps its type: attempts stay within the policy, the cursor
\* within the feed, and no sleep is longer than the policy allows.
THEOREM TypeCorrect == Spec => []TypeOK
<1>1. Inv => TypeOK
  BY DEF Inv, JobInv
<1> QED
  BY <1>1, Invariant, PTL

\* Whatever is retried, and however often, no record is skipped or yielded
\* twice: fetch_all and with_retry together read the feed in order.
THEOREM FeedYieldedOnceAlways == Spec => []FeedYieldedOnce
<1>1. Inv => FeedYieldedOnce
  BY DEF Inv, ClientInv
<1> QED
  BY <1>1, Invariant, PTL

\* However a run ends, the control row and the audit log agree on it, a SUCCESS
\* is a committed feed or an exception that the except clause does not name,
\* and every other exception is a FAILED with its error.
THEOREM OutcomeIsRecordedAlways == Spec => []OutcomeIsRecorded
<1>1. ASSUME Inv, step = "done" PROVE OutcomeIsRecorded
  <2>1. /\ lastStatus = status
        /\ auditRow = [status |-> status, error |-> status = "FAILED"]
        /\ raised = "none" <=> stage = "COMMITTED"
        /\ status = "FAILED" <=> raised \notin Unnamed \union {"none"}
        /\ stage = "COMMITTED" => Gated(raw) /\ IsLatest(watermark, raw)
    BY <1>1 DEF Inv, JobInv, OutcomeInv
  <2> HIDE DEF Gated, IsLatest, Unnamed
  <2>2. CASE status = "FAILED"
    <3>1. auditRow = [status |-> "FAILED", error |-> TRUE]
      BY <2>1, <2>2, Zenon
    <3>2. lastStatus = auditRow.status
      BY <2>1, <2>2, <3>1
    <3>3. stage # "COMMITTED" /\ raised \notin Unnamed
      BY <2>1, <2>2
    <3> QED
      BY <3>1, <3>2, <3>3, Zenon DEF OutcomeIsRecorded
  <2>3. CASE status = "SUCCESS"
    <3>1. (status = "FAILED") = FALSE
      BY <2>3
    <3>2. auditRow = [status |-> "SUCCESS", error |-> FALSE]
      BY <2>1, <2>3, <3>1, Zenon
    <3>3. raised \in Unnamed \union {"none"}
      BY <2>1, <2>3
    <3>4. "none" \notin Unnamed
      BY DEF Unnamed
    <3>5. lastStatus = auditRow.status
      BY <2>1, <2>3, <3>2
    <3>6. \/ stage = "COMMITTED" /\ raised = "none"
          \/ stage # "COMMITTED" /\ raised \in Unnamed
      BY <2>1, <3>3, <3>4
    <3> QED
      BY <2>1, <3>2, <3>5, <3>6, Zenon DEF OutcomeIsRecorded
  <2> QED
    BY <1>1, <2>2, <2>3 DEF Inv, JobInv, TypeOK
<1>2. Inv => OutcomeIsRecorded
  BY <1>1 DEF OutcomeIsRecorded
<1> QED
  BY <1>2, Invariant, PTL

\* Only LandRaw writes the raw prefix, with the whole feed of its run.
THEOREM RawIsWholeFeedAlways == Spec => RawIsWholeFeed
<1>1. ASSUME Inv, [Next]_vars, raw' # raw
      PROVE  raw' = FlattenSeq(feed)
  <2>1. LandRaw
    BY <1>1 DEF Next, Fetch, JobStep, Extract, FetchRaises, Raise, CheckQuality,
                PassGate, Reconcile, CompleteRun, WriteAudit, RaiseUncaught, Crash,
                StartRun, vars, jobVars
  <2> QED
    BY <1>1, <2>1 DEF Inv, JobInv, FetchedInv, LandRaw
<1>2. Inv /\ [Next]_vars => [raw' # raw => raw' = FlattenSeq(feed)]_vars
  BY <1>1
<1> QED
  BY <1>2, Invariant, PTL DEF Spec, RawIsWholeFeed

\* Only complete_run writes the watermark, and then it is the latest time of
\* the records in raw, which passed the gate.
LEMMA WatermarkMoves ==
  ASSUME Inv, [Next]_vars, watermark' # watermark
  PROVE  Gated(raw) /\ IsLatest(watermark', raw)
<1>1. CompleteRun
  BY DEF Next, Fetch, JobStep, Extract, FetchRaises, Raise, CheckQuality,
         PassGate, Reconcile, LandRaw, WriteAudit, RaiseUncaught, Crash,
         StartRun, vars, jobVars, controlVars
<1>2. stage = "COMMITTED" /\ watermark' = newWatermark /\ step = "finalize"
  BY <1>1 DEF CompleteRun, ResolvedWatermark
<1> QED
  BY <1>2 DEF Inv, JobInv, CommittedInv

\* The watermark moves only to the time of a record that is in raw among
\* records that passed the gate.
THEOREM WatermarkIsLandedAlways == Spec => WatermarkIsLanded
<1>1. ASSUME Inv, [Next]_vars, watermark' # watermark
      PROVE  Gated(raw) /\ \E i \in DOMAIN raw : raw[i].updated_at = watermark'
  BY <1>1, WatermarkMoves DEF IsLatest
<1>2. Inv /\ [Next]_vars
        => [watermark' # watermark =>
              Gated(raw) /\ \E i \in DOMAIN raw : raw[i].updated_at = watermark']_vars
  BY <1>1
<1> QED
  BY <1>2, Invariant, PTL DEF Spec, WatermarkIsLanded

\* When the watermark goes back, everything in raw is older than it was.
THEOREM WatermarkFollowsFeedAlways == Spec => WatermarkFollowsFeed
<1>1. ASSUME Inv, [Next]_vars, watermark' < watermark, NEW i \in DOMAIN raw
      PROVE  raw[i].updated_at < watermark
  <2>1. watermark \in Nat /\ watermark' \in Nat /\ raw \in Seq(Records)
    <3>1. Inv'
      BY <1>1, NextInv
    <3> QED
      BY <1>1, <3>1 DEF Inv, JobInv, TypeOK
  <2>2. raw[i].updated_at <= watermark'
    BY <1>1, <2>1, WatermarkMoves DEF IsLatest
  <2>3. raw[i].updated_at \in Nat
    BY <2>1, RecordsAssumption
  <2> QED
    BY <1>1, <2>1, <2>2, <2>3
<1>2. Inv /\ [Next]_vars
        => [watermark' < watermark =>
              \A i \in DOMAIN raw : raw[i].updated_at < watermark]_vars
  BY <1>1
<1> QED
  BY <1>2, Invariant, PTL DEF Spec, WatermarkFollowsFeed

\* Two calls of the server that are closer than the rate limit, with a
\* sleep_fn that sleeps, have a retry between them.
THEOREM BurstsAreRetriesAlways == Spec => BurstsAreRetries
<1> DEFINE Spaced == FirstAttempt \/ NextAttempt =>
             sinceCall >= MinInterval \/ ~sleeps \/ attempt > 1 \/ attempt' > 1
<1>1. Inv => Spaced
  <2>1. SUFFICES ASSUME ClientInv, FirstAttempt \/ NextAttempt, sleeps,
                        ~(attempt > 1)
                 PROVE  sinceCall >= MinInterval \/ attempt' > 1
    BY DEF Inv
  <2>2. attempt = 1 /\ sinceStamp \in Nat
    BY <2>1, ClientConstantsAssumption DEF ClientInv, ClientTypeOK
  <2>3. CASE FirstAttempt
    BY <2>1, <2>2, <2>3, ClientConstantsAssumption
       DEF FirstAttempt, ClientInv, TimeInv, Fetching
  <2>4. CASE NextAttempt
    BY <2>2, <2>4 DEF NextAttempt, FollowingAttempt
  <2> QED
    BY <2>1, <2>3, <2>4
<1>2. Inv => [Spaced]_clientVars
  BY <1>1
<1> HIDE DEF Spaced
<1>3. []Inv => [][Spaced]_clientVars
  BY <1>2, PTL
<1> QED
  BY <1>3, Invariant DEF BurstsAreRetries, Spaced
=============================================================================
