--------------------------- MODULE RestApiClient ---------------------------
(***************************************************************************)
(* One call of RestApiClient.fetch_all after the other                     *)
(* (src/ingestion/rest_api/client.py), with the retries of _fetch_page     *)
(* (src/common/retry.py).                                                  *)
(*                                                                         *)
(* The server is external: it answers a call with a page or an error of    *)
(* any class, whenever it likes. Time is what has passed since the moments *)
(* the code or a property compares with, counted up to MinInterval, so     *)
(* that it needs no bound.                                                 *)
(***************************************************************************)
EXTENDS Naturals, Sequences, SequencesExt

CONSTANTS
  Records,       \* the records that a feed may serve
  Invalid,       \* the records that validate_record rejects
  MaxPages,      \* bound: pages of a feed
  MaxPageSize,   \* bound: records of a page
  MaxAttempts,   \* RetryPolicy of _fetch_page: max_attempts,
  InitialDelay,  \*   initial_delay_seconds
  MaxDelay,      \*   and max_delay_seconds
  MinInterval    \* min_interval_seconds of the client

ASSUME ClientConstantsAssumption ==
  /\ Invalid \subseteq Records
  /\ MaxPages \in Nat \ {0} /\ MaxPageSize \in Nat
  /\ MaxAttempts \in Nat \ {0}
  /\ InitialDelay \in Nat /\ MaxDelay \in Nat /\ MinInterval \in Nat

VARIABLES
  feed,        \* the pages the server has for this call of fetch_all
  overrun,     \* whether its last page still has a next_cursor
  sleeps,      \* whether the caller's sleep_fn sleeps
  validates,   \* whether the caller passes a validate_record
  pc,          \* the next step of fetch_all
  cursor,      \* the page asked for, from 0; None asks for page 0
  attempt,     \* the loop variable of with_retry
  page,        \* the page received
  yielded,     \* the records fetch_all has yielded
  error,       \* the exception that ended it
  sleeping,    \* what is left of a sleep
  sinceStamp,  \* time since _last_call_ts, at most MinInterval
  sinceCall    \* time since the last call of the server, likewise

callVars   == <<feed, overrun, sleeps, validates>>
resultVars == <<yielded, error>>
timeVars   == <<sleeping, sinceStamp, sinceCall>>
clientVars == <<callVars, pc, cursor, attempt, page, resultVars, timeVars>>

Pages == SeqOf(Records, MaxPageSize)
Feeds == UNION {[1..n -> Pages] : n \in 1..MaxPages}

\* What a call may raise. with_retry repeats it after a RetryableError: HTTP
\* 429, and SourceUnavailableError for the others, a 503 or a connection that
\* is reset or times out. It lets through at once a NonRetryableError, and
\* an exception that is not one of the platform's.
Transient == {"ApiRateLimitError", "SourceUnavailableError"}
Permanent == {"NonRetryableError", "Exception"}
Errors == {"none"} \union Transient \union Permanent

Fetching == {"throttle", "wait", "call", "backoff", "yield"}
Ended == {"idle", "done", "failed"}

ClientInit ==
  /\ feed = <<>> /\ overrun = FALSE /\ sleeps = FALSE /\ validates = FALSE
  /\ pc = "idle" /\ cursor = 0 /\ attempt = 1 /\ page = <<>>
  /\ yielded = <<>> /\ error = "none"
  /\ sleeping = 0 /\ sinceStamp = MinInterval /\ sinceCall = MinInterval

\* A new client and a call of its fetch_all. A new client has no
\* _last_call_ts, which asks for no wait, as a time long past does.
StartFetch ==
  /\ pc \in Ended
  /\ pc' = "throttle"
  /\ feed' \in Feeds /\ overrun' \in BOOLEAN
  /\ sleeps' \in BOOLEAN /\ validates' \in BOOLEAN
  /\ cursor' = 0 /\ attempt' = 1 /\ page' = <<>>
  /\ yielded' = <<>> /\ error' = "none"
  /\ sleeping' = 0 /\ sinceStamp' = MinInterval /\ sinceCall' = MinInterval

\* The client is gone once its records or its exception are with the caller.
CloseClient ==
  /\ pc' = "idle" /\ cursor' = 0 /\ attempt' = 1 /\ page' = <<>>
  /\ overrun' = FALSE /\ sleeps' = FALSE /\ validates' = FALSE
  /\ sleeping' = 0 /\ sinceStamp' = MinInterval /\ sinceCall' = MinInterval
  /\ UNCHANGED <<feed, resultVars>>

\* Time goes by while the client sleeps, waits for an answer or hands its
\* records over.
Tick ==
  /\ pc \in Fetching
  /\ sleeping > 0 \/ sinceStamp < MinInterval \/ sinceCall < MinInterval
  /\ sleeping' = IF sleeping > 0 THEN sleeping - 1 ELSE 0
  /\ sinceStamp' = IF sinceStamp < MinInterval THEN sinceStamp + 1 ELSE sinceStamp
  /\ sinceCall' = IF sinceCall < MinInterval THEN sinceCall + 1 ELSE sinceCall
  /\ UNCHANGED <<callVars, pc, cursor, attempt, page, resultVars>>

\* A throttle that asks for no wait.
WaitNothing == 0

\* _respect_rate_limit, its wait.
Wait == MinInterval - sinceStamp
Throttle ==
  /\ pc = "throttle"
  /\ pc' = "wait"
  /\ sleeping' = IF sleeps THEN Wait ELSE 0
  /\ UNCHANGED <<callVars, cursor, attempt, page, resultVars, sinceStamp,
                 sinceCall>>

\* _respect_rate_limit stamps _last_call_ts, and at once the first attempt
\* of _fetch_page calls the server.
FirstAttempt ==
  /\ pc = "wait" /\ sleeping = 0
  /\ pc' = "call"
  /\ attempt' = 1
  /\ sinceStamp' = 0 /\ sinceCall' = 0
  /\ UNCHANGED <<callVars, cursor, page, resultVars, sleeping>>

\* A loop that does not count.
Uncounted == attempt

\* A later attempt: the decorated function is _fetch_page, which neither
\* throttles nor stamps.
FollowingAttempt == attempt + 1
NextAttempt ==
  /\ pc = "backoff" /\ sleeping = 0
  /\ pc' = "call"
  /\ attempt' = FollowingAttempt
  /\ sinceCall' = 0
  /\ UNCHANGED <<callVars, cursor, page, resultVars, sleeping, sinceStamp>>

\* An index past the last page gets an empty page without a cursor.
PageAt(i) == IF i < Len(feed) THEN feed[i + 1] ELSE <<>>
HasNext(i) == i + 1 < Len(feed) \/ (overrun /\ i + 1 = Len(feed))

\* A client that goes on to the next page when a call fails.
CursorSkips == IF HasNext(cursor) THEN cursor + 1 ELSE cursor

\* with_retry keeps the arguments of the call.
CursorOfRetry == cursor

PageArrives ==
  /\ pc = "call"
  /\ pc' = "yield"
  /\ page' = PageAt(cursor)
  /\ UNCHANGED <<callVars, cursor, attempt, resultVars, timeVars>>

Fail(with) == pc' = "failed" /\ error' = with

\* A backoff without its cap.
BackoffUncapped(k) == 0..(InitialDelay * 2^(k - 1))

\* The last attempt re-raises the error it got; delay_for_attempt caps the
\* backoff, and its jitter takes any part of it. The backoff is the same for
\* all RetryableErrors.
Exhausted == attempt >= MaxAttempts
Backoff(k) == {d \in 0..MaxDelay : d <= InitialDelay * 2^(k - 1)}
TransientError ==
  /\ pc = "call"
  /\ IF Exhausted
       THEN /\ \E e \in Transient : Fail(e)
            /\ UNCHANGED <<cursor, sleeping>>
       ELSE /\ pc' = "backoff"
            /\ sleeping' \in Backoff(attempt)
            /\ cursor' = CursorOfRetry
            /\ UNCHANGED error
  /\ UNCHANGED <<callVars, attempt, page, yielded, sinceStamp, sinceCall>>

\* Anything but a RetryableError goes through with_retry at once.
PermanentError ==
  /\ pc = "call"
  /\ \E e \in Permanent : Fail(e)
  /\ UNCHANGED <<callVars, cursor, attempt, page, yielded, timeVars>>

\* The records of a page are validated and yielded one by one, then the
\* cursor moves on or the loop ends.
FirstInvalid == SelectInSeq(page, LAMBDA r : validates /\ r \in Invalid)
YieldPage ==
  /\ pc = "yield"
  /\ IF FirstInvalid > 0
       THEN /\ yielded' = yielded \o SubSeq(page, 1, FirstInvalid - 1)
            /\ Fail("NonRetryableError")
            /\ UNCHANGED cursor
       ELSE /\ yielded' = yielded \o page
            /\ UNCHANGED error
            /\ IF HasNext(cursor)
                 THEN pc' = "throttle" /\ cursor' = cursor + 1
                 ELSE pc' = "done" /\ UNCHANGED cursor
  /\ UNCHANGED <<callVars, attempt, page, timeVars>>

\* What the client does by itself, and what the server answers.
ClientStep == Throttle \/ FirstAttempt \/ NextAttempt \/ YieldPage
ServerStep == PageArrives \/ TransientError \/ PermanentError
FetchStep == ClientStep \/ ServerStep \/ Tick
-----------------------------------------------------------------------------
(***************************************************************************)
(* Properties.                                                             *)
(***************************************************************************)
\* Every variable of the client has its type.
ClientTypeOK ==
  /\ feed \in Feeds \union {<<>>} /\ overrun \in BOOLEAN
  /\ sleeps \in BOOLEAN /\ validates \in BOOLEAN
  /\ pc \in Fetching \union Ended
  /\ cursor \in 0..MaxPages /\ attempt \in 1..MaxAttempts
  /\ page \in Pages
  /\ yielded \in Seq(Records) /\ error \in Errors
  /\ sleeping \in 0..(IF pc = "backoff" THEN MaxDelay ELSE MinInterval)
  /\ sinceStamp \in 0..MinInterval /\ sinceCall \in 0..MinInterval

\* Retries neither skip nor repeat a page: what has been yielded is a prefix
\* of the feed, and all of it when fetch_all ends without an error.
FeedYieldedOnce ==
  /\ IsPrefix(yielded, FlattenSeq(feed))
  /\ pc = "done" => yielded = FlattenSeq(feed)

\* With a sleep_fn that sleeps, two calls of the server are closer than the
\* rate limit allows only when one of their pages was retried.
BurstsAreRetries ==
  [][FirstAttempt \/ NextAttempt =>
       sinceCall >= MinInterval \/ ~sleeps \/ attempt > 1 \/ attempt' > 1]_clientVars

\* "API rate limit (HTTP 429) | `ApiRateLimitError` from transport | Yes,
\* backoff respects rate limit"
\* (docs/lld/10_failure_handling_lld.md:23).
BackoffRespectsRateLimit ==
  [][FirstAttempt \/ NextAttempt => sinceCall >= MinInterval \/ ~sleeps]_clientVars
=============================================================================
