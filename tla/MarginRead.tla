------------------------------ MODULE MarginRead ------------------------------
(***************************************************************************)
(* The margin read of the perp controllers of one connector                *)
(* (_current_margin_available): a lock, a cache and a backoff they share,  *)
(* a VenueCircuitBreaker and a cycle deadline that each has of its own.    *)
(* Times are counted down or up from now: retry and backoff are what is    *)
(* left of a delay, ages saturate.                                         *)
(***************************************************************************)
EXTENDS Integers, Sequences, SequencesExt

CONSTANTS
    Controllers,     \* the controllers that share the connector
    RequestTimeout,  \* venue_request_timeout (5 s)
    CycleDeadline,   \* control_cycle_timeout (15 s)
    CacheTtl,        \* margin_cache_ttl (10 s)
    BackoffInitial,  \* venue_backoff_initial (2 s)
    BackoffMax,      \* venue_backoff_max (60 s)
    Headers,         \* delays of a retry-after header; 0 is none
    MaxFaults        \* bound on refused, late and cancelled reads

ASSUME MarginAssumption ==
    /\ {RequestTimeout, CycleDeadline, CacheTtl, BackoffInitial, BackoffMax}
         \subseteq Nat \ {0}
    /\ BackoffInitial <= BackoffMax /\ RequestTimeout < CacheTtl
    /\ Headers \subseteq Nat /\ MaxFaults \in Nat

VARIABLES
    reading,   \* where each controller's cycle is: paused (control_loop sleeps),
               \* idle (may start), waiting (for the lock), requesting
    waiters,   \* the queue of connector._opms_margin_lock
    cycleAge,  \* per controller, the time since its cycle started
    circuit,   \* per controller, its _venue_circuit
    request,   \* the age of the request in flight, -1 when none is
    cacheAge,  \* now - _opms_margin_cache[1]; CacheTtl: none or too old
    backoff,   \* _opms_margin_retry_at - now
    asked,     \* the retry-after of the last refusal that had one (history)
    quiet,     \* what is left of it, from the refusal on (history)
    margin,    \* what each controller's read returned: venue, zero; none yet
    faults

marginVars == <<reading, waiters, cycleAge, circuit, request, cacheAge,
                backoff, asked, quiet, margin, faults>>

Least(a, b) == IF a < b THEN a ELSE b
Most(a, b) == IF a > b THEN a ELSE b

NoCircuit == [failures |-> 0, retry |-> 0]

MarginInit ==
    /\ reading = [c \in Controllers |-> "idle"]
    /\ waiters = <<>>
    /\ cycleAge = [c \in Controllers |-> 0]
    /\ circuit = [c \in Controllers |-> NoCircuit]
    /\ request = -1 /\ cacheAge = CacheTtl
    /\ backoff = 0 /\ asked = 0 /\ quiet = 0 /\ faults = 0
    /\ margin = [c \in Controllers |-> "none"]

-----------------------------------------------------------------------------
(* VenueCircuitBreaker.                                                    *)

AllowRequest(c) == circuit[c].retry = 0

\* base_backoff_s * 2 ** (failures - 1), at most max_backoff_s.
Exponential(failures) == Least(BackoffInitial * 2 ^ (failures - 1), BackoffMax)

\* The delay of record_failure, with the header of a rate-limited answer.
FailureDelay(c, header) ==
    Least(Most(Exponential(circuit[c].failures + 1), header), BackoffMax)

\* record_failure(now): the delay counts from `now`, which the caller read
\* `ago` before this step.  Failures are counted until the delay is longest.
RecordFailure(c, header, ago) ==
    [circuit EXCEPT ![c] =
        [failures |-> IF Exponential(@.failures + 1) = BackoffMax
                      THEN @.failures ELSE @.failures + 1,
         retry |-> Most(FailureDelay(c, header) - ago, 0)]]

RecordSuccess(c) == [circuit EXCEPT ![c] = NoCircuit]

-----------------------------------------------------------------------------
(* One cycle of a controller, up to the end of its margin read.            *)

InCycle(c) == reading[c] \in {"waiting", "requesting"}

\* control_task starts update_processed_data, which waits for the lock.
StartRead(c) ==
    /\ reading[c] = "idle"
    /\ reading' = [reading EXCEPT ![c] = "waiting"]
    /\ waiters' = Append(waiters, c)
    /\ cycleAge' = [cycleAge EXCEPT ![c] = 0]
    /\ margin' = [margin EXCEPT ![c] = "none"]
    /\ UNCHANGED <<circuit, request, cacheAge, backoff, asked, quiet, faults>>

\* The read ends with a margin, the lock is released, the cycle goes on.
Returns(c, value) ==
    /\ reading' = [reading EXCEPT ![c] = "paused"]
    /\ margin' = [margin EXCEPT ![c] = value]

MayEnter(c) == request = -1 /\ waiters # <<>> /\ Head(waiters) = c

\* Under the lock: a fresh margin is shared.
ReadsCache(c) ==
    /\ MayEnter(c) /\ cacheAge < CacheTtl
    /\ waiters' = Tail(waiters)
    /\ Returns(c, "venue")
    /\ UNCHANGED <<cycleAge, circuit, request, cacheAge, backoff, asked, quiet, faults>>

\* Under the lock: the shared backoff or the own circuit fail the read closed.
FailsClosed(c) ==
    /\ MayEnter(c) /\ cacheAge >= CacheTtl
    /\ backoff > 0 \/ ~AllowRequest(c)
    /\ waiters' = Tail(waiters)
    /\ Returns(c, "zero")
    /\ UNCHANGED <<cycleAge, circuit, request, cacheAge, backoff, asked, quiet, faults>>

\* Under the lock: the request is sent and the lock is kept until it ends.
SendsRequest(c) ==
    /\ MayEnter(c) /\ cacheAge >= CacheTtl
    /\ backoff = 0 /\ AllowRequest(c)
    /\ waiters' = Tail(waiters)
    /\ reading' = [reading EXCEPT ![c] = "requesting"]
    /\ request' = 0
    /\ UNCHANGED <<cycleAge, circuit, cacheAge, backoff, asked, quiet, margin, faults>>

EnterLock(c) == ReadsCache(c) \/ FailsClosed(c) \/ SendsRequest(c)

\* The venue answers in time.
Answers(c) ==
    /\ reading[c] = "requesting"
    /\ request' = -1
    /\ circuit' = RecordSuccess(c)
    /\ cacheAge' = request   \* stamped with the time before the request
    /\ backoff' = 0
    /\ Returns(c, "venue")
    /\ UNCHANGED <<waiters, cycleAge, asked, quiet, faults>>

\* Mutant of SharedBackoff: only the controller's own circuit backs off.
SharedBackoffNone(c) == backoff

\* _opms_margin_retry_at = now + max(retry_in_s, backoff_initial), where
\* `now` is when the request started.
SharedBackoff(c) == Most(Most(circuit'[c].retry, BackoffInitial - request), 0)

\* The request ends in an error: the read fails closed, nothing is cached.
Fails(c, header) ==
    /\ reading[c] = "requesting" /\ faults < MaxFaults
    /\ faults' = faults + 1
    /\ request' = -1
    /\ circuit' = RecordFailure(c, header, request)
    /\ backoff' = SharedBackoff(c)
    /\ Returns(c, "zero")
    /\ UNCHANGED <<waiters, cycleAge, cacheAge>>

\* The venue answers 429, with or without a header.
Refused(c) ==
    \E header \in Headers :
        /\ Fails(c, header)
        /\ IF header = 0 THEN UNCHANGED <<asked, quiet>>
           ELSE asked' = header /\ quiet' = header

\* wait_for(venue_request_timeout) gives up.
TimedOut(c) ==
    /\ request = RequestTimeout
    /\ Fails(c, 0)
    /\ UNCHANGED <<asked, quiet>>

\* Mutant of ReleasedBy: a cancelled request keeps the lock.
ReleasedByNone(c) == request

\* `async with lock`: who is cancelled under the lock releases it.
ReleasedBy(c) == IF reading[c] = "requesting" THEN -1 ELSE request

\* wait_for(control_cycle_timeout) cancels the cycle wherever it waits; a
\* CancelledError is not an Exception, so only control_task records it.
CycleCancelled(c) ==
    /\ InCycle(c) /\ cycleAge[c] = CycleDeadline
    /\ faults < MaxFaults
    /\ faults' = faults + 1
    /\ reading' = [reading EXCEPT ![c] = "paused"]
    /\ waiters' = Remove(waiters, c)
    /\ request' = ReleasedBy(c)
    /\ circuit' = IF AllowRequest(c) THEN RecordFailure(c, 0, 0) ELSE circuit
    /\ margin' = [margin EXCEPT ![c] = "none"]
    /\ UNCHANGED <<cycleAge, cacheAge, backoff, asked, quiet>>

MarginTick ==
    /\ request < RequestTimeout
    /\ \A c \in Controllers : InCycle(c) => cycleAge[c] < CycleDeadline
    /\ waiters # <<>> => request # -1   \* a free lock is taken at once
    /\ request' = IF request = -1 THEN -1 ELSE request + 1
    /\ cycleAge' = [c \in Controllers |->
                      IF InCycle(c) THEN cycleAge[c] + 1 ELSE 0]
    /\ reading' = [c \in Controllers |->
                     IF InCycle(c) THEN reading[c] ELSE "idle"]
    /\ circuit' = [c \in Controllers |->
                     [circuit[c] EXCEPT !.retry = Most(@ - 1, 0)]]
    /\ cacheAge' = Least(cacheAge + 1, CacheTtl)
    /\ backoff' = Most(backoff - 1, 0)
    /\ quiet' = Most(quiet - 1, 0)
    /\ UNCHANGED <<asked, waiters, margin, faults>>

Ends(c) == Answers(c) \/ Refused(c) \/ TimedOut(c) \/ CycleCancelled(c)

-----------------------------------------------------------------------------
(* Properties.                                                             *)

\* The lock is held by the controller whose request is in flight, the others
\* wait in the queue, and the delays are bounded.
MarginTypeOK ==
    /\ request \in -1 .. RequestTimeout
    /\ \A c \in Controllers : reading[c] = "waiting" <=> c \in ToSet(waiters)
    /\ request = -1 <=> \A c \in Controllers : reading[c] # "requesting"
    /\ \A c \in Controllers : circuit[c].retry \in 0 .. BackoffMax
    /\ backoff \in 0 .. BackoffMax

\* How much of its retry-after a refused venue does not get: what is longer
\* than venue_backoff_max, and what the refused request took, since the delay
\* counts from its start.
Ungranted == Most(asked - BackoffMax, 0) + RequestTimeout

\* When the venue answered 429 with a retry-after header, no controller of
\* the connector sends a request before that time has passed but for the
\* above, whichever of them was refused (_opms_margin_retry_at).
QuietAfterRefusal ==
    [][request = -1 /\ request' # -1 => quiet <= Ungranted]_marginVars

\* Once the faults are over every controller reads the venue's margin again
\* and again: no lock, circuit or backoff stays behind a failed, late or
\* cancelled read.
ReadsRecover == \A c \in Controllers : []<>(margin[c] = "venue")
=============================================================================
