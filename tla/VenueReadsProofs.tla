--------------------------- MODULE VenueReadsProofs ---------------------------
(***************************************************************************)
(* The reads of a decision, for every number of controllers, every delay   *)
(* and every number of faults: what a decision may forget of the reported  *)
(* fills and for how long, for every window and every silence of the       *)
(* connector, and how early a controller may disturb a venue that asked    *)
(* for quiet.                                                              *)
(***************************************************************************)
EXTENDS VenueReads, TLAPS

-----------------------------------------------------------------------------
(* The position of a decision (PositionAuthority).                         *)

\* Without a doubt the ledger knows every reported fill, and the connector
\* polled within the window.
LedgerKnows == ~doubtful => ledger >= reported /\ pollAge <= Window

\* A poll that is younger than the last reported fill has seen it.
PollKnows == pollAge < fillAge => polled >= reported

PositionInv == PositionTypeOK /\ filled >= reported /\ LedgerKnows /\ PollKnows

\* Once the window is over, a timely poll is younger than the last fill.
LEMMA DecisionKnows ==
    PositionInv => /\ PositionForDecision \in Nat
                   /\ ~doubtful \/ (fillAge > Window /\ pollAge <= Window)
                        => PositionForDecision >= reported
<1> SUFFICES ASSUME PositionInv
             PROVE  /\ PositionForDecision \in Nat
                    /\ ~doubtful \/ (fillAge > Window /\ pollAge <= Window)
                         => PositionForDecision >= reported
    OBVIOUS
<1>1. CASE fillAge <= Window
  BY <1>1, PositionAssumption
     DEF PositionInv, PositionTypeOK, LedgerKnows, PositionForDecision
<1>2. CASE ~(fillAge <= Window)
  <2>1. pollAge <= Window => pollAge < fillAge
    BY <1>2, PositionAssumption DEF PositionInv, PositionTypeOK
  <2> QED
    BY <1>2, <2>1 DEF PositionInv, PositionTypeOK, LedgerKnows, PollKnows, PositionForDecision
<1> QED
  BY <1>1, <1>2

\* The invariant holds at the start.
LEMMA InitPosition == PositionInit => PositionInv
<1> SUFFICES ASSUME PositionInit PROVE PositionInv
    OBVIOUS
<1>1. PositionTypeOK
  <2>1. 0 \in 0 .. Window + 1 /\ Window + 1 \in 0 .. Window + 1
    BY PositionAssumption
  <2>2. /\ filled = 0 /\ reported = 0 /\ dropped = 0 /\ ledger = 0 /\ polled = 0
        /\ pollAge = 0 /\ fillAge = Window + 1 /\ doubtful = FALSE
    BY DEF PositionInit
  <2>3. {filled, reported, dropped, ledger, polled} \subseteq Nat
    BY <2>2
  <2>4. {pollAge, fillAge} \subseteq 0 .. Window + 1
    BY <2>1, <2>2
  <2> QED
    BY <2>2, <2>3, <2>4 DEF PositionTypeOK
<1>2. filled >= reported /\ LedgerKnows /\ PollKnows
  BY PositionAssumption DEF PositionInit, LedgerKnows, PollKnows
<1> QED
  BY <1>1, <1>2 DEF PositionInv

\* One case per event, poll, decision and tick.
LEMMA NextPosition == PositionInv /\ [PositionNext]_positionVars => PositionInv'
<1> SUFFICES ASSUME PositionInv, [PositionNext]_positionVars PROVE PositionInv'
    OBVIOUS
<1> USE PositionAssumption
<1>1. CASE VenueFills
  BY <1>1 DEF VenueFills, PositionInv, PositionTypeOK, LedgerKnows, PollKnows
<1>2. CASE OnFillEvent
  <2>1. /\ reported' = reported + 1 /\ reported < filled /\ fillAge' = 0
        /\ UNCHANGED <<filled, polled, pollAge>>
    BY <1>2 DEF OnFillEvent
  <2>2. CASE ledger' = ledger + 1 /\ UNCHANGED <<dropped, doubtful>>
    BY <2>1, <2>2 DEF PositionInv, PositionTypeOK, LedgerKnows, PollKnows
  <2>3. CASE dropped' = dropped + 1 /\ doubtful' = TRUE /\ UNCHANGED ledger
    BY <2>1, <2>3 DEF PositionInv, PositionTypeOK, LedgerKnows, PollKnows
  <2> QED
    BY <1>2, <2>2, <2>3 DEF OnFillEvent
<1>3. CASE ConnectorPolls
  BY <1>3 DEF ConnectorPolls, PositionInv, PositionTypeOK, LedgerKnows, PollKnows
<1>4. CASE Decide
  BY <1>4, DecisionKnows DEF Decide, PositionInv, PositionTypeOK, LedgerKnows, PollKnows
<1>5. CASE PositionTick
  <2>1. /\ pollAge' = Older(pollAge) /\ fillAge' = Older(fillAge)
        /\ doubtful' = (doubtful \/ pollAge' > Window)
        /\ UNCHANGED <<filled, reported, dropped, ledger, polled>>
    BY <1>5 DEF PositionTick
  <2>2. /\ {pollAge', fillAge'} \subseteq 0 .. Window + 1
        /\ pollAge' < fillAge' => pollAge < fillAge
    BY <2>1 DEF Older, PositionInv, PositionTypeOK
  <2>3. doubtful' \in BOOLEAN /\ (~doubtful' => ~doubtful /\ ~(pollAge' > Window))
    BY <2>1
  <2>4. PositionTypeOK'
    BY <2>1, <2>2, <2>3 DEF PositionInv, PositionTypeOK
  <2>5. LedgerKnows'
    BY <2>1, <2>2, <2>3 DEF PositionInv, LedgerKnows
  <2>6. PollKnows' /\ (filled >= reported)'
    BY <2>1, <2>2 DEF PositionInv, PollKnows
  <2> QED
    BY <2>4, <2>5, <2>6 DEF PositionInv
<1>6. CASE UNCHANGED positionVars
  BY <1>6 DEF positionVars, PositionInv, PositionTypeOK, LedgerKnows, PollKnows
<1> QED
  BY <1>1, <1>2, <1>3, <1>4, <1>5, <1>6 DEF PositionNext

\* A decision knows every reported fill, but after a refused fill or a silence
\* of the connector that is longer than the window, until the first decision
\* on a timely poll (_position_for_decision, FillObserver._on_fill_event).
THEOREM DecisionsKeepFills == PositionSpec => [](PositionTypeOK /\ NoFillErased)
<1>1. PositionInv => PositionTypeOK /\ NoFillErased
  BY DecisionKnows DEF PositionInv, NoFillErased
<1> QED
  BY <1>1, InitPosition, NextPosition, PTL DEF PositionSpec

-----------------------------------------------------------------------------
(* The cycles of the controllers (VenueReads).                             *)

\* Every step of the controllers is a step of the position, or none.
LEMMA MovesPosition == [Next]_vars => [PositionNext]_positionVars
<1> SUFFICES ASSUME [Next]_vars PROVE [PositionNext]_positionVars
    OBVIOUS
<1>1. ASSUME NEW c \in Controllers, Decides(c) PROVE [PositionNext]_positionVars
  BY <1>1 DEF Decides, PositionNext
<1>2. ASSUME NEW c \in Controllers, CycleReads(c) PROVE [PositionNext]_positionVars
  BY <1>1, <1>2 DEF CycleReads
<1>3. ASSUME NEW c \in Controllers,
             \/ CycleStarts(c) \/ VenueAnswers(c) \/ VenueFails(c) \/ DeadlinePasses(c)
      PROVE  [PositionNext]_positionVars
  BY <1>1, <1>3 DEF CycleStarts, VenueAnswers, VenueFails, DeadlinePasses
<1>4. CASE PositionMoves \/ Tick
  BY <1>4 DEF PositionMoves, Tick, PositionNext
<1>5. CASE UNCHANGED vars
  BY <1>5 DEF vars
<1> QED
  BY <1>2, <1>3, <1>4, <1>5 DEF Next

\* The controllers of a connector, with their margin reads, implement the
\* authority of the position on its own.
LEMMA ReadsKeepPosition == Spec => PositionSpec
<1>1. Init => PositionInit
  BY DEF Init
<1> QED
  BY <1>1, MovesPosition, PTL DEF Spec, PositionSpec

\* The same in the cycles of the controllers: a decision that had to wait for
\* its margin read, a request and other controllers forgets no more.
THEOREM CyclesKeepFills == Spec => []NoFillErased
<1>1. PositionTypeOK /\ NoFillErased => NoFillErased
  OBVIOUS
<1> QED
  BY <1>1, ReadsKeepPosition, DecisionsKeepFills, PTL

-----------------------------------------------------------------------------
(* The shared backoff (MarginRead).                                        *)

MarginTypes ==
    /\ request \in -1 .. RequestTimeout
    /\ backoff \in Nat /\ asked \in Nat /\ quiet \in Nat
    /\ circuit \in [Controllers -> [failures : Nat, retry : Nat]]
    /\ DOMAIN reading = Controllers

\* Whoever is requesting holds the lock, alone.
Locked ==
    /\ \A c \in Controllers : reading[c] = "requesting" => request # -1
    /\ \A c, d \in Controllers :
          reading[c] = "requesting" /\ reading[d] = "requesting" => c = d

\* The shared backoff covers what the venue asked for but for what it is not
\* granted, and a request is in flight only when none of the backoff is left.
Covered ==
    /\ quiet <= backoff + Ungranted
    /\ request # -1 => quiet <= Ungranted

MarginInv == MarginTypes /\ Locked /\ Covered

\* The doubling is a number, however often it is repeated.
LEMMA ExponentialInt ==
    ASSUME NEW failures \in Nat PROVE Exponential(failures + 1) \in Int
<1>1. (failures + 1) - 1 = failures
  OBVIOUS
<1>2. 2 ^ failures \in Int
  OBVIOUS
<1>3. BackoffInitial * 2 ^ failures \in Int
  BY <1>2, MarginAssumption
<1> QED
  BY <1>1, <1>3, MarginAssumption DEF Exponential, Least

\* What record_failure makes of a circuit: the header's delay is kept.
LEMMA FailureRecorded ==
    ASSUME MarginTypes, NEW c \in Controllers, NEW header \in Nat, NEW ago \in Nat
    PROVE  /\ RecordFailure(c, header, ago) \in [Controllers -> [failures : Nat, retry : Nat]]
           /\ RecordFailure(c, header, ago)[c].retry >= Least(header, BackoffMax) - ago
<1> DEFINE failures == IF Exponential(circuit[c].failures + 1) = BackoffMax
                       THEN circuit[c].failures ELSE circuit[c].failures + 1
           retry == Most(FailureDelay(c, header) - ago, 0)
<1>1. circuit[c].failures \in Nat
  BY DEF MarginTypes
<1>2. PICK e \in Int : e = Exponential(circuit[c].failures + 1)
  BY <1>1, ExponentialInt
<1>3. failures \in Nat
  BY <1>1
<1>4. FailureDelay(c, header) = Least(Most(e, header), BackoffMax)
  BY <1>2 DEF FailureDelay
<1>5. /\ Least(Most(e, header), BackoffMax) \in Int
      /\ Least(Most(e, header), BackoffMax) >= Least(header, BackoffMax)
  <2>1. BackoffMax \in Nat
    BY MarginAssumption
  <2>2. PICK m \in Int : m = Most(e, header) /\ m >= header
    BY DEF Most
  <2> QED
    BY <2>1, <2>2 DEF Least
<1>6. retry \in Nat /\ retry >= Least(header, BackoffMax) - ago
  BY <1>4, <1>5, MarginAssumption DEF Most, Least
<1>7. RecordFailure(c, header, ago)
        = [circuit EXCEPT ![c] = [failures |-> failures, retry |-> retry]]
  BY DEF RecordFailure
<1> HIDE DEF failures, retry
<1> QED
  BY <1>3, <1>6, <1>7 DEF MarginTypes

\* The invariant holds at the start.
LEMMA InitMargin == MarginInit => MarginInv
BY MarginAssumption
   DEF MarginInit, MarginInv, MarginTypes, Locked, Covered, NoCircuit, Ungranted, Most

\* Somebody leaves the cycle: nobody new holds the lock.
LEMMA StaysLocked ==
    ASSUME MarginInv, NEW c \in Controllers, NEW at, at # "requesting",
           reading' = [reading EXCEPT ![c] = at],
           request' = request \/ reading[c] = "requesting"
    PROVE  Locked' /\ DOMAIN reading' = Controllers
BY DEF MarginInv, MarginTypes, Locked

\* What the venue is not granted is a duration.
LEMMA UngrantedNat == MarginTypes => Ungranted \in Nat
BY MarginAssumption DEF MarginTypes, Ungranted, Most

\* A failed read: the shared backoff is as long as the venue asked, but for
\* what is above the longest backoff and what the request took.
LEMMA FailsInv ==
    ASSUME MarginInv, NEW c \in Controllers, NEW header \in Nat, Fails(c, header),
           \/ asked' = header /\ quiet' = header
           \/ UNCHANGED <<asked, quiet>>
    PROVE  MarginInv'
<1>1. /\ reading[c] = "requesting" /\ request \in 0 .. RequestTimeout
      /\ quiet <= Ungranted
  BY DEF Fails, MarginInv, MarginTypes, Locked, Covered
<1>2. /\ reading' = [reading EXCEPT ![c] = "paused"] /\ request' = -1
      /\ circuit' = RecordFailure(c, header, request)
      /\ backoff' = Most(Most(circuit'[c].retry, BackoffInitial - request), 0)
  BY DEF Fails, Returns, SharedBackoff
<1>3. /\ circuit' \in [Controllers -> [failures : Nat, retry : Nat]]
      /\ circuit'[c].retry >= Least(header, BackoffMax) - request
  BY <1>1, <1>2, FailureRecorded, MarginAssumption DEF MarginInv
<1>4. PICK r \in Nat : r = circuit'[c].retry
  BY <1>3
<1>5. backoff' \in Nat /\ backoff' >= Least(header, BackoffMax) - request
  BY <1>1, <1>2, <1>3, <1>4, MarginAssumption DEF Most, Least
<1>6. Locked' /\ DOMAIN reading' = Controllers
  BY <1>1, <1>2, StaysLocked
<1>7. CASE asked' = header /\ quiet' = header
  <2>1. header <= backoff' + Most(header - BackoffMax, 0) + RequestTimeout
    BY <1>1, <1>5, MarginAssumption DEF Most, Least
  <2>2. Ungranted' = Most(header - BackoffMax, 0) + RequestTimeout
    BY <1>7 DEF Ungranted
  <2>4. /\ backoff' \in Int /\ Most(header - BackoffMax, 0) \in Int
        /\ RequestTimeout \in Int
    BY <1>5, MarginAssumption DEF Most
  <2>5. quiet' <= backoff' + Ungranted'
    BY <1>7, <2>1, <2>2, <2>4
  <2>3. Covered'
    BY <1>2, <2>5 DEF Covered
  <2> QED
    BY <1>2, <1>3, <1>5, <1>6, <1>7, <2>3, MarginAssumption DEF MarginInv, MarginTypes
<1>8. CASE UNCHANGED <<asked, quiet>>
  <2>1. Ungranted' = Ungranted /\ Ungranted \in Nat /\ quiet' = quiet /\ quiet \in Nat
    BY <1>8, UngrantedNat DEF Ungranted, MarginInv, MarginTypes
  <2>2. Covered'
    BY <1>1, <1>2, <1>5, <2>1 DEF Covered
  <2> QED
    BY <1>2, <1>3, <1>5, <1>6, <1>8, <2>2, MarginAssumption DEF MarginInv, MarginTypes
<1> QED
  BY <1>7, <1>8

\* A request is sent only when the shared backoff is over.
LEMMA EnterInv ==
    ASSUME MarginInv, NEW c \in Controllers, EnterLock(c)
    PROVE  MarginInv'
<1>1. CASE ReadsCache(c) \/ FailsClosed(c)
  <2>1. /\ reading' = [reading EXCEPT ![c] = "paused"]
        /\ UNCHANGED <<request, circuit, backoff, asked, quiet>>
    BY <1>1 DEF ReadsCache, FailsClosed, Returns
  <2>2. Locked' /\ DOMAIN reading' = Controllers
    BY <2>1, StaysLocked
  <2> QED
    BY <2>1, <2>2, UngrantedNat, MarginAssumption
       DEF MarginInv, MarginTypes, Covered, Ungranted
<1>2. CASE SendsRequest(c)
  <2>1. /\ request = -1 /\ backoff = 0 /\ request' = 0
        /\ reading' = [reading EXCEPT ![c] = "requesting"]
        /\ UNCHANGED <<circuit, backoff, asked, quiet>>
    BY <1>2 DEF SendsRequest, MayEnter
  <2>2. Locked'
    BY <2>1 DEF MarginInv, MarginTypes, Locked
  <2> QED
    BY <2>1, <2>2, UngrantedNat, MarginAssumption
       DEF MarginInv, MarginTypes, Covered, Ungranted
<1> QED
  BY <1>1, <1>2 DEF EnterLock

\* A cycle starts, is answered, or is cancelled wherever it waits.
LEMMA CycleInv ==
    ASSUME MarginInv, NEW c \in Controllers,
           StartRead(c) \/ Answers(c) \/ CycleCancelled(c)
    PROVE  MarginInv'
<1>1. CASE StartRead(c)
  <2>1. /\ reading' = [reading EXCEPT ![c] = "waiting"]
        /\ UNCHANGED <<request, circuit, backoff, asked, quiet>>
    BY <1>1 DEF StartRead
  <2>2. Locked' /\ DOMAIN reading' = Controllers
    BY <2>1, StaysLocked
  <2> QED
    BY <2>1, <2>2, UngrantedNat, MarginAssumption
       DEF MarginInv, MarginTypes, Covered, Ungranted
<1>2. CASE Answers(c)
  <2>1. /\ reading' = [reading EXCEPT ![c] = "paused"] /\ reading[c] = "requesting"
        /\ request' = -1 /\ backoff' = 0 /\ UNCHANGED <<asked, quiet>>
        /\ request # -1
        /\ circuit' = RecordSuccess(c)
    BY <1>2 DEF Answers, Returns, MarginInv, Locked
  <2>2. Locked' /\ DOMAIN reading' = Controllers
    BY <2>1, StaysLocked
  <2>3. circuit' \in [Controllers -> [failures : Nat, retry : Nat]]
    BY <2>1 DEF RecordSuccess, NoCircuit, MarginInv, MarginTypes
  <2> QED
    BY <2>1, <2>2, <2>3, UngrantedNat, MarginAssumption
       DEF MarginInv, MarginTypes, Covered, Ungranted
<1>3. CASE CycleCancelled(c)
  <2>1. /\ reading' = [reading EXCEPT ![c] = "paused"]
        /\ request' = ReleasedBy(c) /\ UNCHANGED <<backoff, asked, quiet>>
        /\ circuit' \in {RecordFailure(c, 0, 0), circuit}
    BY <1>3 DEF CycleCancelled
  <2>2. IF reading[c] = "requesting" THEN request' = -1 ELSE request' = request
    BY <2>1 DEF ReleasedBy
  <2>3. Locked' /\ DOMAIN reading' = Controllers
    BY <2>1, <2>2, StaysLocked
  <2>4. circuit' \in [Controllers -> [failures : Nat, retry : Nat]]
    <3>1. RecordFailure(c, 0, 0) \in [Controllers -> [failures : Nat, retry : Nat]]
      BY FailureRecorded DEF MarginInv
    <3> QED
      BY <2>1, <3>1 DEF MarginInv, MarginTypes
  <2> QED
    BY <2>1, <2>2, <2>3, <2>4, UngrantedNat, MarginAssumption
       DEF MarginInv, MarginTypes, Covered, Ungranted
<1> QED
  BY <1>1, <1>2, <1>3

\* Time: every delay has one less left.
LEMMA MarginTickInv == MarginInv /\ MarginTick => MarginInv'
<1> SUFFICES ASSUME MarginInv, MarginTick PROVE MarginInv'
    OBVIOUS
<1>1. /\ request' = IF request = -1 THEN -1 ELSE request + 1
      /\ request < RequestTimeout /\ Ungranted' = Ungranted
  BY DEF MarginTick, Ungranted
<1>2. backoff' = Most(backoff - 1, 0) /\ quiet' = Most(quiet - 1, 0) /\ asked' = asked
  BY DEF MarginTick
<1>3. /\ DOMAIN reading' = Controllers
      /\ \A c \in Controllers : reading'[c] = "requesting" => reading[c] = "requesting"
  BY DEF MarginTick
<1>4. circuit' \in [Controllers -> [failures : Nat, retry : Nat]]
  <2>1. circuit' = [c \in Controllers |->
                     [circuit[c] EXCEPT !.retry = Most(circuit[c].retry - 1, 0)]]
    BY DEF MarginTick
  <2>2. ASSUME NEW c \in Controllers
        PROVE  Most(circuit[c].retry - 1, 0) \in Nat
    BY DEF Most, MarginInv, MarginTypes
  <2>3. ASSUME NEW c \in Controllers
        PROVE  [circuit[c] EXCEPT !.retry = Most(circuit[c].retry - 1, 0)]
                 \in [failures : Nat, retry : Nat]
    BY <2>2 DEF MarginInv, MarginTypes
  <2> QED
    BY <2>1, <2>3
<1>5. MarginTypes'
  BY <1>1, <1>2, <1>3, <1>4, MarginAssumption DEF MarginInv, MarginTypes, Most
<1>6. Locked'
  BY <1>1, <1>3 DEF MarginInv, MarginTypes, Locked
<1>7. Covered'
  BY <1>1, <1>2, UngrantedNat DEF MarginInv, MarginTypes, Covered, Most
<1> QED
  BY <1>5, <1>6, <1>7 DEF MarginInv

\* One case per part of a cycle.
LEMMA NextMargin == MarginInv /\ [Next]_vars => MarginInv'
<1> SUFFICES ASSUME MarginInv, [Next]_vars PROVE MarginInv'
    OBVIOUS
<1>1. ASSUME NEW c \in Controllers,
             CycleStarts(c) \/ CycleReads(c) \/ VenueAnswers(c) \/ DeadlinePasses(c)
      PROVE  MarginInv'
  BY <1>1, EnterInv, CycleInv DEF CycleStarts, CycleReads, VenueAnswers, DeadlinePasses
<1>2. ASSUME NEW c \in Controllers, VenueFails(c) PROVE MarginInv'
  <2>1. CASE Refused(c)
    BY <2>1, FailsInv, MarginAssumption DEF Refused
  <2>2. CASE TimedOut(c)
    BY <2>2, FailsInv DEF TimedOut
  <2> QED
    BY <1>2, <2>1, <2>2 DEF VenueFails
<1>3. CASE Tick
  BY <1>3, MarginTickInv DEF Tick
<1>4. CASE PositionMoves \/ UNCHANGED vars
  BY <1>4 DEF PositionMoves, vars, marginVars, MarginInv, MarginTypes, Locked, Covered,
              Ungranted
<1> QED
  BY <1>1, <1>2, <1>3, <1>4 DEF Next

\* A request starts only where a controller enters the lock.
LEMMA QuietStep ==
    MarginInv /\ [Next]_vars => [request = -1 /\ request' # -1 => quiet <= Ungranted]_marginVars
<1> SUFFICES ASSUME MarginInv, [Next]_vars, request = -1, request' # -1
             PROVE  quiet <= Ungranted
    OBVIOUS
<1>1. ASSUME NEW c \in Controllers, SendsRequest(c) PROVE quiet <= Ungranted
  BY <1>1, UngrantedNat DEF SendsRequest, MarginInv, MarginTypes, Covered
<1>2. ASSUME NEW c \in Controllers, CycleReads(c) PROVE quiet <= Ungranted
  BY <1>1, <1>2 DEF CycleReads, EnterLock, ReadsCache, FailsClosed
<1>3. ASSUME NEW c \in Controllers,
             CycleStarts(c) \/ VenueAnswers(c) \/ VenueFails(c) \/ DeadlinePasses(c)
      PROVE  FALSE
  BY <1>3 DEF CycleStarts, StartRead, VenueAnswers, Answers, VenueFails, Refused,
              TimedOut, Fails, DeadlinePasses, CycleCancelled, ReleasedBy
<1>4. CASE PositionMoves \/ Tick \/ UNCHANGED vars
  BY <1>4 DEF PositionMoves, Tick, MarginTick, vars, marginVars
<1> QED
  BY <1>2, <1>3, <1>4 DEF Next

\* Whichever controller was refused, none of the connector sends a request
\* before the venue's retry-after is over, but for the excess of a header above
\* the longest backoff and the duration of one request
\* (_opms_margin_retry_at, VenueCircuitBreaker.record_failure).
THEOREM VenueLeftAlone == Spec => QuietAfterRefusal
<1>1. Init => MarginInv
  BY InitMargin DEF Init
<1> QED
  BY <1>1, NextMargin, QuietStep, PTL DEF Spec, QuietAfterRefusal
===============================================================================
