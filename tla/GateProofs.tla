------------------------------ MODULE GateProofs ------------------------------
(***************************************************************************)
(* The two live write gates, each by its own specification.  A quote gate  *)
(* that passed leaves its account clean, and never has quotes of two       *)
(* generations before its first failure: for every set of executors, and   *)
(* whatever orders the account had before.  The de-risk gate never holds   *)
(* more than the position it opens, and leaves the account flat when it    *)
(* passed: for every size and every set of executors.                      *)
(***************************************************************************)
EXTENDS QuoteGate, DeriskGate, TLAPS

-----------------------------------------------------------------------------
(* The quote gate.                                                         *)

QuoteTypes ==
    /\ step \in Steps /\ failed \in BOOLEAN /\ foreign \in BOOLEAN /\ exposed \in BOOLEAN
    /\ executors \subseteq Ids /\ creating \subseteq Ids
    /\ ex \in [Ids -> {"none", "running", "stopping", "closed", "killed"}]
    /\ order \in [Ids -> {"none", "flight", "resting"}]

\* An executor that does not run has no order, unless it was killed.
\* What the script lists has been started.
QuoteNoOrphans ==
    /\ \A i \in Ids : ex[i] \in {"none", "closed"} => order[i] = "none"
    /\ \A i \in executors \cup creating : ex[i] # "none"

\* Before the first failure the script knows every executor that runs.
AllKnown ==
    ~failed => \A i \in Ids :
        /\ ex[i] # "killed"
        /\ ex[i] \in {"running", "stopping"} => i \in executors \cup creating

CreatesInTurn == creating # {} => step \in {"create", "create2"}

\* Where the script is once it has seen its executors closed, or has none.
Settled == {"ready", "warmup", "create", "create2", "leftover", "position",
            "finally", "ending", "done"}

\* There, before the first failure, none of the older executors has an order.
Ended(i) == ex[i] \in {"none", "closed"} /\ order[i] = "none"

AllEnded == ~failed /\ step \in Settled => \A i \in Ids \ creating : Ended(i)

\* Where the script has read that the account is flat, with nothing of its
\* own that could change it.
FlatRead ==
    ~failed /\ ~foreign /\ step \in {"warmup", "finally", "ending", "done"} => ~exposed

QuoteIInv ==
    /\ QuoteTypes /\ QuoteNoOrphans /\ AllKnown /\ CreatesInTurn /\ AllEnded
    /\ FlatRead

\* The invariant holds at the start.
LEMMA QuoteInitInv == QuoteInit => QuoteIInv
BY DEF QuoteInit, GateInit, QuoteIInv, QuoteTypes, Steps, QuoteNoOrphans, AllKnown,
       CreatesInTurn,
       Settled, AllEnded, Ended, FlatRead

\* Steps of the executors and of the venue.
LEMMA VenueInv == QuoteIInv /\ QuoteVenue => QuoteIInv'
<1> SUFFICES ASSUME QuoteIInv, QuoteVenue PROVE QuoteIInv'
    OBVIOUS
<1> USE DEF QuoteIInv, QuoteTypes, gateVars, venueVars
<1>1. CASE ForeignFills
  BY <1>1 DEF ForeignFills, QuoteNoOrphans, AllKnown, CreatesInTurn, Settled, AllEnded,
              Ended, FlatRead
<1>2. ASSUME NEW i \in Ids, ExecutorRuns(i), UNCHANGED <<foreign, exposed>>
      PROVE  QuoteIInv'
  <2> USE <1>2
  <2>1. UNCHANGED gateVars
    BY DEF ExecutorRuns, Places, Acked, Cancels, Closes
  <2>2. /\ ex' \in [Ids -> {"none", "running", "stopping", "closed", "killed"}]
        /\ order' \in [Ids -> {"none", "flight", "resting"}]
    BY DEF ExecutorRuns, Places, Acked, Cancels, Closes
  <2>3. /\ \A j \in Ids : ex'[j] # ex[j] =>
                /\ ex[j] \in {"running", "stopping"}
                /\ ex'[j] = "closed" /\ order'[j] = "none"
        /\ \A j \in Ids : order[j] = "none" /\ order'[j] # "none" => ex[j] = "running"
    BY DEF ExecutorRuns, Places, Acked, Cancels, Closes
  <2>4. QuoteNoOrphans'
    BY <2>1, <2>2, <2>3 DEF QuoteNoOrphans
  <2>5. AllKnown'
    BY <2>1, <2>2, <2>3 DEF AllKnown
  <2>6. AllEnded'
    BY <2>1, <2>2, <2>3 DEF AllEnded, Ended, Settled
  <2> QED
    BY <2>1, <2>2, <2>4, <2>5, <2>6 DEF CreatesInTurn, FlatRead
<1>3. ASSUME NEW i \in Ids, Fills(i) PROVE QuoteIInv'
  <2> USE <1>3 DEF Fills
  <2>1. /\ order' \in [Ids -> {"none", "flight", "resting"}] /\ exposed' \in BOOLEAN
        /\ \A j \in Ids : order[j] = "none" => order'[j] = "none"
    OBVIOUS
  <2>2. QuoteNoOrphans'
    BY <2>1 DEF QuoteNoOrphans
  <2>3. AllEnded'
    BY <2>1 DEF AllEnded, Ended
  <2>4. AllKnown' /\ CreatesInTurn'
    BY DEF AllKnown, CreatesInTurn
  <2>5. ~failed => step \notin {"warmup", "finally", "ending", "done"}
    BY DEF AllEnded, Settled, Ended, CreatesInTurn
  <2> QED
    BY <2>1, <2>2, <2>3, <2>4, <2>5 DEF FlatRead
<1> QED
  BY <1>1, <1>2, <1>3 DEF QuoteVenue

\* The steps of the script that touch no executor.
LEMMA ReadsInv ==
    QuoteIInv /\ (QuoteReady \/ Warmup \/ Refresh \/ Await
                    \/ AwaitNew \/ QuotePosition) => QuoteIInv'
<1> SUFFICES ASSUME QuoteIInv, \/ QuoteReady \/ Warmup \/ Refresh
                               \/ Await \/ AwaitNew
                               \/ QuotePosition
             PROVE QuoteIInv'
    OBVIOUS
<1> USE DEF QuoteIInv, QuoteTypes, Steps, gateVars, venueVars, Checks, GoTo
<1>1. CASE QuoteReady
  BY <1>1 DEF QuoteReady, QuoteNoOrphans, AllKnown, CreatesInTurn, Settled, AllEnded,
              Ended, FlatRead
<1>2. CASE Warmup
  BY <1>2 DEF Warmup, QuoteNoOrphans, AllKnown, CreatesInTurn, Settled, AllEnded,
              Ended, FlatRead
<1>3. CASE Refresh
  BY <1>3 DEF Refresh, QuoteNoOrphans, AllKnown, CreatesInTurn, Settled, AllEnded,
              Ended, FlatRead
<1>4. CASE Await
  BY <1>4 DEF Await, QuoteNoOrphans, AllKnown, CreatesInTurn, Settled, AllEnded, Ended,
              FlatRead
<1>5. CASE AwaitNew
  BY <1>5 DEF AwaitNew, QuoteNoOrphans, AllKnown, CreatesInTurn, Settled, AllEnded, Ended,
              FlatRead
<1>6. CASE QuotePosition
  <2>1. /\ step = "position" /\ step' = "finally"
        /\ UNCHANGED <<dry, executors, creating, ex, order, foreign>>
    BY <1>6 DEF QuotePosition
  <2>2. failed' \in BOOLEAN /\ exposed' \in BOOLEAN
    BY <1>6 DEF QuotePosition
  <2>3. failed => failed'
    BY <1>6, Zenon DEF QuotePosition
  <2>4. exposed => failed'
    BY <1>6, Zenon DEF QuotePosition
  <2>5. exposed' \in {exposed, FALSE}
    BY <1>6 DEF QuotePosition
  <2>6. ~failed' => ~exposed'
    BY <2>4, <2>5
  <2>7. QuoteNoOrphans' /\ AllKnown' /\ CreatesInTurn'
    BY <2>1, <2>3 DEF QuoteNoOrphans, AllKnown, CreatesInTurn
  <2>8. AllEnded'
    BY <2>1, <2>3 DEF AllEnded, Ended, Settled
  <2> QED
    BY <2>1, <2>2, <2>6, <2>7, <2>8 DEF FlatRead
<1> QED
  BY <1>1, <1>2, <1>3, <1>4, <1>5, <1>6

\* The steps that create executors.
LEMMA CreateInv ==
    ASSUME QuoteIInv, NEW at \in {"create", "create2"}, NEW next \in {"await", "await2"},
           Create(at) \/ Created(at, next)
    PROVE  QuoteIInv'
<1> USE DEF QuoteIInv, QuoteTypes, Steps, gateVars, venueVars, GoTo
<1>1. CASE Create(at)
  <2>1. PICK i \in Ids : CreateOne(i)
    BY <1>1 DEF Create
  <2>2. /\ ex' \in [Ids -> {"none", "running", "stopping", "closed", "killed"}]
        /\ ex[i] = "none" /\ ex'[i] = "running"
        /\ \A j \in Ids : j # i => ex'[j] = ex[j]
        /\ creating' = creating \cup {i}
    BY <2>1 DEF CreateOne
  <2>3. UNCHANGED <<step, failed, dry, executors, order, foreign, exposed>> /\ step = at
    BY <1>1 DEF Create
  <2>4. QuoteNoOrphans' /\ AllKnown'
    BY <2>2, <2>3 DEF QuoteNoOrphans, AllKnown
  <2>5. CreatesInTurn' /\ AllEnded' /\ FlatRead'
    BY <2>2, <2>3 DEF CreatesInTurn, AllEnded, FlatRead, Settled, Ended
  <2> QED
    BY <2>2, <2>3, <2>4, <2>5
<1>2. CASE Created(at, next)
  <2>1. /\ step = at /\ step' = next /\ executors' = creating /\ creating' = {}
        /\ UNCHANGED <<failed, dry, ex, order, foreign, exposed>>
    BY <1>2 DEF Created
  <2>2. ~failed => \A i \in Ids \ creating : Ended(i)
    BY <2>1 DEF AllEnded, Settled
  <2>3. AllKnown'
    BY <2>1, <2>2 DEF AllKnown, Ended
  <2> QED
    BY <2>1, <2>3 DEF QuoteNoOrphans, CreatesInTurn, AllEnded, FlatRead, Settled
<1> QED
  BY <1>1, <1>2

\* The steps that stop executors.
LEMMA StopInv ==
    QuoteIInv /\ (\/ StopAll("stop", "stopping") \/ StopAll("stop2", "stopping2")
                  \/ Stopped("stopping", "create2") \/ Stopped("stopping2", "leftover")
                  \/ QuoteFinallyStops \/ Ends) => QuoteIInv'
<1> SUFFICES ASSUME QuoteIInv,
                    \/ StopAll("stop", "stopping") \/ StopAll("stop2", "stopping2")
                    \/ Stopped("stopping", "create2") \/ Stopped("stopping2", "leftover")
                    \/ QuoteFinallyStops \/ Ends
             PROVE QuoteIInv'
    OBVIOUS
<1> USE DEF QuoteIInv, QuoteTypes, Steps, gateVars, venueVars, GoTo
<1>1. CASE StopAll("stop", "stopping") \/ StopAll("stop2", "stopping2")
  <2>1. /\ EarlyStop(executors)
        /\ step \in {"stop", "stop2"} /\ step' \in {"stopping", "stopping2"}
        /\ UNCHANGED <<failed, dry, executors, creating, order, foreign, exposed>>
    BY <1>1 DEF StopAll
  <2>2. /\ ex' \in [Ids -> {"none", "running", "stopping", "closed", "killed"}]
        /\ \A i \in Ids : ex'[i] # ex[i] => ex[i] = "running" /\ ex'[i] = "stopping"
    BY <2>1 DEF EarlyStop
  <2>3. QuoteNoOrphans' /\ AllKnown'
    BY <2>1, <2>2 DEF QuoteNoOrphans, AllKnown
  <2> QED
    BY <2>1, <2>2, <2>3 DEF CreatesInTurn, AllEnded, FlatRead, Settled
<1>2. CASE Stopped("stopping", "create2") \/ Stopped("stopping2", "leftover")
  <2>1. /\ Checks(Forced(executors) = {}) /\ Stop(executors)
        /\ step \in {"stopping", "stopping2"} /\ step' \in {"create2", "leftover"}
        /\ UNCHANGED <<dry, executors, creating, order, foreign, exposed>>
    BY <1>2 DEF Stopped
  <2>2. creating = {} /\ creating' = {}
    BY <2>1 DEF CreatesInTurn
  <2>3. /\ ex' \in [Ids -> {"none", "running", "stopping", "closed", "killed"}]
        /\ \A i \in Ids : ex'[i] \in {ex[i], "killed"}
    BY <2>1 DEF Stop
  <2>4. QuoteNoOrphans'
    BY <2>1, <2>3 DEF QuoteNoOrphans
  <2>5. failed' \in BOOLEAN
    BY <2>1 DEF Checks
  <2>6. ~failed' => /\ ~failed /\ ex' = ex
                    /\ \A i \in executors : ex[i] \in {"closed", "killed"}
    BY <2>1 DEF Checks, Stop, Forced
  <2>7. AllKnown'
    BY <2>1, <2>2, <2>6 DEF AllKnown
  <2>8. ~failed' => \A i \in Ids : Ended(i)'
    BY <2>1, <2>2, <2>6 DEF AllKnown, QuoteNoOrphans, Ended
  <2>9. AllEnded' /\ FlatRead' /\ CreatesInTurn'
    BY <2>1, <2>2, <2>8 DEF AllEnded, FlatRead, CreatesInTurn
  <2> QED
    BY <2>1, <2>2, <2>3, <2>4, <2>5, <2>7, <2>9
<1>3. CASE QuoteFinallyStops \/ Ends
  <2>1. /\ EarlyStop(executors) \/ Stop(executors)
        /\ step \in {"finally", "ending"} /\ step' \in {"ending", "done"}
        /\ UNCHANGED <<failed, dry, executors, creating, order, foreign, exposed>>
    BY <1>3 DEF QuoteFinallyStops, Ends
  <2>2. creating = {} /\ creating' = {}
    BY <2>1 DEF CreatesInTurn
  <2>3. /\ ex' \in [Ids -> {"none", "running", "stopping", "closed", "killed"}]
        /\ \A i \in Ids : ex'[i] \in {ex[i], "killed", "stopping"}
    BY <2>1 DEF Stop, EarlyStop
  <2>4. QuoteNoOrphans'
    BY <2>1, <2>3 DEF QuoteNoOrphans
  <2>5. ~failed => \A i \in Ids : Ended(i)
    BY <2>1, <2>2 DEF AllEnded, Settled
  <2>6. ~failed => executors \subseteq Ids /\ \A i \in Ids : ex[i] \in {"none", "closed"}
    BY <2>5 DEF Ended
  <2>7. ~failed => \A i \in executors : ex[i] = "closed"
    BY <2>6 DEF QuoteNoOrphans
  <2>8. ~failed => Forced(executors) = {}
    BY <2>7 DEF Forced
  <2>9. ~failed => \A i \in Ids : ex'[i] = ex[i]
    BY <2>1, <2>6, <2>8 DEF Stop, EarlyStop
  <2>10. AllKnown' /\ AllEnded'
    BY <2>1, <2>2, <2>5, <2>9 DEF AllKnown, AllEnded, Ended
  <2>11. FlatRead' /\ CreatesInTurn'
    BY <2>1, <2>2 DEF FlatRead, CreatesInTurn
  <2> QED
    BY <2>1, <2>2, <2>3, <2>4, <2>10, <2>11
<1> QED
  BY <1>1, <1>2, <1>3

\* Orders that rest are a failure, so cleaning them up follows none unseen.
LEMMA QuoteLeftoverInv == QuoteIInv /\ QuoteLeftover => QuoteIInv'
<1> SUFFICES ASSUME QuoteIInv, QuoteLeftover PROVE QuoteIInv'
    OBVIOUS
<1> DEFINE left == {i \in Ids : order[i] = "resting"}
<1>1. /\ step = "leftover" /\ step' = "position"
      /\ Checks(left = {})
      /\ UNCHANGED <<dry, executors, creating, ex, foreign, exposed>>
  BY DEF QuoteLeftover, GoTo
<1>2. PICK gone \in SUBSET left :
         order' = [i \in Ids |-> IF i \in gone THEN "none" ELSE order[i]]
  BY DEF QuoteLeftover
<1>3. /\ order' \in [Ids -> {"none", "flight", "resting"}]
      /\ \A i \in Ids : order[i] = "none" => order'[i] = "none"
  BY <1>2 DEF QuoteIInv, QuoteTypes
<1>4. failed' \in BOOLEAN /\ (failed => failed')
  BY <1>1 DEF Checks, QuoteIInv, QuoteTypes
<1>5. QuoteNoOrphans' /\ AllKnown' /\ CreatesInTurn'
  BY <1>1, <1>3, <1>4 DEF QuoteIInv, QuoteNoOrphans, AllKnown, CreatesInTurn
<1>6. AllEnded' /\ FlatRead'
  BY <1>1, <1>3, <1>4 DEF QuoteIInv, AllEnded, Ended, Settled, FlatRead
<1> QED
  BY <1>1, <1>3, <1>4, <1>5, <1>6 DEF QuoteIInv, QuoteTypes, Steps

\* After an exception the gate has failed; only what is listed matters.
LEMMA QuoteRaisesInv ==
    QuoteIInv /\ Raises("finally", QuoteTried) /\ UNCHANGED <<foreign, exposed>> => QuoteIInv'
<1> SUFFICES ASSUME QuoteIInv, Raises("finally", QuoteTried), UNCHANGED <<foreign, exposed>>
             PROVE  QuoteIInv'
    OBVIOUS
<1> QED
  BY DEF QuoteIInv, Raises, Fails, venueVars, QuoteTypes, Steps, QuoteNoOrphans, AllKnown,
         CreatesInTurn, AllEnded, FlatRead

\* One case per step of the script and of the venue.
LEMMA QuoteNextInv == QuoteIInv /\ [QuoteNext]_quoteVars => QuoteIInv'
<1> SUFFICES ASSUME QuoteIInv, [QuoteNext]_quoteVars PROVE QuoteIInv'
    OBVIOUS
<1>1. CASE QuoteVenue
  BY <1>1, VenueInv
<1>2. CASE QuoteReady \/ Warmup \/ Refresh \/ Await
             \/ AwaitNew \/ QuotePosition
  BY <1>2, ReadsInv
<1>3. CASE Create("create") \/ Created("create", "await")
             \/ Create("create2") \/ Created("create2", "await2")
  BY <1>3, CreateInv
<1>4. CASE \/ StopAll("stop", "stopping") \/ StopAll("stop2", "stopping2")
           \/ Stopped("stopping", "create2") \/ Stopped("stopping2", "leftover")
           \/ QuoteFinallyStops \/ Ends
  BY <1>4, StopInv
<1>5. CASE QuoteLeftover
  BY <1>5, QuoteLeftoverInv
<1>6. CASE Raises("finally", QuoteTried) /\ UNCHANGED <<foreign, exposed>>
  BY <1>6, QuoteRaisesInv
<1>7. CASE UNCHANGED quoteVars
  BY <1>7
     DEF quoteVars, gateVars, venueVars, QuoteIInv, QuoteTypes, QuoteNoOrphans, AllKnown,
              CreatesInTurn, AllEnded, Ended, FlatRead
<1> QED
  BY <1>1, <1>2, <1>3, <1>4, <1>5, <1>6, <1>7 DEF QuoteNext, QuoteScript

\* The inductive invariant holds in every state of the script (main).
THEOREM QuoteInvariance == QuoteSpec => []QuoteIInv
<1> QED
  BY QuoteInitInv, QuoteNextInv, PTL DEF QuoteSpec

\* A quote gate that passed leaves its account clean, whatever hung, filled
\* or was refused on the way (the checks of `failures`).
THEOREM CleanAfterPass == QuoteSpec => []PassedMeansClean
<1>1. QuoteIInv => PassedMeansClean
  BY DEF QuoteIInv, CreatesInTurn, AllEnded, Settled, Ended, FlatRead, PassedMeansClean
<1> QED
  BY <1>1, QuoteInvariance, PTL

\* Before its first failure a gate never has quotes of two generations (the
\* two-phase replacement of the refresh).
THEOREM NeverTwoGenerations == QuoteSpec => []OneGeneration
<1>1. QuoteIInv => OneGeneration
  BY DEF QuoteIInv, CreatesInTurn, AllEnded, Settled, Ended, OneGeneration
<1> QED
  BY <1>1, QuoteInvariance, PTL

-----------------------------------------------------------------------------
(* The de-risk gate.                                                       *)

Statuses == {"none", "running", "stopping", "closed", "killed"}
Orders == {"none", "flight", "resting"}
Ending == {"finally", "forced", "leftover", "position", "done"}

DeriskTypes ==
    /\ step \in DeriskTried \cup Ending
    /\ failed \in BOOLEAN /\ dry \in BOOLEAN
    /\ executors \subseteq Ids /\ openers \subseteq executors
    /\ ex \in [Ids -> Statuses] /\ order \in [Ids -> Orders]
    /\ pos \in Nat /\ toBuy \in 0 .. Size

\* An executor that does not run has no order, unless it was killed; what
\* the script lists has been started.
DeriskNoOrphans ==
    /\ \A i \in Ids : ex[i] \in {"none", "closed"} => order[i] = "none"
    /\ \A i \in executors : ex[i] # "none"

\* Nothing runs before the first position is opened.
NothingYet == step \in {"ready", "open"} => \A i \in Ids : ex[i] = "none"

\* Only the last opener may still have an order.
OneBuyer == \A i \in openers : order[i] # "none" => i = buyer /\ toBuy > 0

\* What is held and what may still be bought never exceed the size; the
\* phases begin and end with what the script has read at the venue.
Bounded ==
    /\ openers # {} => pos + toBuy <= Size
    /\ step \in {"derisk", "emergency"} => toBuy = 0
    /\ step \in {"reopen", "restop", "open2"} => pos = 0 /\ toBuy = 0
    /\ step = "open" => pos = 0
    /\ step \notin {"ready", "open"} \cup Ending => openers # {}

\* An executor the script had to force in silence holds no buy order.
KilledQuiet == ~failed => \A i \in openers : ex[i] = "killed" => order[i] = "none"

\* A dry run opens nothing.
DryRun ==
    dry => /\ openers = {}
           /\ step \in {"ready", "finally", "forced", "done"}
           /\ ~failed /\ step # "ready" => pos = 0

\* Once the script has stopped its executors without force nothing buys;
\* it ends flat when its last read found that.
EndsFlat ==
    ~failed =>
        /\ step \in {"leftover", "position", "done"} =>
              \A i \in openers : ex[i] \in {"closed", "killed"} /\ order[i] = "none"
        /\ step = "done" => pos = 0

DeriskIInv == /\ DeriskTypes /\ DeriskNoOrphans /\ NothingYet /\ OneBuyer /\ Bounded
              /\ KilledQuiet /\ DryRun /\ EndsFlat

\* The invariant holds at the start.
LEMMA DeriskInitInv == ASSUME Size \in Nat \ {0} PROVE DeriskInit => DeriskIInv
<1> SUFFICES ASSUME DeriskInit PROVE DeriskIInv
    OBVIOUS
<1>1. /\ step = "ready" /\ failed = FALSE /\ dry \in BOOLEAN
      /\ executors = {} /\ openers = {} /\ toBuy = 0
      /\ ex = [i \in Ids |-> "none"] /\ order = [i \in Ids |-> "none"]
  BY DEF DeriskInit, GateInit
<1>2. pos \in Nat /\ 0 \in 0 .. Size
  BY DEF DeriskInit
<1>3. DeriskTypes
  BY <1>1, <1>2 DEF DeriskTypes, Statuses, Orders, DeriskTried
<1> QED
  BY <1>1, <1>3
     DEF DeriskIInv, DeriskNoOrphans, NothingYet, OneBuyer, Bounded, KilledQuiet,
                    DryRun, EndsFlat, Ending

-----------------------------------------------------------------------------
(* The executors and the venue.                                            *)

\* An executor's own steps move neither lots nor the script.
LEMMA ExecutorInv ==
    ASSUME DeriskIInv, NEW i \in Ids, UNCHANGED lots,
           (Places(i) /\ MayPlace(i)) \/ Acked(i) \/ Cancels(i) \/ Closes(i)
    PROVE  DeriskIInv'
<1>1. UNCHANGED <<step, failed, dry, executors, pos, openers, buyer, toBuy>>
  BY DEF lots, Places, Acked, Cancels, Closes, gateVars
<1>2. ex' \in [Ids -> Statuses] /\ order' \in [Ids -> Orders]
  BY DEF DeriskIInv, DeriskTypes, Statuses, Orders, Places, Acked, Cancels, Closes
<1>3. \A j \in Ids : ex'[j] # ex[j] =>
          ex[j] \in {"running", "stopping"} /\ ex'[j] = "closed" /\ order'[j] = "none"
  BY DEF DeriskIInv, DeriskTypes, Places, Acked, Cancels, Closes
<1>4. \A j \in Ids : order[j] = "none" /\ order'[j] # "none" =>
          ex[j] = "running" /\ ex'[j] = "running" /\ (j \in openers => j = buyer /\ toBuy > 0)
  BY DEF DeriskIInv, DeriskTypes, Places, Acked, Cancels, Closes, MayPlace
<1>5. DeriskNoOrphans'
  BY <1>1, <1>2, <1>3, <1>4 DEF DeriskIInv, DeriskTypes, DeriskNoOrphans
<1>6. NothingYet'
  BY <1>1, <1>3 DEF DeriskIInv, DeriskTypes, NothingYet
<1>7. OneBuyer' /\ KilledQuiet'
  BY <1>1, <1>3, <1>4 DEF DeriskIInv, DeriskTypes, OneBuyer, KilledQuiet
<1>8. Bounded' /\ DryRun'
  BY <1>1 DEF DeriskIInv, Bounded, DryRun
<1>9. EndsFlat'
  BY <1>1, <1>3, <1>4 DEF DeriskIInv, DeriskTypes, EndsFlat
<1> QED
  BY <1>1, <1>2, <1>5, <1>6, <1>7, <1>8, <1>9 DEF DeriskIInv, DeriskTypes

\* The last opener's order takes from what it may buy.
LEMMA BuysInv ==
    ASSUME Size \in Nat \ {0}, DeriskIInv, NEW i \in Ids, Buys(i)
    PROVE  DeriskIInv'
<1>1. /\ i \in openers /\ order[i] = "resting"
      /\ pos' = pos + 1 /\ toBuy' = toBuy - 1
      /\ UNCHANGED <<step, failed, dry, executors, ex, openers, buyer>>
  BY DEF Buys, gateVars
<1>2. i = buyer /\ toBuy > 0 /\ toBuy \in 0 .. Size /\ pos \in Nat
  BY <1>1 DEF DeriskIInv, OneBuyer, DeriskTypes
<1>3. /\ order' \in [Ids -> Orders]
      /\ \A j \in Ids : order[j] = "none" => order'[j] = "none"
      /\ toBuy = 1 => order'[i] = "none"
      /\ \A j \in Ids : j # i => order'[j] = order[j]
  BY <1>1 DEF Buys, DeriskIInv, DeriskTypes, Orders
<1>4. DeriskTypes'
  <2>1. pos' \in Nat /\ toBuy' \in 0 .. Size
    BY <1>1, <1>2
  <2> QED
    BY <2>1, <1>1, <1>3 DEF DeriskIInv, DeriskTypes
<1>5. DeriskNoOrphans' /\ NothingYet' /\ KilledQuiet'
  BY <1>1, <1>3 DEF DeriskIInv, DeriskTypes, DeriskNoOrphans, NothingYet, KilledQuiet
<1>6. OneBuyer'
  BY <1>1, <1>2, <1>3 DEF DeriskIInv, DeriskTypes, OneBuyer
<1>7. pos' + toBuy' = pos + toBuy
  BY <1>1, <1>2
<1>8. step \notin {"ready", "open", "reopen", "restop", "open2", "derisk", "emergency"}
  BY <1>1, <1>2 DEF DeriskIInv, DeriskTypes, NothingYet, DeriskNoOrphans, Bounded
<1>9. Bounded'
  BY <1>1, <1>7, <1>8 DEF DeriskIInv, Bounded
<1>10. DryRun' /\ EndsFlat'
  BY <1>1, <1>3 DEF DeriskIInv, DeriskTypes, DryRun, EndsFlat
<1> QED
  BY <1>4, <1>5, <1>6, <1>9, <1>10 DEF DeriskIInv

\* A reduce-only order makes the position smaller.
LEMMA SellsInv ==
    ASSUME Size \in Nat \ {0}, DeriskIInv, NEW i \in Ids, Sells(i)
    PROVE  DeriskIInv'
<1>1. /\ order[i] = "resting" /\ pos > 0 /\ pos' = pos - 1
      /\ UNCHANGED <<step, failed, dry, executors, ex, openers, buyer, toBuy>>
  BY DEF Sells, gateVars
<1>2. pos \in Nat /\ pos' \in Nat /\ toBuy \in 0 .. Size
  BY <1>1 DEF DeriskIInv, DeriskTypes
<1>3. /\ order' \in [Ids -> Orders]
      /\ \A j \in Ids : order[j] = "none" => order'[j] = "none"
  BY <1>1 DEF Sells, DeriskIInv, DeriskTypes, Orders
<1>4. /\ ~(pos = 0)
      /\ openers # {} => pos' + toBuy <= Size
      /\ step \notin {"open", "reopen", "restop", "open2"}
  BY <1>1, <1>2 DEF DeriskIInv, Bounded
<1>5. DeriskNoOrphans' /\ NothingYet' /\ KilledQuiet' /\ OneBuyer'
  BY <1>1, <1>3
     DEF DeriskIInv, DeriskTypes, DeriskNoOrphans, NothingYet, KilledQuiet, OneBuyer
<1>6. Bounded'
  BY <1>1, <1>2, <1>4 DEF DeriskIInv, Bounded
<1>7. DryRun' /\ EndsFlat'
  BY <1>1, <1>3, <1>4 DEF DeriskIInv, DeriskTypes, DryRun, EndsFlat
<1> QED
  BY <1>1, <1>2, <1>3, <1>5, <1>6, <1>7 DEF DeriskIInv, DeriskTypes

-----------------------------------------------------------------------------
(* The script.                                                             *)

\* The first reads of the account.
LEMMA ReadyInv == DeriskIInv /\ DeriskReady => DeriskIInv'
BY DEF DeriskIInv, DeriskTypes, DeriskReady, Checks, GoTo, lots, venueVars,
       DeriskNoOrphans, NothingYet,
       OneBuyer, Bounded, KilledQuiet, DryRun, EndsFlat, DeriskTried, Ending

\* A position is opened where none is held and nothing may buy.
LEMMA OpenInv ==
    ASSUME Size \in Nat \ {0}, DeriskIInv,
           Open("open", "opening") \/ Open("open2", "opening2")
    PROVE  DeriskIInv'
<1>1. PICK i \in Ids : /\ CreateOne(i)
                       /\ executors' = executors \cup {i}
                       /\ openers' = openers \cup {i} /\ buyer' = i
  BY DEF Open
<1>2. /\ step \in {"open", "open2"} /\ step' \in {"opening", "opening2"}
      /\ toBuy' = Size
      /\ UNCHANGED <<failed, dry, order, pos>>
  BY DEF Open, GoTo
<1>3. /\ ex[i] = "none" /\ order[i] = "none" /\ ex'[i] = "running"
      /\ ex' \in [Ids -> Statuses]
      /\ \A j \in Ids : j # i => ex'[j] = ex[j]
  BY <1>1 DEF CreateOne, DeriskIInv, DeriskTypes, DeriskNoOrphans, Statuses
<1>4. \A j \in openers' : order[j] = "none"
  BY <1>1, <1>2, <1>3
     DEF DeriskIInv, DeriskTypes, OneBuyer, Bounded, NothingYet, DeriskNoOrphans
<1>5. pos = 0
  BY <1>2 DEF DeriskIInv, Bounded
<1>6. DeriskTypes'
  BY <1>1, <1>2, <1>3 DEF DeriskIInv, DeriskTypes, DeriskTried
<1>7. DeriskNoOrphans' /\ NothingYet'
  BY <1>1, <1>2, <1>3 DEF DeriskIInv, DeriskTypes, DeriskNoOrphans, NothingYet
<1>8. OneBuyer' /\ KilledQuiet' /\ EndsFlat'
  BY <1>2, <1>4 DEF OneBuyer, KilledQuiet, EndsFlat
<1>9. Bounded'
  BY <1>1, <1>2, <1>5 DEF Bounded
<1>10. DryRun'
  BY <1>2 DEF DeriskIInv, DryRun
<1> QED
  BY <1>6, <1>7, <1>8, <1>9, <1>10 DEF DeriskIInv

\* What the venue shows is all there is to buy.
LEMMA OpenedInv ==
    ASSUME Size \in Nat \ {0}, DeriskIInv,
           Opened("opening", "derisk") \/ Opened("opening2", "emergency")
    PROVE  DeriskIInv'
<1>1. /\ step \in {"opening", "opening2"} /\ step' \in {"derisk", "emergency"}
      /\ pos = Size
      /\ failed' \in BOOLEAN /\ (failed => failed')
      /\ UNCHANGED <<dry, executors, ex, order, pos, openers, buyer, toBuy>>
  BY DEF Opened, Checks, GoTo, venueVars, lots, DeriskIInv, DeriskTypes
<1>2. toBuy = 0 /\ openers # {}
  BY <1>1 DEF DeriskIInv, Bounded, Ending, DeriskTypes
<1>3. DeriskTypes' /\ DeriskNoOrphans' /\ NothingYet' /\ OneBuyer' /\ KilledQuiet' /\ EndsFlat'
  BY <1>1 DEF DeriskIInv, DeriskTypes, DeriskNoOrphans, NothingYet, OneBuyer,
              KilledQuiet, EndsFlat, DeriskTried
<1>4. Bounded' /\ DryRun'
  BY <1>1, <1>2 DEF DeriskIInv, Bounded, DryRun
<1> QED
  BY <1>3, <1>4 DEF DeriskIInv

\* Executors that are told to stop keep their orders.
LEMMA StopsInv ==
    ASSUME DeriskIInv, NEW S \in SUBSET executors, EarlyStop(S),
           UNCHANGED <<failed, dry, executors, order, lots>>,
           \/ step' = step
           \/ step = "reopen" /\ step' = "restop"
           \/ step = "finally" /\ step' = "forced"
    PROVE  DeriskIInv'
<1>1. /\ ex' \in [Ids -> Statuses]
      /\ \A i \in Ids : ex'[i] # ex[i] => ex[i] = "running" /\ ex'[i] = "stopping"
      /\ UNCHANGED <<pos, openers, buyer, toBuy>>
  BY DEF EarlyStop, DeriskIInv, DeriskTypes, Statuses, lots
<1>2. DeriskTypes' /\ DeriskNoOrphans' /\ NothingYet'
  BY <1>1 DEF DeriskIInv, DeriskTypes, DeriskNoOrphans, NothingYet, DeriskTried, Ending
<1>3. OneBuyer' /\ Bounded' /\ KilledQuiet' /\ DryRun'
  BY <1>1 DEF DeriskIInv, DeriskTypes, OneBuyer, Bounded, KilledQuiet, DryRun, Ending
<1>4. EndsFlat'
  BY <1>1 DEF DeriskIInv, DeriskTypes, EndsFlat
<1> QED
  BY <1>2, <1>3, <1>4 DEF DeriskIInv

\* The cycles create executors that reduce the position, and nothing else.
LEMMA CreatesInv ==
    ASSUME DeriskIInv, CycleCreates("derisk") \/ CycleCreates("emergency")
    PROVE  DeriskIInv'
<1>1. PICK i \in Ids : CreateOne(i) /\ executors' = executors \cup {i}
  BY DEF CycleCreates
<1>2. /\ step \in {"derisk", "emergency"}
      /\ UNCHANGED <<step, failed, dry, order, pos, openers, buyer, toBuy>>
  BY DEF CycleCreates, lots
<1>3. /\ ex[i] = "none" /\ ex'[i] = "running" /\ ex' \in [Ids -> Statuses]
      /\ \A j \in Ids : j # i => ex'[j] = ex[j]
  BY <1>1 DEF CreateOne, DeriskIInv, DeriskTypes, Statuses
<1>4. DeriskTypes' /\ DeriskNoOrphans' /\ NothingYet'
  BY <1>1, <1>2, <1>3 DEF DeriskIInv, DeriskTypes, DeriskNoOrphans, NothingYet
<1>5. OneBuyer' /\ Bounded' /\ KilledQuiet' /\ DryRun' /\ EndsFlat'
  BY <1>1, <1>2, <1>3
     DEF DeriskIInv, DeriskTypes, OneBuyer, Bounded, KilledQuiet, DryRun, EndsFlat
<1> QED
  BY <1>4, <1>5 DEF DeriskIInv

\* The cycles end flat, or in the finally block.
LEMMA CyclesEndInv ==
    ASSUME DeriskIInv, CyclesEnd("derisk", "reopen") \/ CyclesEnd("emergency", "finally")
    PROVE  DeriskIInv'
<1>1. /\ step \in {"derisk", "emergency"} /\ step' \in {"reopen", "finally"}
      /\ step' = "reopen" => pos = 0
      /\ failed' \in BOOLEAN /\ (failed => failed')
      /\ UNCHANGED <<dry, executors, ex, order, pos, openers, buyer, toBuy>>
  BY DEF CyclesEnd, Checks, GoTo, venueVars, lots, DeriskIInv, DeriskTypes
<1>2. toBuy = 0 /\ openers # {} /\ ~dry
  BY <1>1 DEF DeriskIInv, Bounded, DryRun, Ending
<1>3. DeriskTypes' /\ DeriskNoOrphans' /\ NothingYet' /\ OneBuyer' /\ KilledQuiet' /\ EndsFlat'
  BY <1>1 DEF DeriskIInv, DeriskTypes, DeriskNoOrphans, NothingYet, OneBuyer,
              KilledQuiet, EndsFlat,
              DeriskTried, Ending
<1>4. Bounded' /\ DryRun'
  BY <1>1, <1>2 DEF DeriskIInv, Bounded, DryRun
<1> QED
  BY <1>3, <1>4 DEF DeriskIInv

\* Executors that are forced in silence have bought what they were to buy.
LEMMA RestopInv == ASSUME DeriskIInv, Restop PROVE DeriskIInv'
<1>1. /\ Stop(executors) /\ step = "restop" /\ step' = "open2"
      /\ UNCHANGED <<failed, dry, executors, order, pos, openers, buyer, toBuy>>
  BY DEF Restop, GoTo, lots
<1>2. /\ ex' \in [Ids -> Statuses]
      /\ \A i \in Ids : ex'[i] # ex[i] => i \in executors /\ ex'[i] = "killed"
  BY <1>1 DEF Stop, Forced, DeriskIInv, DeriskTypes, Statuses
<1>3. \A i \in openers : order[i] = "none"
  BY <1>1 DEF DeriskIInv, DeriskTypes, OneBuyer, Bounded
<1>4. DeriskTypes' /\ DeriskNoOrphans' /\ NothingYet'
  BY <1>1, <1>2 DEF DeriskIInv, DeriskTypes, DeriskNoOrphans, NothingYet, DeriskTried
<1>5. OneBuyer' /\ Bounded' /\ KilledQuiet' /\ DryRun' /\ EndsFlat'
  BY <1>1, <1>3 DEF DeriskIInv, OneBuyer, Bounded, KilledQuiet, DryRun, EndsFlat, Ending
<1> QED
  BY <1>4, <1>5 DEF DeriskIInv

\* The finally block forces nobody, or has a failure.
LEMMA ForcesInv == ASSUME DeriskIInv, FinallyForces PROVE DeriskIInv'
<1>1. /\ Stop(executors) /\ Checks(Forced(executors) = {})
      /\ step = "forced" /\ step' = (IF dry THEN "done" ELSE "leftover")
      /\ UNCHANGED <<dry, executors, order, pos, openers, buyer, toBuy>>
  BY DEF FinallyForces, GoTo, lots
<1>2. /\ ex' \in [Ids -> Statuses]
      /\ \A i \in Ids : ex'[i] # ex[i] => i \in executors /\ ex'[i] = "killed"
      /\ \A i \in executors : ex'[i] \in {"closed", "killed"}
  BY <1>1 DEF Stop, Forced, DeriskIInv, DeriskTypes, Statuses
<1>3. failed' \in BOOLEAN /\ (failed => failed')
  BY <1>1 DEF Checks, DeriskIInv, DeriskTypes
<1>4. ~failed' => \A i \in executors : ex'[i] = ex[i]
  BY <1>1 DEF Checks, Stop, Forced, DeriskIInv, DeriskTypes
<1>5. ~failed' => \A i \in openers : order[i] = "none"
  BY <1>2, <1>3, <1>4 DEF DeriskIInv, DeriskTypes, DeriskNoOrphans, KilledQuiet
<1>6. DeriskTypes' /\ DeriskNoOrphans'
  BY <1>1, <1>2, <1>3 DEF DeriskIInv, DeriskTypes, DeriskNoOrphans, DeriskTried, Ending
<1>7. step' \in {"done", "leftover"}
  BY <1>1
<1>8. OneBuyer' /\ Bounded' /\ NothingYet'
  BY <1>1, <1>7 DEF DeriskIInv, OneBuyer, Bounded, NothingYet, Ending
<1>9. KilledQuiet' /\ DryRun'
  BY <1>1, <1>3, <1>5 DEF DeriskIInv, KilledQuiet, DryRun
<1>10. EndsFlat'
  BY <1>1, <1>2, <1>3, <1>5 DEF DeriskIInv, DeriskTypes, DryRun, EndsFlat
<1> QED
  BY <1>6, <1>8, <1>9, <1>10 DEF DeriskIInv

\* Orders are only cancelled.
LEMMA DeriskLeftoverInv == ASSUME DeriskIInv, DeriskLeftover PROVE DeriskIInv'
<1> DEFINE left == {i \in Ids : order[i] = "resting"}
<1>1. /\ step = "leftover" /\ step' = "position" /\ Checks(left = {})
      /\ UNCHANGED <<dry, executors, ex, pos, openers, buyer, toBuy>>
  BY DEF DeriskLeftover, GoTo, lots
<1>2. PICK gone \in SUBSET left :
         order' = [i \in Ids |-> IF i \in gone THEN "none" ELSE order[i]]
  BY DEF DeriskLeftover
<1>3. /\ order' \in [Ids -> Orders]
      /\ \A i \in Ids : order'[i] \in {order[i], "none"}
  BY <1>2 DEF DeriskIInv, DeriskTypes, Orders
<1>4. failed' \in BOOLEAN /\ (failed => failed')
  BY <1>1 DEF Checks, DeriskIInv, DeriskTypes
<1>5. DeriskTypes' /\ DeriskNoOrphans' /\ NothingYet'
  BY <1>1, <1>3, <1>4 DEF DeriskIInv, DeriskTypes, DeriskNoOrphans, NothingYet, Ending
<1>6. OneBuyer' /\ KilledQuiet' /\ EndsFlat'
  BY <1>1, <1>3, <1>4 DEF DeriskIInv, DeriskTypes, OneBuyer, KilledQuiet, EndsFlat
<1>7. Bounded' /\ DryRun'
  BY <1>1 DEF DeriskIInv, Bounded, DryRun, Ending
<1> QED
  BY <1>5, <1>6, <1>7 DEF DeriskIInv

\* A pass has read that the position is zero.
LEMMA PositionInv == ASSUME Size \in Nat \ {0}, DeriskIInv, DeriskPosition PROVE DeriskIInv'
<1>1. /\ step = "position" /\ step' = "done" /\ Checks(pos = 0) /\ pos' \in {pos, 0}
      /\ UNCHANGED <<dry, executors, ex, order, openers, buyer, toBuy>>
  BY DEF DeriskPosition, GoTo, venueVars
<1>2. /\ failed' \in BOOLEAN /\ (failed => failed')
      /\ ~failed' => pos = 0
  BY <1>1 DEF Checks, DeriskIInv, DeriskTypes
<1>3. /\ pos' \in Nat /\ pos \in Nat /\ toBuy \in 0 .. Size
      /\ pos' <= pos /\ (pos = 0 => pos' = 0)
  BY <1>1 DEF DeriskIInv, DeriskTypes
<1>4. DeriskTypes' /\ DeriskNoOrphans' /\ NothingYet' /\ OneBuyer' /\ KilledQuiet'
  BY <1>1, <1>2, <1>3 DEF DeriskIInv, DeriskTypes, DeriskNoOrphans, NothingYet,
                          OneBuyer, KilledQuiet, Ending
<1>5. Bounded'
  <2>1. openers # {} => pos + toBuy <= Size
    BY DEF DeriskIInv, Bounded
  <2>2. openers # {} => pos' + toBuy <= Size
    <3>1. CASE pos' = pos
      BY <2>1, <3>1
    <3>2. CASE pos' = 0
      <4>1. Size \in Nat /\ toBuy \in Nat /\ toBuy <= Size /\ pos' + toBuy = toBuy
        BY <1>3, <3>2
      <4> QED
        BY <4>1
    <3> QED
      BY <1>1, <3>1, <3>2
  <2>3. step' = "done" /\ openers' = openers /\ toBuy' = toBuy
    BY <1>1
  <2>4. openers' # {} => pos' + toBuy' <= Size
    BY <2>2, <2>3
  <2> QED
    BY <2>3, <2>4 DEF Bounded, Ending
<1>6. DryRun' /\ EndsFlat'
  BY <1>1, <1>2, <1>3 DEF DeriskIInv, DeriskTypes, DryRun, EndsFlat
<1> QED
  BY <1>4, <1>5, <1>6 DEF DeriskIInv

\* An exception fails the gate and changes nothing at the venue.
LEMMA DeriskRaisesInv ==
    ASSUME DeriskIInv, UNCHANGED lots,
           \/ Raises("finally", DeriskTried)
           \/ Raises("done", {"finally", "forced", "leftover", "position"})
    PROVE  DeriskIInv'
<1>1. /\ failed' = TRUE /\ step' \in {"finally", "done"} /\ step # "done"
      /\ UNCHANGED <<dry, executors, ex, order, pos, openers, buyer, toBuy>>
  BY DEF Raises, Fails, venueVars, lots, DeriskTried
<1>2. DeriskTypes' /\ DeriskNoOrphans' /\ NothingYet' /\ OneBuyer' /\ KilledQuiet' /\ EndsFlat'
  BY <1>1 DEF DeriskIInv, DeriskTypes, DeriskNoOrphans, NothingYet, OneBuyer,
              KilledQuiet, EndsFlat, Ending
<1>3. Bounded' /\ DryRun'
  BY <1>1 DEF DeriskIInv, Bounded, DryRun, Ending
<1> QED
  BY <1>2, <1>3 DEF DeriskIInv

-----------------------------------------------------------------------------

\* One case per step of the script and of the venue.
LEMMA DeriskNextInv == ASSUME Size \in Nat \ {0}, DeriskIInv, [DeriskNext]_deriskVars PROVE DeriskIInv'
<1>1. CASE DeriskVenue
  <2>1. PICK i \in Ids :
           \/ Places(i) /\ MayPlace(i) /\ UNCHANGED lots
           \/ (Acked(i) \/ Cancels(i) \/ Closes(i)) /\ UNCHANGED lots
           \/ Buys(i) \/ Sells(i)
    BY <1>1 DEF DeriskVenue
  <2> QED
    BY <2>1, ExecutorInv, BuysInv, SellsInv
<1>2. CASE DeriskReady
  BY <1>2, ReadyInv
<1>3. CASE Open("open", "opening") \/ Open("open2", "opening2")
  BY <1>3, OpenInv
<1>4. CASE Opened("opening", "derisk") \/ Opened("opening2", "emergency")
  BY <1>4, OpenedInv
<1>5. CASE CycleStops("derisk") \/ CycleStops("emergency")
  <2>1. PICK S \in SUBSET executors : EarlyStop(S)
    BY <1>5 DEF CycleStops
  <2>2. UNCHANGED <<step, failed, dry, executors, order, lots>>
    BY <1>5 DEF CycleStops, gateVars
  <2> QED
    BY <2>1, <2>2, StopsInv
<1>6. CASE CycleCreates("derisk") \/ CycleCreates("emergency")
  BY <1>6, CreatesInv
<1>7. CASE CyclesEnd("derisk", "reopen") \/ CyclesEnd("emergency", "finally")
  BY <1>7, CyclesEndInv
<1>8. CASE Reopen \/ DeriskFinallyStops
  <2>1. EarlyStop(executors) /\ UNCHANGED <<failed, dry, executors, order, lots>>
    BY <1>8 DEF Reopen, DeriskFinallyStops
  <2>2. \/ step = "reopen" /\ step' = "restop"
        \/ step = "finally" /\ step' = "forced"
    BY <1>8 DEF Reopen, DeriskFinallyStops, GoTo
  <2> QED
    BY <2>1, <2>2, StopsInv
<1>9. CASE Restop
  BY <1>9, RestopInv
<1>10. CASE FinallyForces
  BY <1>10, ForcesInv
<1>11. CASE DeriskLeftover
  BY <1>11, DeriskLeftoverInv
<1>12. CASE DeriskPosition
  BY <1>12, PositionInv
<1>13. CASE (\/ Raises("finally", DeriskTried)
             \/ Raises("done", {"finally", "forced", "leftover", "position"}))
            /\ UNCHANGED lots
  BY <1>13, DeriskRaisesInv
<1>14. CASE UNCHANGED deriskVars
  BY <1>14 DEF deriskVars, gateVars, venueVars, DeriskIInv, DeriskTypes,
               DeriskNoOrphans, NothingYet,
               OneBuyer, Bounded, KilledQuiet, DryRun, EndsFlat
<1> QED
  BY <1>1, <1>2, <1>3, <1>4, <1>5, <1>6, <1>7, <1>8, <1>9, <1>10, <1>11, <1>12,
     <1>13, <1>14 DEF DeriskNext, DeriskScript

\* The inductive invariant holds in every state of the script (main).
THEOREM DeriskInvariance == ASSUME Size \in Nat \ {0} PROVE DeriskSpec => []DeriskIInv
<1>1. DeriskInit => DeriskIInv
  BY DeriskInitInv
<1>2. DeriskIInv /\ [DeriskNext]_deriskVars => DeriskIInv'
  BY DeriskNextInv
<1> QED
  BY <1>1, <1>2, PTL DEF DeriskSpec

\* The gate never holds more than the position it opens, also when it has to
\* force executors of the first phase and opens again (phase 3 of main).
THEOREM NeverMore == ASSUME Size \in Nat \ {0} PROVE DeriskSpec => []OnePositionOnly
<1>1. DeriskIInv => OnePositionOnly
  BY DEF DeriskIInv, DeriskTypes, Bounded, OnePositionOnly
<1> QED
  BY <1>1, DeriskInvariance, PTL

\* A gate that passed is flat and stays so: nothing that could buy is left
\* (the finally block of main).
THEOREM FlatAfterPass == ASSUME Size \in Nat \ {0} PROVE DeriskSpec => []PassedMeansFlat
<1>1. DeriskIInv => PassedMeansFlat
  BY DEF DeriskIInv, EndsFlat, PassedMeansFlat
<1> QED
  BY <1>1, DeriskInvariance, PTL
===============================================================================
