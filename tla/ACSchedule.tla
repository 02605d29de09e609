------------------------------ MODULE ACSchedule ------------------------------
(***************************************************************************)
(* The Almgren-Chriss executor of opms: it cuts a total quantity into      *)
(* slices and sends each as a market order, one per interval.  A failed    *)
(* slice is sent again; the last slice takes what is left.  control_task() *)
(* awaits a volume forecast on its first tick, so stop requests can come   *)
(* in the middle of that tick; every other handler is atomic.              *)
(*                                                                         *)
(* Quantities are whole lots; the ages of timestamps are ticks and         *)
(* saturate at the interval.                                               *)
(***************************************************************************)
EXTENDS Integers, SequencesExt

CONSTANTS
    Total,           \* config.total_amount_base, in lots
    NumIntervals,    \* config.num_intervals
    Duration,        \* config.duration_seconds, in ticks
    MinOrder,        \* config.min_order_size, in lots
    VolumeForecast,  \* config.volume_forecast
    MaxRetries,      \* max_retries
    MaxFaults        \* bound: orders failed or canceled, completions too soon or again

MAX_AC_INTERVALS == 200

\* validate_ac_config(): bounded, and a second per slice.
ValidAcConfig ==
    /\ NumIntervals \in 1..MAX_AC_INTERVALS
    /\ Duration \in Nat /\ Duration \div NumIntervals >= 1

ASSUME ACConfigAssumption ==
    /\ ValidAcConfig
    /\ Total \in Nat \ {0}
    /\ MinOrder \in Nat \ {0}
    /\ VolumeForecast \in BOOLEAN
    /\ MaxRetries \in Nat
    /\ MaxFaults \in Nat

VARIABLES
    status,            \* _status
    close_type,        \* close_type
    sizes,             \* build_schedule()'s slices before small ones are merged
    forecast,          \* _schedule_resolved, and whether the tick awaits the forecast
    slice_idx,         \* _slice_idx
    submitted,         \* _submitted, with what the venue did of each order
    cumulative_filled, \* _cumulative_filled
    retries,           \* _current_retries
    age,               \* ticks since _last_slice_timestamp
    updated,           \* HB: do the TrackedOrders follow their orders?
    faults             \* venue: orders failed or canceled, completions too soon or again

vars == <<status, close_type, sizes, forecast, slice_idx, submitted,
          cumulative_filled, retries, age, updated, faults>>
-------------------------------------------------------------------------------
Sum(seq) == FoldLeft(+, 0, seq)

\* _merge_min_size(): slices below the minimum are merged forward, and what is
\* left over goes to the last one.
CutSlice(cut, s) ==
    IF cut.acc + s >= MinOrder
    THEN [merged |-> Append(cut.merged, cut.acc + s), acc |-> 0]
    ELSE [cut EXCEPT !.acc = @ + s]

\* Mutant of MergeMinSize: drops what is left over.
MergeMinSizeDropping(raw) ==
    LET cut == FoldLeft(CutSlice, [merged |-> <<>>, acc |-> 0], raw)
    IN IF cut.merged = <<>> THEN <<cut.acc>> ELSE cut.merged

MergeMinSize(raw) ==
    LET cut == FoldLeft(CutSlice, [merged |-> <<>>, acc |-> 0], raw)
    IN IF cut.acc = 0 THEN cut.merged
       ELSE IF cut.merged = <<>> THEN <<cut.acc>>
       ELSE Front(cut.merged) \o <<Last(cut.merged) + cut.acc>>

Schedule == MergeMinSize(sizes)

\* The trajectory decides the sizes; they are not negative and add up.
Trajectories(n) == {raw \in [1..n -> 0..Total] : Sum(raw) = Total}

Interval(schedule) == Duration \div Len(schedule)

-------------------------------------------------------------------------------
(* TrackedOrder, HB: is_done and executed_amount_base are read from the     *)
(* order, if one is attached.                                               *)

Ended(t) == t.canceled \/ t.completed \/ t.executed = t.amount
IsDone(t) == updated /\ Ended(t)
ExecutedAmountBase(t) == IF updated THEN t.executed ELSE 0

Amounts == Sum([o \in DOMAIN submitted |-> submitted[o].amount])
Executed == Sum([o \in DOMAIN submitted |-> submitted[o].executed])

\* Listeners are removed at stop().
Attached == status \in {"RUNNING", "SHUTTING_DOWN"}

\* Mutant of AllDone: waits for a completion of each order, canceled or not.
AllDoneCompleted(schedule) ==
    /\ slice_idx >= Len(schedule)
    /\ \A o \in DOMAIN submitted : updated /\ submitted[o].completed

AllDone(schedule) ==
    /\ slice_idx >= Len(schedule)
    /\ \A o \in DOMAIN submitted : IsDone(submitted[o])

FinalCloseType ==
    IF retries > MaxRetries THEN "FAILED"
    ELSE IF cumulative_filled >= Total THEN "COMPLETED"
    ELSE "TIME_LIMIT"

CloseExecutionBy(type) ==
    /\ close_type' = type
    /\ status' = "TERMINATED"

-------------------------------------------------------------------------------
Init ==
    /\ status = "NOT_STARTED"
    /\ close_type = "NONE"
    /\ sizes \in Trajectories(NumIntervals)
    /\ forecast = IF VolumeForecast THEN "TODO" ELSE "RESOLVED"
    /\ slice_idx = 0
    /\ submitted = <<>>
    /\ cumulative_filled = 0
    /\ retries = 0
    /\ age = -1
    /\ updated \in BOOLEAN
    /\ faults = 0

ValidateSufficientBalance ==
    /\ status = "NOT_STARTED"
    /\ \/ status' = "RUNNING" /\ UNCHANGED close_type
       \/ CloseExecutionBy("INSUFFICIENT_BALANCE")
    /\ UNCHANGED <<sizes, forecast, slice_idx, submitted, cumulative_filled,
                   retries, age, updated, faults>>

-------------------------------------------------------------------------------
(* control_task()                                                          *)

\* Mutant of ExactRemainder: adds what the open orders executed.
ExactRemainderAdding ==
    Total - cumulative_filled
        + Sum([o \in DOMAIN submitted |-> IF IsDone(submitted[o])
                                          THEN 0 ELSE ExecutedAmountBase(submitted[o])])

\* What the last slice takes: orders that are not done count what they
\* executed so far, not what they may still execute.
ExactRemainder ==
    Total - cumulative_filled
        - Sum([o \in DOMAIN submitted |-> IF IsDone(submitted[o])
                                          THEN 0 ELSE ExecutedAmountBase(submitted[o])])

SliceAmount(schedule) ==
    IF slice_idx = Len(schedule) - 1 THEN ExactRemainder ELSE schedule[slice_idx + 1]

SubmitNextSlice(schedule) ==
    LET amount == SliceAmount(schedule)
    IN /\ slice_idx' = slice_idx + 1
       /\ \/ /\ amount <= 0
             /\ UNCHANGED <<submitted, age>>
          \/ /\ amount > 0
             /\ submitted' = Append(submitted, [amount |-> amount, executed |-> 0,
                                                canceled |-> FALSE, completed |-> FALSE,
                                                credited |-> 0])
             /\ age' = 0

\* The rest of a tick, after the forecast.  It does not look at the status.
TickBody(schedule) ==
    /\ \/ /\ slice_idx >= Len(schedule)
          /\ IF AllDone(schedule)
             THEN CloseExecutionBy(FinalCloseType)
             ELSE UNCHANGED <<status, close_type>>
          /\ UNCHANGED <<slice_idx, submitted, age>>
       \/ /\ slice_idx < Len(schedule)
          /\ age \in 0..Interval(schedule) - 1
          /\ UNCHANGED <<status, close_type, slice_idx, submitted, age>>
       \/ /\ slice_idx < Len(schedule)
          /\ age \notin 0..Interval(schedule) - 1
          /\ SubmitNextSlice(schedule)
          /\ UNCHANGED <<status, close_type>>
    /\ UNCHANGED <<cumulative_filled, retries, updated, faults>>

AwaitForecast ==
    /\ status = "RUNNING"
    /\ forecast = "TODO"
    /\ forecast' = "AWAITED"
    /\ UNCHANGED <<status, close_type, sizes, slice_idx, submitted,
                   cumulative_filled, retries, age, updated, faults>>

\* The forecast cuts as many slices as the schedule has; one that fails or is
\* empty leaves the schedule alone.
ResumeTick ==
    /\ forecast = "AWAITED"
    /\ forecast' = "RESOLVED"
    /\ sizes' \in {sizes} \cup Trajectories(Len(Schedule))
    /\ TickBody(Schedule')

\* Mutant of Tick: goes on after a stop.
TickAfterStop ==
    /\ Attached
    /\ forecast = "RESOLVED"
    /\ TickBody(Schedule)
    /\ UNCHANGED <<forecast, sizes>>

Tick ==
    /\ status = "RUNNING"
    /\ forecast = "RESOLVED"
    /\ TickBody(Schedule)
    /\ UNCHANGED <<forecast, sizes>>

\* Mutant of ShutDown: waits for the orders.
ShutDownWhenDone ==
    /\ status = "SHUTTING_DOWN"
    /\ forecast # "AWAITED"
    /\ AllDone(Schedule)
    /\ CloseExecutionBy(IF close_type # "NONE" THEN close_type ELSE FinalCloseType)
    /\ UNCHANGED <<sizes, forecast, slice_idx, submitted, cumulative_filled,
                   retries, age, updated, faults>>

ShutDown ==
    /\ status = "SHUTTING_DOWN"
    /\ forecast # "AWAITED"
    /\ CloseExecutionBy(IF close_type # "NONE" THEN close_type ELSE FinalCloseType)
    /\ UNCHANGED <<sizes, forecast, slice_idx, submitted, cumulative_filled,
                   retries, age, updated, faults>>

ControlTask == AwaitForecast \/ ResumeTick \/ Tick \/ ShutDown

EarlyStop ==
    /\ Attached
    /\ status' = "SHUTTING_DOWN"
    /\ close_type' \in {"EARLY_STOP", "POSITION_HOLD"}
    /\ UNCHANGED <<sizes, forecast, slice_idx, submitted, cumulative_filled,
                   retries, age, updated, faults>>

TimePasses ==
    /\ Attached
    /\ age \in 0..Interval(Schedule) - 1
    /\ age' = age + 1
    /\ UNCHANGED <<status, close_type, sizes, forecast, slice_idx, submitted,
                   cumulative_filled, retries, updated, faults>>

-------------------------------------------------------------------------------
(* The venue, and the events of it, until the executor stops listening.    *)

VenueExecutes(o) ==
    /\ Attached
    /\ ~submitted[o].canceled
    /\ \E lots \in 1..submitted[o].amount - submitted[o].executed :
           submitted' = [submitted EXCEPT ![o].executed = @ + lots]
    /\ UNCHANGED <<status, close_type, sizes, forecast, slice_idx,
                   cumulative_filled, retries, age, updated, faults>>

\* The one completion the venue owes an order: when it is executed.
Due(o) == submitted[o].executed = submitted[o].amount /\ ~submitted[o].completed

\* Mutant of OrderCompleted: counts the order, not what the event tells.
OrderCompletedInFull(o) ==
    /\ Attached
    /\ faults' = IF Due(o) THEN faults ELSE faults + 1
    /\ faults' <= MaxFaults
    /\ \E told \in {submitted[o].executed, submitted[o].amount} :
           submitted' = [submitted EXCEPT ![o].completed = TRUE, ![o].credited = @ + told]
    /\ cumulative_filled' = cumulative_filled + submitted[o].amount
    /\ UNCHANGED <<close_type, sizes, forecast, slice_idx, retries, age, updated>>
    /\ status' = IF AllDone(Schedule)' THEN "SHUTTING_DOWN" ELSE status

\* process_order_completed_event(): adds what the event tells, each time it
\* comes.  One that is not due comes again, or before the last fills; then it
\* tells what the order executed so far or all it asked for.
OrderCompleted(o) ==
    /\ Attached
    /\ faults' = IF Due(o) THEN faults ELSE faults + 1
    /\ faults' <= MaxFaults
    /\ \E told \in {submitted[o].executed, submitted[o].amount} :
           /\ submitted' = [submitted EXCEPT ![o].completed = TRUE, ![o].credited = @ + told]
           /\ cumulative_filled' = cumulative_filled + told
    /\ UNCHANGED <<close_type, sizes, forecast, slice_idx, retries, age, updated>>
    /\ status' = IF AllDone(Schedule)' THEN "SHUTTING_DOWN" ELSE status

\* Mutant of OrderFailed: the slice is not sent again.
OrderFailedWithoutRewind(o) ==
    /\ Attached
    /\ submitted[o].executed = 0 /\ ~Ended(submitted[o])
    /\ faults < MaxFaults
    /\ submitted' = RemoveAt(submitted, o)
    /\ retries' = retries + 1
    /\ faults' = faults + 1
    /\ UNCHANGED <<status, close_type, sizes, forecast, slice_idx,
                   cumulative_filled, age, updated>>

\* Mutant of OrderFailed: a failed order stays among the submitted ones.
OrderFailedKept(o) ==
    /\ Attached
    /\ submitted[o].executed = 0 /\ ~Ended(submitted[o])
    /\ faults < MaxFaults
    /\ slice_idx' = IF slice_idx > 0 THEN slice_idx - 1 ELSE 0
    /\ retries' = retries + 1
    /\ faults' = faults + 1
    /\ UNCHANGED <<status, close_type, sizes, forecast, submitted,
                   cumulative_filled, age, updated>>

\* process_order_failed_event(): the index goes back by one, whichever order
\* failed.
OrderFailed(o) ==
    /\ Attached
    /\ submitted[o].executed = 0 /\ ~Ended(submitted[o])
    /\ faults < MaxFaults
    /\ submitted' = RemoveAt(submitted, o)
    /\ slice_idx' = IF slice_idx > 0 THEN slice_idx - 1 ELSE 0
    /\ retries' = retries + 1
    /\ faults' = faults + 1
    /\ UNCHANGED <<status, close_type, sizes, forecast,
                   cumulative_filled, age, updated>>

\* The executor only logs a cancel.
OrderCanceled(o) ==
    /\ Attached
    /\ ~Ended(submitted[o])
    /\ faults < MaxFaults
    /\ submitted' = [submitted EXCEPT ![o].canceled = TRUE]
    /\ faults' = faults + 1
    /\ UNCHANGED <<status, close_type, sizes, forecast, slice_idx,
                   cumulative_filled, retries, age, updated>>

Next ==
    \/ ValidateSufficientBalance
    \/ ControlTask
    \/ EarlyStop
    \/ TimePasses
    \/ \E o \in DOMAIN submitted :
           \/ VenueExecutes(o)
           \/ OrderCompleted(o)
           \/ OrderFailed(o)
           \/ OrderCanceled(o)

\* HB keeps calling the control task and time passes; the venue executes market
\* orders and reports them.  Nothing makes it fail or cancel one.
Spec ==
    /\ Init /\ [][Next]_vars
    /\ WF_vars(ValidateSufficientBalance)
    /\ WF_vars(ControlTask)
    /\ WF_vars(TimePasses)
    /\ WF_vars(\E o \in DOMAIN submitted : VenueExecutes(o))
    /\ WF_vars(\E o \in DOMAIN submitted : Due(o) /\ OrderCompleted(o))

-------------------------------------------------------------------------------
(* Properties                                                              *)

OrderRecord == [amount: Nat \ {0}, executed: Nat, canceled: BOOLEAN, completed: BOOLEAN,
                credited: Nat]

\* Every variable has its type: all fields of the executor and its orders.
TypeOK ==
    /\ status \in {"NOT_STARTED", "RUNNING", "SHUTTING_DOWN", "TERMINATED"}
    /\ close_type \in {"NONE", "COMPLETED", "TIME_LIMIT", "FAILED", "EARLY_STOP",
                       "POSITION_HOLD", "INSUFFICIENT_BALANCE"}
    /\ sizes \in Seq(0..Total)
    /\ forecast \in {"TODO", "AWAITED", "RESOLVED"}
    /\ slice_idx \in 0..Len(Schedule)
    /\ submitted \in Seq(OrderRecord)
    /\ Len(submitted) <= slice_idx
    /\ cumulative_filled \in Nat
    /\ retries \in 0..MaxFaults
    /\ age \in -1..Interval(Schedule)
    /\ updated \in BOOLEAN
    /\ faults \in 0..MaxFaults

PrefixSums(seq) == {Sum(SubSeq(seq, 1, n)) : n \in 0..Len(seq)}

\* Whatever the trajectory and the volumes, _merge_min_size() keeps the total,
\* merges neighbours only, and leaves no slice below the minimum unless the
\* whole total is.
SlicesAddUp ==
    /\ Sum(Schedule) = Total
    /\ Len(Schedule) \in 1..NumIntervals
    /\ PrefixSums(Schedule) \subseteq PrefixSums(sizes)
    /\ \A i \in DOMAIN Schedule : Schedule[i] >= MinOrder \/ Schedule = <<Total>>

\* What an order stands for in the count of the executor: what it asks for, or
\* what its completions told if that is more.
CountedAs(t) == IF t.credited > t.amount THEN t.credited ELSE t.amount

\* Once the schedule is through, the orders sent and not failed cover the total:
\* no order of failures, retries, cancels and completions leaves it short, but
\* by what completions told of an order beyond what it asked for.
NoSliceLost ==
    slice_idx >= Len(Schedule) =>
        Sum([o \in DOMAIN submitted |-> CountedAs(submitted[o])]) >= Total

\* The last slice asks for what was not executed yet, not for what was not sent,
\* so the orders can pass the total (see RemainderIsExact), but never by more
\* than the other slices; a failed order rewinds the index by one, whichever slice
\* it was of, and each such retry adds less than one more total.
OverrunBounded ==
    Amounts <= 2 * Total - Last(Schedule) + retries * (Total - 1)

\* What completions told of an order and the venue did not execute of it.
Overtold(t) == IF t.credited > t.executed THEN t.credited - t.executed ELSE 0
Untrue == Sum([o \in DOMAIN submitted |-> Overtold(submitted[o])])

\* close_type says what happened: COMPLETED only when the venue executed the
\* total, but for what completions told that it did not execute, and a run that
\* ends by itself left no order working.  The latter needs orders that are
\* followed: else only a stop ends the run.
TruthfulClose ==
    /\ cumulative_filled <= Executed + Untrue
    /\ status = "TERMINATED" =>
           /\ close_type # "NONE"
           /\ close_type = "COMPLETED" =>
                  Executed + Untrue >= Total /\ retries <= MaxRetries
           /\ close_type = "FAILED" => retries > MaxRetries
           /\ close_type \in {"COMPLETED", "TIME_LIMIT", "FAILED"} =>
                  updated /\ \A o \in DOMAIN submitted : Ended(submitted[o])

\* A stop is not followed by another slice, except the one of a first tick that
\* was still waiting for its volume forecast.
NoSliceAfterStop ==
    [][status # "RUNNING" /\ forecast # "AWAITED" => Len(submitted') <= Len(submitted)]_vars

\* A stop request ends the executor.
StopEnds == status = "SHUTTING_DOWN" ~> status = "TERMINATED"

\* If the orders are followed, every run ends, whatever the venue fails or cancels.
EndsIfUpdated == updated ~> status = "TERMINATED"

\* "Final slice: trade exact remainder": without failures the orders never add
\* up to more than the total.
RemainderIsExact == Amounts <= Total
===============================================================================
