--------------------------- MODULE PassiveAggressive ---------------------------
(***************************************************************************)
(* The passive-aggressive executor of opms: it works a total quantity as a *)
(* sequence of child orders, resting each at the best price, refreshing it *)
(* on a timer, and, when it closes a position, crossing the spread once a  *)
(* child's cycle is over.  control_task() and the four event handlers run  *)
(* on one event loop, so each is one atomic action; they interleave with   *)
(* each other, with stop requests, with the passing of time, and with a    *)
(* venue that delays, loses, repeats and reorders what it says of orders.  *)
(*                                                                         *)
(* Quantities are whole lots, and a trade is one lot.  Time is kept as     *)
(* ages (ticks since a timestamp was taken), which saturate where the code *)
(* stops telling them apart.                                               *)
(***************************************************************************)
EXTENDS Integers, FiniteSets

CONSTANTS
    Total,           \* config.total_amount_base, in lots
    ChildQty,        \* config.child_order_quantity, in lots
    TimeLimit,       \* config.child_order_time_limit, in ticks
    RefreshTime,     \* config.child_order_refresh_time, in ticks
    MaxRetries,      \* max_retries
    PositionAction,  \* config.position_action
    MaxFaults,       \* bound: orders the venue ends unasked, cancels it loses
    LoseCancels      \* may a cancel request be lost?

MAX_CHILDREN == 200

ASSUME ConfigAssumption ==
    /\ Total \in Nat \ {0}
    /\ ChildQty \in Nat \ {0}
    /\ Total \div ChildQty \in 0..MAX_CHILDREN
    /\ TimeLimit \in Nat
    /\ RefreshTime \in Nat
    /\ MaxRetries \in Nat
    /\ PositionAction \in {"OPEN", "CLOSE"}
    /\ MaxFaults \in Nat
    /\ LoseCancels \in BOOLEAN

VARIABLES
    status,            \* _status
    close_type,        \* close_type
    child_idx,         \* _child_idx, counted from 1
    children,          \* _children
    clock,             \* the timestamps, as ages
    cumulative_filled, \* _cumulative_filled
    retries,           \* _current_retries
    submitted,         \* len(_orders)
    orders,            \* _orders; the k-th order submitted has id k
    cancelling,        \* venue: ids of live orders with a cancel request in flight
    faults,            \* venue: faults so far
    late               \* auxiliary: lots credited to ended orders since the last submission

executor == <<status, close_type, child_idx, children, clock,
              cumulative_filled, retries, submitted, orders>>
venue == <<cancelling, faults>>
vars == <<executor, venue, late>>
-------------------------------------------------------------------------------
Larger(a, b) == IF a > b THEN a ELSE b
Smaller(a, b) == IF a < b THEN a ELSE b

NoOrder == 0    \* tracked_order is None
NotSet == -1    \* a timestamp that is None

NumChildren == Larger(Total \div ChildQty, 1)
Children == 1..NumChildren

\* The remainder is folded into the last child (or is the only one).
Target(c) ==
    IF c < NumChildren THEN ChildQty ELSE Total - (NumChildren - 1) * ChildQty

ChildStatus == {"IDLE", "ACTIVE", "CANCELING", "AGGRESSIVE", "DONE", "SKIPPED"}
TerminalStatus == {"DONE", "SKIPPED"}

ChildSlot == [status: ChildStatus, tracked: Nat, filled: Nat,
              reason: {"", "refresh", "cycle_expired"}]

OrderRecord == [child: Children, amount: 1..Total, fill_sum: Nat,
                reported: Nat, credited: Nat, terminal: BOOLEAN]

Clock == [cycle: {NotSet} \cup 0..TimeLimit, refresh: 0..RefreshTime,
          retry: Nat, sweep: {NotSet} \cup 0..RefreshTime]

\* What of each live order is not yet executed, lot by lot.
OutstandingLots(ords) ==
    {lot \in (DOMAIN ords) \X (1..Total) :
        /\ ~ords[lot[1]].terminal
        /\ lot[2] <= ords[lot[1]].amount - ords[lot[1]].credited}

Outstanding(ords) == Cardinality(OutstandingLots(ords))

\* Mutants of Room: the total, or the child's target, is forgotten.
RoomWithoutTotal(ords, kids, cum, c) ==
    Target(c) - kids[c].filled - Outstanding(ords)
RoomWithoutTarget(ords, kids, cum, c) ==
    Total - cum - Outstanding(ords)

Room(ords, kids, cum, c) ==
    Smaller(Target(c) - kids[c].filled, Total - cum) - Outstanding(ords)

\* Mutant of IsActive: any order of a child that has an order is its current one.
IsActiveForChild(o) == children[orders[o].child].tracked # NoOrder

\* The order is its child's current one: lifecycle transitions belong to it.
IsActive(o) == children[orders[o].child].tracked = o

Live == {o \in DOMAIN orders : ~orders[o].terminal}

\* No event reaches the executor, and no control task runs, after stop().
Attached == status \in {"RUNNING", "SHUTTING_DOWN"}
-------------------------------------------------------------------------------
Init ==
    /\ status = "NOT_STARTED"
    /\ close_type = "NONE"
    /\ child_idx = 1
    /\ children = [c \in Children |->
                     [status |-> "IDLE", tracked |-> NoOrder, filled |-> 0, reason |-> ""]]
    /\ clock = [cycle |-> NotSet, refresh |-> 0, retry |-> 0, sweep |-> NotSet]
    /\ cumulative_filled = 0
    /\ retries = 0
    /\ submitted = 0
    /\ orders = [o \in 1..0 |-> 0]
    /\ cancelling = {}
    /\ faults = 0
    /\ late = 0

\* on_start(): the order candidate is cut to the available margin.
ValidateSufficientBalance ==
    /\ status = "NOT_STARTED"
    /\ \/ /\ status' = "RUNNING"
          /\ UNCHANGED close_type
       \/ /\ status' = "TERMINATED"
          /\ close_type' = "INSUFFICIENT_BALANCE"
    /\ UNCHANGED <<child_idx, children, clock, cumulative_filled, retries,
                   submitted, orders, venue, late>>
-------------------------------------------------------------------------------
(* Order helpers.  Each takes the orders and the children as the handler   *)
(* has left them so far, and fixes their final values.                     *)

KeepOrders(ords, kids) ==
    /\ orders' = ords
    /\ children' = kids
    /\ submitted' = submitted
    /\ UNCHANGED late

Submit(ords, kids, c, amount, newStatus) ==
    LET id == submitted + 1
        record == [child |-> c, amount |-> amount, fill_sum |-> 0,
                   reported |-> 0, credited |-> 0, terminal |-> FALSE]
    IN /\ orders' = [o \in 1..id |-> IF o = id THEN record ELSE ords[o]]
       /\ children' = [kids EXCEPT ![c].status = newStatus, ![c].tracked = id]
       /\ submitted' = id
       /\ late' = 0

\* Mutant of PlaceLimit: submits without looking at the room.
PlaceLimitWithoutRoom(ords, kids, c) ==
    Submit(ords, kids, c, Room(ords, kids, cumulative_filled, c), "ACTIVE")

PlaceLimit(ords, kids, c) ==
    LET room == Room(ords, kids, cumulative_filled, c)
    IN \/ /\ room <= 0
          /\ KeepOrders(ords, [kids EXCEPT ![c].status = "DONE"])
       \/ /\ room > 0
          /\ Submit(ords, kids, c, room, "ACTIVE")

\* Mutant of PlaceAggressive: places after a stop.
PlaceAggressiveAfterStop(ords, kids, c) ==
    LET room == Room(ords, kids, cumulative_filled, c)
    IN IF room <= 0
       THEN KeepOrders(ords, [kids EXCEPT ![c].status = "DONE"])
       ELSE Submit(ords, kids, c, room, "AGGRESSIVE")

PlaceAggressive(ords, kids, c) ==
    LET room == Room(ords, kids, cumulative_filled, c)
    IN \/ /\ status # "RUNNING"
          /\ KeepOrders(ords, [kids EXCEPT ![c].status = "IDLE"])
       \/ /\ status = "RUNNING"
          /\ room <= 0
          /\ KeepOrders(ords, [kids EXCEPT ![c].status = "DONE"])
       \/ /\ status = "RUNNING"
          /\ room > 0
          /\ Submit(ords, kids, c, room, "AGGRESSIVE")

\* Mutant of CancelChild: the cancel is noted but not sent.
CancelChildUnsent(kids, c, reason) ==
    /\ children' = [kids EXCEPT ![c].status = "CANCELING", ![c].reason = reason]
    /\ UNCHANGED cancelling

\* The cancel of a child's tracked order; without one nothing happens.
CancelChild(kids, c, reason) ==
    IF kids[c].tracked = NoOrder
    THEN /\ children' = kids
         /\ UNCHANGED cancelling
    ELSE /\ children' = [kids EXCEPT ![c].status = "CANCELING", ![c].reason = reason]
         /\ cancelling' = cancelling \cup ({kids[c].tracked} \cap Live)

CancelAllOpen ==
    /\ cancelling' = Live
    /\ clock' = [clock EXCEPT !.sweep = 0]

CloseExecutionBy(type) ==
    /\ close_type' = type
    /\ status' = "TERMINATED"

\* Mutant of FinalCloseType: every run that ends is COMPLETED.
AlwaysCompleted == IF retries > MaxRetries THEN "FAILED" ELSE "COMPLETED"

FinalCloseType ==
    IF retries > MaxRetries THEN "FAILED"
    ELSE IF cumulative_filled >= Total THEN "COMPLETED"
    ELSE "TIME_LIMIT"
-------------------------------------------------------------------------------
(* control_task() while RUNNING.                                           *)

\* i is the first child, from child_idx on, that is not terminal (or the end).
IsNextIdx(i) ==
    /\ \A c \in child_idx..i - 1 : children[c].status \in TerminalStatus
    /\ i <= NumChildren => children[i].status \notin TerminalStatus

\* A child's cycle starts with its first visit.
CycleAge(c) == IF c = child_idx /\ clock.cycle # NotSet THEN clock.cycle ELSE 0

CycleExpired(c) == CycleAge(c) >= TimeLimit

\* The clock when child c is visited: retry_at belongs to the child it was set for.
Visited(c) ==
    [clock EXCEPT !.cycle = CycleAge(c), !.retry = IF c = child_idx THEN @ ELSE 0]

StepAllTerminal ==
    /\ IF Outstanding(orders) = 0
       THEN CloseExecutionBy(FinalCloseType)
       ELSE UNCHANGED <<status, close_type>>
    /\ UNCHANGED <<children, clock, orders, submitted, cancelling, late>>

\* The book may have no price: retry a second later.
StepIdle(c) ==
    /\ children[c].status = "IDLE"
    /\ \/ /\ CycleExpired(c)
          /\ KeepOrders(orders, [children EXCEPT ![c].status = "SKIPPED"])
          /\ clock' = Visited(c)
       \/ /\ ~CycleExpired(c)
          /\ Visited(c).retry > 0
          /\ KeepOrders(orders, children)
          /\ clock' = Visited(c)
       \/ /\ ~CycleExpired(c)
          /\ Visited(c).retry = 0
          /\ KeepOrders(orders, children)
          /\ clock' = [Visited(c) EXCEPT !.retry = 1]
       \/ /\ ~CycleExpired(c)
          /\ Visited(c).retry = 0
          /\ PlaceLimit(orders, children, c)
          /\ clock' = [Visited(c) EXCEPT
                         !.refresh = IF submitted' > submitted THEN 0 ELSE @]
    /\ UNCHANGED <<status, close_type, cancelling>>

StepActive(c) ==
    /\ children[c].status = "ACTIVE"
    /\ IF CycleExpired(c) THEN CancelChild(children, c, "cycle_expired")
       ELSE IF clock.refresh >= RefreshTime THEN CancelChild(children, c, "refresh")
       ELSE UNCHANGED <<children, cancelling>>
    /\ clock' = Visited(c)
    /\ UNCHANGED <<status, close_type, orders, submitted, late>>

\* Waiting for the venue's answer.
StepWait(c) ==
    /\ children[c].status \in {"CANCELING", "AGGRESSIVE"}
    /\ clock' = Visited(c)
    /\ UNCHANGED <<status, close_type, children, orders, submitted, cancelling, late>>

Step ==
    /\ status = "RUNNING"
    /\ \E i \in child_idx..NumChildren + 1 :
          /\ IsNextIdx(i)
          /\ child_idx' = i
          /\ \/ i > NumChildren /\ StepAllTerminal
             \/ i <= NumChildren /\ (StepIdle(i) \/ StepActive(i) \/ StepWait(i))
    /\ UNCHANGED <<cumulative_filled, retries, faults>>

\* Mutant of SweepDue: cancels are sent once.
SweepOnce == clock.sweep = NotSet

SweepDue == clock.sweep = NotSet \/ clock.sweep >= RefreshTime

(* control_task() while SHUTTING_DOWN: stay attached, and repeat the       *)
(* cancels, until nothing is outstanding.                                  *)
ShutDown ==
    /\ status = "SHUTTING_DOWN"
    /\ IF Outstanding(orders) = 0
       THEN /\ CloseExecutionBy(IF close_type = "NONE" THEN FinalCloseType ELSE close_type)
            /\ UNCHANGED <<clock, cancelling>>
       ELSE /\ IF SweepDue
               THEN CancelAllOpen
               ELSE UNCHANGED <<clock, cancelling>>
            /\ UNCHANGED <<status, close_type>>
    /\ UNCHANGED <<child_idx, children, cumulative_filled, retries, submitted,
                   orders, faults, late>>

ControlTask == Step \/ ShutDown

EarlyStop ==
    /\ Attached
    /\ close_type' \in {"EARLY_STOP", "POSITION_HOLD"}
    /\ status' = "SHUTTING_DOWN"
    /\ CancelAllOpen
    /\ UNCHANGED <<child_idx, children, cumulative_filled, retries, submitted,
                   orders, faults, late>>
-------------------------------------------------------------------------------
(* The event handlers.  The venue may speak of any order it was ever sent: *)
(* fills keep arriving after an order has ended, trades and completions    *)
(* are repeated, a completion may report less than was traded.             *)

\* _credit(): an order counts for its distinct fills or its completion, the larger.
Credit(r) == [r EXCEPT !.credited = Larger(@, Larger(r.fill_sum, r.reported))]

\* What crediting the record adds to its child and to the total.
Gain(r) == Credit(r).credited - r.credited

\* Mutant of FillKids: the current child gets the fills of every order.
FillCurrentKid(o, gain) ==
    [children EXCEPT ![Smaller(child_idx, NumChildren)].filled = @ + gain]

FillKids(o, gain) == [children EXCEPT ![orders[o].child].filled = @ + gain]

\* A fill on another order may leave the resting order of the current child oversized.
Oversized(o, ords, kids) ==
    /\ child_idx <= NumChildren
    /\ kids[child_idx].status = "ACTIVE"
    /\ ~IsActive(o)
    /\ Room(ords, kids, cumulative_filled', child_idx) < 0

\* Mutant of Repeated: a replayed trade counts again.
NeverRepeated(r, trade) == FALSE

\* Trades carry ids: those counted have the ids 1..fill_sum, the next new one
\* fill_sum + 1.
Repeated(r, trade) == trade <= r.fill_sum

OrderFilled(o, trade) ==
    LET r == orders[o]
        repeated == Repeated(r, trade)
        counted == IF repeated THEN r ELSE [r EXCEPT !.fill_sum = @ + 1]
        kids == FillKids(o, Gain(counted))
    IN /\ Attached
       /\ trade \in 1..Smaller(r.fill_sum + 1, r.amount)
       /\ orders' = [orders EXCEPT ![o] = Credit(counted)]
       /\ cumulative_filled' = cumulative_filled + Gain(counted)
       /\ late' = IF r.terminal THEN late + Gain(counted) ELSE late
       /\ IF ~repeated /\ Oversized(o, orders', kids)
          THEN CancelChild(kids, child_idx, "refresh")
          ELSE children' = kids /\ UNCHANGED cancelling
       /\ UNCHANGED <<status, close_type, child_idx, clock, retries, submitted, faults>>

OrderCompleted(o, amount) ==
    LET r == orders[o]
        ended == [r EXCEPT !.terminal = TRUE, !.reported = Larger(@, amount)]
        kids == FillKids(o, Gain(ended))
    IN /\ Attached
       /\ orders' = [orders EXCEPT ![o] = Credit(ended)]
       /\ cumulative_filled' = cumulative_filled + Gain(ended)
       /\ late' = IF r.terminal THEN late + Gain(ended) ELSE late
       /\ children' = IF IsActive(o) THEN [kids EXCEPT ![r.child].status = "DONE"] ELSE kids
       /\ cancelling' = cancelling \ {o}
       /\ UNCHANGED <<status, close_type, child_idx, clock, retries, submitted>>

\* An order that ended is cancelled or failed again only once it is no child's
\* current order: HB stops updating an order that completed.
MayEnd(o) == orders[o].terminal => children[orders[o].child].tracked # o

EndOrder(o) == [orders EXCEPT ![o].terminal = TRUE]

OrderCanceled(o) ==
    LET c == orders[o].child
        kids == [children EXCEPT ![c].tracked = NoOrder]
        expired == children[c].reason = "cycle_expired"
    IN /\ Attached
       /\ MayEnd(o)
       /\ \/ /\ ~IsActive(o)
             /\ KeepOrders(EndOrder(o), children)
          \/ /\ IsActive(o)
             /\ expired
             /\ PositionAction = "CLOSE"
             /\ PlaceAggressive(EndOrder(o), kids, c)
          \/ /\ IsActive(o)
             /\ expired
             /\ PositionAction # "CLOSE"
             /\ KeepOrders(EndOrder(o), [kids EXCEPT ![c].status = "SKIPPED"])
          \/ /\ IsActive(o)
             /\ ~expired
             /\ KeepOrders(EndOrder(o), [kids EXCEPT ![c].status = "IDLE"])
       /\ cancelling' = cancelling \ {o}
       /\ UNCHANGED <<status, close_type, child_idx, clock, cumulative_filled, retries>>

\* 2 ** min(retries, 4) seconds, at most the refresh time.
RetryDelay(n) == Smaller(<<2, 4, 8, 16>>[Smaller(n, 4)], RefreshTime)

\* The venue refuses a reduce-only order: there is nothing left to close.
ReduceOnlyRejected(o) ==
    LET c == orders[o].child
    IN /\ Attached
       /\ MayEnd(o)
       /\ IsActive(o)
       /\ PositionAction = "CLOSE"
       /\ KeepOrders(EndOrder(o),
                     [children EXCEPT ![c].tracked = NoOrder, ![c].status = "SKIPPED"])
       /\ CloseExecutionBy("EARLY_STOP")
       /\ cancelling' = cancelling \ {o}
       /\ UNCHANGED <<child_idx, clock, cumulative_filled, retries>>

OrderFailed(o) ==
    LET c == orders[o].child
        kids == [children EXCEPT ![c].tracked = NoOrder, ![c].status = "IDLE"]
    IN /\ Attached
       /\ MayEnd(o)
       /\ \/ /\ ~IsActive(o)
             /\ KeepOrders(EndOrder(o), children)
             /\ UNCHANGED <<clock, retries>>
          \/ /\ IsActive(o)
             /\ retries' = retries + 1
             /\ clock' = [clock EXCEPT !.retry = RetryDelay(retries')]
             /\ IF /\ children[c].status = "AGGRESSIVE"
                   /\ status = "RUNNING"
                   /\ retries' <= MaxRetries
                THEN PlaceAggressive(EndOrder(o), kids, c)
                ELSE KeepOrders(EndOrder(o), kids)
       /\ cancelling' = cancelling \ {o}
       /\ UNCHANGED <<status, close_type, child_idx, cumulative_filled>>
-------------------------------------------------------------------------------
(* The venue and the passing of time.                                      *)

\* An order the executor asked to cancel, or a retired one, costs no fault.
Fault(o) ==
    /\ faults < MaxFaults \/ orders[o].terminal
    /\ faults' = IF orders[o].terminal THEN faults ELSE faults + 1

\* A completion that tells something new of an order that had ended is a fault.
VenueCompletes(o, amount) ==
    /\ OrderCompleted(o, amount)
    /\ IF orders[o].terminal /\ amount > orders[o].reported
       THEN faults < MaxFaults /\ faults' = faults + 1
       ELSE UNCHANGED faults

VenueCancels(o) ==
    /\ OrderCanceled(o)
    /\ IF o \in cancelling THEN UNCHANGED faults ELSE Fault(o)

VenueFails(o) == (OrderFailed(o) \/ ReduceOnlyRejected(o)) /\ Fault(o)

CancelLost(o) ==
    /\ LoseCancels
    /\ o \in cancelling
    /\ faults < MaxFaults
    /\ cancelling' = cancelling \ {o}
    /\ faults' = faults + 1
    /\ UNCHANGED <<executor, late>>

Older(age, limit) == IF age = NotSet THEN age ELSE Smaller(age + 1, limit)

\* An age that the executor does not look at in this state is at its limit.
Tick ==
    /\ Attached
    /\ clock' =
         [cycle |-> IF status = "RUNNING" THEN Older(clock.cycle, TimeLimit) ELSE clock.cycle,
          refresh |-> IF \E c \in Children : children[c].status = "ACTIVE"
                      THEN Older(clock.refresh, RefreshTime)
                      ELSE RefreshTime,
          retry |-> Larger(clock.retry - 1, 0),
          sweep |-> Older(clock.sweep, RefreshTime)]
    /\ UNCHANGED <<status, close_type, child_idx, children, cumulative_filled,
                   retries, submitted, orders, venue, late>>

Next ==
    \/ ValidateSufficientBalance
    \/ ControlTask
    \/ EarlyStop
    \/ Tick
    \/ \E o \in 1..submitted :
          \/ \E trade \in 1..orders[o].amount : OrderFilled(o, trade)
          \/ \E amount \in 0..orders[o].amount : VenueCompletes(o, amount)
          \/ VenueCancels(o)
          \/ VenueFails(o)
          \/ CancelLost(o)

Spec == Init /\ [][Next]_vars
-------------------------------------------------------------------------------
(* Fairness.  HB runs control_task every update interval and time passes;  *)
(* the venue answers a cancel request unless it loses it, and executes or  *)
(* rejects a market order.                                                 *)

\* The venue answers a cancel request it received.
AnswerCancel == \E o \in cancelling : VenueCancels(o)

\* A market order is matched at once; its completion follows.
CompleteMarketOrder ==
    \E o \in Live : /\ IsActive(o)
                    /\ children[orders[o].child].status = "AGGRESSIVE"
                    /\ VenueCompletes(o, orders[o].amount)

\* An order whose whole amount traded is reported as completed.
CompleteFilledOrder ==
    \E o \in Live : orders[o].credited = orders[o].amount /\ VenueCompletes(o, orders[o].amount)

FairSpec ==
    /\ Spec
    /\ WF_vars(ValidateSufficientBalance)
    /\ WF_vars(ControlTask)
    /\ WF_vars(Tick)
    /\ WF_vars(AnswerCancel)
    /\ WF_vars(CompleteMarketOrder)
    /\ WF_vars(CompleteFilledOrder)
-------------------------------------------------------------------------------
(* Properties.                                                             *)

\* The variables hold what the executor's fields can hold.
TypeOK ==
    /\ status \in {"NOT_STARTED", "RUNNING", "SHUTTING_DOWN", "TERMINATED"}
    /\ close_type \in {"NONE", "COMPLETED", "FAILED", "TIME_LIMIT", "EARLY_STOP",
                       "POSITION_HOLD", "INSUFFICIENT_BALANCE"}
    /\ child_idx \in 1..NumChildren + 1
    /\ children \in [Children -> ChildSlot]
    /\ clock \in Clock
    /\ cumulative_filled \in Nat
    /\ retries \in Nat
    /\ submitted \in Nat
    /\ orders \in [1..submitted -> OrderRecord]
    /\ cancelling \in SUBSET (1..submitted)
    /\ faults \in 0..MaxFaults
    /\ late \in Nat

Working == {"ACTIVE", "CANCELING", "AGGRESSIVE"}

\* Whatever the venue repeats or delays, at most one order is working: the
\* tracked order of the current child.  (_is_active() keeps the events of
\* retired orders from restarting a child whose replacement is resting.)
OneLiveOrder ==
    /\ \A o, p \in Live : o = p
    /\ \A o \in Live : /\ orders[o].child = child_idx
                       /\ children[child_idx].tracked = o
                       /\ children[child_idx].status \in Working

\* Executed plus working quantity exceeds the total by no more than what ended
\* orders filled since the last submission: each replacement is sized from the
\* true residual (_room() counts credited fills and every unsettled order).
Budget == cumulative_filled + Outstanding(orders) <= Total + late

\* The same for each child's target.
ChildBudget ==
    \A o \in Live :
        LET c == orders[o].child
        IN children[c].filled + orders[o].amount - orders[o].credited <= Target(c) + late

\* No order counts for more than it was sent for, however often the venue
\* repeats its trades and its completion.
NoDoubleCount == \A o \in DOMAIN orders : orders[o].credited <= orders[o].amount

\* What the orders in S were credited with, lot by lot.
CreditedLots(S) == {lot \in S \X (1..Total) : lot[2] <= orders[lot[1]].credited}

\* A fill, however late, is credited to the child that submitted its order and
\* to the total, and to nothing else (_credit()).
CreditsSettle ==
    /\ \A c \in Children :
          children[c].filled
             = Cardinality(CreditedLots({o \in DOMAIN orders : orders[o].child = c}))
    /\ cumulative_filled = Cardinality(CreditedLots(DOMAIN orders))

\* The executor detaches from its events only when nothing it sent can still
\* execute, and it says COMPLETED only when the whole total did.
TruthfulClose ==
    status = "TERMINATED" =>
        /\ Outstanding(orders) = 0
        /\ close_type = "COMPLETED" => cumulative_filled >= Total /\ retries <= MaxRetries
        /\ close_type = "TIME_LIMIT" => cumulative_filled < Total
        /\ close_type = "FAILED" => retries > MaxRetries
        /\ close_type # "NONE"

\* A stop, or the end, is never followed by an order: the cancel ack of an
\* expired child and the failure of a market order both submit from a handler.
NoSubmitAfterStop == [][status # "RUNNING" => submitted' = submitted]_vars

Phase == CASE status \in {"NOT_STARTED", "RUNNING"} -> "working"
           [] status = "SHUTTING_DOWN" -> "stopping"
           [] status = "TERMINATED" -> "closed"

Promise == INSTANCE BudgetedExecution WITH
    phase <- Phase, done <- cumulative_filled, open <- Outstanding(orders)

\* Every step of the executor is one that BudgetedExecution allows: a new order
\* fits the total, none follows a stop, and the end leaves nothing open.
KeepsPromise == Promise!BudgetSpec

\* Once a stop is asked for, the executor ends, though cancels may be lost.
StopEnds == (status = "SHUTTING_DOWN") ~> (status = "TERMINATED")

\* A child whose cycle is over gives way to the next one, or the executor ends.
CycleEnds ==
    \A c \in Children :
        (child_idx = c /\ clock.cycle = TimeLimit) ~> (child_idx # c \/ status = "TERMINATED")

\* "A late fill that leaves a resting replacement oversized cancels it before
\* more is submitted": an order that could execute beyond the total, or beyond
\* its child's target, is not left resting.
OversizedIsCanceled ==
    \A o \in Live :
        children[orders[o].child].status = "ACTIVE" =>
            Room(orders, children, cumulative_filled, orders[o].child) >= 0
===============================================================================
