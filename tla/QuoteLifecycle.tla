--------------------------- MODULE QuoteLifecycle ---------------------------
(***************************************************************************)
(* The perp market-making controller (perp_mm_controller.py) as the owner  *)
(* of its executors: each control cycle reads the position, lets the       *)
(* keeper choose an intent, latches it (InProcessClient of                 *)
(* perp_mm_bridge.py) and decides which quote and close executors to stop  *)
(* and create; QuoteLivenessWatchdog (resilience.py) opens a circuit when  *)
(* quotes do not reach the venue or do not leave it.  Between a decision   *)
(* and its execution, and between a stop and its confirmation, the venue   *)
(* fills orders; a cycle knows of a fill only when it was reported or      *)
(* polled (_position_for_decision: the ledger of reported fills, or a poll *)
(* some seconds old).                                                      *)
(*                                                                         *)
(* Quantities are lots, time is counted in control intervals.  The keeper  *)
(* is a library: any intent it may return in the cycle is a choice, and    *)
(* its quotes respect the position cap for the position it was given.  A   *)
(* close is reduce-only: the venue fills it only towards zero.  The inside *)
(* of a close executor is the module PassiveAggressive.                    *)
(***************************************************************************)
EXTENDS Integers, FiniteSets

CONSTANTS
    Cap,              \* caps.max_position of the keeper
    QuoteSize,        \* quote_size
    Timeout,          \* quote_liveness_timeout
    Cooldown,         \* quote_recovery_cooldown
    RefreshInterval,  \* quote_refresh_interval
    Urgencies,        \* the urgencies the keeper uses
    MaxUnseen,        \* bound on the lots that a cycle may miss or count twice
    MaxPerSide,       \* bound on the active executors of one side
    MaxFaults         \* bound on failed cycles, failed closes and cycles that
                      \* decide on an outdated position

ASSUME QuoteAssumption ==
    /\ {Cap, QuoteSize, Timeout, Cooldown, RefreshInterval, MaxPerSide}
         \subseteq Nat \ {0}
    /\ MaxFaults \in Nat /\ MaxUnseen \in Nat
    /\ Urgencies \subseteq {"normal", "immediate", "emergency"}

Ids == {"buy", "sell"} \X (1 .. MaxPerSide)

VARIABLES
    pos,        \* signed position on the venue
    lag,        \* lots filled that a cycle may miss or count twice
    late,       \* the most a cycle that quoted was wrong about pos (history)
    execs,      \* active executors: identifier -> record
    intent,     \* last_intent
    wd,         \* the watchdog: missing_since as an age, what is left of
                \* open_until, and whether open_until is set
    refresh,    \* _quote_refresh_pending and the age of
                \* _quote_cancel_started_at
    suspended,  \* _quote_suspension_reason
    queue,      \* actions sent and not yet executed
    due,        \* update_interval has passed since the last cycle
    faults      \* failures and outdated positions so far

vars == <<pos, lag, late, execs, intent, wd, refresh, suspended, queue, due, faults>>

Sides == {"buy", "sell"}
Never == -1
Sign(side) == IF side = "buy" THEN 1 ELSE -1
Abs(n) == IF n < 0 THEN -n ELSE n
Least(m, n) == IF m < n THEN m ELSE n

-----------------------------------------------------------------------------
(* Intents and the latch.                                                  *)

NoIntent == [kind |-> "none"]
Quote(p) == [kind |-> "quote", current |-> p,
             size |-> [s \in Sides |-> Least(QuoteSize, Cap - Sign(s) * p)]]
Flat(p, target, urgency) == [kind |-> "flat", current |-> p,
                             target |-> target, urgency |-> urgency]

\* What the keeper may ask at position p: quote, hold (a portfolio without
\* its peers) or flatten.
KeeperIntents(p) == {Quote(p), Flat(p, p, "immediate")} \cup
                    {Flat(p, 0, u) : u \in Urgencies}

\* What the portfolio may ask while this account's equity is unknown.
PeerIntents(p) == {Flat(p, 0, u) : u \in IF p = 0 THEN {} ELSE Urgencies \ {"normal"}}

IsQuoting(i) == i.kind = "quote"
Priority(u) == CASE u = "emergency" -> 2 [] u = "immediate" -> 1 [] OTHER -> 0

\* A non-quoting intent whose target the position has not reached.
Latched(i, p) == i.kind = "flat" /\ p # i.target

SetPositions(i, p) == IF i.kind = "flat" /\ p = i.target THEN NoIntent ELSE i

\* Mutant of SendIntent: the last intent wins.
SendIntentUnlatched(i, new, p) == new

SendIntent(i, new, p) ==
    IF /\ Latched(i, p)
       /\ IsQuoting(new) \/ Priority(new.urgency) < Priority(i.urgency)
    THEN i ELSE new

\* The execution an intent asks for: none when its own gap is zero.
Request(side, amount, urgency) ==
    [side |-> side, amount |-> amount, urgency |-> urgency]

ExecutionRequests(i) ==
    IF i.kind = "flat" /\ i.target # i.current
    THEN {Request(IF i.target > i.current THEN "buy" ELSE "sell",
                  Abs(i.target - i.current), i.urgency)}
    ELSE {}

FailsafeRequests(i) ==
    IF i.current = 0 THEN {}
    ELSE {Request(IF i.current > 0 THEN "sell" ELSE "buy",
                  Abs(i.current), "immediate")}

-----------------------------------------------------------------------------
(* The watchdog.                                                           *)

AllowQuotes == wd.cool = 0

Suspend(w) == [w EXCEPT !.missing = Never]

Trip(w) == [missing |-> Never, cool |-> Cooldown, opened |-> TRUE]

\* Mutant of Overdue: a missing side is waited for without end.
OverdueNever(w) == FALSE

Overdue(w) == w.missing >= Timeout

\* observe while the circuit is closed.
Observe(w, expected, live) ==
    LET fresh == IF w.opened
                 THEN [missing |-> Never, cool |-> 0, opened |-> FALSE] ELSE w
    IN  CASE expected = {}            -> [w EXCEPT !.missing = Never]
          [] expected # {} /\ expected \subseteq live
                                      -> [fresh EXCEPT !.missing = Never]
          [] OTHER -> IF fresh.missing = Never THEN [fresh EXCEPT !.missing = 0]
                      ELSE IF Overdue(fresh)
                      THEN [fresh EXCEPT !.cool = Cooldown, !.opened = TRUE]
                      ELSE fresh

-----------------------------------------------------------------------------
(* Executors.                                                              *)

Active == DOMAIN execs
Quotes == {e \in Active : execs[e].kind = "quote"}
Closes == Active \ Quotes
LiveSides == {execs[e].side : e \in {q \in Quotes : execs[q].order = "live"}}

\* child_order_time_limit of _execution_actions (5, 15 and 60 seconds),
\* scaled down in the same order.
CloseLimit(u) ==
    CASE u = "emergency" -> 1 [] u = "immediate" -> 2 [] OTHER -> 3

ClockLimit(x) == IF x.kind = "quote" THEN RefreshInterval
                 ELSE IF x.status = "stopping" THEN 0 ELSE CloseLimit(x.urgency)

Expected(i) == {s \in Sides : i.size[s] > 0}

\* buffered maker executors for the sides with a size and a touch price
QuotesFor(i, priced) ==
    {[kind |-> "quote", side |-> s, left |-> i.size[s],
      reduce |-> Sign(s) * i.current < 0,
      status |-> "running", order |-> "none", clock |-> 0] :
         s \in Expected(i) \cap priced}

CloseOf(r) ==
    [kind |-> "close", side |-> r.side, amount |-> r.amount,
     left |-> r.amount, reduce |-> TRUE, urgency |-> r.urgency,
     status |-> "running", order |-> "live", clock |-> 0]

\* _execution_signature: type, side, time limit and amount.
Signature(x) == <<x.side, x.urgency, x.amount>>

Send(stops, creates) == queue' = [stops |-> stops, creates |-> creates]
CreateQuotes(i) == \E priced \in SUBSET Sides : Send({}, QuotesFor(i, priced))

-----------------------------------------------------------------------------
(* determine_executor_actions, one operator per branch; i is the latched   *)
(* intent of this cycle.                                                   *)

NotPending == refresh' = [refresh EXCEPT !.pending = FALSE]

CancelOnly ==
    /\ Send(Quotes, {})
    /\ wd' = Suspend(wd)
    /\ NotPending

\* _cancel_timed_out, after the watchdog w and the drain r of the branch.
\* Mutant of CancelTimesOut: the circuit opens, the drain stays pending.
CancelTimesOutPending(w, r) ==
    IF r.age >= Timeout
    THEN wd' = Trip(w) /\ refresh' = [r EXCEPT !.age = Never]
    ELSE wd' = w /\ refresh' = r

CancelTimesOut(w, r) ==
    IF r.age >= Timeout
    THEN wd' = Trip(w) /\ refresh' = [pending |-> FALSE, age |-> Never]
    ELSE wd' = w /\ refresh' = r

StaleBook ==
    LET r == IF Quotes # {} /\ ~refresh.pending /\ AllowQuotes
             THEN [pending |-> TRUE, age |-> 0] ELSE refresh
    IN  /\ Send(Quotes, {})
        /\ IF r.pending THEN CancelTimesOut(Suspend(wd), r)
           ELSE wd' = Suspend(wd) /\ refresh' = r

CloseInFlight ==
    /\ Send(Quotes, {})
    /\ wd' = Suspend(wd)
    /\ NotPending

Draining == Send(Active, {}) /\ CancelTimesOut(Suspend(wd), refresh)

Drained(i) ==
    /\ CreateQuotes(i)
    /\ wd' = Suspend(wd)
    /\ refresh' = [pending |-> FALSE, age |-> Never]

CircuitOpen(i) ==
    /\ Send(Active, IF Active = {}
                    THEN {CloseOf(r) : r \in FailsafeRequests(i)} ELSE {})
    /\ UNCHANGED refresh

\* The quotes differ from what the intent wants: sides, size or age.
Outdated(i) ==
    \/ \E e \in Quotes : \/ execs[e].left > i.size[execs[e].side]
                         \/ execs[e].clock >= RefreshInterval
                             /\ Expected(i) \subseteq LiveSides
    \/ {execs[e].side : e \in Quotes} # Expected(i)
    \/ Cardinality(Quotes) # Cardinality(Expected(i))

KeepQuotes(w) == Send({}, {}) /\ wd' = w /\ UNCHANGED refresh

\* Mutant of StartRefresh: old and new quotes in one batch.
StartRefreshAtOnce(w, i) ==
    /\ Send(Active, QuotesFor(i, Sides))
    /\ wd' = Suspend(w)
    /\ refresh' = [pending |-> FALSE, age |-> Never]

StartRefresh(w, i) ==
    /\ Send(Active, {})
    /\ wd' = Suspend(w)
    /\ refresh' = [pending |-> TRUE, age |-> 0]

\* The price may ask for a refresh whenever there are quotes.
Quoting(i) ==
    LET w == IF AllowQuotes THEN Observe(wd, Expected(i), LiveSides) ELSE wd
    IN  \/ Closes # {} /\ CloseInFlight
        \/ Closes = {} /\ refresh.pending /\ Active # {} /\ Draining
        \/ Closes = {} /\ refresh.pending /\ Active = {} /\ Drained(i)
        \/ /\ Closes = {} /\ ~refresh.pending /\ w.cool > 0
           /\ CircuitOpen(i) /\ wd' = w
        \/ /\ Closes = {} /\ ~refresh.pending /\ w.cool = 0
           /\ \/ Active # {} /\ ~Outdated(i) /\ KeepQuotes(w)
              \/ Active # {} /\ StartRefresh(w, i)
              \/ Active = {} /\ CreateQuotes(i) /\ wd' = w /\ UNCHANGED refresh

\* Mutant of Kept: a running close is replaced in each cycle.
KeptNever(r) == {}

Kept(r) == {e \in Closes : Signature(execs[e]) = Signature(r)}

\* Mutant of ExecutionWanted: the close starts beside draining quotes.
ExecutionWantedAtOnce(i) == ExecutionRequests(i)

ExecutionWanted(i) == IF Quotes = {} THEN ExecutionRequests(i) ELSE {}

\* Mutant of Drop: the close is decided, the quotes are left alone.
DropNothing(kept) == Closes \ kept

Drop(kept) == Active \ kept

Executing(i) ==
    LET wanted == ExecutionWanted(i)
        kept   == IF wanted = {} /\ Quotes # {} THEN Closes
                  ELSE UNION {Kept(r) : r \in wanted}
    IN  /\ Send(Drop(kept), IF kept = {} THEN {CloseOf(r) : r \in wanted} ELSE {})
        /\ wd' = Suspend(wd)
        /\ NotPending

DetermineExecutorActions(i, susp) ==
    \/ ~IsQuoting(i) /\ Executing(i)
    \/ IsQuoting(i) /\ susp /\ AllowQuotes /\ CancelOnly
    \/ IsQuoting(i) /\ ~(susp /\ AllowQuotes) /\ (StaleBook \/ Quoting(i))

-----------------------------------------------------------------------------
(* control_task: the executors a decision sees are those of now, the       *)
(* position is the one it knows.                                           *)

Init ==
    /\ pos = 0
    /\ lag = 0
    /\ late = 0
    /\ execs = << >>
    /\ intent = NoIntent
    /\ wd = [missing |-> Never, cool |-> 0, opened |-> FALSE]
    /\ refresh = [pending |-> FALSE, age |-> Never]
    /\ suspended = FALSE
    /\ queue = [stops |-> {}, creates |-> {}]
    /\ due = TRUE
    /\ faults = 0

\* executors_update_event: the last actions were executed.
Ready == queue = [stops |-> {}, creates |-> {}]

\* What _position_for_decision may return.  The latest fills may be missing,
\* or counted twice: by a poll and by the event that comes after it.
Known == {pos + n : n \in -lag .. lag}

\* Equity known: the keeper ticks.  Unknown: quoting is suspended, and only
\* an emergency of the portfolio is passed on.
KeeperSends(i, p, equity) ==
    IF equity THEN {SendIntent(i, new, p) : new \in KeeperIntents(p)}
    ELSE {i} \cup {SendIntent(i, new, p) : new \in PeerIntents(p)}

\* An outdated position costs a fault.
Decides(p) ==
    \/ p = pos /\ UNCHANGED faults
    \/ p # pos /\ faults < MaxFaults /\ faults' = faults + 1

Quoted == \E x \in queue'.creates : x.kind = "quote"

CycleSucceeds ==
    /\ due /\ Ready
    /\ due' = FALSE
    /\ \E p \in Known, equity \in BOOLEAN :
         /\ Decides(p)
         /\ \E i \in KeeperSends(SetPositions(intent, p), p, equity) :
              /\ intent' = i
              /\ suspended' = ~equity
              /\ DetermineExecutorActions(i, ~equity)
         /\ late' = IF Quoted /\ Abs(pos - p) > late THEN Abs(pos - p) ELSE late
    /\ UNCHANGED <<pos, lag, execs>>

\* Not ready, deadline or exception: _force_flatten_intent.
CycleFails ==
    /\ due /\ Ready
    /\ due' = FALSE
    /\ faults < MaxFaults
    /\ faults' = faults + 1
    /\ \E p \in Known : intent' = Flat(p, 0, "emergency")
    /\ Executing(intent')
    /\ UNCHANGED <<pos, lag, late, execs, suspended>>

\* The orchestrator executes the queued actions.
FreeIds(side) == {e \in Ids \ Active : e[1] = side}

FreeId(side) == CHOOSE e \in FreeIds(side) :
                    \A f \in FreeIds(side) : e[2] <= f[2]

Stopped(e) == IF e \in queue.stops
              THEN [execs[e] EXCEPT !.status = "stopping",
                                    !.clock = IF e \in Quotes THEN @ ELSE 0]
              ELSE execs[e]

Created(e) == CHOOSE x \in queue.creates : FreeId(x.side) = e

ExecuteActions ==
    /\ ~Ready
    /\ \A x \in queue.creates : FreeIds(x.side) # {}
    /\ execs' = [e \in Active \cup {FreeId(x.side) : x \in queue.creates} |->
                   IF e \in Active THEN Stopped(e) ELSE Created(e)]
    /\ Send({}, {})
    /\ UNCHANGED <<pos, lag, late, intent, wd, refresh, suspended, due, faults>>

-----------------------------------------------------------------------------
(* Executors, orders and time.                                             *)

decided == <<late, intent, wd, refresh, suspended, queue, due>>

End(e) == execs' = [x \in Active \ {e} |-> execs[x]]

\* The venue never fills a reduce-only order beyond zero.
MayFill(e) == IF ~execs[e].reduce THEN execs[e].left
              ELSE IF Sign(execs[e].side) * pos < 0
              THEN Least(execs[e].left, Abs(pos)) ELSE 0

\* n lots of a side, which no cycle need know yet.
Filled(side, n) ==
    /\ pos' = pos + Sign(side) * n
    /\ lag' = Least(lag + n, MaxUnseen)

Fill(e, n) ==
    /\ Filled(execs[e].side, n)
    /\ IF n = execs[e].left THEN End(e)
       ELSE execs' = [execs EXCEPT ![e].left = @ - n]

QuoteSent(e) ==
    /\ execs[e].order = "none" /\ execs[e].status = "running"
    /\ execs' = [execs EXCEPT ![e].order = "sent"]
    /\ UNCHANGED <<pos, lag, faults, decided>>

QuoteAcked(e) ==
    /\ execs[e].order = "sent"
    /\ execs' = [execs EXCEPT ![e].order = "live"]
    /\ UNCHANGED <<pos, lag, faults, decided>>

\* process_order_failed_event: retried later, until the retries are used up.
QuoteRejected(e) ==
    /\ execs[e].order = "sent"
    /\ \/ execs' = [execs EXCEPT ![e].order = "none"]
       \/ End(e)
    /\ UNCHANGED <<pos, lag, faults, decided>>

OrderFills(e) ==
    /\ execs[e].order # "none"
    /\ \E n \in 1 .. MayFill(e) : Fill(e, n)
    /\ UNCHANGED <<faults, decided>>

StopConfirmed(e) ==
    /\ execs[e].status = "stopping"
    /\ End(e)
    /\ UNCHANGED <<pos, lag, faults, decided>>

\* The child's time is over: market order, filled as far as it reduces.
CloseCrosses(e) ==
    /\ execs[e].kind = "close" /\ execs[e].status = "running"
    /\ execs[e].clock >= CloseLimit(execs[e].urgency)
    /\ Filled(execs[e].side, MayFill(e))
    /\ End(e)
    /\ UNCHANGED <<faults, decided>>

\* A reduce-only rejection ends it; so do exhausted retries.
CloseGivesUp(e) ==
    /\ execs[e].kind = "close"
    /\ \/ MayFill(e) = 0 /\ UNCHANGED faults
       \/ MayFill(e) > 0 /\ faults < MaxFaults /\ faults' = faults + 1
    /\ End(e)
    /\ UNCHANGED <<pos, lag, decided>>

\* Reports and polls have brought the ledger up to date.
PositionSettles ==
    /\ lag > 0
    /\ lag' = 0
    /\ UNCHANGED <<pos, execs, faults, decided>>

Age(n, limit) == IF n = Never \/ n = limit THEN n ELSE n + 1

Tick ==
    /\ due' = TRUE
    /\ execs' = [e \in Active |-> [execs[e] EXCEPT !.clock = Age(@, ClockLimit(execs[e]))]]
    /\ wd' = [wd EXCEPT !.missing = Age(@, Timeout),
                        !.cool = IF @ = 0 THEN 0 ELSE @ - 1]
    /\ refresh' = [refresh EXCEPT !.age = Age(@, Timeout)]
    /\ UNCHANGED <<pos, lag, late, intent, suspended, queue, faults>>

Next ==
    \/ CycleSucceeds \/ CycleFails \/ ExecuteActions \/ PositionSettles \/ Tick
    \/ \E e \in Active : \/ QuoteSent(e) \/ QuoteAcked(e) \/ QuoteRejected(e)
                         \/ OrderFills(e) \/ StopConfirmed(e)
                         \/ CloseCrosses(e) \/ CloseGivesUp(e)

StopSettles(e) == e \in Active /\ StopConfirmed(e)
CloseSettles(e) == e \in Active /\ CloseCrosses(e)

Fairness ==
    /\ WF_vars(CycleSucceeds) /\ WF_vars(ExecuteActions) /\ WF_vars(Tick)
    /\ \A e \in Ids : WF_vars(StopSettles(e)) /\ WF_vars(CloseSettles(e))

Spec == Init /\ [][Next]_vars /\ Fairness

-----------------------------------------------------------------------------
(* Properties.                                                             *)

\* A quantity of executors and intents is one lot at least, and no age or
\* identifier leaves its range.
TypeOK ==
    /\ Abs(pos) <= Cap + MaxUnseen
    /\ lag \in 0 .. MaxUnseen
    /\ late \in 0 .. MaxUnseen
    /\ Active \subseteq Ids
    /\ \A e \in Active : /\ execs[e].left \in 1 .. 2 * (Cap + MaxUnseen)
                         /\ execs[e].clock \in 0 .. ClockLimit(execs[e])
    /\ intent.kind \in {"none", "quote", "flat"}
    /\ wd.missing \in {Never} \cup 0 .. Timeout
    /\ wd.cool \in 0 .. Cooldown
    /\ refresh.age \in {Never} \cup 0 .. Timeout
    /\ queue.stops \subseteq Ids

\* The position exceeds the cap by no more than a cycle that created quotes
\* was ever wrong about it.  Each quote fits the cap alone, at the position
\* the cycle knew; their sum fits too, although executors are stopped in one
\* cycle, replaced in another, and filled in between, because old and new
\* quotes never overlap (determine_executor_actions, lines 855-858).
WithinCap == Abs(pos) <= Cap + late

\* A quote never works beside a close: a close waits until the quotes are
\* confirmed as gone, quotes wait until the close has ended (lines 809-815
\* and 893-897).
Apart == Quotes = {} \/ Closes = {}

\* No branch asks for quotes while the liveness circuit is open, while
\* equity is unknown, or while any executor still works; the branch that
\* re-creates quotes after a drain looks at none of these itself (line 834).
CircuitHolds ==
    [][(Ready /\ \E x \in queue'.creates : x.kind = "quote")
           => wd'.cool = 0 /\ ~suspended' /\ Active = {}]_vars

\* An accepted flatten is replaced only by one that is as urgent, until the
\* position may be known to be the target; neither a failed cycle nor a portfolio
\* intent downgrades it (send_intent, set_positions, _force_flatten_intent).
LatchHolds ==
    [][(\A p \in Known : Latched(intent, p))
           => /\ intent'.kind = "flat"
              /\ Priority(intent'.urgency) >= Priority(intent.urgency)]_vars

\* After a failure or a stop decision no quote rests for ever (the promise
\* of control_task).
QuotesDrain == (intent.kind = "flat") ~> (Quotes = {})

\* A close gets to its market order although each cycle decides anew: it is
\* not stopped and re-created while the request is the same (lines 899-907).
CloseEnds == (Closes # {}) ~> (Closes = {})

\* Quotes without an order on the venue do not stay so: the circuit opens,
\* or they are refreshed (QuoteLivenessWatchdog.observe).
DarkEnds ==
    []<>~(/\ Quotes # {} /\ LiveSides = {} /\ ~refresh.pending /\ AllowQuotes
          /\ \A e \in Quotes : execs[e].status = "running")

\* What control_task promises of a failed cycle: its emergency flatten ends
\* with a flat position, if equity is known from some time on.  It does not:
\* see the README.
FlattenReached ==
    <>[]~suspended =>
        ((intent.kind = "flat" /\ intent.urgency = "emergency") ~> (pos = 0))
=============================================================================
