---------------------------- MODULE GatewayBridge ----------------------------
(***************************************************************************)
(* GatewayExecBridge: the verbs of the DLMM keeper as calls to the         *)
(* Gateway, the book of positions the bridge keeps (one pool here), and    *)
(* the chain the calls change.  A verb is a sequence of calls; the pool's  *)
(* active bin moves between them, and each call may be refused or its      *)
(* answer lost.  The keeper is a library: it deposits when it holds no     *)
(* position, refreshes the one it holds, and withdraws it at the end.      *)
(***************************************************************************)
EXTENDS Integers, Sequences, FiniteSets

CONSTANTS
    Bins,          \* the active bins of the pool
    Offset,        \* distance of the first bid bin below the expected bin
    Tolerances,    \* max_active_bin_slippage of a verb
    MaxTolerance,  \* max_active_bin_slippage_bins of the bridge (3)
    MaxPositions,  \* bound on the positions ever opened
    MaxMoves,      \* bound on the moves of the active bin
    MaxFaults      \* bound on refused calls, lost answers and nameless ones

ASSUME BridgeAssumption ==
    /\ Bins \subseteq Int /\ Tolerances \subseteq Int
    /\ {Offset, MaxTolerance, MaxPositions, MaxMoves, MaxFaults} \subseteq Nat

VARIABLES
    active,    \* the pool's active bin
    open,      \* positions that are open on the chain
    opened,    \* how many were ever opened; they are numbered in this order
    book,      \* _positions[pool], 0 when the bridge knows none
    held,      \* the keeper's _current_position_id, 0 when it has none
    verb,      \* the verb in progress: its calls left to make, its arguments
    slack,     \* what the last placement left of its verb's tolerance
    moves,
    unnamed,   \* history: the positions whose name never reached the bridge
    faults

vars == <<active, open, opened, book, held, verb, slack, moves, unnamed,
          faults>>

NoPosition == 0
Idle == [op |-> "none", calls |-> <<>>, expected |-> 0, tolerance |-> 0, anchor |-> 0]

Init ==
    /\ active \in Bins
    /\ open = {} /\ opened = 0 /\ book = NoPosition /\ held = NoPosition
    /\ verb = Idle /\ slack = 0
    /\ moves = 0 /\ unnamed = {} /\ faults = 0

Distance(a, b) == IF a < b THEN b - a ELSE a - b

Call(name) == verb.calls # <<>> /\ Head(verb.calls) = name
Rest == Tail(verb.calls)
Fault == faults < MaxFaults /\ faults' = faults + 1

-----------------------------------------------------------------------------
(* The keeper calls a verb, with the active bin of its last read.          *)

Start(op, calls) ==
    /\ verb = Idle
    /\ \E t \in Tolerances :
          verb' = [op |-> op, calls |-> calls, expected |-> active,
                   tolerance |-> t, anchor |-> 0]
    /\ UNCHANGED <<active, open, opened, book, held, slack, moves, unnamed, faults>>

\* One side's ladder may be empty.
Ladders == LET bid == <<"readBid", "placeBid">>
               ask == <<"readAsk", "placeAsk">>
           IN  {bid, ask, bid \o ask}

\* deposit_single_sided, once per side.
InitialDeposit ==
    held = NoPosition /\ \E sides \in Ladders : Start("deposit", sides)

\* refresh_bundle, with or without a swap.
RefreshBundle ==
    /\ held # NoPosition
    /\ \E swap \in {<<>>, <<"swap">>}, sides \in Ladders :
          Start("refresh", <<"withdraw">> \o swap \o sides)

EmergencyExit == held # NoPosition /\ Start("exit", <<"withdraw">>)

\* The verb returns an error.  The keeper holds on to a position it could
\* not withdraw; after a bundle that failed later it may forget it.
VerbFails ==
    /\ verb' = Idle
    /\ held' \in IF verb.op = "refresh" /\ ~Call("withdraw")
                 THEN {held, NoPosition} ELSE {held}

\* The verb goes on, or returns the position of the book.
VerbContinues(adopted) ==
    /\ verb' = IF Rest = <<>> THEN Idle ELSE [verb EXCEPT !.calls = Rest]
    /\ held' = IF Rest = <<>> \/ verb.op = "deposit" THEN adopted ELSE held

-----------------------------------------------------------------------------
(* withdraw.                                                               *)

\* Mutant of Forget: only a confirmed close drops the position.
ForgetConfirmed(ok) == IF ok /\ book = held THEN NoPosition ELSE book

\* _positions drops the position whatever the answer was.
Forget(ok) == IF book = held THEN NoPosition ELSE book

\* Mutant of AfterFailedWithdraw: the bundle deposits all the same.
AfterFailedWithdrawGoesOn ==
    IF verb.op = "refresh" THEN verb' = [verb EXCEPT !.calls = Rest] /\ UNCHANGED held
    ELSE VerbFails

\* "refresh_bundle: withdraw failed".
AfterFailedWithdraw == VerbFails

\* close-position closes an open position; its answer may be lost, or the
\* Gateway refuses.  A position that is not open is refused always.
Withdraw ==
    /\ Call("withdraw")
    /\ \/ /\ held \in open
          /\ open' = open \ {held} /\ book' = Forget(TRUE)
          /\ VerbContinues(NoPosition)
          /\ UNCHANGED faults
       \/ /\ held \in open /\ Fault
          /\ open' = open \ {held}
          /\ book' = Forget(FALSE) /\ AfterFailedWithdraw
       \/ /\ IF held \in open THEN Fault ELSE UNCHANGED faults
          /\ book' = Forget(FALSE) /\ AfterFailedWithdraw
          /\ UNCHANGED open
    /\ UNCHANGED <<active, opened, slack, moves, unnamed>>

\* A swap that fails is logged, the bundle deposits without it.
Swap ==
    /\ Call("swap")
    /\ verb' = [verb EXCEPT !.calls = Rest]
    /\ UNCHANGED <<active, open, opened, book, held, slack, moves, unnamed, faults>>

-----------------------------------------------------------------------------
(* deposit_single_sided.                                                   *)

\* The ladder's inner bin would be on the other side of the active bin.
Crosses(side, at) ==
    IF side = "bid" THEN verb.expected - Offset >= at
                    ELSE verb.expected + Offset < at

\* Mutant of Remaining: what the market has moved already is not counted.
RemainingWhole(at) == verb.tolerance

Remaining(at) == verb.tolerance - Distance(at, verb.expected)

Accepted(side) ==
    /\ verb.tolerance > 0 /\ verb.tolerance <= MaxTolerance
    /\ Remaining(active) > 0
    /\ ~Crosses(side, verb.expected) /\ ~Crosses(side, active)

\* Checks, and the pool-info read that anchors the prices.
ReadAnchor(side, name) ==
    /\ Call(name)
    /\ \/ /\ Accepted(side)
          /\ verb' = [verb EXCEPT !.calls = Rest, !.anchor = active]
          /\ UNCHANGED <<held, faults>>
       \/ ~Accepted(side) /\ VerbFails /\ UNCHANGED faults
       \/ Fault /\ VerbFails
    /\ UNCHANGED <<active, open, opened, book, slack, moves, unnamed>>

\* The Gateway places the liquidity unless the market left the slippage.
Lands == Distance(active, verb.anchor) <= Remaining(verb.anchor)

\* add-liquidity to the position of the book, open-position without one.
PlacedIn == IF book # NoPosition THEN book ELSE opened + 1

\* An answer that is lost ends the verb.  One that arrives without a
\* positionAddress is good, and leaves the book as it is.
Place(name) ==
    /\ Call(name)
    /\ \/ /\ Lands /\ PlacedIn <= MaxPositions
          /\ open' = open \cup {PlacedIn}
          /\ opened' = IF book = NoPosition THEN opened + 1 ELSE opened
          /\ slack' = verb.tolerance - Distance(active, verb.expected)
          /\ \/ book' = PlacedIn /\ VerbContinues(PlacedIn)
                /\ UNCHANGED <<unnamed, faults>>
             \/ /\ Fault /\ UNCHANGED book
                /\ unnamed' = IF book = NoPosition THEN unnamed \cup {PlacedIn}
                              ELSE unnamed
                /\ \/ VerbFails
                   \/ VerbContinues(IF verb.op = "deposit" THEN held ELSE book)
       \/ /\ IF Lands THEN Fault ELSE UNCHANGED faults
          /\ VerbFails
          /\ UNCHANGED <<open, opened, slack, book, unnamed>>
    /\ UNCHANGED <<active, moves>>

Deposit ==
    \/ ReadAnchor("bid", "readBid") \/ Place("placeBid")
    \/ ReadAnchor("ask", "readAsk") \/ Place("placeAsk")

-----------------------------------------------------------------------------

MarketMoves ==
    /\ moves < MaxMoves
    /\ moves' = moves + 1
    /\ active' \in {active - 1, active + 1} \cap Bins
    /\ UNCHANGED <<open, opened, book, held, verb, slack, unnamed, faults>>

Next == \/ InitialDeposit \/ RefreshBundle \/ EmergencyExit
        \/ Withdraw \/ Swap \/ Deposit
        \/ MarketMoves

Spec == Init /\ [][Next]_vars

-----------------------------------------------------------------------------
(* Properties.                                                             *)

\* The positions are numbered, and the bridge knows at most what was opened.
TypeOK ==
    /\ open \subseteq 1 .. opened /\ opened \in 0 .. MaxPositions
    /\ book \in 0 .. opened /\ held \in 0 .. opened /\ unnamed \subseteq 1 .. opened

\* Liquidity is only ever added to a position that is still open, also after
\* a close whose answer was lost: the book never keeps a closed position
\* (withdraw drops it whatever the answer).
BookIsOpen == book # NoPosition => book \in open

\* At most one position is open besides those whose name never reached the
\* bridge, whatever verb fails at whatever call and whichever answer is lost:
\* no refresh leaves its old position behind the new one (refresh_bundle, and
\* "one stored position per pool").
OnePosition == Cardinality(open \ unnamed) <= 1

\* No liquidity is placed further from the bin the keeper expected than its
\* verb tolerates, however the market moves between the keeper's read, the
\* bridge's read and the placement (remaining_tolerance).
PlacedNearExpected == slack >= 0
=============================================================================
