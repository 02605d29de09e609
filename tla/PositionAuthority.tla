-------------------------- MODULE PositionAuthority --------------------------
(***************************************************************************)
(* Which position a decision of the perp controller uses: the ledger of    *)
(* the fill observer for a while after a fill, the connector's polled      *)
(* position otherwise (_position_for_decision, FillObserver).  Positions   *)
(* are counted in fills of one side, so that a larger number knows more    *)
(* fills.  The keeper's _apply_positions (a library) brings the ledger to  *)
(* the position it is given.                                               *)
(***************************************************************************)
EXTENDS Integers

CONSTANTS
    Window,     \* how long a fill makes the ledger authoritative (30 s)
    MaxFills,   \* bound on the fills
    MaxDropped  \* bound on the fills the ledger refuses

ASSUME PositionAssumption ==
    Window \in Nat /\ MaxFills \in Nat /\ MaxDropped \in Nat

VARIABLES
    filled,     \* position on the venue
    reported,   \* fills whose event was delivered
    dropped,    \* fills delivered and refused by the ledger
    ledger,     \* position of the ledger
    polled,     \* connector.account_positions
    pollAge,    \* time since the last poll
    fillAge,    \* time since last_fill_ts; ages saturate: Window + 1 is long ago
    doubtful    \* the ledger refused a fill or the connector was silent for
                \* longer than the window, and no decision made up for it since
                \* (history)

positionVars == <<filled, reported, dropped, ledger, polled, pollAge, fillAge,
                  doubtful>>

\* An age one step later.
Older(age) == IF age > Window THEN age ELSE age + 1

PositionInit ==
    /\ filled = 0 /\ reported = 0 /\ dropped = 0 /\ ledger = 0 /\ polled = 0
    /\ pollAge = 0 /\ fillAge = Window + 1 /\ doubtful = FALSE

\* The venue executes an order; its event and the next poll come later.
VenueFills ==
    /\ filled < MaxFills
    /\ filled' = filled + 1
    /\ UNCHANGED <<reported, dropped, ledger, polled, pollAge, fillAge, doubtful>>

\* _on_fill_event: the receipt time is set before the ledger may refuse.
OnFillEvent ==
    /\ reported < filled
    /\ reported' = reported + 1
    /\ fillAge' = 0
    /\ \/ ledger' = ledger + 1 /\ UNCHANGED <<dropped, doubtful>>
       \/ /\ dropped < MaxDropped /\ dropped' = dropped + 1
          /\ doubtful' = TRUE /\ UNCHANGED ledger
    /\ UNCHANGED <<filled, polled, pollAge>>

\* The connector's own polling; an outage may silence it for any time.
ConnectorPolls ==
    /\ polled' = filled
    /\ pollAge' = 0
    /\ UNCHANGED <<filled, reported, dropped, ledger, fillAge, doubtful>>

\* Mutant of PositionForDecision: the connector's position is always used.
PositionForDecisionPolled == polled

PositionForDecision == IF fillAge <= Window THEN ledger ELSE polled

\* update_processed_data, and _apply_positions of the keeper.
Decide ==
    /\ ledger' = PositionForDecision
    /\ doubtful' = (doubtful /\ ~(fillAge > Window /\ pollAge <= Window))
    /\ UNCHANGED <<filled, reported, dropped, polled, pollAge, fillAge>>

PositionTick ==
    /\ pollAge' = Older(pollAge)
    /\ fillAge' = Older(fillAge)
    /\ doubtful' = (doubtful \/ pollAge' > Window)
    /\ UNCHANGED <<filled, reported, dropped, ledger, polled>>

PositionNext == \/ VenueFills \/ OnFillEvent \/ ConnectorPolls \/ Decide
                \/ PositionTick

PositionSpec == PositionInit /\ [][PositionNext]_positionVars

-----------------------------------------------------------------------------
(* Properties.                                                             *)

\* The counts, and what the ages may be.
PositionTypeOK ==
    /\ {filled, reported, dropped, ledger, polled} \subseteq Nat
    /\ {pollAge, fillAge} \subseteq 0 .. Window + 1
    /\ doubtful \in BOOLEAN

\* "Keep recent fills from being erased by HL's lagging position cache"
\* (_position_for_decision): a decision knows every fill that was reported.
\* Two things break it, a fill the ledger refuses and a connector that is
\* silent for longer than the window; either is made up for by the first
\* decision on a poll that is not older than the window, once that is over.
NoFillErased == ~doubtful => PositionForDecision >= reported
=============================================================================
