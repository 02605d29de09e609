------------------------------ MODULE VenueReads ------------------------------
(***************************************************************************)
(* update_processed_data of the perp controllers of one connector: the     *)
(* margin read of each (MarginRead), then, when it ends, the decision of   *)
(* one of them with its position (PositionAuthority).  Fills and polls     *)
(* arrive while the margin read waits.                                     *)
(***************************************************************************)
EXTENDS MarginRead, PositionAuthority

CONSTANT Decider  \* the controller whose position is followed

vars == <<marginVars, positionVars>>

Init == MarginInit /\ PositionInit

\* The position is taken after the margin read, in the same step.
Decides(c) ==
    IF c = Decider THEN Decide ELSE UNCHANGED positionVars

CycleStarts(c) == StartRead(c) /\ UNCHANGED positionVars

CycleReads(c) ==
    /\ EnterLock(c)
    /\ IF reading'[c] = "paused" THEN Decides(c) ELSE UNCHANGED positionVars

VenueAnswers(c) == Answers(c) /\ Decides(c)

VenueFails(c) == (Refused(c) \/ TimedOut(c)) /\ Decides(c)

DeadlinePasses(c) == CycleCancelled(c) /\ UNCHANGED positionVars

PositionMoves ==
    /\ VenueFills \/ OnFillEvent \/ ConnectorPolls
    /\ UNCHANGED marginVars

Tick == MarginTick /\ PositionTick

Next ==
    \/ \E c \in Controllers :
          \/ CycleStarts(c) \/ CycleReads(c) \/ VenueAnswers(c)
          \/ VenueFails(c) \/ DeadlinePasses(c)
    \/ PositionMoves
    \/ Tick

\* The controllers keep cycling, the loop serves the lock, time passes, and a
\* request that is not failed is answered.  The connector need not poll.
Spec ==
    /\ Init /\ [][Next]_vars
    /\ WF_vars(Tick)
    /\ \A c \in Controllers :
          /\ WF_vars(CycleStarts(c)) /\ WF_vars(CycleReads(c))
          /\ WF_vars(VenueAnswers(c))
          /\ WF_vars(DeadlinePasses(c))
=============================================================================
