------------------------------ MODULE DeriskGate ------------------------------
(***************************************************************************)
(* run_hb_mainnet_derisk_gate.py: a real position is opened with a market  *)
(* order, the controller takes it down passively, it is opened again and   *)
(* taken down as an emergency.  The script drops the controller's quotes;  *)
(* all its other executors only reduce the position.                       *)
(***************************************************************************)
EXTENDS GateVenue, Integers

CONSTANT Size    \* --open-size, in lots

VARIABLES
    pos,       \* lots the account is long
    openers,   \* the executors that open it
    buyer,     \* the last of them
    toBuy      \* lots it may still buy

deriskVars == <<gateVars, venueVars, pos, openers, buyer, toBuy>>

lots == <<pos, openers, buyer, toBuy>>

DeriskInit ==
    /\ GateInit /\ step = "ready"
    /\ pos \in 0 .. Size + 1 /\ openers = {} /\ buyer \in Ids /\ toBuy = 0

DeriskTried == {"ready", "open", "opening", "derisk", "reopen", "restop", "open2",
                "opening2", "emergency"}

\* The account has to be clean; the notional guard raises; a dry run stops
\* after the plan.
DeriskReady ==
    /\ step = "ready"
    /\ \E resting \in BOOLEAN :
          /\ Checks(pos = 0 /\ ~resting)
          /\ GoTo(IF pos > 0 \/ resting \/ dry THEN "finally" ELSE "open")
    /\ UNCHANGED <<dry, executors, creating, venueVars, lots>>

\* _open_position: a market order of Size.
Open(at, next) ==
    /\ step = at
    /\ \E i \in Ids :
          /\ CreateOne(i)
          /\ executors' = executors \cup {i}
          /\ openers' = openers \cup {i} /\ buyer' = i
    /\ toBuy' = Size
    /\ GoTo(next)
    /\ UNCHANGED <<failed, dry, order, pos>>

\* venue_ok, or the phase raises.  Whether the controller and its observer
\* have seen the fill is checked in the first phase, and raises in the second.
Opened(at, next) ==
    /\ step = at
    /\ pos = Size
    /\ creating' = {}
    /\ \E seen \in BOOLEAN : (at = "opening2" => seen) /\ Checks(seen)
    /\ GoTo(next)
    /\ UNCHANGED <<dry, executors, venueVars, lots>>

\* _run_cycles: stops, and creates that reduce the position.
CycleStops(at) ==
    /\ step = at
    /\ \E S \in SUBSET executors : EarlyStop(S)
    /\ UNCHANGED <<gateVars, order, lots>>

CycleCreates(at) ==
    /\ step = at
    /\ \E i \in Ids : CreateOne(i) /\ executors' = executors \cup {i}
    /\ UNCHANGED <<step, failed, dry, order, lots>>

\* The position is flat, or time is up; then the checks of the phase.
CyclesEnd(at, next) ==
    /\ step = at
    /\ creating' = {}
    /\ \E others \in BOOLEAN : Checks(others /\ pos = 0)
    /\ GoTo(IF pos = 0 THEN next ELSE "finally")
    /\ UNCHANGED <<dry, executors, venueVars, lots>>

\* The executors of the first phase are stopped; the script does not look
\* at which of them it had to force.
Reopen ==
    /\ step = "reopen"
    /\ EarlyStop(executors)
    /\ GoTo("restop")
    /\ UNCHANGED <<failed, dry, executors, creating, order, lots>>

Restop ==
    /\ step = "restop"
    /\ Stop(executors)
    /\ GoTo("open2")
    /\ UNCHANGED <<failed, dry, executors, creating, order, lots>>

\* The finally block, step by step: stop, read, clean up, read again.
DeriskFinallyStops ==
    /\ step = "finally"
    /\ EarlyStop(executors)
    /\ GoTo("forced")
    /\ UNCHANGED <<failed, dry, executors, creating, order, lots>>

FinallyForces ==
    /\ step = "forced"
    /\ Checks(Forced(executors) = {})
    /\ Stop(executors)
    /\ GoTo(IF dry THEN "done" ELSE "leftover")
    /\ UNCHANGED <<dry, executors, creating, order, lots>>

\* Orders that rest are a failure; each is cancelled through the raw SDK.
DeriskLeftover ==
    LET left == {i \in Ids : order[i] = "resting"} IN
    /\ step = "leftover"
    /\ Checks(left = {})
    /\ \E gone \in SUBSET left :
          order' = [i \in Ids |-> IF i \in gone THEN "none" ELSE order[i]]
    /\ GoTo("position")
    /\ UNCHANGED <<dry, executors, creating, ex, lots>>

DeriskPosition ==
    /\ step = "position"
    /\ Checks(pos = 0)
    /\ pos' \in {pos, 0}
    /\ GoTo("done")
    /\ UNCHANGED <<dry, executors, creating, venueVars, openers, buyer, toBuy>>

\* A market order that has bought its size is over.
MayPlace(i) == i \in openers => i = buyer /\ toBuy > 0

Buys(i) ==
    /\ order[i] = "resting" /\ i \in openers
    /\ pos' = pos + 1 /\ toBuy' = toBuy - 1
    /\ order' = IF toBuy = 1 THEN [order EXCEPT ![i] = "none"] ELSE order
    /\ UNCHANGED <<gateVars, ex, openers, buyer>>

\* A reduce-only order sells what there is.
Sells(i) ==
    /\ order[i] = "resting" /\ i \notin openers /\ pos > 0
    /\ pos' = pos - 1
    /\ \E to \in {"resting", "none"} : order' = [order EXCEPT ![i] = to]
    /\ UNCHANGED <<gateVars, ex, openers, buyer, toBuy>>

DeriskScript ==
    \/ DeriskReady \/ Open("open", "opening") \/ Opened("opening", "derisk")
    \/ CycleStops("derisk") \/ CycleCreates("derisk") \/ CyclesEnd("derisk", "reopen")
    \/ Reopen \/ Restop \/ Open("open2", "opening2") \/ Opened("opening2", "emergency")
    \/ CycleStops("emergency") \/ CycleCreates("emergency")
    \/ CyclesEnd("emergency", "finally")
    \/ DeriskFinallyStops \/ FinallyForces \/ DeriskLeftover \/ DeriskPosition
    \/ Raises("finally", DeriskTried) /\ UNCHANGED lots
    \/ Raises("done", {"finally", "forced", "leftover", "position"}) /\ UNCHANGED lots

DeriskVenue ==
    \E i \in Ids :
       \/ Places(i) /\ MayPlace(i) /\ UNCHANGED lots
       \/ (Acked(i) \/ Cancels(i) \/ Closes(i)) /\ UNCHANGED lots
       \/ Buys(i) \/ Sells(i)

DeriskNext == DeriskScript \/ DeriskVenue

DeriskSpec == DeriskInit /\ [][DeriskNext]_deriskVars

-----------------------------------------------------------------------------
(* Properties.                                                             *)

\* The account is never longer than the size the gate opens, also when the
\* first phase's executors hang and the second opens all the same ("must
\* never open fresh exposure").
OnePositionOnly == openers # {} => pos <= Size

\* A gate that passed leaves the account flat, and nothing that could buy.
PassedMeansFlat ==
    step = "done" /\ ~failed =>
        /\ pos = 0
        /\ \A i \in openers : order[i] = "none"
=============================================================================
