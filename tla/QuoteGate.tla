------------------------------ MODULE QuoteGate ------------------------------
(***************************************************************************)
(* run_hb_mainnet_quote_gate.py: quotes of the real controller become      *)
(* orders on a live account, are replaced once, and are taken down.  The   *)
(* controller's actions are nondeterministic; what the script does with    *)
(* them and with what it reads at the venue is not.                        *)
(***************************************************************************)
EXTENDS GateVenue

VARIABLES
    foreign,   \* the account had orders of others before (preexisting)
    exposed    \* the account's position is not zero

quoteVars == <<gateVars, venueVars, foreign, exposed>>

Steps == {"ready", "warmup", "create", "await", "refresh", "stop", "stopping",
          "create2", "await2", "stop2", "stopping2", "leftover", "position",
          "finally", "ending", "done"}

\* The try block; a read of the venue or a call of the controller may raise
\* at each of its steps.
QuoteTried == Steps \ {"finally", "ending", "done"}

QuoteInit ==
    /\ GateInit /\ step = "ready"
    /\ foreign \in BOOLEAN /\ exposed \in BOOLEAN

\* The first reads of the account.
QuoteReady ==
    /\ step = "ready"
    /\ Checks(~exposed)
    /\ GoTo(IF exposed THEN "finally" ELSE "warmup")
    /\ UNCHANGED <<dry, executors, creating, venueVars, foreign, exposed>>

\* The keeper's quote, or one made up; the notional guard raises.
Warmup ==
    /\ step = "warmup"
    /\ GoTo(IF dry THEN "finally" ELSE "create")
    /\ UNCHANGED <<failed, dry, executors, creating, venueVars, foreign, exposed>>

Create(at) ==
    /\ step = at
    /\ \E i \in Ids : CreateOne(i)
    /\ UNCHANGED <<step, failed, dry, executors, order, foreign, exposed>>

\* `executors` is the new list, the old one is forgotten.
Created(at, next) ==
    /\ step = at
    /\ executors' = creating /\ creating' = {}
    /\ GoTo(next)
    /\ UNCHANGED <<failed, dry, venueVars, foreign, exposed>>

\* _await_oids: every executor has an order, and each of them rests; the
\* wait may have run out, an order may be another account's.
Await ==
    /\ step = "await"
    /\ \E good \in BOOLEAN :
          Checks(good /\ executors # {} /\ \A i \in executors : order[i] = "resting")
    /\ GoTo("refresh")
    /\ UNCHANGED <<dry, executors, creating, venueVars, foreign, exposed>>

\* The replacements: what orders the wait has found rest, and of the old
\* ones those that were recorded do not.
AwaitNew ==
    /\ step = "await2"
    /\ \E found \in SUBSET executors, recorded \in SUBSET (Ids \ executors) :
          Checks(/\ found # {} /\ \A i \in found : order[i] = "resting"
                 /\ \A i \in recorded : order[i] # "resting")
    /\ GoTo("stop2")
    /\ UNCHANGED <<dry, executors, creating, venueVars, foreign, exposed>>

\* The controller's refresh actions: they stop all the script's executors.
Refresh ==
    /\ step = "refresh"
    /\ \E stopsAll \in BOOLEAN : Checks(stopsAll)
    /\ GoTo("stop")
    /\ UNCHANGED <<dry, executors, creating, venueVars, foreign, exposed>>

StopAll(at, next) ==
    /\ step = at
    /\ EarlyStop(executors)
    /\ GoTo(next)
    /\ UNCHANGED <<failed, dry, executors, creating, order, foreign, exposed>>

\* All have closed, or the wait ran out: forced stops are a failure.
Stopped(at, next) ==
    /\ step = at
    /\ Checks(Forced(executors) = {})
    /\ Stop(executors)
    /\ GoTo(next)
    /\ UNCHANGED <<dry, executors, creating, order, foreign, exposed>>

\* Orders of the gate that rest are cancelled through the raw SDK.
QuoteLeftover ==
    LET left == {i \in Ids : order[i] = "resting"} IN
    /\ step = "leftover"
    /\ Checks(left = {})
    /\ \E gone \in SUBSET left :
          order' = [i \in Ids |-> IF i \in gone THEN "none" ELSE order[i]]
    /\ GoTo("position")
    /\ UNCHANGED <<dry, executors, creating, ex, foreign, exposed>>

\* A position is market-closed.
QuotePosition ==
    /\ step = "position"
    /\ Checks(~exposed)
    /\ exposed' \in {exposed, FALSE}
    /\ GoTo("finally")
    /\ UNCHANGED <<dry, executors, creating, venueVars, foreign>>

\* The finally block stops what the script knows of; the executors it had
\* to force are not reported.
QuoteFinallyStops ==
    /\ step = "finally"
    /\ EarlyStop(executors)
    /\ GoTo("ending")
    /\ UNCHANGED <<failed, dry, executors, creating, order, foreign, exposed>>

Ends ==
    /\ step = "ending"
    /\ Stop(executors)
    /\ GoTo("done")
    /\ UNCHANGED <<failed, dry, executors, creating, order, foreign, exposed>>

\* An order of the gate fills, in part or in full.
Fills(i) ==
    /\ order[i] = "resting"
    /\ \E to \in {"resting", "none"} : order' = [order EXCEPT ![i] = to]
    /\ exposed' \in BOOLEAN
    /\ UNCHANGED <<gateVars, ex, foreign>>

\* An order that was there before fills.
ForeignFills == foreign /\ exposed' \in BOOLEAN /\ UNCHANGED <<gateVars, venueVars, foreign>>

QuoteScript ==
    \/ QuoteReady \/ Warmup
    \/ Create("create") \/ Created("create", "await") \/ Await
    \/ Refresh \/ StopAll("stop", "stopping") \/ Stopped("stopping", "create2")
    \/ Create("create2") \/ Created("create2", "await2") \/ AwaitNew
    \/ StopAll("stop2", "stopping2") \/ Stopped("stopping2", "leftover")
    \/ QuoteLeftover \/ QuotePosition \/ QuoteFinallyStops \/ Ends
    \/ Raises("finally", QuoteTried) /\ UNCHANGED <<foreign, exposed>>

QuoteVenue ==
    \/ \E i \in Ids : ExecutorRuns(i) /\ UNCHANGED <<foreign, exposed>>
    \/ \E i \in Ids : Fills(i)
    \/ ForeignFills

QuoteNext == QuoteScript \/ QuoteVenue

QuoteSpec == QuoteInit /\ [][QuoteNext]_quoteVars

-----------------------------------------------------------------------------
(* Properties.                                                             *)

\* A gate that passed leaves no order of its own, and no position unless an
\* order that was there before it filled ("teardown leaves zero resting
\* orders and zero position"), also when an order fills, or an executor
\* hangs, at the worst moment.
PassedMeansClean ==
    step = "done" /\ ~failed =>
        /\ \A i \in Ids : order[i] = "none"
        /\ ~foreign => ~exposed

\* While a gate has seen no failure, it never has quotes of two generations:
\* "cancellation must be confirmed before target-capped replacements are
\* allowed to exist".
OneGeneration ==
    ~failed /\ creating # {} => \A i \in Ids \ creating : order[i] = "none"
=============================================================================
