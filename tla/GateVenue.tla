------------------------------ MODULE GateVenue ------------------------------
(***************************************************************************)
(* What the two live write gates share (run_hb_mainnet_quote_gate.py and   *)
(* run_hb_mainnet_derisk_gate.py): the executors a gate creates and stops  *)
(* itself, without Hummingbot's orchestrator, and the order each executor  *)
(* has at the venue.  An executor runs between the gate's own steps.       *)
(***************************************************************************)

CONSTANT Ids     \* the executors a gate may create

VARIABLES
    step,        \* where the gate's script is
    failed,      \* `failures` is not empty
    dry,         \* --dry-run
    executors,   \* the executors the script knows of
    creating,    \* the local list of _create_executors
    ex,          \* per executor: none, running, stopping, closed, killed
    order        \* per executor, its order: none, flight, resting

gateVars == <<step, failed, dry, executors, creating>>
venueVars == <<ex, order>>

GateInit ==
    /\ failed = FALSE /\ dry \in BOOLEAN
    /\ executors = {} /\ creating = {}
    /\ ex = [i \in Ids |-> "none"] /\ order = [i \in Ids |-> "none"]

\* The script goes on with its step `s`.
GoTo(s) == step' = s

Fails == failed' = TRUE

\* A check that only adds to `failures` when it does not hold.
Checks(ok) == failed' = (failed \/ ~ok)

-----------------------------------------------------------------------------
(* An executor, and the venue.                                             *)

\* Its order, another child or a retry: one at a time.
Places(i) ==
    /\ ex[i] = "running" /\ order[i] = "none"
    /\ order' = [order EXCEPT ![i] = "flight"]
    /\ UNCHANGED <<gateVars, ex>>

\* The order rests, or is refused.
Acked(i) ==
    /\ order[i] = "flight"
    /\ \E to \in {"resting", "none"} : order' = [order EXCEPT ![i] = to]
    /\ UNCHANGED <<gateVars, ex>>

Cancels(i) ==
    /\ ex[i] \in {"running", "stopping"} /\ order[i] = "resting"
    /\ order' = [order EXCEPT ![i] = "none"]
    /\ UNCHANGED <<gateVars, ex>>

\* An executor ends by itself when it has no order.
Closes(i) ==
    /\ ex[i] \in {"running", "stopping"} /\ order[i] = "none"
    /\ ex' = [ex EXCEPT ![i] = "closed"]
    /\ UNCHANGED <<gateVars, order>>

ExecutorRuns(i) == Places(i) \/ Acked(i) \/ Cancels(i) \/ Closes(i)

-----------------------------------------------------------------------------
(* _create_executors, _stop_executors.                                     *)

\* One executor after the other is built and started.
CreateOne(i) ==
    /\ ex[i] = "none"
    /\ ex' = [ex EXCEPT ![i] = "running"]
    /\ creating' = creating \cup {i}

\* early_stop of the executors of S.
EarlyStop(S) ==
    ex' = [i \in Ids |-> IF i \in S /\ ex[i] = "running" THEN "stopping" ELSE ex[i]]

Forced(S) == {i \in S : ex[i] \notin {"closed", "killed"}}

\* After the wait: stop() of each, which leaves the order of an executor
\* that did not close itself where it is.
Stop(S) == ex' = [i \in Ids |-> IF i \in Forced(S) THEN "killed" ELSE ex[i]]

\* The script's exceptions end in its `finally`.  What _create_executors
\* had started by then is not in the script's list.
Raises(at, tried) ==
    /\ step \in tried
    /\ Fails
    /\ step' = at
    /\ creating' = {}
    /\ UNCHANGED <<dry, executors, venueVars>>
=============================================================================
