-------------------------- MODULE BudgetedExecution ---------------------------
(***************************************************************************)
(* What an executor promises to the controller that gave it a quantity:    *)
(* it works at most one order at a time, never sends one that could take   *)
(* the executed quantity past the total, sends none after it was told to   *)
(* stop, and is closed only with nothing open.  Only fills that the venue  *)
(* reports of ended orders can push it past the total.                     *)
(***************************************************************************)
EXTENDS Integers

CONSTANT Total  \* the quantity to execute

VARIABLES
    phase,  \* "working", "stopping" or "closed"
    done,   \* quantity executed
    open,   \* quantity the working order may still execute
    late    \* quantity executed by ended orders since the last submission

budgetVars == <<phase, done, open, late>>

BudgetInit ==
    /\ phase = "working"
    /\ done = 0
    /\ open = 0
    /\ late = 0

\* A new order; it may take the place of one that just ended.
SendOrder(quantity) ==
    /\ phase = "working"
    /\ done + quantity <= Total
    /\ open' = quantity
    /\ late' = 0
    /\ UNCHANGED <<phase, done>>

ExecuteOpen(quantity) ==
    /\ phase # "closed"
    /\ quantity <= open
    /\ done' = done + quantity
    /\ open' = open - quantity
    /\ UNCHANGED <<phase, late>>

\* The order ends, and its end may tell of more it executed.
EndOpen(quantity) ==
    /\ phase # "closed"
    /\ quantity <= open
    /\ done' = done + quantity
    /\ open' = 0
    /\ UNCHANGED <<phase, late>>

ExecuteEnded(quantity) ==
    /\ phase # "closed"
    /\ done' = done + quantity
    /\ late' = late + quantity
    /\ UNCHANGED <<phase, open>>

AskToStop ==
    /\ phase = "working"
    /\ phase' = "stopping"
    /\ UNCHANGED <<done, open, late>>

\* Closed with nothing open: the last order ended before, or ends with it.
CloseDown ==
    /\ phase # "closed"
    /\ phase' = "closed"
    /\ open' = 0
    /\ UNCHANGED <<done, late>>

BudgetNext ==
    \/ \E quantity \in 1..Total : SendOrder(quantity)
    \/ \E quantity \in 1..Total : ExecuteOpen(quantity)
    \/ \E quantity \in 0..Total : EndOpen(quantity)
    \/ \E quantity \in 1..Total : ExecuteEnded(quantity)
    \/ AskToStop
    \/ CloseDown

BudgetSpec == BudgetInit /\ [][BudgetNext]_budgetVars

\* Executed and open quantity pass the total only by late fills.
WithinBudget == done + open <= Total + late
===============================================================================
