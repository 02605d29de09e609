---------------------------- MODULE PortfolioStop ----------------------------
(***************************************************************************)
(* The quote stop that the processes of a basket share (PortfolioStopBook, *)
(* one SQLite table) and how a leg's control cycle uses it                 *)
(* (_portfolio_transform, _publish_portfolio_emergency).  Each leg runs in *)
(* a process of its own, which may crash and come back; the table stays.   *)
(* The quantity a "stop" leaves to a leg (usdc_flat_targets, a library) is *)
(* left out: only the basket's mode is followed.                           *)
(***************************************************************************)
EXTENDS Integers

CONSTANTS
    Members,    \* the legs of the basket
    Stale,      \* stale_s (20 s)
    Skew,       \* how far in the future a row's time may lie (1 s)
    LockWait,   \* longest wait for the database (timeout=5)
    Period,     \* longest time from one cycle's end to the next
    MaxFaults   \* bound on crashes, failed cycles, stops asked and slow updates

ASSUME BasketAssumption ==
    /\ Stale \in Nat \ {0} /\ Period \in Nat \ {0}
    /\ {Skew, LockWait, MaxFaults} \subseteq Nat /\ LockWait <= Period

VARIABLES
    alive,     \* whether the leg's process runs
    local,     \* what the leg's own risk policy asks for
    row,       \* the leg's row of the table: its mode, and the age of its ts
    waiting,   \* time since the leg took `now` for its update, -1 when none
    idle,      \* time since the leg's last cycle ended
    decision,  \* the basket mode of the leg's last cycle
    faults

vars == <<alive, local, row, waiting, idle, decision, faults>>

Modes == {"quote", "stop", "emergency"}

\* Ages saturate where no rule tells them apart any more.
Oldest == Stale + LockWait + Period + 1

NoRow == [mode |-> "missing", age |-> Oldest]

Init ==
    /\ alive = [m \in Members |-> TRUE]
    /\ local = [m \in Members |-> "quote"]
    /\ row = [m \in Members |-> NoRow]
    /\ waiting = [m \in Members |-> -1]
    /\ idle = [m \in Members |-> 0]
    /\ decision = [m \in Members |-> "none"]
    /\ faults = 0

-----------------------------------------------------------------------------
(* PortfolioStopBook.update.                                               *)

\* Mutant of Fresh: a row is fresh however old it is.
FreshAlways(r, ago) == r.mode # "missing"

\* now - stale_s <= ts <= now + 1, where `now` was read `ago` before.
Fresh(r, ago) ==
    /\ r.mode # "missing"
    /\ r.age - ago <= Stale
    /\ ago - r.age <= Skew

\* The basket's mode, given the table with the leg's own row in it.
BasketMode(rows, ago) ==
    LET fresh == {m \in Members : Fresh(rows[m], ago)}
        asks(mode) == \E m \in fresh : rows[m].mode = mode
    IN  IF asks("emergency") THEN "emergency"
        ELSE IF fresh # Members THEN "hold"
        ELSE IF asks("stop") THEN "stop"
        ELSE "quote"

\* Mutant of Published: the leg publishes the mode the basket is in.
PublishedEcho(m) ==
    IF BasketMode(row, 0) = "emergency" THEN "emergency" ELSE local[m]

\* The mode a leg writes: its own, whatever its peers ask for.
Published(m) == local[m]

-----------------------------------------------------------------------------
(* A leg's cycle.                                                          *)

\* update() reads the time, then waits for the database.
TakeNow(m) ==
    /\ alive[m] /\ waiting[m] = -1 /\ idle[m] > 0
    /\ waiting' = [waiting EXCEPT ![m] = 0]
    /\ UNCHANGED <<alive, local, row, idle, decision, faults>>

\* One transaction writes the leg's row and reads the table.
Update(m) ==
    /\ alive[m] /\ waiting[m] >= 0
    /\ row' = [row EXCEPT ![m] = [mode |-> Published(m), age |-> waiting[m]]]
    /\ decision' = [decision EXCEPT ![m] = BasketMode(row', waiting[m])]
    /\ waiting' = [waiting EXCEPT ![m] = -1]
    /\ idle' = [idle EXCEPT ![m] = 0]
    /\ UNCHANGED <<alive, local, faults>>

\* A cycle fails before or in its update (a late read, a locked database):
\* the leg flattens and publishes that, unless this fails too.
CycleFails(m) ==
    /\ alive[m] /\ idle[m] > 0 /\ faults < MaxFaults
    /\ faults' = faults + 1
    /\ \/ row' = [row EXCEPT ![m] = [mode |-> "emergency", age |-> 0]]
       \/ UNCHANGED row
    /\ decision' = [decision EXCEPT ![m] = "emergency"]
    /\ waiting' = [waiting EXCEPT ![m] = -1]
    /\ idle' = [idle EXCEPT ![m] = 0]
    /\ UNCHANGED <<alive, local>>

\* The risk policy, or the quote liveness circuit, changes its mind.
RiskDecides(m) ==
    /\ alive[m]
    /\ \E mode \in Modes \ {local[m]} :
          /\ local' = [local EXCEPT ![m] = mode]
          /\ \/ mode = "quote" /\ UNCHANGED faults
             \/ faults < MaxFaults /\ faults' = faults + 1
    /\ UNCHANGED <<alive, row, waiting, idle, decision>>

Crash(m) ==
    /\ alive[m] /\ faults < MaxFaults
    /\ faults' = faults + 1
    /\ alive' = [alive EXCEPT ![m] = FALSE]
    /\ waiting' = [waiting EXCEPT ![m] = -1]
    /\ UNCHANGED <<local, row, idle, decision>>

\* A new process finds the table as it was left.
Restart(m) ==
    /\ ~alive[m]
    /\ alive' = [alive EXCEPT ![m] = TRUE]
    /\ local' = [local EXCEPT ![m] = "quote"]
    /\ idle' = [idle EXCEPT ![m] = 0]
    /\ decision' = [decision EXCEPT ![m] = "none"]
    /\ UNCHANGED <<row, waiting, faults>>

\* A living leg ends a cycle within Period, its database wait included; a
\* transaction takes no time to speak of, so a wait is a fault.
Tick ==
    /\ \A m \in Members : alive[m] => idle[m] < Period /\ waiting[m] < LockWait
    /\ IF \E m \in Members : waiting[m] >= 0
       THEN faults < MaxFaults /\ faults' = faults + 1
       ELSE UNCHANGED faults
    /\ row' = [m \in Members |->
                 [row[m] EXCEPT !.age = IF @ < Oldest THEN @ + 1 ELSE @]]
    /\ waiting' = [m \in Members |->
                     IF waiting[m] >= 0 THEN waiting[m] + 1 ELSE -1]
    /\ idle' = [m \in Members |-> IF idle[m] < Period THEN idle[m] + 1 ELSE idle[m]]
    /\ UNCHANGED <<alive, local, decision>>

Next ==
    \/ \E m \in Members :
          \/ TakeNow(m) \/ Update(m) \/ CycleFails(m)
          \/ RiskDecides(m) \/ Crash(m) \/ Restart(m)
    \/ Tick

\* The controllers keep cycling, a crashed process is started again, and
\* whatever made a leg ask for a stop passes.
Calms(m) == RiskDecides(m) /\ local'[m] = "quote"

Spec ==
    /\ Init /\ [][Next]_vars
    /\ WF_vars(Tick)
    /\ \A m \in Members :
          /\ WF_vars(TakeNow(m)) /\ WF_vars(Update(m))
          /\ WF_vars(Restart(m)) /\ WF_vars(Calms(m))

-----------------------------------------------------------------------------
(* Properties.                                                             *)

\* The rows' ages, and when a leg waits for the database.
TypeOK ==
    /\ \A m \in Members : row[m].age \in 0 .. Oldest
    /\ \A m \in Members : row[m].mode \in Modes \cup {"missing"}
    /\ \A m \in Members : waiting[m] \in -1 .. LockWait /\ idle[m] \in 0 .. Period
    /\ \A m \in Members : waiting[m] >= 0 => alive[m]

\* "Missing/stale peers cancel quotes": a leg still quotes only for so long
\* after a peer was last heard of, and for less than that once a peer has
\* published an emergency, whatever crashes, restarts, cycles that fail and
\* database waits come in between (portfolio_stop.py).
QuotesKnowTheBasket ==
    \A m, n \in Members :
        alive[m] /\ decision[m] = "quote" =>
            /\ row[n].age <= Stale + LockWait + Period
            /\ row[n].mode = "emergency" => row[n].age <= LockWait + Period

\* Legs do not keep each other stopped: when the faults are over and no leg
\* asks for a stop, all legs quote again and again (the mode a leg publishes is its
\* own, not the basket's).
BasketRecovers == []<>(\A m \in Members : decision[m] = "quote")
=============================================================================
