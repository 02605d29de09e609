-------------------------------- MODULE SoakRun --------------------------------
(***************************************************************************)
(* A bounded live soak of two accounts (deploy/run_dual_live_soak.sh): the *)
(* preflight check of each account, one Hummingbot process per account,    *)
(* the read-only risk monitor beside them, and the end of the run, which   *)
(* stops the processes and cleans up and checks one account after the      *)
(* other.  What the processes trade is nondeterministic; what the scripts  *)
(* do with it is not.                                                      *)
(***************************************************************************)
EXTENDS Integers

CONSTANTS
    NumAccounts,     \* how many accounts; they are cleaned up in order
    Duration,        \* --duration
    KillAfter,       \* timeout --kill-after (60 s)
    Interval,        \* --interval (10 s)
    MaxOutage,       \* --max-read-outage-s (45 s)
    MaxRetryDelay,   \* --max-read-retry-delay-s (20 s)
    CleanupTimeout,  \* --timeout of the cleanup (30 s)
    MaxRead,         \* bound on the time of one read: the client has no timeout
    MaxFaults        \* bound on failed reads and calls, crashes and breaches

ASSUME SoakAssumption ==
    /\ {NumAccounts, Duration, KillAfter, Interval, MaxOutage, MaxRetryDelay,
        CleanupTimeout} \subseteq Nat \ {0}
    /\ {MaxRead, MaxFaults} \subseteq Nat

VARIABLES
    phase,      \* of the launcher: preflight, running, stopping, cleanup, done
    status,     \* the exit status the launcher has collected
    clock,      \* time since the processes were started
    hb,         \* per account, its process: none, up, stopping, down, failed
    stopAge,    \* time since the processes were told to stop
    orders,     \* per account: has open orders in scope
    position,   \* per account: has positions in scope
    monitor,    \* the monitor: where it is, its errors, its sleep, its code
    blind,      \* time since the last sample of the accounts
    reads,      \* history: the time that the monitor's first failed read since
                \* that sample took, and the time this read has taken so far
    cleaning,   \* the cleanup: account, step, what is left of its time, failed
    faults

vars == <<phase, status, clock, hb, stopAge, orders, position, monitor, blind,
          reads, cleaning, faults>>

accountVars == <<orders, position>>
launcherVars == <<phase, status, cleaning>>
sightVars == <<blind, reads>>

A == 1 .. NumAccounts

Lower(a, b) == IF a < b THEN a ELSE b

NoMonitor == [at |-> "none", errors |-> 0, outage |-> -1, sleep |-> 0, code |-> 0]

Init ==
    /\ phase = "preflight" /\ status = 0 /\ clock = 0
    /\ hb = [a \in A |-> "none"] /\ stopAge = 0
    /\ orders \in [A -> BOOLEAN] /\ position \in [A -> BOOLEAN]
    /\ monitor = NoMonitor /\ blind = 0 /\ reads = [first |-> 0, this |-> 0]
    /\ cleaning = [account |-> 1, step |-> "orders", left |-> CleanupTimeout,
                   failed |-> FALSE]
    /\ faults = 0

Fault == faults < MaxFaults /\ faults' = faults + 1

Up(a) == hb[a] = "up"
Alive(a) == hb[a] \in {"up", "stopping"}
Gone(a) == hb[a] \in {"down", "failed"}

\* SIGINT to the launched processes; one that is gone is skipped.
SignalAll == [a \in A |-> IF Up(a) THEN "stopping" ELSE hb[a]]

-----------------------------------------------------------------------------
(* check_hl_account_state.py --require-clean.                              *)

Clean(a) == ~orders[a] /\ ~position[a]

\* The run starts only when every account is clean.
Preflight ==
    /\ phase = "preflight"
    /\ IF \A a \in A : Clean(a)
       THEN /\ phase' = "running"
            /\ hb' = [a \in A |-> "up"]
            /\ monitor' = [NoMonitor EXCEPT !.at = "sleeping"]
            /\ UNCHANGED status
       ELSE phase' = "done" /\ status' = 1 /\ UNCHANGED <<hb, monitor>>
    /\ UNCHANGED <<clock, stopAge, accountVars, sightVars, cleaning, faults>>

-----------------------------------------------------------------------------
(* The Hummingbot processes and the venue.                                 *)

\* A process that was told to stop may still have a request on its way.
Places(a) ==
    /\ Alive(a) /\ ~orders[a]
    /\ orders' = [orders EXCEPT ![a] = TRUE]
    /\ UNCHANGED <<launcherVars, clock, hb, stopAge, position, monitor, sightVars, faults>>

\* An order of the account fills, whether or not its process still runs.
VenueFills(a) ==
    /\ orders[a]
    /\ position' = [position EXCEPT ![a] = TRUE]
    /\ orders' \in {orders, [orders EXCEPT ![a] = FALSE]}
    /\ orders' # orders \/ position' # position
    /\ UNCHANGED <<launcherVars, clock, hb, stopAge, monitor, sightVars, faults>>

\* A process that stops tries to cancel its orders; then it exits.
Exits(a) ==
    /\ hb[a] = "stopping"
    /\ hb' = [hb EXCEPT ![a] = "down"]
    /\ \/ orders' = [orders EXCEPT ![a] = FALSE]
       \/ UNCHANGED orders
    /\ UNCHANGED <<launcherVars, clock, stopAge, position, monitor, sightVars, faults>>

Crashes(a) ==
    /\ Alive(a) /\ Fault
    /\ hb' = [hb EXCEPT ![a] = "failed"]
    /\ UNCHANGED <<launcherVars, clock, stopAge, accountVars, monitor, sightVars>>

\* Mutant of Killed: nobody kills a process that does not stop.
KilledNever(a) == FALSE

\* timeout --kill-after: the signal it passed on was not enough.
Killed(a) == hb[a] = "stopping" /\ stopAge >= KillAfter

Kill(a) ==
    /\ Killed(a)
    /\ hb' = [hb EXCEPT ![a] = "failed"]
    /\ UNCHANGED <<launcherVars, clock, stopAge, accountVars, monitor, sightVars, faults>>

-----------------------------------------------------------------------------
(* monitor_hl_soak.py.                                                     *)

\* _read_error_delay_s: interval * 2 ** (consecutive - 1), at most a maximum.
RetryDelay(consecutive) ==
    IF consecutive = 1 THEN Lower(Interval, MaxRetryDelay) ELSE
    IF consecutive = 2 THEN Lower(2 * Interval, MaxRetryDelay) ELSE MaxRetryDelay

MonitorExits(code) == monitor' = [monitor EXCEPT !.at = "exited", !.code = code]

\* A sample is within the limits: equity, margin, order age, drawdown, and
\* the decision logs before it.
Samples ==
    /\ monitor.at = "reading"
    /\ monitor' = [NoMonitor EXCEPT !.at = "sleeping", !.sleep = Interval]
    /\ blind' = 0 /\ reads' = [first |-> 0, this |-> 0]
    /\ UNCHANGED <<launcherVars, clock, hb, stopAge, accountVars, faults>>

\* A limit is breached, or a decision log is missing, empty or too old.
Breaches ==
    /\ monitor.at = "reading" /\ Fault
    /\ hb' = SignalAll
    /\ MonitorExits(1)
    /\ UNCHANGED <<launcherVars, clock, stopAge, accountVars, sightVars>>

\* Mutant of OutageAge: the outage counts from the last failed read.
OutageAgeRestarted == 0

\* error_at - first_read_error_at; the first error sets it.
OutageAge == IF monitor.outage = -1 THEN 0 ELSE monitor.outage

\* _read_outage_breached ends the run, an error before that only backs off.
ReadFails ==
    /\ monitor.at = "reading" /\ Fault
    /\ IF OutageAge >= MaxOutage
       THEN hb' = SignalAll /\ MonitorExits(1) /\ UNCHANGED reads
       ELSE /\ monitor' = [monitor EXCEPT
                             !.at = "sleeping", !.outage = OutageAge,
                             !.errors = Lower(@ + 1, 3),
                             !.sleep = RetryDelay(monitor.errors + 1)]
            /\ reads' = [first |-> IF monitor.outage = -1 THEN reads.this
                                   ELSE reads.first,
                         this |-> 0]
            /\ UNCHANGED hb
    /\ UNCHANGED <<launcherVars, clock, stopAge, accountVars, blind>>

\* The loop goes on while every process lives.  It also ends 90 s after the
\* end of the run and stops them, which the launcher has done long before.
MonitorWakes ==
    /\ monitor.at = "sleeping" /\ monitor.sleep = 0
    /\ IF \A a \in A : Alive(a)
       THEN monitor' = [monitor EXCEPT !.at = "reading"]
       ELSE MonitorExits(0)
    /\ UNCHANGED <<launcherVars, clock, hb, stopAge, accountVars, sightVars, faults>>

\* An error outside the guarded read (a full disk in its handler, a kill).
MonitorDies ==
    /\ monitor.at \in {"reading", "sleeping"} /\ Fault
    /\ MonitorExits(1)
    /\ UNCHANGED <<launcherVars, clock, hb, stopAge, accountVars, sightVars>>

-----------------------------------------------------------------------------
(* The launcher.                                                           *)

\* finish() begins: the processes are told to stop.
Finish(code) ==
    /\ phase' = "stopping" /\ status' = code
    /\ hb' = SignalAll
    /\ stopAge' = 0
    /\ UNCHANGED <<clock, accountVars, monitor, sightVars, cleaning>>

\* The loop: a dead monitor or process, a start that did not succeed (a
\* fault), the deadline; or a signal of the operator (a fault).
LauncherFails ==
    /\ phase = "running"
    /\ \/ (monitor.at = "exited" \/ \E a \in A : Gone(a)) /\ UNCHANGED faults
       \/ Fault
    /\ Finish(1)

DeadlineReached ==
    /\ phase = "running"
    /\ monitor.at # "exited" /\ ~\E a \in A : Gone(a)
    /\ clock >= Duration
    /\ Finish(0)
    /\ UNCHANGED faults

\* Mutant of Stopped: finish() does not wait for the processes.
StoppedAtOnce == TRUE

\* wait for every process, then for the monitor.
Stopped == monitor.at = "exited" /\ \A a \in A : Gone(a)

BeginCleanup ==
    /\ phase = "stopping" /\ Stopped
    /\ phase' = "cleanup"
    /\ status' = IF monitor.code = 0 /\ ~\E a \in A : hb[a] = "failed"
                 THEN status ELSE 1
    /\ UNCHANGED <<clock, hb, stopAge, accountVars, monitor, sightVars, cleaning, faults>>

-----------------------------------------------------------------------------
(* cleanup_hl_soak.py and the postflight check of one account.             *)

Cleaning(step) == phase = "cleanup" /\ cleaning.step = step

\* The next account, or the end of the run.
NextAccount(ok) ==
    /\ status' = IF ok THEN status ELSE 1
    /\ IF cleaning.account = NumAccounts
       THEN phase' = "done" /\ UNCHANGED cleaning
       ELSE /\ cleaning' = [account |-> cleaning.account + 1, step |-> "orders",
                            left |-> CleanupTimeout, failed |-> FALSE]
            /\ UNCHANGED phase

To(step, failed) ==
    cleaning' = [cleaning EXCEPT !.step = step, !.failed = @ \/ failed]

\* cancel_open_orders: one order after the other.  A call that raises is
\* reported and the cleanup goes on; a refusal in the response is not seen.
CancelOrders ==
    LET a == cleaning.account IN
    /\ Cleaning("orders")
    /\ \/ orders' = [orders EXCEPT ![a] = FALSE] /\ To("positions", FALSE)
          /\ UNCHANGED faults
       \/ /\ orders[a] /\ Fault /\ UNCHANGED orders
          /\ \E raised \in BOOLEAN : To("positions", raised)
    /\ UNCHANGED <<phase, status, clock, hb, stopAge, position, monitor, sightVars>>

\* close_positions, with reduce-only market orders, and the same calls.
ClosePositions ==
    LET a == cleaning.account IN
    /\ Cleaning("positions")
    /\ \/ position' = [position EXCEPT ![a] = FALSE] /\ To("snapshot", FALSE)
          /\ UNCHANGED faults
       \/ /\ position[a] /\ Fault /\ UNCHANGED position
          /\ \E raised \in BOOLEAN : To("snapshot", raised)
    /\ UNCHANGED <<phase, status, clock, hb, stopAge, orders, monitor, sightVars>>

\* snapshot_account: nothing in scope is left.
CleanupDone(a) == Clean(a)

\* A clean account ends the cleanup, another round follows while time is
\* left, and a failed call in any round makes the cleanup fail.
Snapshot ==
    /\ Cleaning("snapshot")
    /\ IF CleanupDone(cleaning.account) THEN To("postflight", FALSE)
       ELSE IF cleaning.left > 0 THEN To("pause", FALSE)
       ELSE To("postflight", TRUE)
    /\ UNCHANGED <<phase, status, clock, hb, stopAge, accountVars, monitor, sightVars, faults>>

\* A read that fails is not caught: the cleanup ends where it is.
CleanupAborts ==
    /\ phase = "cleanup" /\ cleaning.step \in {"orders", "positions", "snapshot"}
    /\ Fault
    /\ To("postflight", TRUE)
    /\ UNCHANGED <<phase, status, clock, hb, stopAge, accountVars, monitor, sightVars>>

\* check_hl_account_state.py --require-clean.
Postflight ==
    /\ Cleaning("postflight")
    /\ \/ NextAccount(~cleaning.failed /\ Clean(cleaning.account)) /\ UNCHANGED faults
       \/ Fault /\ NextAccount(FALSE)
    /\ UNCHANGED <<clock, hb, stopAge, accountVars, monitor, sightVars>>

-----------------------------------------------------------------------------

\* Time passes while the monitor waits for an answer of the venue, and when
\* no script has anything to do at once.  Each step of the cleanup is taken
\* to be short.
Tick ==
    /\ phase \in {"running", "stopping"} \/ Cleaning("pause")
    /\ monitor.at = "reading" => reads.this < MaxRead
    /\ monitor.at = "sleeping" => monitor.sleep > 0
    /\ phase = "running" =>
         /\ clock < Duration
         /\ monitor.at # "exited" /\ ~\E a \in A : Gone(a)
    /\ phase = "stopping" => ~Stopped
    /\ \A a \in A : ~Killed(a)
    /\ clock' = Lower(clock + 1, Duration)
    /\ stopAge' = IF \E a \in A : hb[a] = "stopping"
                  THEN Lower(stopAge + 1, KillAfter) ELSE stopAge
    /\ blind' = IF \E a \in A : Up(a) THEN blind + 1 ELSE blind
    /\ reads' = IF monitor.at = "reading" THEN [reads EXCEPT !.this = @ + 1]
                ELSE reads
    /\ monitor' = IF monitor.at \in {"reading", "sleeping"}
                  THEN [monitor EXCEPT
                          !.sleep = IF monitor.at = "sleeping" THEN @ - 1 ELSE @,
                          !.outage = IF @ = -1 THEN -1 ELSE @ + 1]
                  ELSE monitor
    /\ cleaning' = IF Cleaning("pause")
                   THEN [cleaning EXCEPT !.left = @ - 1, !.step = "orders"]
                   ELSE cleaning
    /\ UNCHANGED <<phase, status, hb, accountVars, faults>>

Monitoring == Samples \/ Breaches \/ ReadFails \/ MonitorWakes \/ MonitorDies

Launching == \/ Preflight \/ LauncherFails \/ DeadlineReached \/ BeginCleanup
             \/ CancelOrders \/ ClosePositions \/ Snapshot \/ CleanupAborts
             \/ Postflight

Trading(a) == Places(a) \/ VenueFills(a) \/ Exits(a) \/ Crashes(a) \/ Kill(a)

Next == Monitoring \/ Launching \/ Tick \/ \E a \in A : Trading(a)

\* The scripts run on (a read ends, with a sample or an error), time passes,
\* and a process that has to be killed is.
Spec ==
    /\ Init /\ [][Next]_vars
    /\ WF_vars(Launching) /\ WF_vars(Monitoring) /\ WF_vars(Tick)
    /\ \A a \in A : WF_vars(Kill(a))

-----------------------------------------------------------------------------
(* Properties.                                                             *)

\* The phases, and what each counts.
TypeOK ==
    /\ phase \in {"preflight", "running", "stopping", "cleanup", "done"}
    /\ status \in {0, 1} /\ clock \in 0 .. Duration /\ stopAge \in 0 .. KillAfter
    /\ cleaning.account \in A /\ cleaning.left \in 0 .. CleanupTimeout
    /\ phase \in {"cleanup", "done"} => \A a \in A : ~Alive(a)

\* A soak that reports success leaves both accounts flat, whatever was
\* filled, crashed, failed or breached on the way ("checks both accounts are
\* flat", README.md): nothing trades any more once an account is checked.
PassedMeansFlat == phase = "done" /\ status = 0 => \A a \in A : Clean(a)

\* The accounts are not traded without a sample of them for longer than the
\* outage limit, one delay and two reads, also when reads hang and fail again
\* and again (_read_outage_breached): the first read that fails, since the
\* outage counts from its end, and the read that now goes on.
NoLongBlindness ==
    (\E a \in A : Up(a)) =>
        blind <= Interval + MaxOutage + MaxRetryDelay + reads.first + reads.this

\* Every soak ends, however a process takes its signal.
SoakEnds == <>(phase = "done")
=============================================================================
