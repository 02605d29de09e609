---------------------------- MODULE SoakRunProofs ----------------------------
(***************************************************************************)
(* A soak that reports success leaves every account flat, and no account   *)
(* is traded unseen for longer than the limits of the monitor and two of   *)
(* its reads allow: for every number of accounts, every duration, reads of *)
(* any length and every number of faults.                                  *)
(***************************************************************************)
EXTENDS SoakRun, TLAPS

Steps == {"orders", "positions", "snapshot", "pause", "postflight"}

Types ==
    /\ phase \in {"preflight", "running", "stopping", "cleanup", "done"}
    /\ hb \in [A -> {"none", "up", "stopping", "down", "failed"}]
    /\ orders \in [A -> BOOLEAN] /\ position \in [A -> BOOLEAN]
    /\ cleaning \in [account : A, step : Steps, left : Int, failed : BOOLEAN]

\* Nothing trades once the cleanup has begun.
AllStopped ==
    /\ phase = "preflight" => \A a \in A : hb[a] = "none"
    /\ phase \in {"cleanup", "done"} => \A a \in A : ~Alive(a)

\* The accounts the script is done with were found clean, or it has failed.
CleanSoFar ==
    /\ phase \in {"preflight", "running", "stopping"} => cleaning.account = 1
    /\ phase = "cleanup" /\ status = 0 =>
          \A a \in A : a < cleaning.account => Clean(a)
    /\ phase = "done" /\ status = 0 => \A a \in A : Clean(a)

IInv == Types /\ AllStopped /\ CleanSoFar

\* The invariant holds at the start.
LEMMA InitInv == Init => IInv
<1> SUFFICES ASSUME Init PROVE IInv
    OBVIOUS
<1>1. 1 \in A /\ CleanupTimeout \in Int
  BY SoakAssumption DEF A
<1>2. cleaning \in [account : A, step : Steps, left : Int, failed : BOOLEAN]
  BY <1>1 DEF Init, Steps
<1>3. hb \in [A -> {"none", "up", "stopping", "down", "failed"}]
  BY DEF Init
<1>4. orders \in [A -> BOOLEAN] /\ position \in [A -> BOOLEAN]
  BY DEF Init
<1>5. phase = "preflight" /\ cleaning.account = 1 /\ \A a \in A : hb[a] = "none"
  BY DEF Init
<1> QED
  BY <1>2, <1>3, <1>4, <1>5 DEF IInv, Types, AllStopped, CleanSoFar

\* What the processes and the venue do.
LEMMA TradingInv == ASSUME IInv, NEW a \in A, Trading(a) PROVE IInv'
<1>1. UNCHANGED <<phase, status, cleaning>>
  BY DEF Trading, Places, VenueFills, Exits, Crashes, Kill, launcherVars
<1>2. /\ hb' \in [A -> {"none", "up", "stopping", "down", "failed"}]
      /\ orders' \in [A -> BOOLEAN] /\ position' \in [A -> BOOLEAN]
  BY DEF IInv, Types, Trading, Places, VenueFills, Exits, Crashes, Kill, accountVars
<1>3. \A b \in A : hb'[b] = hb[b] \/ (Alive(b) /\ ~Alive(b)')
  BY DEF IInv, Types, Trading, Places, VenueFills, Exits, Crashes, Kill, Killed, Alive,
         accountVars
<1>4. ASSUME NEW b \in A, Clean(b), ~Alive(b) PROVE Clean(b)'
  BY <1>4 DEF IInv, Types, Trading, Places, VenueFills, Exits, Crashes, Kill, Killed,
              Clean, Alive, accountVars
<1>5. AllStopped'
  BY <1>1, <1>3 DEF IInv, AllStopped, Alive
<1>6. CleanSoFar'
  BY <1>1, <1>4 DEF IInv, AllStopped, CleanSoFar
<1> QED
  BY <1>1, <1>2, <1>5, <1>6 DEF IInv, Types

\* A signal reaches only what is up.
LEMMA SignalStops ==
    Types => /\ SignalAll \in [A -> {"none", "up", "stopping", "down", "failed"}]
             /\ \A a \in A : SignalAll[a] # hb[a] => hb[a] = "up"
BY DEF Types, SignalAll, Up

\* What the monitor does: it reads, and it signals the processes.
LEMMA MonitoringInv == IInv /\ (Monitoring \/ Tick) => IInv'
<1> SUFFICES ASSUME IInv, Monitoring \/ Tick PROVE IInv'
    OBVIOUS
<1>1. /\ UNCHANGED <<phase, status, orders, position>>
      /\ hb' \in {hb, SignalAll}
      /\ cleaning' = cleaning \/ cleaning' = [cleaning EXCEPT !.left = @ - 1, !.step = "orders"]
  <2>1. CASE Tick
    BY <2>1 DEF Tick, accountVars
  <2>2. CASE Monitoring
    <3>1. UNCHANGED <<launcherVars, accountVars>> /\ hb' \in {hb, SignalAll}
      <4>1. CASE Samples \/ MonitorWakes \/ MonitorDies
        BY <4>1 DEF Samples, MonitorWakes, MonitorDies
      <4>2. CASE Breaches
        BY <4>2 DEF Breaches
      <4>3. CASE ReadFails
        BY <4>3 DEF ReadFails
      <4> QED
        BY <2>2, <4>1, <4>2, <4>3 DEF Monitoring
    <3> QED
      BY <3>1 DEF launcherVars, accountVars
  <2> QED
    BY <2>1, <2>2
<1>2. /\ hb' \in [A -> {"none", "up", "stopping", "down", "failed"}]
      /\ \A a \in A : hb'[a] # hb[a] => hb[a] = "up"
  BY <1>1, SignalStops DEF IInv, Types
<1>3. /\ cleaning' \in [account : A, step : Steps, left : Int, failed : BOOLEAN]
      /\ cleaning'.account = cleaning.account
  <2>1. cleaning \in [account : A, step : Steps, left : Int, failed : BOOLEAN]
    BY DEF IInv, Types
  <2>2. cleaning.left - 1 \in Int /\ "orders" \in Steps
    BY <2>1 DEF Steps
  <2>3. CASE cleaning' = [cleaning EXCEPT !.left = @ - 1, !.step = "orders"]
    BY <2>1, <2>2, <2>3
  <2> QED
    BY <1>1, <2>1, <2>3
<1>4. AllStopped'
  BY <1>1, <1>2 DEF IInv, AllStopped, Alive
<1>5. CleanSoFar'
  BY <1>1, <1>3 DEF IInv, CleanSoFar, Clean
<1> QED
  BY <1>1, <1>2, <1>3, <1>4, <1>5 DEF IInv, Types

\* The launcher, up to the cleanup.
LEMMA LaunchInv ==
    IInv /\ (Preflight \/ LauncherFails \/ DeadlineReached \/ BeginCleanup) => IInv'
<1> SUFFICES ASSUME IInv, Preflight \/ LauncherFails \/ DeadlineReached \/ BeginCleanup
             PROVE  IInv'
    OBVIOUS
<1>1. CASE Preflight
  <2>1. /\ phase = "preflight" /\ UNCHANGED <<orders, position, cleaning>>
        /\ \/ phase' = "running" /\ hb' = [a \in A |-> "up"]
           \/ phase' = "done" /\ status' = 1 /\ UNCHANGED hb
    BY <1>1 DEF Preflight, accountVars
  <2> QED
    BY <2>1 DEF IInv, Types, AllStopped, CleanSoFar, Alive
<1>2. CASE LauncherFails \/ DeadlineReached
  <2>1. /\ phase = "running" /\ phase' = "stopping" /\ hb' = SignalAll
        /\ UNCHANGED <<orders, position, cleaning>>
    BY <1>2 DEF LauncherFails, DeadlineReached, Finish, accountVars
  <2> QED
    BY <2>1, SignalStops DEF IInv, Types, AllStopped, CleanSoFar
<1>3. CASE BeginCleanup
  <2>1. /\ phase = "stopping" /\ phase' = "cleanup" /\ \A a \in A : Gone(a)
        /\ UNCHANGED <<hb, orders, position, cleaning>>
    BY <1>3 DEF BeginCleanup, Stopped, accountVars
  <2>2. cleaning.account = 1 /\ \A a \in A : ~(a < 1)
    BY <2>1, SoakAssumption DEF IInv, CleanSoFar, A
  <2> QED
    BY <2>1, <2>2 DEF IInv, Types, AllStopped, CleanSoFar, Alive, Gone
<1> QED
  BY <1>1, <1>2, <1>3

\* The steps of one account's cleanup make no account less clean.
LEMMA CleanupInv ==
    IInv /\ (CancelOrders \/ ClosePositions \/ Snapshot \/ CleanupAborts) => IInv'
<1> SUFFICES ASSUME IInv, CancelOrders \/ ClosePositions \/ Snapshot \/ CleanupAborts
             PROVE  IInv'
    OBVIOUS
<1>1. phase = "cleanup" /\ UNCHANGED <<phase, status, hb>>
  BY DEF CancelOrders, ClosePositions, Snapshot, CleanupAborts, Cleaning
<1>2. /\ orders' \in [A -> BOOLEAN] /\ position' \in [A -> BOOLEAN]
      /\ \A a \in A : orders'[a] => orders[a]
      /\ \A a \in A : position'[a] => position[a]
  <2>1. orders \in [A -> BOOLEAN] /\ position \in [A -> BOOLEAN]
    BY DEF IInv, Types
  <2>2. CASE CancelOrders
    BY <2>1, <2>2 DEF CancelOrders
  <2>3. CASE ClosePositions
    BY <2>1, <2>3 DEF ClosePositions
  <2>4. CASE Snapshot \/ CleanupAborts
    BY <2>1, <2>4 DEF Snapshot, CleanupAborts, accountVars
  <2> QED
    BY <2>2, <2>3, <2>4
<1>3. \E s \in {"positions", "snapshot", "postflight", "pause"}, f \in BOOLEAN : To(s, f)
  <2>1. CASE CancelOrders
    BY <2>1 DEF CancelOrders
  <2>2. CASE ClosePositions
    BY <2>2 DEF ClosePositions
  <2>3. CASE Snapshot
    BY <2>3 DEF Snapshot
  <2>4. CASE CleanupAborts
    BY <2>4 DEF CleanupAborts
  <2> QED
    BY <2>1, <2>2, <2>3, <2>4
<1>4. /\ cleaning' \in [account : A, step : Steps, left : Int, failed : BOOLEAN]
      /\ cleaning'.account = cleaning.account
  BY <1>3 DEF To, IInv, Types, Steps
<1>5. CleanSoFar'
  BY <1>1, <1>2, <1>4 DEF IInv, CleanSoFar, Clean
<1> QED
  BY <1>1, <1>2, <1>4, <1>5 DEF IInv, Types, AllStopped, Alive

\* The script goes to the next account only with this one clean, or failed.
LEMMA PostflightInv == IInv /\ Postflight => IInv'
<1> SUFFICES ASSUME IInv, Postflight PROVE IInv'
    OBVIOUS
<1>1. PICK ok \in BOOLEAN : NextAccount(ok) /\ (ok => Clean(cleaning.account))
  <2>1. CASE NextAccount(FALSE)
    BY <2>1
  <2>2. CASE NextAccount(~cleaning.failed /\ Clean(cleaning.account))
    <3> DEFINE passed == ~cleaning.failed /\ Clean(cleaning.account)
    <3>1. passed \in BOOLEAN /\ (passed => Clean(cleaning.account))
      OBVIOUS
    <3>2. NextAccount(passed)
      BY <2>2
    <3> HIDE DEF passed
    <3> QED
      BY <3>1, <3>2
  <2> QED
    BY <2>1, <2>2 DEF Postflight
<1>2. phase = "cleanup" /\ UNCHANGED <<hb, orders, position>>
  BY DEF Postflight, Cleaning, accountVars
<1>3. status' = 0 => status = 0 /\ Clean(cleaning.account)
  BY <1>1 DEF NextAccount
<1>4. cleaning.account \in A
  BY DEF IInv, Types
<1>5. status' = 0 => \A a \in A : a < cleaning.account + 1 => Clean(a)
  BY <1>2, <1>3, <1>4 DEF IInv, CleanSoFar, A
<1>6. CASE cleaning.account = NumAccounts
  <2>1. phase' = "done" /\ cleaning' = cleaning
    BY <1>1, <1>6 DEF NextAccount
  <2>2. status' = 0 => \A a \in A : Clean(a)
    BY <1>5, <1>6, SoakAssumption DEF A
  <2> QED
    BY <1>2, <2>1, <2>2 DEF IInv, Types, AllStopped, CleanSoFar, Alive, Clean
<1>7. CASE cleaning.account # NumAccounts
  <2>1. /\ phase' = phase
        /\ cleaning' = [account |-> cleaning.account + 1, step |-> "orders",
                        left |-> CleanupTimeout, failed |-> FALSE]
    BY <1>1, <1>7 DEF NextAccount
  <2>2. cleaning.account + 1 \in A /\ CleanupTimeout \in Int
    BY <1>4, <1>7, SoakAssumption DEF A
  <2>3. Types'
    BY <1>2, <2>1, <2>2 DEF IInv, Types, Steps
  <2>4. AllStopped'
    BY <1>2, <2>1 DEF IInv, AllStopped, Alive
  <2>5. CleanSoFar'
    BY <1>2, <1>5, <2>1 DEF CleanSoFar, Clean
  <2> QED
    BY <2>3, <2>4, <2>5 DEF IInv
<1> QED
  BY <1>6, <1>7

\* One case per part of the run.
LEMMA NextInv == IInv /\ [Next]_vars => IInv'
<1> SUFFICES ASSUME IInv, [Next]_vars PROVE IInv'
    OBVIOUS
<1>1. CASE Monitoring \/ Tick
  BY <1>1, MonitoringInv
<1>2. CASE Launching
  BY <1>2, LaunchInv, CleanupInv, PostflightInv DEF Launching
<1>3. ASSUME NEW a \in A, Trading(a) PROVE IInv'
  BY <1>3, TradingInv
<1>4. CASE UNCHANGED vars
  BY <1>4 DEF vars, IInv, Types, AllStopped, CleanSoFar, Alive, Clean
<1> QED
  BY <1>1, <1>2, <1>3, <1>4 DEF Next

\* A soak that reports success leaves every account flat (finish() of the
\* launcher, and the postflight check of each account).
THEOREM SuccessIsFlat == Spec => []PassedMeansFlat
<1>1. IInv => PassedMeansFlat
  BY DEF IInv, CleanSoFar, PassedMeansFlat
<1> QED
  BY <1>1, InitInv, NextInv, PTL DEF Spec

-----------------------------------------------------------------------------
(* The monitor: how long the accounts are traded without a sample.         *)

MonitorOK ==
    /\ monitor.at \in {"none", "reading", "sleeping", "exited"}
    /\ monitor.errors \in Nat /\ monitor.sleep \in Nat
    /\ monitor.outage \in Nat \cup {-1}
    /\ monitor = [at |-> monitor.at, errors |-> monitor.errors,
                  outage |-> monitor.outage, sleep |-> monitor.sleep,
                  code |-> monitor.code]

\* A process is up only while the launcher runs its loop, with a monitor.
Watched ==
    /\ phase # "running" => \A a \in A : ~Up(a)
    /\ phase = "running" => monitor.at # "none"
    /\ phase = "preflight" => monitor = NoMonitor

\* Before an outage the next read begins at most an interval after the last
\* sample.  From the end of its first failed read on, an outage grows as
\* `blind` does, and it is allowed one more delay, and the read after it,
\* only while it is below its limit.
SightBounded ==
    /\ blind \in Nat /\ reads \in [first : Nat, this : Nat]
    /\ monitor.outage = -1 =>
          blind + monitor.sleep <= Interval + reads.this
    /\ monitor.outage # -1 =>
          /\ blind <= Interval + reads.first + monitor.outage
          /\ monitor.outage + monitor.sleep < MaxOutage + MaxRetryDelay + reads.this

Sight == MonitorOK /\ Watched /\ SightBounded

\* Nobody is started: who is up was up, and the launcher was in its loop.
NobodyStarts ==
    /\ \A a \in A : Up(a)' => Up(a)
    /\ phase' = "running" => phase = "running"
    /\ phase = "running" /\ phase' # "running" => \A a \in A : ~Up(a)'
    /\ phase' = "preflight" => phase = "preflight" /\ monitor' = monitor

\* A step that starts nobody keeps the processes watched.
LEMMA StaysWatched ==
    ASSUME Watched, NobodyStarts, monitor'.at = "none" => monitor.at = "none"
    PROVE  Watched'
BY DEF Watched, NobodyStarts

\* A delay after a failed read is at most the maximum.
LEMMA DelayBounded ==
    ASSUME NEW n \in Nat
    PROVE  RetryDelay(n) \in Nat /\ RetryDelay(n) <= MaxRetryDelay
BY SoakAssumption DEF RetryDelay, Lower

\* The invariant holds at the start.
LEMMA InitSight == Init => Sight
BY SoakAssumption DEF Init, Sight, MonitorOK, Watched, SightBounded, NoMonitor, Up

\* The signal leaves nobody up.
LEMMA SignalSilences == ASSUME IInv, hb' = SignalAll PROVE \A a \in A : ~Up(a)'
BY DEF IInv, Types, SignalAll, Up

\* The processes and the venue start nobody and do not touch the monitor.
LEMMA TradingSight == ASSUME IInv, Sight, NEW a \in A, Trading(a) PROVE Sight'
<1>1. UNCHANGED <<phase, monitor, sightVars>>
  BY DEF Trading, Places, VenueFills, Exits, Crashes, Kill, launcherVars
<1>2. NobodyStarts
  <2>1. \A b \in A : Up(b)' => Up(b)
    BY DEF IInv, Types, Trading, Places, VenueFills, Exits, Crashes, Kill, Up, accountVars
  <2> QED
    BY <1>1, <2>1 DEF NobodyStarts
<1>3. Watched'
  BY <1>1, <1>2, StaysWatched DEF Sight
<1> QED
  BY <1>1, <1>3 DEF Sight, MonitorOK, SightBounded, sightVars

\* The monitor: a sample ends an outage, a failed read begins or extends it.
LEMMA MonitoringSight == IInv /\ Sight /\ Monitoring => Sight'
<1> SUFFICES ASSUME IInv, Sight, Monitoring PROVE Sight'
    OBVIOUS
<1>1. phase' = phase /\ hb' \in {hb, SignalAll}
  BY DEF Monitoring, Samples, Breaches, ReadFails, MonitorWakes,
         MonitorDies, launcherVars
<1>2. NobodyStarts
  <2>1. phase # "preflight"
    BY DEF Sight, Watched, Monitoring, Samples, Breaches, ReadFails,
           MonitorWakes, MonitorDies, NoMonitor
  <2>2. \A a \in A : Up(a)' => Up(a)
    BY <1>1, SignalSilences DEF Up
  <2> QED
    BY <1>1, <2>1, <2>2 DEF NobodyStarts
<1>3. MonitorOK
  BY DEF Sight
<1>4. ASSUME NEW code, MonitorExits(code), UNCHANGED sightVars PROVE Sight'
  <2>1. /\ monitor'.at = "exited" /\ monitor'.outage = monitor.outage
        /\ monitor'.sleep = monitor.sleep /\ MonitorOK'
    BY <1>3, <1>4 DEF MonitorOK, MonitorExits
  <2>2. Watched'
    BY <1>2, <2>1, StaysWatched DEF Sight
  <2> QED
    BY <1>4, <2>1, <2>2 DEF Sight, SightBounded, sightVars
<1>5. CASE Breaches \/ MonitorDies
  BY <1>4, <1>5 DEF Breaches, MonitorDies
<1>6. CASE Samples
  <2>1. /\ monitor' = [at |-> "sleeping", errors |-> 0, outage |-> -1,
                       sleep |-> Interval, code |-> 0]
        /\ blind' = 0 /\ reads' = [first |-> 0, this |-> 0]
    BY <1>6 DEF Samples, NoMonitor
  <2>2. Watched'
    BY <1>2, <2>1, StaysWatched DEF Sight
  <2>3. MonitorOK' /\ SightBounded'
    BY <2>1, SoakAssumption DEF MonitorOK, SightBounded
  <2> QED
    BY <2>2, <2>3 DEF Sight
<1>7. CASE ReadFails
  <2>1. blind' = blind
    BY <1>7 DEF ReadFails
  <2>2. CASE OutageAge >= MaxOutage
    BY <1>4, <1>7, <2>1, <2>2 DEF ReadFails, sightVars
  <2>3. CASE ~(OutageAge >= MaxOutage)
    <3> DEFINE delay == RetryDelay(monitor.errors + 1)
               errors == Lower(monitor.errors + 1, 3)
               first == IF monitor.outage = -1 THEN reads.this ELSE reads.first
    <3>1. /\ monitor' = [monitor EXCEPT !.at = "sleeping", !.outage = OutageAge,
                                        !.errors = errors, !.sleep = delay]
          /\ reads' = [first |-> first, this |-> 0]
      BY <1>7, <2>3 DEF ReadFails
    <3>2. /\ OutageAge \in Nat /\ OutageAge < MaxOutage
          /\ first \in Nat /\ blind <= Interval + first + OutageAge
      <4>1. /\ blind \in Nat /\ reads.first \in Nat /\ reads.this \in Nat
            /\ monitor.sleep \in Nat /\ monitor.outage \in Nat \cup {-1}
            /\ Interval \in Nat /\ MaxOutage \in Nat
        BY <1>3, SoakAssumption DEF MonitorOK, Sight, SightBounded
      <4>2. CASE monitor.outage = -1
        <5>1. OutageAge = 0 /\ first = reads.this
          BY <4>2 DEF OutageAge
        <5> HIDE DEF first
        <5> QED
          BY <2>3, <4>1, <4>2, <5>1 DEF Sight, SightBounded
      <4>3. CASE monitor.outage # -1
        <5>1. OutageAge = monitor.outage /\ first = reads.first
          BY <4>3 DEF OutageAge
        <5> HIDE DEF first
        <5> QED
          BY <2>3, <4>1, <4>3, <5>1 DEF Sight, SightBounded
      <4> QED
        BY <4>2, <4>3
    <3>3. delay \in Nat /\ delay <= MaxRetryDelay
      BY <1>3, DelayBounded DEF MonitorOK
    <3>4. errors \in Nat
      BY <1>3 DEF MonitorOK, Lower
    <3> HIDE DEF delay, errors, first
    <3>5. /\ monitor'.at = "sleeping" /\ monitor'.outage = OutageAge
          /\ monitor'.sleep = delay /\ MonitorOK'
      BY <1>3, <3>1, <3>2, <3>3, <3>4 DEF MonitorOK
    <3>6. SightBounded'
      <4>1. OutageAge + delay < MaxOutage + MaxRetryDelay + 0
        BY <3>2, <3>3, SoakAssumption
      <4>2. reads' \in [first : Nat, this : Nat] /\ reads'.first = first /\ reads'.this = 0
        BY <3>1, <3>2
      <4> QED
        BY <2>1, <3>2, <3>5, <4>1, <4>2 DEF Sight, SightBounded
    <3>7. Watched'
      BY <1>2, <3>5, StaysWatched DEF Sight
    <3> QED
      BY <3>5, <3>6, <3>7 DEF Sight
  <2> QED
    BY <2>2, <2>3
<1>8. CASE MonitorWakes
  <2>1. UNCHANGED sightVars
    BY <1>8 DEF MonitorWakes
  <2>2. CASE MonitorExits(0)
    BY <1>4, <2>1, <2>2
  <2>3. CASE monitor' = [monitor EXCEPT !.at = "reading"]
    <3>1. /\ monitor'.at = "reading" /\ monitor'.outage = monitor.outage
          /\ monitor'.sleep = monitor.sleep /\ MonitorOK'
      BY <1>3, <2>3 DEF MonitorOK
    <3>2. Watched'
      BY <1>2, <3>1, StaysWatched DEF Sight
    <3> QED
      BY <2>1, <3>1, <3>2 DEF Sight, SightBounded, sightVars
  <2> QED
    BY <1>8, <2>2, <2>3 DEF MonitorWakes
<1> QED
  BY <1>5, <1>6, <1>7, <1>8 DEF Monitoring

\* The launcher starts the processes together with the monitor, and signals
\* them when it leaves its loop.
LEMMA LaunchingSight == IInv /\ Sight /\ Launching => Sight'
<1> SUFFICES ASSUME IInv, Sight, Launching PROVE Sight'
    OBVIOUS
<1>1. CASE Preflight
  <2>1. /\ phase = "preflight" /\ UNCHANGED <<blind, reads>>
        /\ \A a \in A : hb[a] = "none"
    BY <1>1 DEF Preflight, IInv, AllStopped, sightVars
  <2>2. CASE phase' = "running" /\ monitor' = [NoMonitor EXCEPT !.at = "sleeping"]
    <3>1. monitor = NoMonitor
      BY <2>1 DEF Sight, Watched
    <3> QED
      BY <2>1, <2>2, <3>1 DEF Sight, MonitorOK, Watched, SightBounded, NoMonitor
  <2>3. CASE phase' = "done" /\ UNCHANGED <<hb, monitor>>
    BY <2>1, <2>3 DEF Sight, MonitorOK, Watched, SightBounded, Up
  <2> QED
    BY <1>1, <2>2, <2>3 DEF Preflight
<1>2. CASE LauncherFails \/ DeadlineReached
  <2>1. phase' = "stopping" /\ hb' = SignalAll /\ UNCHANGED <<monitor, sightVars>>
    BY <1>2 DEF LauncherFails, DeadlineReached, Finish
  <2>2. \A a \in A : ~Up(a)'
    BY <2>1, SignalSilences
  <2> QED
    BY <2>1, <2>2 DEF Sight, MonitorOK, Watched, SightBounded, sightVars
<1>3. CASE \/ BeginCleanup \/ CancelOrders \/ ClosePositions \/ Snapshot
          \/ CleanupAborts \/ Postflight
  <2>1. /\ phase \in {"stopping", "cleanup"} /\ phase' \in {"cleanup", "done"}
        /\ UNCHANGED <<hb, monitor, sightVars>>
    BY <1>3 DEF BeginCleanup, CancelOrders, ClosePositions, Snapshot, CleanupAborts,
                Postflight, Cleaning, NextAccount
  <2> QED
    BY <2>1 DEF Sight, MonitorOK, Watched, SightBounded, sightVars, Up
<1> QED
  BY <1>1, <1>2, <1>3 DEF Launching

\* Time: a sleeping monitor has less left to sleep, a read takes longer, and
\* an outage gets older.
LEMMA TickSight == IInv /\ Sight /\ Tick => Sight'
<1> SUFFICES ASSUME IInv, Sight, Tick PROVE Sight'
    OBVIOUS
<1>1. UNCHANGED <<phase, hb>>
  BY DEF Tick
<1>2. NobodyStarts
  BY <1>1 DEF NobodyStarts, Tick, Cleaning, Up
<1>3. MonitorOK /\ Watched /\ SightBounded
  BY DEF Sight
<1>4. CASE monitor.at \in {"reading", "sleeping"}
  <2> DEFINE age == IF monitor.outage = -1 THEN -1 ELSE monitor.outage + 1
             left == IF monitor.at = "sleeping" THEN monitor.sleep - 1 ELSE monitor.sleep
             this == IF monitor.at = "reading" THEN reads.this + 1 ELSE reads.this
  <2>1. monitor' = [monitor EXCEPT !.sleep = left, !.outage = age]
    BY <1>4 DEF Tick
  <2>2. /\ left \in Nat /\ this \in Nat
        /\ left + 1 + reads.this <= monitor.sleep + this
    BY <1>3, <1>4 DEF MonitorOK, SightBounded, Tick
  <2>3. /\ age \in Nat \cup {-1}
        /\ monitor.outage = -1 => age = -1
        /\ monitor.outage # -1 => age = monitor.outage + 1
    BY <1>3 DEF MonitorOK
  <2>4. reads' \in [first : Nat, this : Nat] /\ reads'.first = reads.first
        /\ reads'.this = this
    BY <1>3, <1>4 DEF SightBounded, Tick
  <2> HIDE DEF age, left, this
  <2>5. /\ monitor'.at = monitor.at /\ monitor'.sleep = left
        /\ monitor'.outage = age /\ MonitorOK'
    BY <1>3, <1>4, <2>1, <2>2, <2>3 DEF MonitorOK
  <2>6. blind' \in {blind, blind + 1}
    BY DEF Tick
  <2>7. SightBounded'
    <3>1. /\ blind \in Nat /\ reads.first \in Nat /\ reads.this \in Nat
          /\ monitor.sleep \in Nat /\ monitor.outage \in Nat \cup {-1}
          /\ Interval \in Nat /\ MaxOutage \in Nat /\ MaxRetryDelay \in Nat
      BY <1>3, SoakAssumption DEF MonitorOK, SightBounded
    <3>2. CASE monitor.outage = -1
      BY <1>3, <2>2, <2>3, <2>4, <2>5, <2>6, <3>1, <3>2 DEF SightBounded
    <3>3. CASE monitor.outage # -1
      <4>1. age = monitor.outage + 1 /\ age # -1
        BY <2>3, <3>1, <3>3
      <4>2. blind' <= Interval + reads'.first + monitor'.outage
        BY <1>3, <2>4, <2>5, <2>6, <3>1, <3>3, <4>1 DEF SightBounded
      <4>3. monitor'.outage + monitor'.sleep < MaxOutage + MaxRetryDelay + reads'.this
        BY <1>3, <2>2, <2>4, <2>5, <3>1, <3>3, <4>1 DEF SightBounded
      <4> QED
        BY <2>4, <2>5, <2>6, <3>1, <4>1, <4>2, <4>3 DEF SightBounded
    <3> QED
      BY <3>2, <3>3
  <2>8. Watched'
    BY <1>2, <1>3, <1>4, <2>5, StaysWatched
  <2> QED
    BY <2>5, <2>7, <2>8 DEF Sight
<1>5. CASE monitor.at \notin {"reading", "sleeping"}
  <2>1. monitor' = monitor /\ reads' = reads
    BY <1>5 DEF Tick
  <2>2. \A a \in A : ~Up(a)
    <3>1. phase = "running" => monitor.at # "exited"
      BY DEF Tick
    <3> QED
      BY <1>3, <1>5, <3>1 DEF MonitorOK, Watched
  <2>3. blind' = blind
    BY <2>2 DEF Tick
  <2>4. Watched'
    BY <1>2, <1>3, <2>1, StaysWatched
  <2> QED
    BY <1>3, <2>1, <2>3, <2>4 DEF Sight, MonitorOK, SightBounded
<1> QED
  BY <1>4, <1>5

\* One case per part of the run.
LEMMA NextSight == IInv /\ Sight /\ [Next]_vars => Sight'
<1> SUFFICES ASSUME IInv, Sight, [Next]_vars PROVE Sight'
    OBVIOUS
<1>1. ASSUME NEW a \in A, Trading(a) PROVE Sight'
  BY <1>1, TradingSight
<1>2. CASE UNCHANGED vars
  BY <1>2 DEF vars, Sight, MonitorOK, Watched, SightBounded, Up
<1> QED
  BY <1>1, <1>2, MonitoringSight, LaunchingSight, TickSight DEF Next

\* The bounds of the monitor bound the time the accounts are traded unseen.
LEMMA SightSuffices == Sight => NoLongBlindness
BY SoakAssumption DEF Sight, SightBounded, MonitorOK, NoLongBlindness

\* No account is traded without a sample for longer than the outage limit,
\* one delay and two reads, however long reads hang and however they fail
\* (_read_outage_breached).
THEOREM SeenInTime == Spec => []NoLongBlindness
BY InitInv, NextInv, InitSight, NextSight, SightSuffices, PTL DEF Spec
=============================================================================
