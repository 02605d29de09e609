------------------------- MODULE PortfolioStopProofs -------------------------
(***************************************************************************)
(* How long a leg of a basket may quote on after a peer was last heard of, *)
(* or after it published an emergency: for every basket, staleness limit,  *)
(* period and lock wait.                                                   *)
(***************************************************************************)
EXTENDS PortfolioStop, TLAPS

Types ==
    /\ alive \in [Members -> BOOLEAN] /\ local \in [Members -> Modes]
    /\ row \in [Members -> [mode : Modes \cup {"missing"}, age : 0 .. Oldest]]
    /\ waiting \in [Members -> -1 .. LockWait]
    /\ idle \in [Members -> 0 .. Period]
    /\ DOMAIN decision = Members
    /\ \A m \in Members : waiting[m] >= 0 => alive[m]

\* What a leg knew when it decided to quote is as old as that decision.
KnownWhenDecided ==
    \A m, n \in Members :
        alive[m] /\ decision[m] = "quote" =>
            /\ row[n].age <= Stale + LockWait + idle[m]
            /\ row[n].mode = "emergency" => row[n].age <= LockWait + idle[m]

IInv == Types /\ KnownWhenDecided

\* The constants are natural numbers, and so is their sum.
LEMMA Constants ==
    /\ Stale \in Nat /\ LockWait \in Nat /\ Period \in Nat
    /\ Oldest \in Nat /\ Oldest >= LockWait /\ Oldest >= 0
BY BasketAssumption DEF Oldest

\* The invariant holds at the start.
LEMMA InitInv == Init => IInv
<1> SUFFICES ASSUME Init PROVE IInv
    OBVIOUS
<1>1. NoRow \in [mode : Modes \cup {"missing"}, age : 0 .. Oldest]
  BY Constants DEF NoRow
<1>2. -1 \in -1 .. LockWait /\ 0 \in 0 .. Period /\ "quote" \in Modes
  BY Constants DEF Modes
<1>3. Types
  BY <1>1, <1>2 DEF Init, Types
<1>4. KnownWhenDecided
  BY DEF Init, KnownWhenDecided
<1> QED
  BY <1>3, <1>4 DEF IInv

\* A leg that quotes has found every leg's row fresh, and no emergency.
LEMMA QuoteFindsAllFresh ==
    ASSUME NEW rows \in [Members -> [mode : Modes \cup {"missing"}, age : 0 .. Oldest]],
           NEW ago \in 0 .. LockWait, BasketMode(rows, ago) = "quote",
           NEW n \in Members
    PROVE  rows[n].age <= Stale + ago /\ rows[n].mode # "emergency"
<1> DEFINE fresh == {m \in Members : Fresh(rows[m], ago)}
           asks(mode) == \E m \in fresh : rows[m].mode = mode
<1>1. ~asks("emergency") /\ fresh = Members
  BY DEF BasketMode
<1>2. Fresh(rows[n], ago)
  BY <1>1
<1>3. rows[n].age - ago <= Stale
  BY <1>2 DEF Fresh
<1>4. rows[n].age \in Nat /\ ago \in Nat
  BY Constants
<1> QED
  BY <1>1, <1>3, <1>4, Constants

\* A leg that writes its row makes no other leg's knowledge older.
LEMMA WriteInv ==
    ASSUME IInv, NEW m \in Members,
           NEW r \in [mode : Modes \cup {"missing"}, age : 0 .. Oldest],
           r.age <= LockWait, row' = [row EXCEPT ![m] = r],
           NEW n \in Members, n # m, alive[n], decision[n] = "quote", NEW k \in Members
    PROVE  /\ row'[k].age <= Stale + LockWait + idle[n]
           /\ row'[k].mode = "emergency" => row'[k].age <= LockWait + idle[n]
<1>1. idle[n] \in Nat /\ r.age \in Nat
  BY Constants DEF IInv, Types
<1>2. CASE k = m
  <2>1. row'[k] = r
    BY <1>2 DEF IInv, Types
  <2> QED
    BY <1>1, <2>1, Constants
<1>3. CASE k # m
  <2>1. row'[k] = row[k]
    BY <1>3 DEF IInv, Types
  <2> QED
    BY <2>1 DEF IInv, KnownWhenDecided
<1> QED
  BY <1>2, <1>3

\* A leg that updates has read every row that lets it quote.
LEMMA UpdateInv == ASSUME IInv, NEW m \in Members, Update(m) PROVE IInv'
<1> DEFINE r == [mode |-> Published(m), age |-> waiting[m]]
<1>1. /\ alive[m] /\ waiting[m] >= 0
      /\ row' = [row EXCEPT ![m] = r]
      /\ decision' = [decision EXCEPT ![m] = BasketMode(row', waiting[m])]
      /\ waiting' = [waiting EXCEPT ![m] = -1]
      /\ idle' = [idle EXCEPT ![m] = 0]
      /\ UNCHANGED <<alive, local, faults>>
  BY DEF Update
<1>2. waiting[m] \in 0 .. LockWait
  BY <1>1, Constants DEF IInv, Types
<1>3. r \in [mode : Modes \cup {"missing"}, age : 0 .. Oldest]
  BY <1>2, Constants DEF IInv, Types, Published
<1>4. -1 \in -1 .. LockWait /\ 0 \in 0 .. Period
  BY Constants
<1>5. row' \in [Members -> [mode : Modes \cup {"missing"}, age : 0 .. Oldest]]
  BY <1>1, <1>3 DEF IInv, Types
<1>6. Types'
  <2>1. /\ waiting' \in [Members -> -1 .. LockWait]
        /\ idle' \in [Members -> 0 .. Period]
        /\ DOMAIN decision' = Members
    BY <1>1, <1>4 DEF IInv, Types
  <2>2. \A k \in Members : waiting'[k] >= 0 => alive'[k]
    BY <1>1 DEF IInv, Types
  <2> QED
    BY <1>1, <1>5, <2>1, <2>2 DEF IInv, Types
<1>7. ASSUME NEW n \in Members, NEW k \in Members, alive'[n], decision'[n] = "quote"
      PROVE  /\ row'[k].age <= Stale + LockWait + idle'[n]
             /\ row'[k].mode = "emergency" => row'[k].age <= LockWait + idle'[n]
  <2>1. CASE n = m
    <3>1. BasketMode(row', waiting[m]) = "quote" /\ idle'[n] = 0
      BY <1>1, <1>7, <2>1 DEF IInv, Types
    <3>2. row'[k].age <= Stale + waiting[m] /\ row'[k].mode # "emergency"
      BY <1>2, <1>5, <3>1, QuoteFindsAllFresh
    <3>3. row'[k].age \in Nat
      BY <1>5, Constants
    <3> QED
      BY <1>2, <3>1, <3>2, <3>3, Constants
  <2>2. CASE n # m
    <3>1. alive[n] /\ decision[n] = "quote" /\ idle'[n] = idle[n]
      BY <1>1, <1>7, <2>2 DEF IInv, Types
    <3>2. r.age <= LockWait
      BY <1>2, Constants
    <3> HIDE DEF r
    <3> QED
      BY <1>1, <1>3, <2>2, <3>1, <3>2, WriteInv
  <2> QED
    BY <2>1, <2>2
<1> QED
  BY <1>6, <1>7 DEF IInv, KnownWhenDecided

\* A failed cycle ends as an emergency, whether or not it is published.
LEMMA CycleFailsInv == ASSUME IInv, NEW m \in Members, CycleFails(m) PROVE IInv'
<1> DEFINE r == [mode |-> "emergency", age |-> 0]
<1>1. /\ row' = [row EXCEPT ![m] = r] \/ row' = row
      /\ decision' = [decision EXCEPT ![m] = "emergency"]
      /\ waiting' = [waiting EXCEPT ![m] = -1]
      /\ idle' = [idle EXCEPT ![m] = 0]
      /\ UNCHANGED <<alive, local>>
  BY DEF CycleFails
<1>2. /\ r \in [mode : Modes \cup {"missing"}, age : 0 .. Oldest]
      /\ r.age <= LockWait
  BY Constants DEF Modes
<1>3. -1 \in -1 .. LockWait /\ 0 \in 0 .. Period
  BY Constants
<1> HIDE DEF r
<1>4. Types'
  <2>1. row' \in [Members -> [mode : Modes \cup {"missing"}, age : 0 .. Oldest]]
    BY <1>1, <1>2 DEF IInv, Types
  <2>2. /\ waiting' \in [Members -> -1 .. LockWait]
        /\ idle' \in [Members -> 0 .. Period]
        /\ DOMAIN decision' = Members
    BY <1>1, <1>3 DEF IInv, Types
  <2>3. \A k \in Members : waiting'[k] >= 0 => alive'[k]
    BY <1>1 DEF IInv, Types
  <2> QED
    BY <1>1, <2>1, <2>2, <2>3 DEF IInv, Types
<1>5. ASSUME NEW n \in Members, NEW k \in Members, alive'[n], decision'[n] = "quote"
      PROVE  /\ row'[k].age <= Stale + LockWait + idle'[n]
             /\ row'[k].mode = "emergency" => row'[k].age <= LockWait + idle'[n]
  <2>1. n # m /\ alive[n] /\ decision[n] = "quote" /\ idle'[n] = idle[n]
    BY <1>1, <1>5 DEF IInv, Types
  <2>2. CASE row' = row
    BY <2>1, <2>2 DEF IInv, KnownWhenDecided
  <2>3. CASE row' = [row EXCEPT ![m] = r]
    BY <1>2, <2>1, <2>3, WriteInv
  <2> QED
    BY <1>1, <2>2, <2>3
<1> QED
  BY <1>4, <1>5 DEF IInv, KnownWhenDecided

\* Time makes the rows older, and the decisions that knew them as much.
LEMMA TickInv == ASSUME IInv, Tick PROVE IInv'
<1>1. /\ \A m \in Members : alive[m] => idle[m] < Period /\ waiting[m] < LockWait
      /\ row' = [m \in Members |->
                   [row[m] EXCEPT !.age = IF @ < Oldest THEN @ + 1 ELSE @]]
      /\ waiting' = [m \in Members |-> IF waiting[m] >= 0 THEN waiting[m] + 1 ELSE -1]
      /\ idle' = [m \in Members |->
                    IF idle[m] < Period THEN idle[m] + 1 ELSE idle[m]]
      /\ UNCHANGED <<alive, local, decision>>
  BY DEF Tick
<1>2. ASSUME NEW m \in Members
      PROVE  /\ row'[m] \in [mode : Modes \cup {"missing"}, age : 0 .. Oldest]
             /\ row'[m].mode = row[m].mode
             /\ row'[m].age <= row[m].age + 1
  BY <1>1, Constants DEF IInv, Types
<1>3. ASSUME NEW m \in Members
      PROVE  waiting'[m] \in -1 .. LockWait /\ idle'[m] \in 0 .. Period
  <2>1. waiting[m] \in -1 .. LockWait /\ idle[m] \in 0 .. Period
    BY DEF IInv, Types
  <2>2. waiting[m] >= 0 => waiting[m] < LockWait
    BY <1>1 DEF IInv, Types
  <2> QED
    BY <1>1, <2>1, <2>2, Constants
<1>4. Types'
  <2>1. row' \in [Members -> [mode : Modes \cup {"missing"}, age : 0 .. Oldest]]
    BY <1>1, <1>2
  <2>2. waiting' \in [Members -> -1 .. LockWait] /\ idle' \in [Members -> 0 .. Period]
    BY <1>1, <1>3
  <2>3. \A m \in Members : waiting'[m] >= 0 => alive'[m]
    BY <1>1 DEF IInv, Types
  <2> QED
    BY <1>1, <2>1, <2>2, <2>3 DEF IInv, Types
<1>5. ASSUME NEW m \in Members, NEW n \in Members, alive'[m], decision'[m] = "quote"
      PROVE  /\ row'[n].age <= Stale + LockWait + idle'[m]
             /\ row'[n].mode = "emergency" => row'[n].age <= LockWait + idle'[m]
  <2>1. alive[m] /\ decision[m] = "quote"
    BY <1>1, <1>5
  <2>2. idle'[m] = idle[m] + 1 /\ idle[m] \in Nat
    BY <1>1, <2>1, Constants DEF IInv, Types
  <2>3. /\ row[n].age <= Stale + LockWait + idle[m]
        /\ row[n].mode = "emergency" => row[n].age <= LockWait + idle[m]
    BY <2>1 DEF IInv, KnownWhenDecided
  <2>4. row[n].age \in Nat /\ row'[n].age \in Nat
    BY <1>2, Constants DEF IInv, Types
  <2> QED
    BY <1>2, <2>2, <2>3, <2>4, Constants
<1> QED
  BY <1>4, <1>5 DEF IInv, KnownWhenDecided

\* One case per action of a leg, and the tick.
LEMMA NextInv == ASSUME IInv, [Next]_vars PROVE IInv'
<1>1. ASSUME NEW m \in Members, TakeNow(m) PROVE IInv'
  <2>1. 0 \in -1 .. LockWait
    BY Constants
  <2> QED
    BY <1>1, <2>1 DEF TakeNow, IInv, Types, KnownWhenDecided
<1>2. ASSUME NEW m \in Members, Update(m) PROVE IInv'
  BY <1>2, UpdateInv
<1>3. ASSUME NEW m \in Members, CycleFails(m) PROVE IInv'
  BY <1>3, CycleFailsInv
<1>4. ASSUME NEW m \in Members, RiskDecides(m) PROVE IInv'
  BY <1>4 DEF RiskDecides, IInv, Types, KnownWhenDecided
<1>5. ASSUME NEW m \in Members, Crash(m) PROVE IInv'
  <2>1. -1 \in -1 .. LockWait
    BY Constants
  <2> QED
    BY <1>5, <2>1 DEF Crash, IInv, Types, KnownWhenDecided
<1>6. ASSUME NEW m \in Members, Restart(m) PROVE IInv'
  <2>1. 0 \in 0 .. Period /\ "quote" \in Modes
    BY Constants DEF Modes
  <2> QED
    BY <1>6, <2>1 DEF Restart, IInv, Types, KnownWhenDecided
<1>7. CASE Tick
  BY <1>7, TickInv
<1>8. CASE UNCHANGED vars
  BY <1>8 DEF vars, IInv, Types, KnownWhenDecided
<1> QED
  BY <1>1, <1>2, <1>3, <1>4, <1>5, <1>6, <1>7, <1>8 DEF Next

\* The inductive invariant holds in every state of the basket (update).
THEOREM Invariance == Spec => []IInv
<1> QED
  BY InitInv, NextInv, PTL DEF Spec

\* The rows and the legs are what the table and the processes can hold.
THEOREM TypesHold == Spec => []TypeOK
<1>1. IInv => TypeOK
  BY DEF IInv, Types, TypeOK
<1> QED
  BY <1>1, Invariance, PTL

\* A leg does not quote for longer than the staleness limit, a lock wait and
\* a period after a peer's last row, nor for longer than a lock wait and a
\* period after a peer's emergency (PortfolioStopBook.update).
THEOREM NobodyQuotesOnStaleNews == Spec => []QuotesKnowTheBasket
<1>1. ASSUME IInv, NEW m \in Members, NEW n \in Members, alive[m], decision[m] = "quote"
      PROVE  /\ row[n].age <= Stale + LockWait + Period
             /\ row[n].mode = "emergency" => row[n].age <= LockWait + Period
  <2>1. /\ row[n].age <= Stale + LockWait + idle[m]
        /\ row[n].mode = "emergency" => row[n].age <= LockWait + idle[m]
    BY <1>1 DEF IInv, KnownWhenDecided
  <2>2. idle[m] \in Nat /\ idle[m] <= Period /\ row[n].age \in Nat
    BY <1>1, Constants DEF IInv, Types
  <2> QED
    BY <2>1, <2>2, Constants
<1>2. IInv => QuotesKnowTheBasket
  BY <1>1 DEF QuotesKnowTheBasket
<1> QED
  BY <1>2, Invariance, PTL
=============================================================================
