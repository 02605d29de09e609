------------------------ MODULE PassiveAggressiveProofs ------------------------
(***************************************************************************)
(* Theorems about the passive-aggressive executor, for every total, child  *)
(* quantity, timer, retry limit and number of venue faults: one order      *)
(* works at a time, none follows a stop, no order counts for more than it  *)
(* was sent for, fills are credited where they belong, replacements never  *)
(* add up to more than the total or a child's target, the close type is    *)
(* true, and each step is one that BudgetedExecution allows.               *)
(***************************************************************************)
EXTENDS PassiveAggressive, FiniteSetTheorems, TLAPS

USE DEF NoOrder, NotSet

\* The unsettled quantity is a number of lots.
LEMMA OutstandingIsNat ==
    ASSUME NEW n \in Nat, NEW ords \in [1..n -> OrderRecord]
    PROVE  Outstanding(ords) \in Nat
<1>1. IsFiniteSet(1..n) /\ IsFiniteSet(1..Total)
    BY FS_Interval, ConfigAssumption
<1>2. IsFiniteSet((DOMAIN ords) \X (1..Total))
    BY <1>1, FS_Product
<1>3. OutstandingLots(ords) \in SUBSET ((DOMAIN ords) \X (1..Total))
    BY DEF OutstandingLots
<1>4. IsFiniteSet(OutstandingLots(ords))
    BY <1>2, <1>3, FS_Subset
<1> QED  BY <1>4, FS_CardinalityType DEF Outstanding

\* There is at least one child, and its target is a number.
LEMMA ChildrenFacts ==
    /\ NumChildren \in Nat \ {0}
    /\ \A c \in Children : Target(c) \in Int
<1>1. NumChildren \in Nat \ {0}
    BY ConfigAssumption DEF NumChildren, Larger, MAX_CHILDREN
<1>2. \A c \in Children : Target(c) \in Int
    BY <1>1, ConfigAssumption DEF Target, Children
<1> QED  BY <1>1, <1>2

\* The room of a child never exceeds what is left of the total.
LEMMA RoomFacts ==
    ASSUME NEW n \in Nat, NEW ords \in [1..n -> OrderRecord],
           NEW kids \in [Children -> ChildSlot], NEW cum \in Nat, NEW c \in Children
    PROVE  /\ Room(ords, kids, cum, c) \in Int
           /\ Room(ords, kids, cum, c) <= Total - cum
           /\ Room(ords, kids, cum, c) <= Target(c) - kids[c].filled
<1>1. Outstanding(ords) \in Nat
    BY OutstandingIsNat
<1>2. kids[c].filled \in Nat /\ Target(c) \in Int
    BY ChildrenFacts DEF ChildSlot
<1> QED  BY <1>1, <1>2, ConfigAssumption DEF Room, Smaller
-------------------------------------------------------------------------------
(* Type correctness.                                                       *)

\* The types of what the order helpers leave behind.
PlacedOK ==
    /\ submitted' \in Nat
    /\ orders' \in [1..submitted' -> OrderRecord]
    /\ children' \in [Children -> ChildSlot]
    /\ late' \in Nat
    /\ submitted <= submitted'

\* Keeping the orders, or submitting one within the total, preserves the types.
LEMMA KeepTypes ==
    ASSUME TypeOK, NEW ords \in [1..submitted -> OrderRecord],
           NEW kids \in [Children -> ChildSlot], KeepOrders(ords, kids)
    PROVE  PlacedOK
BY DEF KeepOrders, PlacedOK, TypeOK

LEMMA SubmitTypes ==
    ASSUME TypeOK, NEW ords \in [1..submitted -> OrderRecord],
           NEW kids \in [Children -> ChildSlot], NEW c \in Children,
           NEW amount \in 1..Total, NEW newStatus \in ChildStatus,
           Submit(ords, kids, c, amount, newStatus)
    PROVE  PlacedOK
<1> DEFINE record == [child |-> c, amount |-> amount, fill_sum |-> 0,
                      reported |-> 0, credited |-> 0, terminal |-> FALSE]
           id == submitted + 1
<1>1. submitted' = id /\ id \in Nat /\ submitted \in Nat /\ late' = 0
    BY DEF Submit, TypeOK
<1>2. record \in OrderRecord
    BY DEF OrderRecord
<1>3. orders' = [o \in 1..id |-> IF o = id THEN record ELSE ords[o]]
    BY DEF Submit
<1>4. orders' \in [1..id -> OrderRecord]
    BY <1>1, <1>2, <1>3
<1>5. children' \in [Children -> ChildSlot]
    BY <1>1 DEF Submit, ChildSlot
<1> QED  BY <1>1, <1>4, <1>5 DEF PlacedOK

LEMMA PlaceTypes ==
    ASSUME TypeOK, NEW ords \in [1..submitted -> OrderRecord],
           NEW kids \in [Children -> ChildSlot], NEW c \in Children,
           PlaceLimit(ords, kids, c) \/ PlaceAggressive(ords, kids, c)
    PROVE  PlacedOK
<1> DEFINE room == Room(ords, kids, cumulative_filled, c)
<1>1. submitted \in Nat /\ cumulative_filled \in Nat
    BY DEF TypeOK
<1>2. room \in Int /\ room <= Total - cumulative_filled
    BY <1>1, RoomFacts
<1>3. ASSUME NEW st \in {"DONE", "IDLE"}, KeepOrders(ords, [kids EXCEPT ![c].status = st])
      PROVE  PlacedOK
    <2>1. [kids EXCEPT ![c].status = st] \in [Children -> ChildSlot]
        BY DEF ChildSlot, ChildStatus
    <2> QED  BY <1>3, <2>1, KeepTypes
<1>4. ASSUME NEW st \in {"ACTIVE", "AGGRESSIVE"}, room > 0, Submit(ords, kids, c, room, st)
      PROVE  PlacedOK
    <2>1. room \in 1..Total /\ st \in ChildStatus
        BY <1>1, <1>2, <1>4, ConfigAssumption DEF ChildStatus
    <2>2. Submit(ords, kids, c, room, st)
        BY <1>4
    <2> HIDE DEF room
    <2> QED  BY <2>1, <2>2, SubmitTypes
<1> QED  BY <1>3, <1>4 DEF PlaceLimit, PlaceAggressive

\* Crediting an order keeps its record well-formed and never takes lots away.
LEMMA CreditFacts ==
    ASSUME NEW r \in OrderRecord
    PROVE  /\ Credit(r) \in OrderRecord
           /\ Gain(r) \in Nat
           /\ Credit(r).credited = r.credited + Gain(r)
           /\ Credit(r).amount = r.amount
           /\ Credit(r).child = r.child
           /\ Credit(r).terminal = r.terminal
BY DEF Credit, Gain, Larger, OrderRecord

\* The order and the child an event speaks of, and what its end leaves behind.
LEMMA OrderFacts ==
    ASSUME TypeOK, NEW o \in 1..submitted
    PROVE  /\ orders[o] \in OrderRecord
           /\ orders[o].child \in Children
           /\ EndOrder(o) \in [1..submitted -> OrderRecord]
           /\ \A p \in 1..submitted :
                 /\ EndOrder(o)[p].child = orders[p].child
                 /\ EndOrder(o)[p].amount = orders[p].amount
                 /\ EndOrder(o)[p].credited = orders[p].credited
                 /\ EndOrder(o)[p].terminal <=> (p = o \/ orders[p].terminal)
           /\ \A st \in ChildStatus :
                 /\ [children EXCEPT ![orders[o].child].tracked = NoOrder]
                      \in [Children -> ChildSlot]
                 /\ [children EXCEPT ![orders[o].child].tracked = NoOrder,
                                     ![orders[o].child].status = st]
                      \in [Children -> ChildSlot]
<1>1. orders \in [1..submitted -> OrderRecord] /\ children \in [Children -> ChildSlot]
    BY DEF TypeOK
<1>2. orders[o] \in OrderRecord
    BY <1>1
<1>3. orders[o].child \in Children
    BY <1>2 DEF OrderRecord
<1>4. \A r \in OrderRecord :
         /\ [r EXCEPT !.terminal = TRUE] \in OrderRecord
         /\ [r EXCEPT !.terminal = TRUE].child = r.child
         /\ [r EXCEPT !.terminal = TRUE].amount = r.amount
         /\ [r EXCEPT !.terminal = TRUE].credited = r.credited
         /\ [r EXCEPT !.terminal = TRUE].terminal
    BY DEF OrderRecord
<1>5. ASSUME NEW p \in 1..submitted
      PROVE  EndOrder(o)[p] = IF p = o THEN [orders[o] EXCEPT !.terminal = TRUE]
                                       ELSE orders[p]
    BY <1>1 DEF EndOrder
<1>6. EndOrder(o) \in [1..submitted -> OrderRecord]
    BY <1>1, <1>2, <1>4 DEF EndOrder
<1>7. ASSUME NEW p \in 1..submitted
      PROVE  /\ EndOrder(o)[p].child = orders[p].child
             /\ EndOrder(o)[p].amount = orders[p].amount
             /\ EndOrder(o)[p].credited = orders[p].credited
             /\ EndOrder(o)[p].terminal <=> (p = o \/ orders[p].terminal)
    <2>1. CASE p = o
        <3>1. EndOrder(o)[p] = [orders[o] EXCEPT !.terminal = TRUE]
            BY <1>5, <2>1
        <3>2. /\ EndOrder(o)[p].child = orders[o].child
              /\ EndOrder(o)[p].amount = orders[o].amount
              /\ EndOrder(o)[p].credited = orders[o].credited
              /\ EndOrder(o)[p].terminal
            BY <1>2, <1>4, <3>1, Zenon
        <3> QED  BY <2>1, <3>2, Zenon
    <2>2. CASE p # o
        <3>1. EndOrder(o)[p] = orders[p]
            BY <1>5, <2>2
        <3> QED  BY <2>2, <3>1, Zenon
    <2> QED  BY <2>1, <2>2, Zenon
<1>8. \A kid \in ChildSlot, st \in ChildStatus :
         /\ [kid EXCEPT !.tracked = NoOrder] \in ChildSlot
         /\ [kid EXCEPT !.status = st] \in ChildSlot
    BY DEF ChildSlot
<1>9. ASSUME NEW st \in ChildStatus
      PROVE  /\ [children EXCEPT ![orders[o].child].tracked = NoOrder]
                   \in [Children -> ChildSlot]
             /\ [children EXCEPT ![orders[o].child].tracked = NoOrder,
                                 ![orders[o].child].status = st]
                   \in [Children -> ChildSlot]
    <2> DEFINE c == orders[o].child
               freed == [children EXCEPT ![c].tracked = NoOrder]
    <2>1. children[c] \in ChildSlot /\ c \in Children
        BY <1>1, <1>3
    <2>2. [children[c] EXCEPT !.tracked = NoOrder] \in ChildSlot
        BY <1>8, <2>1
    <2>3. freed \in [Children -> ChildSlot]
        BY <1>1, <2>1, <2>2
    <2> HIDE DEF c
    <2>4. [children[c] EXCEPT !.tracked = NoOrder, !.status = st]
             = [[children[c] EXCEPT !.tracked = NoOrder] EXCEPT !.status = st]
        OBVIOUS
    <2>5. [children[c] EXCEPT !.tracked = NoOrder, !.status = st] \in ChildSlot
        BY <1>8, <2>2, <2>4
    <2>6. [children EXCEPT ![c].tracked = NoOrder, ![c].status = st]
             \in [Children -> ChildSlot]
        BY <1>1, <2>1, <2>5
    <2> QED  BY <2>3, <2>6 DEF c
<1> QED  BY <1>2, <1>3, <1>6, <1>7, <1>9

LEMMA CancelChildTypes ==
    ASSUME TypeOK, NEW kids \in [Children -> ChildSlot], NEW c \in Children,
           NEW reason \in {"refresh", "cycle_expired"}, CancelChild(kids, c, reason)
    PROVE  /\ children' \in [Children -> ChildSlot]
           /\ cancelling' \in SUBSET (1..submitted)
<1>1. Live \in SUBSET (1..submitted) /\ cancelling \in SUBSET (1..submitted)
    BY DEF TypeOK, Live
<1>2. [kids EXCEPT ![c].status = "CANCELING", ![c].reason = reason] \in [Children -> ChildSlot]
    BY DEF ChildSlot, ChildStatus
<1>3. children' \in [Children -> ChildSlot]
    BY <1>2 DEF CancelChild
<1>4. \/ cancelling' = cancelling
      \/ cancelling' = cancelling \cup ({kids[c].tracked} \cap Live)
    BY DEF CancelChild
<1> QED  BY <1>1, <1>3, <1>4

LEMMA VisitedTypes ==
    ASSUME TypeOK, NEW c \in Children
    PROVE  Visited(c) \in Clock
<1>1. clock \in Clock
    BY DEF TypeOK
<1>2. CycleAge(c) \in {NotSet} \cup 0..TimeLimit
    BY <1>1, ConfigAssumption DEF CycleAge, Clock
<1>3. (IF c = child_idx THEN clock.retry ELSE 0) \in Nat
    BY <1>1 DEF Clock
<1> QED  BY <1>1, <1>2, <1>3 DEF Clock, Visited

LEMMA FillKidsTypes ==
    ASSUME TypeOK, NEW o \in 1..submitted, NEW gain \in Nat
    PROVE  FillKids(o, gain) \in [Children -> ChildSlot]
<1>1. ASSUME NEW kid \in ChildSlot, NEW lots \in Nat
      PROVE  [kid EXCEPT !.filled = lots] \in ChildSlot
    BY DEF ChildSlot
<1>2. PICK c \in Children : c = orders[o].child
    BY OrderFacts
<1>3. children \in [Children -> ChildSlot] /\ children[c] \in ChildSlot
    BY DEF TypeOK
<1>4. children[c].filled + gain \in Nat
    <2>1. PICK lots \in Nat : lots = children[c].filled
        BY <1>3 DEF ChildSlot
    <2> QED  BY <2>1
<1>5. [children[c] EXCEPT !.filled = children[c].filled + gain] \in ChildSlot
    BY <1>1, <1>3, <1>4
<1>6. FillKids(o, gain)
        = [children EXCEPT ![c] = [children[c] EXCEPT !.filled = children[c].filled + gain]]
    BY <1>2 DEF FillKids
<1> QED  BY <1>3, <1>5, <1>6

LEMMA StepTypes == TypeOK /\ Step => TypeOK'
<1> SUFFICES ASSUME TypeOK, status = "RUNNING",
                    NEW i \in child_idx..NumChildren + 1, child_idx' = i, IsNextIdx(i),
                    \/ i > NumChildren /\ StepAllTerminal
                    \/ i <= NumChildren /\ (StepIdle(i) \/ StepActive(i) \/ StepWait(i)),
                    UNCHANGED <<cumulative_filled, retries, faults>>
             PROVE  TypeOK'
    BY DEF Step
<1>1. child_idx' \in 1..NumChildren + 1
    BY ChildrenFacts DEF TypeOK
<1>2. CASE StepAllTerminal
    BY <1>1, <1>2 DEF StepAllTerminal, CloseExecutionBy, FinalCloseType, TypeOK
<1>3. CASE i <= NumChildren /\ StepIdle(i)
    <2>1. i \in Children
        BY <1>3, ChildrenFacts DEF Children, TypeOK
    <2>2. Visited(i) \in Clock
        BY <2>1, VisitedTypes
    <2>3. children \in [Children -> ChildSlot] /\ orders \in [1..submitted -> OrderRecord]
        BY DEF TypeOK
    <2>4. [children EXCEPT ![i].status = "SKIPPED"] \in [Children -> ChildSlot]
        BY <2>1, <2>3 DEF ChildSlot, ChildStatus
    <2>5. PlacedOK
        BY <1>3, <2>1, <2>3, <2>4, KeepTypes, PlaceTypes DEF StepIdle
    <2>6. clock' \in Clock
        BY <1>3, <2>2, ConfigAssumption DEF StepIdle, Clock
    <2>7. UNCHANGED <<status, close_type, cancelling>>
        BY <1>3 DEF StepIdle
    <2> QED  BY <1>1, <2>5, <2>6, <2>7 DEF TypeOK, PlacedOK
<1>4. CASE i <= NumChildren /\ StepActive(i)
    <2>1. i \in Children
        BY <1>4, ChildrenFacts DEF Children, TypeOK
    <2>2. clock' \in Clock
        BY <1>4, <2>1, VisitedTypes DEF StepActive
    <2>3. children' \in [Children -> ChildSlot] /\ cancelling' \in SUBSET (1..submitted)
        BY <1>4, <2>1, CancelChildTypes DEF StepActive, TypeOK
    <2> QED  BY <1>1, <1>4, <2>2, <2>3 DEF TypeOK, StepActive
<1>5. CASE i <= NumChildren /\ StepWait(i)
    <2>1. i \in Children
        BY <1>5, ChildrenFacts DEF Children, TypeOK
    <2> QED  BY <1>1, <1>5, <2>1, VisitedTypes DEF TypeOK, StepWait
<1> QED  BY <1>2, <1>3, <1>4, <1>5

LEMMA FilledTypes ==
    ASSUME TypeOK, NEW o \in 1..submitted, NEW trade \in 1..orders[o].amount,
           OrderFilled(o, trade)
    PROVE  TypeOK'
<1> DEFINE r == orders[o]
           counted == IF Repeated(r, trade) THEN r ELSE [r EXCEPT !.fill_sum = @ + 1]
           kids == FillKids(o, Gain(counted))
<1>1. r \in OrderRecord /\ r.child \in Children
    BY OrderFacts
<1>2. counted \in OrderRecord /\ counted.child = r.child
    BY <1>1 DEF OrderRecord
<1>3. Credit(counted) \in OrderRecord /\ Gain(counted) \in Nat
    BY <1>2, CreditFacts
<1> HIDE DEF counted
<1>4. kids \in [Children -> ChildSlot]
    BY <1>3, FillKidsTypes
<1> HIDE DEF kids
<1>5. /\ orders' = [orders EXCEPT ![o] = Credit(counted)]
      /\ cumulative_filled' = cumulative_filled + Gain(counted)
      /\ late' = IF r.terminal THEN late + Gain(counted) ELSE late
      /\ UNCHANGED <<status, close_type, child_idx, clock, retries, submitted, faults>>
      /\ \/ child_idx <= NumChildren /\ CancelChild(kids, child_idx, "refresh")
         \/ children' = kids /\ UNCHANGED cancelling
    BY DEF OrderFilled, counted, kids, Oversized
<1>6. orders' \in [1..submitted' -> OrderRecord]
    BY <1>3, <1>5 DEF TypeOK
<1>7. cumulative_filled' \in Nat /\ late' \in Nat
    BY <1>3, <1>5 DEF TypeOK
<1>8. children' \in [Children -> ChildSlot] /\ cancelling' \in SUBSET (1..submitted)
    <2>1. CASE child_idx <= NumChildren /\ CancelChild(kids, child_idx, "refresh")
        <3>1. child_idx \in Children
            BY <2>1, ChildrenFacts DEF Children, TypeOK
        <3> QED  BY <2>1, <3>1, <1>4, CancelChildTypes
    <2>2. CASE children' = kids /\ UNCHANGED cancelling
        BY <2>2, <1>4 DEF TypeOK
    <2> QED  BY <2>1, <2>2, <1>5
<1> QED  BY <1>5, <1>6, <1>7, <1>8 DEF TypeOK

LEMMA CompletedTypes ==
    ASSUME TypeOK, NEW o \in 1..submitted, NEW amount \in 0..orders[o].amount,
           VenueCompletes(o, amount)
    PROVE  TypeOK'
<1> DEFINE r == orders[o]
           ended == [r EXCEPT !.terminal = TRUE, !.reported = Larger(@, amount)]
           kids == FillKids(o, Gain(ended))
<1>1. r \in OrderRecord /\ r.child \in Children
    BY OrderFacts
<1>2. ended \in OrderRecord /\ ended.child = r.child
    <2>1. Larger(r.reported, amount) \in Nat
        BY <1>1 DEF OrderRecord, Larger
    <2> QED  BY <1>1, <2>1 DEF OrderRecord
<1>3. Credit(ended) \in OrderRecord /\ Gain(ended) \in Nat
    BY <1>2, CreditFacts
<1> HIDE DEF ended
<1>4. kids \in [Children -> ChildSlot]
    BY <1>3, FillKidsTypes
<1> HIDE DEF kids
<1>5. /\ orders' = [orders EXCEPT ![o] = Credit(ended)]
      /\ cumulative_filled' = cumulative_filled + Gain(ended)
      /\ late' = IF r.terminal THEN late + Gain(ended) ELSE late
      /\ children' = IF IsActive(o) THEN [kids EXCEPT ![r.child].status = "DONE"] ELSE kids
      /\ cancelling' = cancelling \ {o}
      /\ UNCHANGED <<status, close_type, child_idx, clock, retries, submitted>>
    BY DEF VenueCompletes, OrderCompleted, ended, kids
<1>6. orders' \in [1..submitted' -> OrderRecord]
    BY <1>3, <1>5 DEF TypeOK
<1>7. cumulative_filled' \in Nat /\ late' \in Nat
    BY <1>3, <1>5 DEF TypeOK
<1>8. children' \in [Children -> ChildSlot]
    <2>1. r.child \in Children /\ kids[r.child] \in ChildSlot
        BY <1>1, <1>4
    <2>2. [kids[r.child] EXCEPT !.status = "DONE"] \in ChildSlot
        BY <2>1 DEF ChildSlot, ChildStatus
    <2>3. [kids EXCEPT ![r.child].status = "DONE"] \in [Children -> ChildSlot]
        BY <1>4, <2>1, <2>2
    <2> QED  BY <1>4, <1>5, <2>3
<1>9. faults' \in 0..MaxFaults
    BY ConfigAssumption DEF VenueCompletes, TypeOK
<1> QED  BY <1>5, <1>6, <1>7, <1>8, <1>9 DEF TypeOK

LEMMA CanceledTypes ==
    ASSUME TypeOK, NEW o \in 1..submitted, VenueCancels(o)
    PROVE  TypeOK'
<1> DEFINE c == orders[o].child
           kids == [children EXCEPT ![c].tracked = NoOrder]
<1>1. /\ c \in Children
      /\ EndOrder(o) \in [1..submitted -> OrderRecord]
      /\ children \in [Children -> ChildSlot]
      /\ kids \in [Children -> ChildSlot]
      /\ \A st \in ChildStatus : [kids EXCEPT ![c].status = st] \in [Children -> ChildSlot]
    <2>1. kids \in [Children -> ChildSlot] /\ c \in Children
        BY OrderFacts DEF TypeOK, ChildStatus
    <2>2. \A st \in ChildStatus : [kids EXCEPT ![c].status = st] \in [Children -> ChildSlot]
        BY <2>1 DEF ChildSlot
    <2> QED  BY <2>1, <2>2, OrderFacts DEF TypeOK
<1>2. \/ KeepOrders(EndOrder(o), children)
      \/ PlaceAggressive(EndOrder(o), kids, c)
      \/ \E st \in ChildStatus : KeepOrders(EndOrder(o), [kids EXCEPT ![c].status = st])
    BY DEF VenueCancels, OrderCanceled, ChildStatus
<1>3. /\ cancelling' = cancelling \ {o}
      /\ UNCHANGED <<status, close_type, child_idx, clock, cumulative_filled, retries>>
    BY DEF VenueCancels, OrderCanceled
<1>4. faults' \in 0..MaxFaults
    BY ConfigAssumption DEF VenueCancels, Fault, TypeOK
<1> HIDE DEF c, kids
<1>5. PlacedOK
    BY <1>1, <1>2, KeepTypes, PlaceTypes
<1>6. cancelling' \in SUBSET (1..submitted')
    BY <1>3, <1>5 DEF PlacedOK, TypeOK
<1> QED  BY <1>3, <1>4, <1>5, <1>6 DEF TypeOK, PlacedOK

LEMMA FailedTypes ==
    ASSUME TypeOK, NEW o \in 1..submitted, VenueFails(o)
    PROVE  TypeOK'
<1> DEFINE c == orders[o].child
           kids == [children EXCEPT ![c].tracked = NoOrder, ![c].status = "IDLE"]
           skipped == [children EXCEPT ![c].tracked = NoOrder, ![c].status = "SKIPPED"]
<1>1. /\ c \in Children
      /\ EndOrder(o) \in [1..submitted -> OrderRecord]
      /\ children \in [Children -> ChildSlot]
      /\ kids \in [Children -> ChildSlot]
      /\ skipped \in [Children -> ChildSlot]
    BY OrderFacts DEF TypeOK, ChildStatus
<1>2. \/ KeepOrders(EndOrder(o), children)
      \/ KeepOrders(EndOrder(o), kids)
      \/ KeepOrders(EndOrder(o), skipped)
      \/ PlaceAggressive(EndOrder(o), kids, c)
    BY DEF VenueFails, OrderFailed, ReduceOnlyRejected
<1>3. /\ cancelling' = cancelling \ {o}
      /\ UNCHANGED <<child_idx, cumulative_filled>>
      /\ \/ UNCHANGED <<status, close_type>>
         \/ status' = "TERMINATED" /\ close_type' = "EARLY_STOP"
    BY DEF VenueFails, OrderFailed, ReduceOnlyRejected, CloseExecutionBy
<1>4. faults' \in 0..MaxFaults
    BY ConfigAssumption DEF VenueFails, Fault, TypeOK
<1>5. retries' \in Nat /\ clock' \in Clock
    <2>1. CASE UNCHANGED <<retries, clock>>
        BY <2>1 DEF TypeOK
    <2>2. CASE /\ retries' = retries + 1
               /\ clock' = [clock EXCEPT !.retry = RetryDelay(retries')]
        <3>1. retries' \in Nat \ {0}
            BY <2>2 DEF TypeOK
        <3>2. RetryDelay(retries') \in Nat
            BY <3>1, ConfigAssumption DEF RetryDelay, Smaller
        <3> QED  BY <2>2, <3>1, <3>2 DEF TypeOK, Clock
    <2> QED  BY <2>1, <2>2 DEF VenueFails, OrderFailed, ReduceOnlyRejected
<1> HIDE DEF c, kids, skipped
<1>6. PlacedOK
    BY <1>1, <1>2, KeepTypes, PlaceTypes
<1>7. cancelling' \in SUBSET (1..submitted')
    BY <1>3, <1>6 DEF PlacedOK, TypeOK
<1> QED  BY <1>3, <1>4, <1>5, <1>6, <1>7 DEF TypeOK, PlacedOK

LEMMA TickTypes == TypeOK /\ Tick => TypeOK'
<1> SUFFICES ASSUME TypeOK, Tick  PROVE TypeOK'
    OBVIOUS
<1>1. \A limit \in Nat : \A age \in {NotSet} \cup 0..limit :
         Older(age, limit) \in {NotSet} \cup 0..limit
    BY DEF Older, Smaller
<1>2. \A limit \in Nat : \A age \in 0..limit : Older(age, limit) \in 0..limit
    BY DEF Older, Smaller
<1>3. /\ clock.cycle \in {NotSet} \cup 0..TimeLimit
      /\ clock.refresh \in 0..RefreshTime
      /\ clock.retry \in Nat
      /\ clock.sweep \in {NotSet} \cup 0..RefreshTime
    BY DEF TypeOK, Clock
<1>4. clock'.cycle \in {NotSet} \cup 0..TimeLimit
    BY <1>1, <1>3, ConfigAssumption DEF Tick
<1>5. clock'.refresh \in 0..RefreshTime
    BY <1>2, <1>3, ConfigAssumption DEF Tick
<1>6. clock'.retry \in Nat
    BY <1>3 DEF Tick, Larger
<1>7. clock'.sweep \in {NotSet} \cup 0..RefreshTime
    BY <1>1, <1>3, ConfigAssumption DEF Tick
<1>8. clock' \in Clock
    BY <1>4, <1>5, <1>6, <1>7 DEF Tick, Clock
<1> QED  BY <1>8 DEF Tick, TypeOK, venue

LEMMA InitTypes == Init => TypeOK
<1> SUFFICES ASSUME Init  PROVE TypeOK
    OBVIOUS
<1>1. submitted = 0 /\ orders = [o \in 1..0 |-> 0]
    BY Zenon DEF Init
<1>2. child_idx = 1 /\ cumulative_filled = 0 /\ retries = 0 /\ faults = 0 /\ late = 0
    BY Zenon DEF Init
<1>3. clock = [cycle |-> NotSet, refresh |-> 0, retry |-> 0, sweep |-> NotSet]
    BY Zenon DEF Init
<1>4. children = [c \in Children |->
         [status |-> "IDLE", tracked |-> NoOrder, filled |-> 0, reason |-> ""]]
    BY Zenon DEF Init
<1>5. status = "NOT_STARTED" /\ close_type = "NONE" /\ cancelling = {}
    BY Zenon DEF Init
<1>6. orders \in [1..submitted -> OrderRecord]
    BY <1>1
<1>7. children \in [Children -> ChildSlot]
    BY <1>4 DEF ChildSlot, ChildStatus
<1>8. clock \in Clock
    BY <1>3, ConfigAssumption DEF Clock
<1>9. child_idx \in 1..NumChildren + 1
    BY <1>2, ChildrenFacts
<1> QED  BY <1>1, <1>2, <1>5, <1>6, <1>7, <1>8, <1>9, ConfigAssumption DEF TypeOK

\* Every action keeps the executor's fields within their types.
LEMMA NextTypes == TypeOK /\ [Next]_vars => TypeOK'
<1> SUFFICES ASSUME TypeOK, [Next]_vars  PROVE TypeOK'
    OBVIOUS
<1>1. CASE ValidateSufficientBalance
    BY <1>1 DEF ValidateSufficientBalance, TypeOK, venue
<1>2. CASE Step
    BY <1>2, StepTypes
<1>3. CASE ShutDown
    <2>1. Live \in SUBSET (1..submitted)
        BY DEF Live, TypeOK
    <2>2. clock' \in Clock /\ cancelling' \in SUBSET (1..submitted)
        <3>1. clock \in Clock /\ cancelling \in SUBSET (1..submitted)
            BY DEF TypeOK
        <3>2. [clock EXCEPT !.sweep = 0] \in Clock
            BY <3>1, ConfigAssumption DEF Clock
        <3>3. CancelAllOpen \/ UNCHANGED <<clock, cancelling>>
            BY <1>3 DEF ShutDown
        <3> QED  BY <2>1, <3>1, <3>2, <3>3 DEF CancelAllOpen
    <2>3. status' \in {"SHUTTING_DOWN", "TERMINATED"}
        BY <1>3 DEF ShutDown, CloseExecutionBy
    <2>4. close_type' = close_type \/ close_type' = FinalCloseType
        BY <1>3 DEF ShutDown, CloseExecutionBy
    <2>5. FinalCloseType \in {"FAILED", "COMPLETED", "TIME_LIMIT"}
        BY DEF FinalCloseType
    <2> QED  BY <1>3, <2>2, <2>3, <2>4, <2>5 DEF ShutDown, TypeOK
<1>4. CASE EarlyStop
    <2>1. Live \in SUBSET (1..submitted)
        BY DEF Live, TypeOK
    <2>2. clock' \in Clock /\ cancelling' \in SUBSET (1..submitted)
        <3>1. clock' = [clock EXCEPT !.sweep = 0] /\ cancelling' = Live
            BY <1>4 DEF EarlyStop, CancelAllOpen
        <3>2. clock \in Clock
            BY DEF TypeOK
        <3>3. clock' \in Clock
            BY <3>1, <3>2, ConfigAssumption DEF Clock
        <3> QED  BY <2>1, <3>1, <3>3
    <2> QED  BY <1>4, <2>2 DEF EarlyStop, TypeOK
<1>5. CASE Tick
    BY <1>5, TickTypes
<1>6. ASSUME NEW o \in 1..submitted, NEW trade \in 1..orders[o].amount, OrderFilled(o, trade)
      PROVE  TypeOK'
    BY <1>6, FilledTypes
<1>7. ASSUME NEW o \in 1..submitted, NEW amount \in 0..orders[o].amount,
             VenueCompletes(o, amount)
      PROVE  TypeOK'
    BY <1>7, CompletedTypes
<1>8. ASSUME NEW o \in 1..submitted, VenueCancels(o) \/ VenueFails(o)
      PROVE  TypeOK'
    BY <1>8, CanceledTypes, FailedTypes
<1>9. ASSUME NEW o \in 1..submitted, CancelLost(o)
      PROVE  TypeOK'
    BY <1>9, ConfigAssumption DEF CancelLost, executor, TypeOK
<1>10. CASE UNCHANGED vars
    BY <1>10 DEF vars, executor, venue, TypeOK
<1> QED
    BY <1>1, <1>2, <1>3, <1>4, <1>5, <1>6, <1>7, <1>8, <1>9, <1>10 DEF Next, ControlTask

\* The executor's fields always hold what their declarations promise; in
\* particular no order of zero or of more than the total is ever submitted.
THEOREM TypeCorrect == Spec => []TypeOK
BY InitTypes, NextTypes, PTL DEF Spec
-------------------------------------------------------------------------------
(* At most one order is working.  With TypeOK the property is inductive.   *)

AllEnded(ords) == \A p \in 1..submitted : ords[p].terminal

LEMMA KeepEnded ==
    ASSUME TypeOK, NEW ords \in [1..submitted -> OrderRecord], NEW kids,
           AllEnded(ords), KeepOrders(ords, kids)
    PROVE  OneLiveOrder' /\ Live' = {}
<1>1. DOMAIN orders' = 1..submitted /\ \A p \in 1..submitted : orders'[p].terminal
    BY DEF KeepOrders, AllEnded
<1>2. Live' = {}
    BY <1>1 DEF Live
<1> QED  BY <1>2 DEF OneLiveOrder

LEMMA SubmitAfterEnd ==
    ASSUME TypeOK, NEW ords \in [1..submitted -> OrderRecord], AllEnded(ords),
           NEW kids \in [Children -> ChildSlot], NEW c \in Children, child_idx' = c,
           NEW amount \in 1..Total, NEW st \in {"ACTIVE", "AGGRESSIVE"},
           Submit(ords, kids, c, amount, st)
    PROVE  /\ OneLiveOrder'
           /\ Live' = {submitted'}
           /\ submitted' = submitted + 1
           /\ orders'[submitted'].amount = amount
           /\ orders'[submitted'].credited = 0
<1> DEFINE record == [child |-> c, amount |-> amount, fill_sum |-> 0,
                      reported |-> 0, credited |-> 0, terminal |-> FALSE]
           id == submitted + 1
<1>1. submitted \in Nat /\ submitted' = id
    BY DEF Submit, TypeOK
<1>2. orders' = [o \in 1..id |-> IF o = id THEN record ELSE ords[o]]
    BY DEF Submit
<1>3. /\ DOMAIN orders' = 1..id
      /\ orders'[id] = record
      /\ \A p \in 1..submitted : orders'[p] = ords[p]
    BY <1>1, <1>2
<1>4. \A p \in 1..id : p = id \/ p \in 1..submitted
    BY <1>1
<1>5. Live' = {id}
    BY <1>1, <1>3, <1>4 DEF Live, AllEnded
<1>6. children' = [kids EXCEPT ![c].status = st, ![c].tracked = id]
    BY DEF Submit
<1>7. children'[c].status = st /\ children'[c].tracked = id
    BY <1>6 DEF ChildSlot
<1>8. orders'[id].child = child_idx'
    BY <1>3
<1>9. OneLiveOrder'
    BY <1>1, <1>5, <1>7, <1>8 DEF OneLiveOrder, Working
<1> QED  BY <1>1, <1>3, <1>5, <1>9

LEMMA PlaceAfterEnd ==
    ASSUME TypeOK, NEW ords \in [1..submitted -> OrderRecord], AllEnded(ords),
           NEW kids \in [Children -> ChildSlot], NEW c \in Children, child_idx' = c,
           PlaceLimit(ords, kids, c) \/ PlaceAggressive(ords, kids, c)
    PROVE  OneLiveOrder'
<1> DEFINE room == Room(ords, kids, cumulative_filled, c)
<1>1. CASE \E new : KeepOrders(ords, new)
    BY <1>1, KeepEnded
<1>2. ASSUME NEW st \in {"ACTIVE", "AGGRESSIVE"}, room > 0, Submit(ords, kids, c, room, st)
      PROVE  OneLiveOrder'
    <2>1. submitted \in Nat /\ cumulative_filled \in Nat
        BY DEF TypeOK
    <2>2. room \in Int /\ room <= Total - cumulative_filled
        BY <2>1, RoomFacts
    <2>3. room \in 1..Total
        BY <1>2, <2>1, <2>2, ConfigAssumption
    <2>4. Submit(ords, kids, c, room, st)
        BY <1>2
    <2> HIDE DEF room
    <2> QED  BY <2>3, <2>4, SubmitAfterEnd
<1> QED  BY <1>1, <1>2 DEF PlaceLimit, PlaceAggressive

\* A step that looks at a child that is not working finds every order ended.
LEMMA IdleMeansEnded ==
    ASSUME TypeOK, OneLiveOrder, NEW i \in child_idx..NumChildren + 1, IsNextIdx(i),
           i <= NumChildren => children[i].status \notin Working
    PROVE  AllEnded(orders)
<1> SUFFICES ASSUME NEW p \in 1..submitted, ~orders[p].terminal  PROVE FALSE
    BY DEF AllEnded
<1>1. p \in Live
    BY DEF Live, TypeOK
<1>2. orders[p].child = child_idx /\ children[child_idx].status \in Working
    BY <1>1 DEF OneLiveOrder
<1>3. child_idx \in 1..NumChildren /\ i \in Int
    <2>1. orders[p].child \in 1..NumChildren
        BY OrderFacts DEF Children
    <2> QED  BY <1>2, <2>1, ChildrenFacts
<1>4. CASE i = child_idx
    BY <1>2, <1>3, <1>4
<1>5. CASE i > child_idx
    <2>1. child_idx \in child_idx..i - 1
        BY <1>3, <1>5
    <2>2. children[child_idx].status \in TerminalStatus
        BY <2>1 DEF IsNextIdx
    <2> QED  BY <1>2, <2>2 DEF Working, TerminalStatus
<1> QED  BY <1>3, <1>4, <1>5

\* When the child that is looked at is working, the step stays with that child.
LEMMA WorkingStays ==
    ASSUME TypeOK, OneLiveOrder, NEW i \in child_idx..NumChildren + 1, IsNextIdx(i)
    PROVE  i = child_idx \/ AllEnded(orders)
<1> SUFFICES ASSUME NEW p \in 1..submitted, ~orders[p].terminal  PROVE i = child_idx
    BY DEF AllEnded
<1>1. p \in Live
    BY DEF Live, TypeOK
<1>2. orders[p].child = child_idx /\ children[child_idx].status \in Working
    BY <1>1 DEF OneLiveOrder
<1>3. child_idx \in 1..NumChildren /\ i \in Int
    <2>1. orders[p].child \in 1..NumChildren
        BY OrderFacts DEF Children
    <2> QED  BY <1>2, <2>1, ChildrenFacts
<1>4. CASE i > child_idx
    <2>1. child_idx \in child_idx..i - 1
        BY <1>3, <1>4
    <2>2. children[child_idx].status \in TerminalStatus
        BY <2>1 DEF IsNextIdx
    <2> QED  BY <1>2, <2>2 DEF Working, TerminalStatus
<1> QED  BY <1>3, <1>4

\* An event that ends a child's current order, and may, ends the only live one.
LEMMA EndMeansEnded ==
    ASSUME TypeOK, OneLiveOrder, NEW o \in 1..submitted, MayEnd(o), IsActive(o)
    PROVE  AllEnded(EndOrder(o)) /\ orders[o].child = child_idx /\ o \in Live
<1>1. ~orders[o].terminal
    BY DEF MayEnd, IsActive
<1>2. o \in Live
    BY <1>1 DEF Live, TypeOK
<1>3. \A p \in 1..submitted : ~orders[p].terminal => p = o
    BY <1>2 DEF OneLiveOrder, Live, TypeOK
<1>4. AllEnded(EndOrder(o))
    BY <1>3, OrderFacts DEF AllEnded
<1> QED  BY <1>2, <1>4 DEF OneLiveOrder

\* A repeated end of an order that is no child's current one changes no record.
LEMMA RetiredEndChangesNothing ==
    ASSUME TypeOK, OneLiveOrder, NEW o \in 1..submitted, ~IsActive(o)
    PROVE  EndOrder(o) = orders /\ orders[o].terminal
<1>1. orders[o].terminal
    <2> SUFFICES ASSUME ~orders[o].terminal  PROVE FALSE
        OBVIOUS
    <2>1. o \in Live
        BY DEF Live, TypeOK
    <2> QED  BY <2>1 DEF OneLiveOrder, IsActive
<1>2. orders \in [1..submitted -> OrderRecord] /\ orders[o] \in OrderRecord
    BY DEF TypeOK
<1>3. [orders[o] EXCEPT !.terminal = TRUE] = orders[o]
    BY <1>1, <1>2 DEF OrderRecord
<1>4. EndOrder(o) = [orders EXCEPT ![o] = [orders[o] EXCEPT !.terminal = TRUE]]
    BY DEF EndOrder
<1> QED  BY <1>1, <1>2, <1>3, <1>4

\* Nothing about which order is live changes.
LEMMA LiveUnchanged ==
    ASSUME OneLiveOrder, UNCHANGED <<orders, children, child_idx>>
    PROVE  OneLiveOrder'
BY DEF OneLiveOrder, Live

\* Crediting lots touches neither a child's status nor its order.
LEMMA FillKidsKeeps ==
    ASSUME TypeOK, NEW o \in 1..submitted, NEW gain \in Nat
    PROVE  \A c \in Children : /\ FillKids(o, gain)[c].status = children[c].status
                               /\ FillKids(o, gain)[c].tracked = children[c].tracked
<1> SUFFICES ASSUME NEW c \in Children
             PROVE  /\ FillKids(o, gain)[c].status = children[c].status
                    /\ FillKids(o, gain)[c].tracked = children[c].tracked
    OBVIOUS
<1>1. children \in [Children -> ChildSlot] /\ children[c] \in ChildSlot
    BY DEF TypeOK
<1>2. CASE c = orders[o].child
    <2>1. FillKids(o, gain)[c] = [children[c] EXCEPT !.filled = @ + gain]
        BY <1>1, <1>2 DEF FillKids
    <2> QED  BY <1>1, <2>1 DEF ChildSlot
<1>3. CASE c # orders[o].child
    <2>1. FillKids(o, gain)[c] = children[c]
        BY <1>1, <1>3 DEF FillKids
    <2> QED  BY <2>1
<1> QED  BY <1>2, <1>3

LEMMA StepOneLive == TypeOK /\ OneLiveOrder /\ Step => OneLiveOrder'
<1> SUFFICES ASSUME TypeOK, OneLiveOrder,
                    NEW i \in child_idx..NumChildren + 1, child_idx' = i, IsNextIdx(i),
                    \/ i > NumChildren /\ StepAllTerminal
                    \/ i <= NumChildren /\ (StepIdle(i) \/ StepActive(i) \/ StepWait(i))
             PROVE  OneLiveOrder'
    BY DEF Step
<1>1. orders \in [1..submitted -> OrderRecord] /\ children \in [Children -> ChildSlot]
    BY DEF TypeOK
<1>2. i <= NumChildren => i \in Children
    BY ChildrenFacts DEF Children, TypeOK
<1>3. ASSUME AllEnded(orders), UNCHANGED <<orders, submitted, late>>
      PROVE  OneLiveOrder'
    <2>1. KeepOrders(orders, children')
        BY <1>3 DEF KeepOrders
    <2> QED  BY <1>1, <1>3, <2>1, KeepEnded
<1>4. CASE i > NumChildren /\ StepAllTerminal
    <2>1. ~(i <= NumChildren)
        BY <1>4, ChildrenFacts DEF TypeOK
    <2>2. AllEnded(orders)
        BY <2>1, IdleMeansEnded
    <2> QED  BY <1>3, <1>4, <2>2 DEF StepAllTerminal
<1>5. CASE i <= NumChildren /\ StepIdle(i)
    <2>1. children[i].status \notin Working
        BY <1>5 DEF StepIdle, Working
    <2>2. AllEnded(orders)
        BY <2>1, IdleMeansEnded
    <2>3. PlaceLimit(orders, children, i) \/ \E kids : KeepOrders(orders, kids)
        BY <1>5 DEF StepIdle
    <2> QED  BY <1>1, <1>2, <1>5, <2>2, <2>3, PlaceAfterEnd, KeepEnded
<1>6. CASE i <= NumChildren /\ (StepActive(i) \/ StepWait(i))
    <2>1. UNCHANGED <<orders, submitted, late>>
        BY <1>6 DEF StepActive, StepWait
    <2>2. CASE i = child_idx
        <3>1. i \in Children
            BY <1>2, <1>6
        <3>2. \/ children' = children
              \/ \E reason : children' = [children EXCEPT ![i].status = "CANCELING",
                                                          ![i].reason = reason]
            BY <1>6 DEF StepActive, StepWait, CancelChild
        <3>3. /\ children'[i].tracked = children[i].tracked
              /\ children'[i].status \in {children[i].status, "CANCELING"}
            BY <1>1, <3>1, <3>2 DEF ChildSlot
        <3>4. Live' = Live
            BY <2>1 DEF Live
        <3> QED  BY <2>1, <2>2, <3>3, <3>4 DEF OneLiveOrder, Working
    <2> QED  BY <1>3, <2>1, <2>2, WorkingStays
<1> QED  BY <1>4, <1>5, <1>6

LEMMA FilledOneLive ==
    ASSUME TypeOK, OneLiveOrder, NEW o \in 1..submitted, NEW trade \in 1..orders[o].amount,
           OrderFilled(o, trade)
    PROVE  OneLiveOrder'
<1> DEFINE r == orders[o]
           counted == IF Repeated(r, trade) THEN r ELSE [r EXCEPT !.fill_sum = @ + 1]
           kids == FillKids(o, Gain(counted))
<1>1. r \in OrderRecord
    BY OrderFacts
<1>2. /\ counted \in OrderRecord
      /\ counted.child = r.child
      /\ counted.terminal = r.terminal
    BY <1>1 DEF OrderRecord
<1>3. /\ Gain(counted) \in Nat
      /\ Credit(counted).child = r.child
      /\ Credit(counted).terminal = r.terminal
    BY <1>2, CreditFacts
<1> HIDE DEF counted
<1>4. \A c \in Children : kids[c].status = children[c].status /\ kids[c].tracked = children[c].tracked
    BY <1>3, FillKidsKeeps
<1>5. kids \in [Children -> ChildSlot]
    BY <1>3, FillKidsTypes
<1> HIDE DEF kids
<1>6. /\ orders' = [orders EXCEPT ![o] = Credit(counted)]
      /\ child_idx' = child_idx
      /\ \/ child_idx <= NumChildren /\ CancelChild(kids, child_idx, "refresh")
         \/ children' = kids
    BY DEF OrderFilled, counted, kids, Oversized
<1>7. /\ DOMAIN orders' = DOMAIN orders
      /\ \A p \in DOMAIN orders : orders'[p].child = orders[p].child
                                  /\ orders'[p].terminal = orders[p].terminal
    BY <1>3, <1>6 DEF TypeOK
<1>8. Live' = Live
    BY <1>7 DEF Live
<1>9. ASSUME child_idx \in Children
      PROVE  /\ children'[child_idx].tracked = children[child_idx].tracked
             /\ children'[child_idx].status \in {children[child_idx].status, "CANCELING"}
    <2>1. \/ children' = kids
          \/ children' = [kids EXCEPT ![child_idx].status = "CANCELING",
                                      ![child_idx].reason = "refresh"]
        BY <1>6 DEF CancelChild
    <2> QED  BY <1>4, <1>5, <1>9, <2>1 DEF ChildSlot
<1> SUFFICES ASSUME NEW p \in Live
             PROVE  /\ orders'[p].child = child_idx'
                    /\ children'[child_idx'].tracked = p
                    /\ children'[child_idx'].status \in Working
    BY <1>8 DEF OneLiveOrder
<1>10. p \in 1..submitted /\ orders[p].child = child_idx
    BY DEF OneLiveOrder, Live, TypeOK
<1>11. child_idx \in Children
    BY <1>10, OrderFacts
<1> QED  BY <1>6, <1>7, <1>9, <1>10, <1>11 DEF OneLiveOrder, Live, Working

LEMMA CompletedOneLive ==
    ASSUME TypeOK, OneLiveOrder, NEW o \in 1..submitted, NEW amount \in 0..orders[o].amount,
           VenueCompletes(o, amount)
    PROVE  OneLiveOrder'
<1> DEFINE r == orders[o]
           ended == [r EXCEPT !.terminal = TRUE, !.reported = Larger(@, amount)]
           kids == FillKids(o, Gain(ended))
<1>1. r \in OrderRecord /\ r.child \in Children
    BY OrderFacts
<1>2. /\ ended \in OrderRecord
      /\ ended.child = r.child
      /\ ended.terminal
    <2>1. Larger(r.reported, amount) \in Nat
        BY <1>1 DEF OrderRecord, Larger
    <2> QED  BY <1>1, <2>1 DEF OrderRecord
<1>3. /\ Gain(ended) \in Nat
      /\ Credit(ended).child = r.child
      /\ Credit(ended).terminal
    BY <1>2, CreditFacts
<1> HIDE DEF ended
<1>4. \A c \in Children : kids[c].status = children[c].status /\ kids[c].tracked = children[c].tracked
    BY <1>3, FillKidsKeeps
<1>5. kids \in [Children -> ChildSlot]
    BY <1>3, FillKidsTypes
<1> HIDE DEF kids
<1>6. /\ orders' = [orders EXCEPT ![o] = Credit(ended)]
      /\ child_idx' = child_idx
      /\ children' = IF IsActive(o) THEN [kids EXCEPT ![r.child].status = "DONE"] ELSE kids
    BY DEF VenueCompletes, OrderCompleted, ended, kids
<1>7. /\ DOMAIN orders' = DOMAIN orders
      /\ orders'[o].terminal
      /\ \A p \in DOMAIN orders : /\ orders'[p].child = orders[p].child
                                  /\ p # o => orders'[p] = orders[p]
    BY <1>3, <1>6 DEF TypeOK
<1>8. \A p \in Live' : p \in Live /\ p # o
    BY <1>7 DEF Live
<1> SUFFICES ASSUME NEW p \in Live'
             PROVE  /\ orders'[p].child = child_idx'
                    /\ children'[child_idx'].tracked = p
                    /\ children'[child_idx'].status \in Working
    BY <1>8 DEF OneLiveOrder
<1>9. p \in Live /\ p # o /\ p \in 1..submitted
    BY <1>8 DEF Live, TypeOK
<1>10. /\ orders[p].child = child_idx
       /\ children[child_idx].tracked = p
       /\ children[child_idx].status \in Working
    BY <1>9 DEF OneLiveOrder
<1>11. child_idx \in Children
    BY <1>9, <1>10, OrderFacts
<1>12. IsActive(o) => r.child # child_idx
    BY <1>9, <1>10 DEF IsActive
<1>13. children'[child_idx] = kids[child_idx]
    BY <1>1, <1>5, <1>6, <1>11, <1>12
<1>14. orders'[p].child = child_idx
    BY <1>7, <1>9, <1>10 DEF Live
<1> HIDE DEF r
<1> QED  BY <1>4, <1>6, <1>10, <1>11, <1>13, <1>14

LEMMA EndedOneLive ==
    ASSUME TypeOK, OneLiveOrder, NEW o \in 1..submitted, VenueCancels(o) \/ VenueFails(o)
    PROVE  OneLiveOrder'
<1> DEFINE c == orders[o].child
<1>1. MayEnd(o) /\ child_idx' = child_idx
    BY DEF VenueCancels, VenueFails, OrderCanceled, OrderFailed, ReduceOnlyRejected
<1>2. CASE ~IsActive(o)
    <2>1. KeepOrders(EndOrder(o), children)
        BY <1>2 DEF VenueCancels, VenueFails, OrderCanceled, OrderFailed, ReduceOnlyRejected
    <2> QED  BY <1>1, <1>2, <2>1, RetiredEndChangesNothing, LiveUnchanged DEF KeepOrders
<1>3. CASE IsActive(o)
    <2>1. AllEnded(EndOrder(o)) /\ c = child_idx
        BY <1>1, <1>3, EndMeansEnded
    <2>2. c \in Children /\ EndOrder(o) \in [1..submitted -> OrderRecord]
        BY OrderFacts
    <2>3. \/ \E kids : KeepOrders(EndOrder(o), kids)
          \/ PlaceAggressive(EndOrder(o), [children EXCEPT ![c].tracked = NoOrder], c)
          \/ PlaceAggressive(EndOrder(o),
                [children EXCEPT ![c].tracked = NoOrder, ![c].status = "IDLE"], c)
        BY <1>3 DEF VenueCancels, VenueFails, OrderCanceled, OrderFailed, ReduceOnlyRejected
    <2>4. /\ [children EXCEPT ![c].tracked = NoOrder] \in [Children -> ChildSlot]
          /\ [children EXCEPT ![c].tracked = NoOrder, ![c].status = "IDLE"]
               \in [Children -> ChildSlot]
        BY OrderFacts DEF ChildStatus
    <2> HIDE DEF c
    <2> QED  BY <1>1, <2>1, <2>2, <2>3, <2>4, KeepEnded, PlaceAfterEnd
<1> QED  BY <1>2, <1>3

LEMMA NextOneLive == TypeOK /\ OneLiveOrder /\ [Next]_vars => OneLiveOrder'
<1> SUFFICES ASSUME TypeOK, OneLiveOrder, [Next]_vars  PROVE OneLiveOrder'
    OBVIOUS
<1>1. CASE ValidateSufficientBalance \/ ShutDown \/ EarlyStop \/ Tick \/ UNCHANGED vars
    <2>1. UNCHANGED <<orders, children, child_idx>>
        BY <1>1 DEF ValidateSufficientBalance, ShutDown, EarlyStop, Tick, vars, executor
    <2> QED  BY <2>1, LiveUnchanged
<1>2. CASE Step
    BY <1>2, StepOneLive
<1>3. ASSUME NEW o \in 1..submitted, CancelLost(o)
      PROVE  OneLiveOrder'
    BY <1>3, LiveUnchanged DEF CancelLost, executor
<1>4. ASSUME NEW o \in 1..submitted, NEW trade \in 1..orders[o].amount, OrderFilled(o, trade)
      PROVE  OneLiveOrder'
    BY <1>4, FilledOneLive
<1>5. ASSUME NEW o \in 1..submitted, NEW amount \in 0..orders[o].amount,
             VenueCompletes(o, amount)
      PROVE  OneLiveOrder'
    BY <1>5, CompletedOneLive
<1>6. ASSUME NEW o \in 1..submitted, VenueCancels(o) \/ VenueFails(o)
      PROVE  OneLiveOrder'
    BY <1>6, EndedOneLive
<1> QED  BY <1>1, <1>2, <1>3, <1>4, <1>5, <1>6 DEF Next, ControlTask

LEMMA InitOneLive == Init => OneLiveOrder
<1> SUFFICES ASSUME Init  PROVE OneLiveOrder
    OBVIOUS
<1>1. orders = [o \in 1..0 |-> 0]
    BY Zenon DEF Init
<1>2. Live = {}
    BY <1>1 DEF Live
<1> QED  BY <1>2 DEF OneLiveOrder

\* However the venue delays, repeats and reorders its events, at most one order
\* of the executor is working, and it is the tracked order of the current child.
THEOREM AtMostOneLiveOrder == Spec => []OneLiveOrder
<1>1. Init => TypeOK /\ OneLiveOrder
    BY InitTypes, InitOneLive
<1>2. TypeOK /\ OneLiveOrder /\ [Next]_vars => TypeOK' /\ OneLiveOrder'
    BY NextTypes, NextOneLive
<1> QED  BY <1>1, <1>2, PTL DEF Spec
-------------------------------------------------------------------------------
(* No order after a stop: only a running executor submits.                 *)

\* What the order helpers submit, they submit while RUNNING.
LEMMA SubmitOnlyRunning ==
    ASSUME status # "RUNNING", [Next]_vars
    PROVE  submitted' = submitted
<1>1. CASE UNCHANGED vars
    BY <1>1 DEF vars, executor
<1>2. ASSUME NEW ords, NEW kids, NEW c, PlaceAggressive(ords, kids, c)
      PROVE  submitted' = submitted
    BY <1>2 DEF PlaceAggressive, KeepOrders
<1>3. CASE ValidateSufficientBalance \/ ShutDown \/ EarlyStop \/ Tick
    BY <1>3 DEF ValidateSufficientBalance, ShutDown, EarlyStop, Tick
<1>4. CASE Step
    BY <1>4 DEF Step
<1>5. ASSUME NEW o \in 1..submitted,
             \/ \E trade \in 1..orders[o].amount : OrderFilled(o, trade)
             \/ \E amount \in 0..orders[o].amount : VenueCompletes(o, amount)
             \/ CancelLost(o)
      PROVE  submitted' = submitted
    BY <1>5 DEF OrderFilled, VenueCompletes, OrderCompleted, CancelLost, executor
<1>6. ASSUME NEW o \in 1..submitted, VenueCancels(o) \/ VenueFails(o)
      PROVE  submitted' = submitted
    BY <1>2, <1>6 DEF VenueCancels, VenueFails, OrderCanceled, OrderFailed,
                      ReduceOnlyRejected, KeepOrders
<1> QED  BY <1>1, <1>3, <1>4, <1>5, <1>6 DEF Next, ControlTask

\* A stop, or the end, is never followed by an order, whichever handler runs.
THEOREM NothingAfterStop == Spec => NoSubmitAfterStop
<1>1. [Next]_vars => [status # "RUNNING" => submitted' = submitted]_vars
    BY SubmitOnlyRunning
<1> QED  BY <1>1, PTL DEF Spec, NoSubmitAfterStop
-------------------------------------------------------------------------------
(* No double count: an order is credited at most what it was sent for,     *)
(* because its distinct trades and each completion are.                    *)

RecordOK(r) == /\ r.fill_sum <= r.amount
               /\ r.reported <= r.amount
               /\ r.credited <= r.amount

RecordsOK == \A o \in 1..submitted : RecordOK(orders[o])

LEMMA CreditKeepsRecord ==
    ASSUME NEW r \in OrderRecord, RecordOK(r)
    PROVE  RecordOK(Credit(r))
BY DEF RecordOK, Credit, Larger, OrderRecord

LEMMA EndKeepsRecords ==
    ASSUME TypeOK, RecordsOK, NEW o \in 1..submitted
    PROVE  \A p \in 1..submitted : RecordOK(EndOrder(o)[p])
BY DEF TypeOK, RecordsOK, RecordOK, EndOrder, OrderRecord

LEMMA SubmitKeepsRecords ==
    ASSUME TypeOK, NEW ords \in [1..submitted -> OrderRecord],
           \A p \in 1..submitted : RecordOK(ords[p]),
           NEW kids \in [Children -> ChildSlot], NEW c \in Children,
           PlaceLimit(ords, kids, c) \/ PlaceAggressive(ords, kids, c)
    PROVE  RecordsOK'
<1> DEFINE room == Room(ords, kids, cumulative_filled, c)
<1>1. ASSUME NEW new, KeepOrders(ords, new)
      PROVE  RecordsOK'
    BY <1>1 DEF KeepOrders, RecordsOK
<1>2. ASSUME NEW st, room > 0, Submit(ords, kids, c, room, st)
      PROVE  RecordsOK'
    <2> DEFINE id == submitted + 1
               record == [child |-> c, amount |-> room, fill_sum |-> 0,
                          reported |-> 0, credited |-> 0, terminal |-> FALSE]
    <2>1. submitted \in Nat /\ cumulative_filled \in Nat
        BY DEF TypeOK
    <2>2. room \in Int
        BY <2>1, RoomFacts
    <2> HIDE DEF room
    <2>3. RecordOK(record)
        BY <1>2, <2>2 DEF RecordOK
    <2>4. submitted' = id /\ orders' = [o \in 1..id |-> IF o = id THEN record ELSE ords[o]]
        BY <1>2 DEF Submit
    <2> HIDE DEF record
    <2> SUFFICES ASSUME NEW p \in 1..id  PROVE RecordOK(orders'[p])
        BY <2>4 DEF RecordsOK
    <2>5. p = id \/ p \in 1..submitted
        BY <2>1
    <2> QED  BY <2>3, <2>4, <2>5
<1> QED  BY <1>1, <1>2 DEF PlaceLimit, PlaceAggressive

\* An event credits order o with what its record says once it is r.
Credits(o, r) ==
    /\ r \in OrderRecord
    /\ RecordOK(r)
    /\ r.credited = orders[o].credited
    /\ r.amount = orders[o].amount
    /\ r.child = orders[o].child
    /\ orders[o].terminal => r.terminal
    /\ orders' = [orders EXCEPT ![o] = Credit(r)]
    /\ cumulative_filled' = cumulative_filled + Gain(r)
    /\ late' = IF orders[o].terminal THEN late + Gain(r) ELSE late
    /\ submitted' = submitted
    /\ status' = status
    /\ Attached
    /\ \A c \in Children :
          children'[c].filled
             = IF c = orders[o].child THEN children[c].filled + Gain(r) ELSE children[c].filled

\* What _credit() does to the children, and that nothing after it changes it.
LEMMA FillKidsCredits ==
    ASSUME TypeOK, NEW o \in 1..submitted, NEW gain \in Nat, NEW kids, NEW d,
           kids = FillKids(o, gain),
           \/ children' = kids
           \/ children' = [kids EXCEPT ![d].status = "DONE"]
           \/ children' = [kids EXCEPT ![d].status = "CANCELING", ![d].reason = "refresh"]
    PROVE  \A c \in Children :
              children'[c].filled
                 = IF c = orders[o].child THEN children[c].filled + gain
                   ELSE children[c].filled
<1>1. children \in [Children -> ChildSlot] /\ kids \in [Children -> ChildSlot]
    BY FillKidsTypes DEF TypeOK
<1>2. ASSUME NEW c \in Children
      PROVE  kids[c].filled = IF c = orders[o].child THEN children[c].filled + gain
                              ELSE children[c].filled
    <2>1. children[c] \in ChildSlot
        BY <1>1
    <2>2. kids[c] = IF c = orders[o].child
                    THEN [children[c] EXCEPT !.filled = @ + gain] ELSE children[c]
        BY <1>1 DEF FillKids
    <2> QED  BY <2>1, <2>2 DEF ChildSlot
<1>3. ASSUME NEW c \in Children  PROVE children'[c].filled = kids[c].filled
    <2> DEFINE k == [kids EXCEPT ![d].status = "CANCELING"]
               m == [k EXCEPT ![d].reason = "refresh"]
    <2>1. kids[c] \in ChildSlot /\ c \in DOMAIN kids /\ c \in DOMAIN k
        BY <1>1
    <2>2. [kids EXCEPT ![d].status = "DONE"][c].filled = kids[c].filled
        BY <1>1, <2>1 DEF ChildSlot
    <2>3. k[c] = IF c = d THEN [kids[c] EXCEPT !.status = "CANCELING"] ELSE kids[c]
        BY <2>1
    <2>4. k[c] \in ChildSlot /\ k[c].filled = kids[c].filled
        BY <2>1, <2>3 DEF ChildSlot, ChildStatus
    <2> HIDE DEF k
    <2>5. m[c] = IF c = d THEN [k[c] EXCEPT !.reason = "refresh"] ELSE k[c]
        BY <2>1
    <2> HIDE DEF m
    <2>6. m[c].filled = kids[c].filled
        BY <2>4, <2>5 DEF ChildSlot
    <2>7. m = [kids EXCEPT ![d].status = "CANCELING", ![d].reason = "refresh"]
        BY DEF m, k
    <2> QED  BY <2>2, <2>6, <2>7
<1> QED  BY <1>2, <1>3

LEMMA FilledCredits ==
    ASSUME TypeOK, RecordsOK, NEW o \in 1..submitted, NEW trade \in 1..orders[o].amount,
           OrderFilled(o, trade)
    PROVE  \E r : Credits(o, r)
<1> DEFINE r == orders[o]
           counted == IF Repeated(r, trade) THEN r ELSE [r EXCEPT !.fill_sum = @ + 1]
<1>1. r \in OrderRecord /\ RecordOK(r)
    BY OrderFacts DEF RecordsOK
<1>2. trade <= r.amount
    BY <1>1 DEF OrderRecord
<1>3. /\ counted \in OrderRecord /\ RecordOK(counted)
      /\ counted.credited = r.credited
      /\ counted.amount = r.amount
      /\ counted.child = r.child
      /\ counted.terminal = r.terminal
    BY <1>1, <1>2 DEF Repeated, OrderRecord, RecordOK
<1>4. /\ orders' = [orders EXCEPT ![o] = Credit(counted)]
      /\ cumulative_filled' = cumulative_filled + Gain(counted)
      /\ late' = IF r.terminal THEN late + Gain(counted) ELSE late
      /\ submitted' = submitted /\ status' = status /\ Attached
      /\ LET kids == FillKids(o, Gain(counted))
         IN  children' = kids \/ CancelChild(kids, child_idx, "refresh")
    BY DEF OrderFilled
<1> HIDE DEF counted
<1>5. Gain(counted) \in Nat
    BY <1>3, CreditFacts
<1>6. \A c \in Children :
         children'[c].filled = IF c = r.child THEN children[c].filled + Gain(counted)
                               ELSE children[c].filled
    <2> DEFINE kids == FillKids(o, Gain(counted))
    <2>1. \/ children' = kids
          \/ children' = [kids EXCEPT ![child_idx].status = "CANCELING",
                                      ![child_idx].reason = "refresh"]
        BY <1>4 DEF CancelChild
    <2>2. kids = FillKids(o, Gain(counted))
        OBVIOUS
    <2> HIDE DEF kids
    <2> QED  BY <1>5, <2>1, <2>2, FillKidsCredits
<1>7. Credits(o, counted)
    BY <1>3, <1>4, <1>6 DEF Credits
<1> QED  BY <1>7

LEMMA CompletedCredits ==
    ASSUME TypeOK, RecordsOK, NEW o \in 1..submitted, NEW amount \in 0..orders[o].amount,
           VenueCompletes(o, amount)
    PROVE  \E r : Credits(o, r)
<1> DEFINE r == orders[o]
           ended == [r EXCEPT !.terminal = TRUE, !.reported = Larger(@, amount)]
<1>1. r \in OrderRecord /\ RecordOK(r)
    BY OrderFacts DEF RecordsOK
<1>2. /\ Larger(r.reported, amount) \in Nat
      /\ Larger(r.reported, amount) <= r.amount
    BY <1>1 DEF OrderRecord, RecordOK, Larger
<1>3. /\ ended \in OrderRecord /\ RecordOK(ended)
      /\ ended.credited = r.credited
      /\ ended.amount = r.amount
      /\ ended.child = r.child
      /\ ended.terminal
    BY <1>1, <1>2 DEF OrderRecord, RecordOK
<1>4. /\ orders' = [orders EXCEPT ![o] = Credit(ended)]
      /\ cumulative_filled' = cumulative_filled + Gain(ended)
      /\ late' = IF r.terminal THEN late + Gain(ended) ELSE late
      /\ submitted' = submitted /\ status' = status /\ Attached
      /\ LET kids == FillKids(o, Gain(ended))
         IN  \/ children' = kids
             \/ children' = [kids EXCEPT ![r.child].status = "DONE"]
    BY DEF VenueCompletes, OrderCompleted
<1> HIDE DEF ended
<1>5. Gain(ended) \in Nat
    BY <1>3, CreditFacts
<1>6. \A c \in Children :
         children'[c].filled = IF c = r.child THEN children[c].filled + Gain(ended)
                               ELSE children[c].filled
    <2> DEFINE kids == FillKids(o, Gain(ended))
    <2>1. kids = FillKids(o, Gain(ended))
        OBVIOUS
    <2>2. children' = kids \/ children' = [kids EXCEPT ![r.child].status = "DONE"]
        BY <1>4
    <2> HIDE DEF kids
    <2> QED  BY <1>5, <2>1, <2>2, FillKidsCredits
<1>7. Credits(o, ended)
    BY <1>3, <1>4, <1>6 DEF Credits
<1> QED  BY <1>7

LEMMA CreditRecords ==
    ASSUME TypeOK, RecordsOK, NEW o \in 1..submitted, NEW r, Credits(o, r)
    PROVE  RecordsOK'
<1>1. RecordOK(Credit(r))
    BY CreditKeepsRecord DEF Credits
<1> QED  BY <1>1 DEF Credits, RecordsOK, TypeOK

LEMMA NextRecords == TypeOK /\ RecordsOK /\ [Next]_vars => RecordsOK'
<1> SUFFICES ASSUME TypeOK, RecordsOK, [Next]_vars  PROVE RecordsOK'
    OBVIOUS
<1>1. CASE UNCHANGED <<orders, submitted>>
    BY <1>1 DEF RecordsOK
<1>2. CASE ValidateSufficientBalance \/ ShutDown \/ EarlyStop \/ Tick \/ UNCHANGED vars
    BY <1>1, <1>2 DEF ValidateSufficientBalance, ShutDown, EarlyStop, Tick, vars, executor
<1>3. CASE Step
    <2>1. PICK i \in child_idx..NumChildren + 1 :
             \/ i > NumChildren /\ StepAllTerminal
             \/ i <= NumChildren /\ (StepIdle(i) \/ StepActive(i) \/ StepWait(i))
        BY <1>3 DEF Step
    <2>2. CASE StepAllTerminal \/ StepActive(i) \/ StepWait(i)
        BY <1>1, <2>2 DEF StepAllTerminal, StepActive, StepWait
    <2>3. CASE i <= NumChildren /\ StepIdle(i)
        <3>1. i \in Children
            BY <2>3, ChildrenFacts DEF Children, TypeOK
        <3>2. PlaceLimit(orders, children, i) \/ \E kids : KeepOrders(orders, kids)
            BY <2>3 DEF StepIdle
        <3>3. CASE PlaceLimit(orders, children, i)
            BY <3>1, <3>3, SubmitKeepsRecords DEF TypeOK, RecordsOK
        <3>4. CASE \E kids : KeepOrders(orders, kids)
            BY <1>1, <3>4 DEF KeepOrders
        <3> QED  BY <3>2, <3>3, <3>4
    <2> QED  BY <2>1, <2>2, <2>3
<1>4. ASSUME NEW o \in 1..submitted, VenueCancels(o) \/ VenueFails(o)
      PROVE  RecordsOK'
    <2> DEFINE c == orders[o].child
    <2>1. \/ \E kids : KeepOrders(EndOrder(o), kids)
          \/ PlaceAggressive(EndOrder(o), [children EXCEPT ![c].tracked = NoOrder], c)
          \/ PlaceAggressive(EndOrder(o),
                [children EXCEPT ![c].tracked = NoOrder, ![c].status = "IDLE"], c)
        BY <1>4 DEF VenueCancels, VenueFails, OrderCanceled, OrderFailed, ReduceOnlyRejected
    <2>2. /\ c \in Children
          /\ EndOrder(o) \in [1..submitted -> OrderRecord]
          /\ [children EXCEPT ![c].tracked = NoOrder] \in [Children -> ChildSlot]
          /\ [children EXCEPT ![c].tracked = NoOrder, ![c].status = "IDLE"]
               \in [Children -> ChildSlot]
        BY OrderFacts DEF ChildStatus
    <2>3. \A p \in 1..submitted : RecordOK(EndOrder(o)[p])
        BY EndKeepsRecords
    <2>4. CASE \E kids : KeepOrders(EndOrder(o), kids)
        BY <2>3, <2>4 DEF KeepOrders, RecordsOK
    <2> HIDE DEF c
    <2> QED  BY <2>1, <2>2, <2>3, <2>4, SubmitKeepsRecords
<1>5. ASSUME NEW o \in 1..submitted,
             \/ \E trade \in 1..orders[o].amount : OrderFilled(o, trade)
             \/ \E amount \in 0..orders[o].amount : VenueCompletes(o, amount)
             \/ CancelLost(o)
      PROVE  RecordsOK'
    BY <1>1, <1>5, FilledCredits, CompletedCredits, CreditRecords DEF CancelLost, executor
<1> QED  BY <1>2, <1>3, <1>4, <1>5 DEF Next, ControlTask

LEMMA InitRecords == Init => RecordsOK
<1> SUFFICES ASSUME Init  PROVE RecordsOK
    OBVIOUS
<1>1. submitted = 0
    BY Zenon DEF Init
<1> QED  BY <1>1 DEF RecordsOK

\* No order counts for more than it was sent for, however often the venue
\* repeats its trades and its completion, in whatever order.
THEOREM CountedOnce == Spec => []NoDoubleCount
<1>1. Init => TypeOK /\ RecordsOK
    BY InitTypes, InitRecords
<1>2. TypeOK /\ RecordsOK /\ [Next]_vars => TypeOK' /\ RecordsOK'
    BY NextTypes, NextRecords
<1>3. TypeOK /\ RecordsOK => NoDoubleCount
    BY DEF TypeOK, RecordsOK, RecordOK, NoDoubleCount
<1> QED  BY <1>1, <1>2, <1>3, PTL DEF Spec
-------------------------------------------------------------------------------
(* The budget.  With one live order the outstanding quantity is what that  *)
(* order has not executed; a fill moves it to the total, and a new order   *)
(* is sized when nothing is outstanding.                                   *)

LEMMA EndedMeansSettled ==
    ASSUME NEW n \in Nat, NEW ords \in [1..n -> OrderRecord], \A p \in 1..n : ords[p].terminal
    PROVE  Outstanding(ords) = 0
<1>1. OutstandingLots(ords) = {}
    BY DEF OutstandingLots
<1> QED  BY <1>1, FS_EmptySet DEF Outstanding

LEMMA OneOutstanding ==
    ASSUME NEW n \in Nat, NEW ords \in [1..n -> OrderRecord], NEW o \in 1..n,
           ~ords[o].terminal, \A p \in 1..n : p # o => ords[p].terminal,
           RecordOK(ords[o])
    PROVE  Outstanding(ords) = ords[o].amount - ords[o].credited
<1> DEFINE k == ords[o].amount - ords[o].credited
<1>1. ords[o] \in OrderRecord
    OBVIOUS
<1>2. k \in 0..Total
    <2>1. ords[o].amount \in 1..Total /\ ords[o].credited \in Nat
        BY <1>1 DEF OrderRecord
    <2>2. ords[o].credited <= ords[o].amount
        BY DEF RecordOK
    <2> QED  BY <2>1, <2>2, ConfigAssumption
<1> HIDE DEF k
<1>3. OutstandingLots(ords) = {o} \X (1..k)
    <2>1. ASSUME NEW lot \in OutstandingLots(ords)  PROVE lot \in {o} \X (1..k)
        <3>1. /\ lot \in (1..n) \X (1..Total)
              /\ ~ords[lot[1]].terminal
              /\ lot[2] <= ords[lot[1]].amount - ords[lot[1]].credited
            BY <2>1 DEF OutstandingLots
        <3>2. lot[1] = o
            BY <3>1
        <3>3. lot[2] \in 1..k
            BY <1>2, <3>1, <3>2 DEF k
        <3> QED  BY <3>1, <3>2, <3>3
    <2>2. ASSUME NEW lot \in {o} \X (1..k)  PROVE lot \in OutstandingLots(ords)
        <3>1. lot[1] = o /\ lot[2] \in 1..k /\ lot = <<lot[1], lot[2]>>
            OBVIOUS
        <3>2. lot[2] \in 1..Total /\ lot[2] <= k
            BY <1>2, <3>1, ConfigAssumption
        <3> QED  BY <3>1, <3>2 DEF OutstandingLots, k
    <2> QED  BY <2>1, <2>2
<1>4. IsFiniteSet({o}) /\ Cardinality({o}) = 1
    BY FS_Singleton
<1>5. IsFiniteSet(1..k) /\ Cardinality(1..k) = k
    <2>1. k \in Nat /\ k \in Int /\ 1 \in Int
        BY <1>2, ConfigAssumption
    <2>2. /\ IsFiniteSet(1..k)
          /\ Cardinality(1..k) = IF 1 > k THEN 0 ELSE k - 1 + 1
        BY <2>1, FS_Interval
    <2> QED  BY <2>1, <2>2
<1>6. Cardinality({o} \X (1..k)) = Cardinality({o}) * Cardinality(1..k)
    BY <1>4, <1>5, FS_Product, Zenon
<1>7. Cardinality({o} \X (1..k)) = k
    <2>1. 1 * k = k
        BY <1>2
    <2> QED  BY <1>4, <1>5, <1>6, <2>1
<1> QED  BY <1>3, <1>7 DEF Outstanding, k

\* The variables that Budget reads, and their types.
LEMMA BudgetTypes ==
    ASSUME TypeOK
    PROVE  /\ cumulative_filled \in Nat
           /\ late \in Nat
           /\ submitted \in Nat
           /\ orders \in [1..submitted -> OrderRecord]
           /\ Outstanding(orders) \in Nat
BY OutstandingIsNat DEF TypeOK

LEMMA KeepBudget ==
    ASSUME TypeOK, Budget, NEW ords \in [1..submitted -> OrderRecord], NEW kids,
           AllEnded(ords), KeepOrders(ords, kids), cumulative_filled' = cumulative_filled
    PROVE  Budget'
<1>1. Outstanding(ords) = 0
    BY BudgetTypes, EndedMeansSettled DEF AllEnded
<1>2. orders' = ords /\ late' = late
    BY DEF KeepOrders
<1> QED  BY <1>1, <1>2, BudgetTypes, ConfigAssumption DEF Budget

\* A submission when every order has ended leaves its amount outstanding.
LEMMA SubmitOutstanding ==
    ASSUME TypeOK, NEW ords \in [1..submitted -> OrderRecord], AllEnded(ords),
           NEW kids, NEW c \in Children, NEW amount \in 1..Total, NEW st,
           Submit(ords, kids, c, amount, st)
    PROVE  Outstanding(orders)' = amount /\ late' = 0
<1> DEFINE id == submitted + 1
           record == [child |-> c, amount |-> amount, fill_sum |-> 0,
                      reported |-> 0, credited |-> 0, terminal |-> FALSE]
<1>1. submitted \in Nat
    BY BudgetTypes
<1>2. record \in OrderRecord /\ RecordOK(record)
    BY ConfigAssumption DEF OrderRecord, RecordOK
<1>3. record.amount = amount /\ record.credited = 0 /\ ~record.terminal
    OBVIOUS
<1>4. late' = 0 /\ orders' = [o \in 1..id |-> IF o = id THEN record ELSE ords[o]]
    BY DEF Submit
<1> HIDE DEF record
<1>5. /\ id \in Nat /\ id \in 1..id
      /\ \A p \in 1..id : p # id => p \in 1..submitted
      /\ orders' \in [1..id -> OrderRecord]
    BY <1>1, <1>2, <1>4
<1>6. orders'[id] = record /\ \A p \in 1..id : p # id => orders'[p].terminal
    BY <1>4, <1>5 DEF AllEnded
<1>7. Outstanding(orders') = orders'[id].amount - orders'[id].credited
    BY <1>2, <1>3, <1>5, <1>6, OneOutstanding
<1>8. Outstanding(orders') = amount
    BY <1>3, <1>6, <1>7
<1>9. Outstanding(orders)' = amount
    BY <1>8 DEF Outstanding, OutstandingLots
<1> QED  BY <1>4, <1>9

LEMMA PlaceBudget ==
    ASSUME TypeOK, Budget, NEW ords \in [1..submitted -> OrderRecord], AllEnded(ords),
           NEW kids \in [Children -> ChildSlot], NEW c \in Children,
           PlaceLimit(ords, kids, c) \/ PlaceAggressive(ords, kids, c),
           cumulative_filled' = cumulative_filled
    PROVE  Budget'
<1> DEFINE room == Room(ords, kids, cumulative_filled, c)
<1>1. CASE \E new : KeepOrders(ords, new)
    BY <1>1, KeepBudget
<1>2. ASSUME NEW st, room > 0, Submit(ords, kids, c, room, st)
      PROVE  Budget'
    <2>1. room \in 1..Total /\ cumulative_filled + room <= Total
        <3>1. room \in Int /\ room <= Total - cumulative_filled /\ cumulative_filled \in Nat
            BY BudgetTypes, RoomFacts
        <3> QED  BY <1>2, <3>1, ConfigAssumption
    <2> HIDE DEF room
    <2>2. Outstanding(orders)' = room /\ late' = 0
        BY <1>2, <2>1, SubmitOutstanding
    <2> QED  BY <2>1, <2>2, ConfigAssumption DEF Budget
<1> QED  BY <1>1, <1>2 DEF PlaceLimit, PlaceAggressive

\* An event about one order moves lots from the outstanding quantity to the
\* total, unless the order had ended: then they come on top.
LEMMA CreditMoves ==
    ASSUME TypeOK, OneLiveOrder, RecordsOK, NEW o \in 1..submitted, NEW r, Credits(o, r)
    PROVE  /\ Gain(r) \in 0..Total
           /\ Outstanding(orders)' \in Nat
           /\ orders[o].terminal => Outstanding(orders)' = Outstanding(orders)
           /\ ~orders[o].terminal => Gain(r) <= Outstanding(orders)
           /\ ~orders[o].terminal /\ ~r.terminal =>
                 Outstanding(orders)' = Outstanding(orders) - Gain(r)
           /\ ~orders[o].terminal /\ r.terminal => Outstanding(orders)' = 0
<1> DEFINE new == [orders EXCEPT ![o] = Credit(r)]
<1>0. /\ r \in OrderRecord /\ RecordOK(r)
      /\ r.credited = orders[o].credited /\ r.amount = orders[o].amount
      /\ orders[o].terminal => r.terminal
      /\ orders' = new
    BY DEF Credits
<1>1. /\ submitted \in Nat
      /\ orders \in [1..submitted -> OrderRecord]
      /\ Outstanding(orders) \in Nat
    BY BudgetTypes
<1>2. /\ Credit(r) \in OrderRecord
      /\ Gain(r) \in Nat
      /\ Credit(r).credited = r.credited + Gain(r)
      /\ Credit(r).amount = r.amount
      /\ Credit(r).terminal = r.terminal
    BY <1>0, CreditFacts
<1>3. RecordOK(Credit(r))
    BY <1>0, CreditKeepsRecord
<1>4. new \in [1..submitted -> OrderRecord] /\ new[o] = Credit(r)
    BY <1>1, <1>2
<1>5. \A p \in 1..submitted : p # o => new[p] = orders[p]
    BY <1>1
<1> HIDE DEF new
<1>6. Outstanding(orders)' = Outstanding(new)
    BY <1>0 DEF Outstanding, OutstandingLots
<1>7. Outstanding(new) \in Nat
    BY <1>1, <1>4, OutstandingIsNat
<1>8. Gain(r) <= r.amount - r.credited /\ r.amount \in 1..Total /\ r.credited \in Nat
    BY <1>0, <1>2, <1>3 DEF RecordOK, OrderRecord
<1>9. Gain(r) \in 0..Total
    BY <1>2, <1>8, ConfigAssumption
<1>10. CASE orders[o].terminal
    <2>1. \A p \in 1..submitted : /\ new[p].terminal <=> orders[p].terminal
                                  /\ ~orders[p].terminal => new[p] = orders[p]
        BY <1>0, <1>2, <1>4, <1>5, <1>10
    <2>2. OutstandingLots(new) = OutstandingLots(orders)
        BY <1>1, <1>4, <2>1 DEF OutstandingLots
    <2>3. Outstanding(new) = Outstanding(orders)
        BY <2>2 DEF Outstanding
    <2> QED  BY <1>6, <1>7, <1>9, <1>10, <2>3
<1>11. CASE ~orders[o].terminal
    <2>1. o \in Live
        BY <1>1, <1>11 DEF Live
    <2>2. \A p \in 1..submitted : p # o => orders[p].terminal
        BY <1>1, <2>1 DEF OneLiveOrder, Live
    <2>3. RecordOK(orders[o])
        BY DEF RecordsOK
    <2>4. Outstanding(orders) = r.amount - r.credited
        BY <1>0, <1>1, <1>11, <2>2, <2>3, OneOutstanding
    <2>5. ASSUME r.terminal  PROVE Outstanding(new) = 0
        BY <1>1, <1>2, <1>4, <1>5, <2>2, <2>5, EndedMeansSettled
    <2>6. ASSUME ~r.terminal  PROVE Outstanding(new) = Outstanding(orders) - Gain(r)
        <3>1. Outstanding(new) = Credit(r).amount - Credit(r).credited
            BY <1>1, <1>2, <1>3, <1>4, <1>5, <2>2, <2>6, OneOutstanding
        <3> QED  BY <1>2, <1>8, <2>4, <3>1
    <2> QED  BY <1>6, <1>7, <1>8, <1>9, <1>11, <2>4, <2>5, <2>6
<1> QED  BY <1>10, <1>11

LEMMA CreditBudget ==
    ASSUME TypeOK, OneLiveOrder, RecordsOK, Budget, NEW o \in 1..submitted,
           NEW r, Credits(o, r)
    PROVE  Budget'
<1>1. /\ cumulative_filled \in Nat /\ late \in Nat /\ Total \in Nat
      /\ Outstanding(orders) \in Nat
      /\ cumulative_filled + Outstanding(orders) <= Total + late
    BY BudgetTypes, ConfigAssumption DEF Budget
<1>2. /\ Gain(r) \in Nat /\ Outstanding(orders)' \in Nat
      /\ orders[o].terminal => Outstanding(orders)' = Outstanding(orders)
      /\ ~orders[o].terminal => Outstanding(orders)' <= Outstanding(orders) - Gain(r)
    <2>1. /\ Gain(r) \in 0..Total
          /\ Outstanding(orders)' \in Nat
          /\ orders[o].terminal => Outstanding(orders)' = Outstanding(orders)
          /\ ~orders[o].terminal => Gain(r) <= Outstanding(orders)
          /\ ~orders[o].terminal /\ ~r.terminal =>
                Outstanding(orders)' = Outstanding(orders) - Gain(r)
          /\ ~orders[o].terminal /\ r.terminal => Outstanding(orders)' = 0
        BY CreditMoves
    <2> QED  BY <1>1, <2>1
<1>3. CASE orders[o].terminal
    <2>1. cumulative_filled + Gain(r) + Outstanding(orders)' <= Total + (late + Gain(r))
        BY <1>1, <1>2, <1>3
    <2> QED  BY <1>3, <2>1 DEF Budget, Credits
<1>4. CASE ~orders[o].terminal
    <2>1. cumulative_filled + Gain(r) + Outstanding(orders)' <= Total + late
        BY <1>1, <1>2, <1>4
    <2> QED  BY <1>4, <2>1 DEF Budget, Credits
<1> QED  BY <1>3, <1>4

LEMMA EndedBudget ==
    ASSUME TypeOK, OneLiveOrder, Budget, NEW o \in 1..submitted,
           VenueCancels(o) \/ VenueFails(o)
    PROVE  Budget'
<1> DEFINE c == orders[o].child
<1>1. MayEnd(o) /\ cumulative_filled' = cumulative_filled
    BY DEF VenueCancels, VenueFails, OrderCanceled, OrderFailed, ReduceOnlyRejected
<1>2. CASE ~IsActive(o)
    <2>1. KeepOrders(EndOrder(o), children)
        BY <1>2 DEF VenueCancels, VenueFails, OrderCanceled, OrderFailed, ReduceOnlyRejected
    <2>2. orders' = orders /\ late' = late
        BY <1>2, <2>1, RetiredEndChangesNothing DEF KeepOrders
    <2> QED  BY <1>1, <2>2 DEF Budget, Outstanding, OutstandingLots
<1>3. CASE IsActive(o)
    <2>1. AllEnded(EndOrder(o))
        BY <1>1, <1>3, EndMeansEnded
    <2>2. /\ c \in Children
          /\ EndOrder(o) \in [1..submitted -> OrderRecord]
          /\ [children EXCEPT ![c].tracked = NoOrder] \in [Children -> ChildSlot]
          /\ [children EXCEPT ![c].tracked = NoOrder, ![c].status = "IDLE"]
               \in [Children -> ChildSlot]
        BY OrderFacts DEF ChildStatus
    <2>3. \/ \E kids : KeepOrders(EndOrder(o), kids)
          \/ PlaceAggressive(EndOrder(o), [children EXCEPT ![c].tracked = NoOrder], c)
          \/ PlaceAggressive(EndOrder(o),
                [children EXCEPT ![c].tracked = NoOrder, ![c].status = "IDLE"], c)
        BY <1>3 DEF VenueCancels, VenueFails, OrderCanceled, OrderFailed, ReduceOnlyRejected
    <2> HIDE DEF c
    <2> QED  BY <1>1, <2>1, <2>2, <2>3, KeepBudget, PlaceBudget
<1> QED  BY <1>2, <1>3

LEMMA StepBudget == TypeOK /\ OneLiveOrder /\ Budget /\ Step => Budget'
<1> SUFFICES ASSUME TypeOK, OneLiveOrder, Budget,
                    NEW i \in child_idx..NumChildren + 1, IsNextIdx(i),
                    \/ i > NumChildren /\ StepAllTerminal
                    \/ i <= NumChildren /\ (StepIdle(i) \/ StepActive(i) \/ StepWait(i)),
                    cumulative_filled' = cumulative_filled
             PROVE  Budget'
    BY DEF Step
<1>1. CASE UNCHANGED <<orders, late>>
    BY <1>1 DEF Budget, Outstanding, OutstandingLots
<1>2. CASE StepAllTerminal \/ StepActive(i) \/ StepWait(i)
    BY <1>1, <1>2 DEF StepAllTerminal, StepActive, StepWait
<1>3. CASE i <= NumChildren /\ StepIdle(i)
    <2>1. i \in Children
        BY <1>3, ChildrenFacts DEF Children, TypeOK
    <2>2. AllEnded(orders)
        BY <1>3, IdleMeansEnded DEF StepIdle, Working
    <2>3. PlaceLimit(orders, children, i) \/ \E kids : KeepOrders(orders, kids)
        BY <1>3 DEF StepIdle
    <2>4. orders \in [1..submitted -> OrderRecord] /\ children \in [Children -> ChildSlot]
        BY DEF TypeOK
    <2> QED  BY <2>1, <2>2, <2>3, <2>4, KeepBudget, PlaceBudget
<1> QED  BY <1>2, <1>3

LEMMA NextBudget == TypeOK /\ OneLiveOrder /\ RecordsOK /\ Budget /\ [Next]_vars => Budget'
<1> SUFFICES ASSUME TypeOK, OneLiveOrder, RecordsOK, Budget, [Next]_vars  PROVE Budget'
    OBVIOUS
<1>1. CASE UNCHANGED <<orders, late, cumulative_filled>>
    BY <1>1 DEF Budget, Outstanding, OutstandingLots
<1>2. CASE ValidateSufficientBalance \/ ShutDown \/ EarlyStop \/ Tick \/ UNCHANGED vars
    BY <1>1, <1>2 DEF ValidateSufficientBalance, ShutDown, EarlyStop, Tick, vars, executor
<1>3. CASE Step
    BY <1>3, StepBudget
<1>4. ASSUME NEW o \in 1..submitted, VenueCancels(o) \/ VenueFails(o)
      PROVE  Budget'
    BY <1>4, EndedBudget
<1>5. ASSUME NEW o \in 1..submitted,
             \/ \E trade \in 1..orders[o].amount : OrderFilled(o, trade)
             \/ \E amount \in 0..orders[o].amount : VenueCompletes(o, amount)
             \/ CancelLost(o)
      PROVE  Budget'
    BY <1>1, <1>5, FilledCredits, CompletedCredits, CreditBudget DEF CancelLost, executor
<1> QED  BY <1>2, <1>3, <1>4, <1>5 DEF Next, ControlTask

LEMMA InitBudget == Init => Budget
<1> SUFFICES ASSUME Init  PROVE Budget
    OBVIOUS
<1>1. orders = [o \in 1..0 |-> 0]
    BY Zenon DEF Init
<1>2. cumulative_filled = 0
    BY Zenon DEF Init
<1>3. late = 0
    BY Zenon DEF Init
<1>4. OutstandingLots(orders) = {}
    BY <1>1 DEF OutstandingLots
<1> QED  BY <1>2, <1>3, <1>4, FS_EmptySet, ConfigAssumption DEF Budget, Outstanding

\* Executed plus working quantity passes the total only by what ended orders
\* filled since the last submission: replacements never add up to more.
THEOREM WithinTheTotal == Spec => []Budget
<1> DEFINE IInv == TypeOK /\ OneLiveOrder /\ RecordsOK /\ Budget
<1>1. Init => IInv
    BY InitTypes, InitOneLive, InitRecords, InitBudget
<1>2. IInv /\ [Next]_vars => IInv'
    BY NextTypes, NextOneLive, NextRecords, NextBudget
<1> QED  BY <1>1, <1>2, PTL DEF Spec
-------------------------------------------------------------------------------
(* The executor implements BudgetedExecution.                              *)

\* A step that BudgetedExecution allows, or does not see.
Allowed == Promise!BudgetNext \/ UNCHANGED Promise!budgetVars

\* Nothing was sent before the executor runs.
StartOK == status = "NOT_STARTED" => submitted = 0

LEMMA PhaseFacts ==
    /\ status \in {"NOT_STARTED", "RUNNING"} => Phase = "working"
    /\ status = "SHUTTING_DOWN" => Phase = "stopping"
    /\ status = "TERMINATED" => Phase = "closed"
    /\ Attached => Phase # "closed"
BY DEF Phase, Attached

LEMMA SamePhase == status' = status => Phase' = Phase
BY DEF Phase

LEMMA UnseenAllowed ==
    ASSUME status' = status, UNCHANGED <<cumulative_filled, orders, late>>
    PROVE  Allowed
<1>1. Outstanding(orders)' = Outstanding(orders)
    BY DEF Outstanding, OutstandingLots
<1> QED  BY <1>1, SamePhase DEF Allowed, Promise!budgetVars

\* An order ends, or all had ended; what was outstanding is open no more.
LEMMA KeepAllowed ==
    ASSUME TypeOK, NEW ords \in [1..submitted -> OrderRecord], NEW kids,
           AllEnded(ords), KeepOrders(ords, kids), Attached, status' = status,
           cumulative_filled' = cumulative_filled
    PROVE  Allowed
<1>1. Outstanding(ords) = 0 /\ Outstanding(orders) \in Nat
    BY BudgetTypes, EndedMeansSettled DEF AllEnded
<1>2. Outstanding(orders)' = 0 /\ late' = late
    BY <1>1 DEF KeepOrders, Outstanding, OutstandingLots
<1>3. Promise!EndOpen(0)
    BY <1>1, <1>2, BudgetTypes, PhaseFacts, SamePhase DEF Promise!EndOpen
<1>4. 0 \in 0..Total
    BY ConfigAssumption
<1> QED  BY <1>3, <1>4 DEF Allowed, Promise!BudgetNext

LEMMA PlaceAllowed ==
    ASSUME TypeOK, NEW ords \in [1..submitted -> OrderRecord], AllEnded(ords),
           NEW kids \in [Children -> ChildSlot], NEW c \in Children,
           \/ PlaceAggressive(ords, kids, c)
           \/ status = "RUNNING" /\ PlaceLimit(ords, kids, c),
           Attached, status' = status, cumulative_filled' = cumulative_filled
    PROVE  Allowed
<1> DEFINE room == Room(ords, kids, cumulative_filled, c)
<1>1. CASE \E new : KeepOrders(ords, new)
    BY <1>1, KeepAllowed
<1>2. ASSUME NEW st, status = "RUNNING", room > 0, Submit(ords, kids, c, room, st)
      PROVE  Allowed
    <2>1. room \in 1..Total /\ cumulative_filled + room <= Total
        <3>1. room \in Int /\ room <= Total - cumulative_filled /\ cumulative_filled \in Nat
            BY BudgetTypes, RoomFacts
        <3> QED  BY <1>2, <3>1, ConfigAssumption
    <2> HIDE DEF room
    <2>2. Outstanding(orders)' = room /\ late' = 0
        BY <1>2, <2>1, SubmitOutstanding
    <2>3. Promise!SendOrder(room)
        BY <1>2, <2>1, <2>2, PhaseFacts, SamePhase DEF Promise!SendOrder
    <2> QED  BY <2>1, <2>3 DEF Allowed, Promise!BudgetNext
<1> QED  BY <1>1, <1>2 DEF PlaceLimit, PlaceAggressive

\* What an event credits, the open order executed or an ended one did.
LEMMA CreditAllowed ==
    ASSUME TypeOK, OneLiveOrder, RecordsOK, NEW o \in 1..submitted,
           NEW r, Credits(o, r)
    PROVE  Allowed
<1> USE DEF Credits
<1>1. /\ Gain(r) \in 0..Total
      /\ Outstanding(orders)' \in Nat
      /\ orders[o].terminal => Outstanding(orders)' = Outstanding(orders)
      /\ ~orders[o].terminal => Gain(r) <= Outstanding(orders)
      /\ ~orders[o].terminal /\ ~r.terminal =>
            Outstanding(orders)' = Outstanding(orders) - Gain(r)
      /\ ~orders[o].terminal /\ r.terminal => Outstanding(orders)' = 0
    BY CreditMoves
<1>2. cumulative_filled \in Nat /\ late \in Nat /\ Outstanding(orders) \in Nat
    BY BudgetTypes
<1>3. Phase # "closed" /\ Phase' = Phase
    BY PhaseFacts, SamePhase
<1>4. Gain(r) = 0 \/ Gain(r) \in 1..Total
    BY <1>1, ConfigAssumption
<1>5. CASE orders[o].terminal
    <2>1. /\ cumulative_filled' = cumulative_filled + Gain(r)
          /\ late' = late + Gain(r)
          /\ Outstanding(orders)' = Outstanding(orders)
        BY <1>1, <1>5
    <2>2. CASE Gain(r) = 0
        <3>1. cumulative_filled' = cumulative_filled /\ late' = late
            BY <1>2, <2>1, <2>2
        <3> QED  BY <1>3, <2>1, <3>1 DEF Allowed, Promise!budgetVars
    <2>3. CASE Gain(r) \in 1..Total
        <3>1. Promise!ExecuteEnded(Gain(r))
            BY <1>3, <2>1 DEF Promise!ExecuteEnded
        <3> QED  BY <2>3, <3>1 DEF Allowed, Promise!BudgetNext
    <2> QED  BY <1>4, <2>2, <2>3
<1>6. CASE ~orders[o].terminal /\ r.terminal
    <2>1. Promise!EndOpen(Gain(r))
        BY <1>1, <1>3, <1>6 DEF Promise!EndOpen
    <2> QED  BY <1>1, <2>1 DEF Allowed, Promise!BudgetNext
<1>7. CASE ~orders[o].terminal /\ ~r.terminal
    <2>1. late' = late /\ Outstanding(orders)' = Outstanding(orders) - Gain(r)
        BY <1>1, <1>7
    <2>2. CASE Gain(r) = 0
        <3>1. /\ cumulative_filled' = cumulative_filled
              /\ Outstanding(orders)' = Outstanding(orders)
            BY <1>2, <2>1, <2>2
        <3> QED  BY <1>3, <2>1, <3>1 DEF Allowed, Promise!budgetVars
    <2>3. CASE Gain(r) \in 1..Total
        <3>1. Promise!ExecuteOpen(Gain(r))
            BY <1>1, <1>3, <1>7, <2>1 DEF Promise!ExecuteOpen
        <3> QED  BY <2>3, <3>1 DEF Allowed, Promise!BudgetNext
    <2> QED  BY <1>4, <2>2, <2>3
<1> QED  BY <1>5, <1>6, <1>7

LEMMA EndedAllowed ==
    ASSUME TypeOK, OneLiveOrder, NEW o \in 1..submitted, VenueCancels(o) \/ VenueFails(o)
    PROVE  Allowed
<1> DEFINE c == orders[o].child
<1> USE DEF VenueCancels, VenueFails, OrderCanceled, OrderFailed, ReduceOnlyRejected
<1>1. MayEnd(o) /\ Attached /\ cumulative_filled' = cumulative_filled
    OBVIOUS
<1>2. CASE ~IsActive(o)
    <2>1. KeepOrders(EndOrder(o), children) /\ status' = status
        BY <1>2
    <2>2. orders' = orders /\ late' = late
        BY <1>2, <2>1, RetiredEndChangesNothing DEF KeepOrders
    <2> QED  BY <1>1, <2>1, <2>2, UnseenAllowed
<1>3. CASE IsActive(o)
    <2>1. AllEnded(EndOrder(o))
        BY <1>1, <1>3, EndMeansEnded
    <2>2. /\ c \in Children
          /\ EndOrder(o) \in [1..submitted -> OrderRecord]
          /\ [children EXCEPT ![c].tracked = NoOrder] \in [Children -> ChildSlot]
          /\ [children EXCEPT ![c].tracked = NoOrder, ![c].status = "IDLE"]
               \in [Children -> ChildSlot]
        BY OrderFacts DEF ChildStatus
    <2>3. \/ /\ \E kids : KeepOrders(EndOrder(o), kids)
             /\ CloseExecutionBy("EARLY_STOP")
          \/ /\ status' = status
             /\ \/ \E kids : KeepOrders(EndOrder(o), kids)
                \/ PlaceAggressive(EndOrder(o), [children EXCEPT ![c].tracked = NoOrder], c)
                \/ PlaceAggressive(EndOrder(o),
                      [children EXCEPT ![c].tracked = NoOrder, ![c].status = "IDLE"], c)
        BY <1>3
    <2>4. ASSUME NEW kids, KeepOrders(EndOrder(o), kids), CloseExecutionBy("EARLY_STOP")
          PROVE  Allowed
        <3>1. Outstanding(EndOrder(o)) = 0
            BY <2>1, <2>2, BudgetTypes, EndedMeansSettled DEF AllEnded
        <3>2. Outstanding(orders)' = 0 /\ late' = late
            BY <2>4, <3>1 DEF KeepOrders, Outstanding, OutstandingLots
        <3>3. Phase # "closed" /\ Phase' = "closed"
            BY <1>1, <2>4, PhaseFacts DEF CloseExecutionBy, Phase
        <3> QED  BY <1>1, <3>2, <3>3 DEF Allowed, Promise!BudgetNext, Promise!CloseDown
    <2> HIDE DEF c, VenueCancels, VenueFails, OrderCanceled, OrderFailed, ReduceOnlyRejected
    <2>5. ASSUME NEW kids, KeepOrders(EndOrder(o), kids), status' = status
          PROVE  Allowed
        BY <1>1, <2>1, <2>2, <2>5, KeepAllowed
    <2>6. ASSUME NEW kids \in [Children -> ChildSlot],
                 PlaceAggressive(EndOrder(o), kids, c), status' = status
          PROVE  Allowed
        <3>1. EndOrder(o) \in [1..submitted -> OrderRecord] /\ c \in Children
            BY <2>2
        <3>2. Attached /\ cumulative_filled' = cumulative_filled
            BY <1>1
        <3>3. \/ PlaceAggressive(EndOrder(o), kids, c)
              \/ status = "RUNNING" /\ PlaceLimit(EndOrder(o), kids, c)
            BY <2>6
        <3>4. AllEnded(EndOrder(o)) /\ status' = status /\ kids \in [Children -> ChildSlot]
            BY <2>1, <2>6
        <3> HIDE DEF EndOrder, AllEnded
        <3> QED  BY <3>1, <3>2, <3>3, <3>4, PlaceAllowed
    <2> QED  BY Zenon, <2>2, <2>3, <2>4, <2>5, <2>6
<1> QED  BY <1>2, <1>3

\* Closing with nothing outstanding.
LEMMA CloseAllowed ==
    ASSUME TypeOK, status # "TERMINATED", status' = "TERMINATED", Outstanding(orders) = 0,
           UNCHANGED <<cumulative_filled, orders, late>>
    PROVE  Allowed
<1>1. Outstanding(orders)' = 0
    BY DEF Outstanding, OutstandingLots
<1>2. Phase # "closed" /\ Phase' = "closed"
    BY DEF Phase, TypeOK
<1> QED  BY <1>1, <1>2 DEF Allowed, Promise!BudgetNext, Promise!CloseDown

LEMMA StepAllowed == TypeOK /\ OneLiveOrder /\ Step => Allowed
<1> SUFFICES ASSUME TypeOK, OneLiveOrder, status = "RUNNING", 
                    NEW i \in child_idx..NumChildren + 1, IsNextIdx(i),
                    \/ i > NumChildren /\ StepAllTerminal
                    \/ i <= NumChildren /\ (StepIdle(i) \/ StepActive(i) \/ StepWait(i)),
                    cumulative_filled' = cumulative_filled
             PROVE  Allowed
    BY DEF Step
<1>1. CASE StepAllTerminal
    <2>1. UNCHANGED <<cumulative_filled, orders, late>>
        BY <1>1 DEF StepAllTerminal
    <2>2. \/ Outstanding(orders) = 0 /\ status' = "TERMINATED"
          \/ status' = status
        BY <1>1 DEF StepAllTerminal, CloseExecutionBy
    <2> QED  BY <2>1, <2>2, CloseAllowed, UnseenAllowed
<1>2. CASE StepActive(i) \/ StepWait(i)
    BY <1>2, UnseenAllowed DEF StepActive, StepWait
<1>3. CASE i <= NumChildren /\ StepIdle(i)
    <2>1. i \in Children
        BY <1>3, ChildrenFacts DEF Children, TypeOK
    <2>2. AllEnded(orders)
        BY <1>3, IdleMeansEnded DEF StepIdle, Working
    <2>3. /\ PlaceLimit(orders, children, i) \/ \E kids : KeepOrders(orders, kids)
          /\ status' = status
        BY <1>3 DEF StepIdle
    <2>4. /\ orders \in [1..submitted -> OrderRecord]
          /\ children \in [Children -> ChildSlot]
          /\ Attached
        BY DEF TypeOK, Attached
    <2> QED  BY <2>1, <2>2, <2>3, <2>4, KeepAllowed, PlaceAllowed
<1> QED  BY <1>1, <1>2, <1>3

LEMMA NextAllowed ==
    ASSUME TypeOK, OneLiveOrder, RecordsOK, StartOK, [Next]_vars
    PROVE  Allowed
<1>1. CASE Tick \/ UNCHANGED vars
    BY <1>1, UnseenAllowed DEF Tick, vars, executor
<1>2. CASE ValidateSufficientBalance
    <2>1. submitted = 0
        BY <1>2 DEF StartOK, ValidateSufficientBalance
    <2>2. Outstanding(orders) = 0
        <3>1. submitted \in Nat /\ orders \in [1..submitted -> OrderRecord]
            BY BudgetTypes
        <3>2. \A p \in 1..submitted : orders[p].terminal
            BY <2>1
        <3> QED  BY <3>1, <3>2, EndedMeansSettled
    <2>3. /\ UNCHANGED <<cumulative_filled, orders, late>>
          /\ status = "NOT_STARTED"
          /\ status' \in {"RUNNING", "TERMINATED"}
        BY <1>2 DEF ValidateSufficientBalance
    <2>4. CASE status' = "RUNNING"
        <3>1. Phase' = Phase /\ Outstanding(orders)' = Outstanding(orders)
            BY <2>3, <2>4 DEF Phase, Outstanding, OutstandingLots
        <3> QED  BY <2>3, <3>1 DEF Allowed, Promise!budgetVars
    <2> QED  BY <2>2, <2>3, <2>4, CloseAllowed
<1>3. CASE Step
    BY <1>3, StepAllowed
<1>4. CASE ShutDown
    <2>1. /\ UNCHANGED <<cumulative_filled, orders, late>>
          /\ status = "SHUTTING_DOWN"
          /\ \/ Outstanding(orders) = 0 /\ status' = "TERMINATED"
             \/ status' = status
        BY <1>4 DEF ShutDown, CloseExecutionBy
    <2> QED  BY <2>1, CloseAllowed, UnseenAllowed
<1>5. CASE EarlyStop
    <2>1. /\ UNCHANGED <<cumulative_filled, orders, late>>
          /\ status \in {"RUNNING", "SHUTTING_DOWN"}
          /\ status' = "SHUTTING_DOWN"
        BY <1>5 DEF EarlyStop, Attached
    <2>2. CASE status = "RUNNING"
        <3>1. Phase = "working" /\ Phase' = "stopping"
            BY <2>1, <2>2 DEF Phase
        <3>2. Outstanding(orders)' = Outstanding(orders)
            BY <2>1 DEF Outstanding, OutstandingLots
        <3> QED  BY <2>1, <3>1, <3>2 DEF Allowed, Promise!BudgetNext, Promise!AskToStop
    <2> QED  BY <2>1, <2>2, UnseenAllowed
<1>6. ASSUME NEW o \in 1..submitted, VenueCancels(o) \/ VenueFails(o)
      PROVE  Allowed
    BY <1>6, EndedAllowed
<1>7. ASSUME NEW o \in 1..submitted,
             \/ \E trade \in 1..orders[o].amount : OrderFilled(o, trade)
             \/ \E amount \in 0..orders[o].amount : VenueCompletes(o, amount)
             \/ CancelLost(o)
      PROVE  Allowed
    <2>1. CASE CancelLost(o)
        BY <2>1, UnseenAllowed DEF CancelLost, executor
    <2> QED  BY <1>7, <2>1, FilledCredits, CompletedCredits, CreditAllowed
<1> QED  BY <1>1, <1>2, <1>3, <1>4, <1>5, <1>6, <1>7 DEF Next, ControlTask

LEMMA NextStartOK == StartOK /\ [Next]_vars => StartOK'
<1> SUFFICES ASSUME StartOK, [Next]_vars, status' = "NOT_STARTED"  PROVE submitted' = 0
    BY DEF StartOK
<1>1. status = "NOT_STARTED"
    <2>1. CASE ValidateSufficientBalance \/ UNCHANGED status
        BY <2>1 DEF ValidateSufficientBalance
    <2>2. CASE Step
        BY <2>2 DEF Step, StepAllTerminal, StepIdle, StepActive, StepWait, CloseExecutionBy
    <2>3. CASE ShutDown \/ EarlyStop
        BY <2>3 DEF ShutDown, EarlyStop, CloseExecutionBy
    <2>4. ASSUME NEW o \in 1..submitted,
                 \/ \E trade \in 1..orders[o].amount : OrderFilled(o, trade)
                 \/ \E amount \in 0..orders[o].amount : VenueCompletes(o, amount)
                 \/ VenueCancels(o) \/ VenueFails(o) \/ CancelLost(o)
          PROVE  status = "NOT_STARTED"
        <3>1. \/ UNCHANGED status
              \/ ReduceOnlyRejected(o)
            BY <2>4 DEF OrderFilled, VenueCompletes, OrderCompleted, VenueCancels,
                        OrderCanceled, VenueFails, OrderFailed, CancelLost, executor
        <3>2. CASE ReduceOnlyRejected(o)
            BY <3>2 DEF ReduceOnlyRejected, CloseExecutionBy
        <3> QED  BY <3>1, <3>2
    <2>5. CASE Tick \/ UNCHANGED vars
        BY <2>1, <2>5 DEF Tick, vars, executor
    <2> QED  BY <2>1, <2>2, <2>3, <2>4, <2>5 DEF Next, ControlTask
<1>2. submitted' = submitted
    BY <1>1, SubmitOnlyRunning
<1> QED  BY <1>1, <1>2 DEF StartOK

LEMMA InitAllowed == Init => StartOK /\ Promise!BudgetInit
<1> SUFFICES ASSUME Init  PROVE StartOK /\ Promise!BudgetInit
    OBVIOUS
<1>1. status = "NOT_STARTED"
    BY Zenon DEF Init
<1>2. submitted = 0
    BY Zenon DEF Init
<1>3. orders = [o \in 1..0 |-> 0]
    BY Zenon DEF Init
<1>4. cumulative_filled = 0
    BY Zenon DEF Init
<1>5. late = 0
    BY Zenon DEF Init
<1>6. Outstanding(orders) = 0
    <2>1. OutstandingLots(orders) = {}
        BY <1>3 DEF OutstandingLots
    <2> QED  BY <2>1, FS_EmptySet DEF Outstanding
<1>7. Phase = "working"
    BY <1>1, PhaseFacts
<1> QED  BY <1>1, <1>2, <1>4, <1>5, <1>6, <1>7 DEF StartOK, Promise!BudgetInit

\* The executor implements BudgetedExecution: every order fits what is left of
\* the total, none follows a stop, and it ends with nothing open.
THEOREM PromiseKept == Spec => KeepsPromise
<1> DEFINE IInv == TypeOK /\ OneLiveOrder /\ RecordsOK /\ StartOK
<1>1. Init => IInv /\ Promise!BudgetInit
    BY InitTypes, InitOneLive, InitRecords, InitAllowed
<1>2. IInv /\ [Next]_vars => IInv'
    BY NextTypes, NextOneLive, NextRecords, NextStartOK
<1>3. IInv /\ [Next]_vars => [Promise!BudgetNext]_(Promise!budgetVars)
    BY NextAllowed DEF Allowed
<1> QED  BY <1>1, <1>2, <1>3, PTL DEF Spec, KeepsPromise, Promise!BudgetSpec

\* What the promise is worth: whatever keeps it, this executor or another one,
\* passes the total with what it executed and may still execute only by fills
\* of ended orders.
THEOREM PromiseBounds == KeepsPromise => []Promise!WithinBudget
<1> DEFINE open == Outstanding(orders)
           done == cumulative_filled
           Bounded == /\ done \in Nat /\ open \in Nat /\ late \in Nat
                      /\ done + open <= Total + late
<1>1. Total \in Nat
    BY ConfigAssumption
<1>2. Promise!BudgetInit => Bounded
    BY <1>1 DEF Promise!BudgetInit
<1>3. Bounded /\ [Promise!BudgetNext]_(Promise!budgetVars) => Bounded'
    <2> SUFFICES ASSUME Bounded, [Promise!BudgetNext]_(Promise!budgetVars)
                 PROVE  Bounded'
        OBVIOUS
    <2> DEFINE laterOpen == open'
               laterDone == done'
               laterLate == late'
    <2>1. Bounded' <=> /\ laterDone \in Nat /\ laterOpen \in Nat /\ laterLate \in Nat
                       /\ laterDone + laterOpen <= Total + laterLate
        OBVIOUS
    <2>2. CASE UNCHANGED <<done, open, late>>
        BY <2>1, <2>2
    <2>3. ASSUME NEW quantity \in 1..Total, Promise!SendOrder(quantity) PROVE Bounded'
        <3>1. /\ done + quantity <= Total
              /\ laterOpen = quantity /\ laterLate = 0 /\ laterDone = done
            BY <2>3 DEF Promise!SendOrder
        <3> HIDE DEF laterOpen, laterDone, laterLate, open, done
        <3> QED  BY <1>1, <2>1, <3>1
    <2>4. ASSUME NEW quantity \in 0..Total,
                 Promise!ExecuteOpen(quantity) \/ Promise!EndOpen(quantity)
          PROVE  Bounded'
        <3>1. /\ quantity <= open /\ laterDone = done + quantity /\ laterLate = late
              /\ laterOpen = open - quantity \/ laterOpen = 0
            BY <2>4 DEF Promise!ExecuteOpen, Promise!EndOpen
        <3> HIDE DEF laterOpen, laterDone, laterLate, open, done
        <3> QED  BY <1>1, <2>1, <3>1
    <2>5. ASSUME NEW quantity \in 1..Total, Promise!ExecuteEnded(quantity) PROVE Bounded'
        <3>1. laterDone = done + quantity /\ laterLate = late + quantity /\ laterOpen = open
            BY <2>5 DEF Promise!ExecuteEnded
        <3> HIDE DEF laterOpen, laterDone, laterLate, open, done
        <3> QED  BY <1>1, <2>1, <3>1
    <2>6. ASSUME Promise!CloseDown PROVE Bounded'
        <3>1. laterDone = done /\ laterLate = late /\ laterOpen = 0
            BY <2>6 DEF Promise!CloseDown
        <3> HIDE DEF laterOpen, laterDone, laterLate, open, done
        <3> QED  BY <1>1, <2>1, <3>1
    <2>7. Promise!AskToStop => UNCHANGED <<done, open, late>>
        BY DEF Promise!AskToStop
    <2>8. UNCHANGED Promise!budgetVars => UNCHANGED <<done, open, late>>
        BY DEF Promise!budgetVars
    <2>9. 1..Total \subseteq 0..Total
        BY <1>1
    <2> HIDE DEF Bounded, open, done
    <2> QED
        BY <2>2, <2>3, <2>4, <2>5, <2>6, <2>7, <2>8, <2>9 DEF Promise!BudgetNext
<1>4. Bounded => Promise!WithinBudget
    BY DEF Promise!WithinBudget
<1> QED  BY <1>2, <1>3, <1>4, PTL DEF KeepsPromise, Promise!BudgetSpec
-------------------------------------------------------------------------------
(* What one step does to the books: it credits one order, its child and    *)
(* the total; or submits one order of a child that has room for it when    *)
(* every other order has ended; or does neither.                           *)

\* Nothing but the order o and the child c is credited, with g lots.
Credited(o, g) ==
    /\ o \in 1..submitted /\ g \in Nat
    /\ submitted' = submitted
    /\ cumulative_filled' = cumulative_filled + g
    /\ \A p \in 1..submitted :
          /\ orders'[p].child = orders[p].child /\ orders'[p].amount = orders[p].amount
          /\ orders[p].terminal => orders'[p].terminal
          /\ orders'[p].credited = IF p = o THEN orders[p].credited + g
                                   ELSE orders[p].credited
    /\ \A c \in Children :
          children'[c].filled = IF c = orders[o].child THEN children[c].filled + g
                                ELSE children[c].filled
    /\ late' = IF orders[o].terminal THEN late + g ELSE late

\* No order, child or total is credited.
Uncredited ==
    /\ cumulative_filled' = cumulative_filled
    /\ submitted <= submitted'
    /\ \A p \in 1..submitted :
          /\ orders'[p].child = orders[p].child /\ orders'[p].amount = orders[p].amount
          /\ orders[p].terminal => orders'[p].terminal
          /\ orders'[p].credited = orders[p].credited
    /\ \A c \in Children : children'[c].filled = children[c].filled

Kept == Uncredited /\ submitted' = submitted /\ late' = late

Sent ==
    /\ Uncredited /\ submitted' = submitted + 1
    /\ \A p \in 1..submitted : orders'[p].terminal
    /\ LET new == orders'[submitted']
       IN  /\ new.child \in Children /\ new.credited = 0
           /\ new.amount \in 1..Total
           /\ new.amount <= Target(new.child) - children[new.child].filled
    /\ late' = 0

Accounts == Kept \/ Sent \/ \E o \in 1..submitted, g \in Nat : Credited(o, g)

\* The same, for what an order helper is given.
SameBooks(ords, kids) ==
    /\ ords \in [1..submitted -> OrderRecord] /\ kids \in [Children -> ChildSlot]
    /\ \A p \in 1..submitted :
          /\ ords[p].child = orders[p].child /\ ords[p].amount = orders[p].amount
          /\ orders[p].terminal => ords[p].terminal
          /\ ords[p].credited = orders[p].credited
    /\ \A c \in Children : kids[c].filled = children[c].filled

LEMMA StatusKeepsFilled ==
    ASSUME NEW kids \in [Children -> ChildSlot], NEW c \in Children, NEW st
    PROVE  /\ \A d \in Children :
                [kids EXCEPT ![c].status = st][d].filled = kids[d].filled
           /\ \A d \in Children, id \in Nat :
                [kids EXCEPT ![c].status = st, ![c].tracked = id][d].filled = kids[d].filled
<1> DEFINE k == [kids EXCEPT ![c].status = st]
<1>1. ASSUME NEW d \in Children
      PROVE  /\ k[d] = IF d = c THEN [kids[d] EXCEPT !.status = st] ELSE kids[d]
             /\ k[d].filled = kids[d].filled
    <2>1. kids[d] \in ChildSlot /\ d \in DOMAIN kids
        OBVIOUS
    <2>2. k[d] = IF d = c THEN [kids[d] EXCEPT !.status = st] ELSE kids[d]
        BY <2>1
    <2> QED  BY <2>1, <2>2 DEF ChildSlot
<1>2. ASSUME NEW d \in Children, NEW id \in Nat
      PROVE  [kids EXCEPT ![c].status = st, ![c].tracked = id][d].filled = kids[d].filled
    <2> DEFINE m == [k EXCEPT ![c].tracked = id]
    <2>1. d \in DOMAIN k /\ DOMAIN k = Children
        OBVIOUS
    <2>2. k[d] = [kids[d] EXCEPT !.status = st] \/ k[d] = kids[d]
        BY <1>1
    <2> HIDE DEF k
    <2>3. m[d] = IF d = c THEN [k[d] EXCEPT !.tracked = id] ELSE k[d]
        BY <2>1
    <2> HIDE DEF m
    <2>4. m[d].filled = k[d].filled
        <3>1. kids[d] \in ChildSlot
            OBVIOUS
        <3> QED  BY <2>2, <2>3, <3>1 DEF ChildSlot
    <2>5. m = [kids EXCEPT ![c].status = st, ![c].tracked = id]
        BY DEF m, k
    <2> QED  BY <1>1, <2>4, <2>5
<1> QED  BY <1>1, <1>2

\* An order helper submits within the child's room, or changes no books.
LEMMA KeepAccounts ==
    ASSUME TypeOK, NEW ords, NEW kids, SameBooks(ords, kids), KeepOrders(ords, kids),
           cumulative_filled' = cumulative_filled
    PROVE  Kept
<1>1. submitted \in Nat
    BY DEF TypeOK
<1> QED  BY <1>1 DEF KeepOrders, SameBooks, Kept, Uncredited

LEMMA PlaceAccounts ==
    ASSUME TypeOK, NEW ords, NEW kids, SameBooks(ords, kids), AllEnded(ords),
           NEW c \in Children, PlaceLimit(ords, kids, c) \/ PlaceAggressive(ords, kids, c),
           cumulative_filled' = cumulative_filled
    PROVE  Kept \/ Sent
<1> DEFINE room == Room(ords, kids, cumulative_filled, c)
<1>1. /\ submitted \in Nat /\ cumulative_filled \in Nat
      /\ ords \in [1..submitted -> OrderRecord] /\ kids \in [Children -> ChildSlot]
    BY DEF TypeOK, SameBooks
<1>2. ASSUME NEW st, KeepOrders(ords, [kids EXCEPT ![c].status = st])
      PROVE  Kept
    <2>1. \A d \in Children :
             [kids EXCEPT ![c].status = st][d].filled = kids[d].filled
        BY <1>1, StatusKeepsFilled
    <2> QED  BY <1>1, <1>2, <2>1 DEF KeepOrders, SameBooks, Kept, Uncredited
<1>3. ASSUME NEW st, room > 0, Submit(ords, kids, c, room, st)
      PROVE  Sent
    <2> DEFINE id == submitted + 1
               record == [child |-> c, amount |-> room, fill_sum |-> 0,
                          reported |-> 0, credited |-> 0, terminal |-> FALSE]
    <2>1. /\ room \in Int /\ room <= Total - cumulative_filled
          /\ room <= Target(c) - kids[c].filled
        BY <1>1, RoomFacts
    <2>2. room \in 1..Total
        BY <1>1, <1>3, <2>1, ConfigAssumption
    <2> HIDE DEF room
    <2>3. /\ submitted' = id /\ late' = 0
          /\ orders' = [o \in 1..id |-> IF o = id THEN record ELSE ords[o]]
          /\ children' = [kids EXCEPT ![c].status = st, ![c].tracked = id]
        BY <1>3 DEF Submit
    <2>4. /\ record.child = c /\ record.credited = 0 /\ record.amount = room
        OBVIOUS
    <2> HIDE DEF record
    <2>5. orders'[id] = record /\ \A p \in 1..submitted : orders'[p] = ords[p]
        BY <1>1, <2>3
    <2>6. \A d \in Children : children'[d].filled = kids[d].filled
        BY <1>1, <2>3, StatusKeepsFilled
    <2>7. Uncredited
        BY <1>1, <2>3, <2>5, <2>6 DEF Uncredited, SameBooks
    <2>8. kids[c].filled = children[c].filled /\ Target(c) \in Int
        BY ChildrenFacts DEF SameBooks
    <2> QED  BY <2>1, <2>2, <2>3, <2>4, <2>5, <2>7, <2>8 DEF Sent, AllEnded
<1> HIDE DEF room
<1>4. \/ \E st : KeepOrders(ords, [kids EXCEPT ![c].status = st])
      \/ room > 0 /\ \E st : Submit(ords, kids, c, room, st)
    BY DEF PlaceLimit, PlaceAggressive, room
<1> QED  BY <1>2, <1>3, <1>4 DEF room

LEMMA CreditAccounts ==
    ASSUME TypeOK, NEW o \in 1..submitted, NEW r, Credits(o, r)
    PROVE  Credited(o, Gain(r))
<1>1. orders \in [1..submitted -> OrderRecord]
    BY DEF TypeOK
<1>2. /\ r \in OrderRecord /\ r.credited = orders[o].credited
      /\ r.amount = orders[o].amount /\ r.child = orders[o].child
      /\ orders[o].terminal => r.terminal
      /\ orders' = [orders EXCEPT ![o] = Credit(r)]
    BY DEF Credits
<1>3. /\ Gain(r) \in Nat
      /\ Credit(r).credited = r.credited + Gain(r)
      /\ Credit(r).amount = r.amount /\ Credit(r).child = r.child
      /\ Credit(r).terminal = r.terminal
    BY <1>2, CreditFacts
<1>4. /\ orders'[o] = Credit(r)
      /\ \A p \in 1..submitted : p # o => orders'[p] = orders[p]
    BY <1>1, <1>2
<1>5. ASSUME NEW p \in 1..submitted
      PROVE  /\ orders'[p].child = orders[p].child /\ orders'[p].amount = orders[p].amount
             /\ orders[p].terminal => orders'[p].terminal
             /\ orders'[p].credited = IF p = o THEN orders[p].credited + Gain(r)
                                      ELSE orders[p].credited
    BY <1>2, <1>3, <1>4
<1>6. /\ submitted' = submitted
      /\ cumulative_filled' = cumulative_filled + Gain(r)
      /\ late' = IF orders[o].terminal THEN late + Gain(r) ELSE late
      /\ \A c \in Children :
            children'[c].filled
               = IF c = orders[o].child THEN children[c].filled + Gain(r)
                 ELSE children[c].filled
    BY DEF Credits
<1> QED  BY <1>3, <1>5, <1>6 DEF Credited

\* What the handlers pass to the order helpers.
LEMMA EndBooks ==
    ASSUME TypeOK, NEW o \in 1..submitted
    PROVE  /\ SameBooks(orders, children)
           /\ SameBooks(EndOrder(o), children)
           /\ SameBooks(EndOrder(o), [children EXCEPT ![orders[o].child].tracked = NoOrder])
           /\ \A st \in ChildStatus :
                 SameBooks(EndOrder(o), [children EXCEPT ![orders[o].child].tracked = NoOrder,
                                                         ![orders[o].child].status = st])
<1> DEFINE d == orders[o].child
           k == [children EXCEPT ![d].tracked = NoOrder]
<1>1. /\ d \in Children /\ children \in [Children -> ChildSlot]
      /\ k \in [Children -> ChildSlot]
      /\ orders \in [1..submitted -> OrderRecord]
      /\ EndOrder(o) \in [1..submitted -> OrderRecord]
      /\ \A p \in 1..submitted :
            /\ EndOrder(o)[p].child = orders[p].child
            /\ EndOrder(o)[p].amount = orders[p].amount
            /\ EndOrder(o)[p].credited = orders[p].credited
            /\ orders[p].terminal => EndOrder(o)[p].terminal
    BY OrderFacts DEF TypeOK, ChildStatus
<1>2. \A c \in Children : k[c].filled = children[c].filled
    <2> SUFFICES ASSUME NEW c \in Children  PROVE k[c].filled = children[c].filled
        OBVIOUS
    <2>1. k[c] = IF c = d THEN [children[c] EXCEPT !.tracked = NoOrder] ELSE children[c]
        BY <1>1
    <2>2. children[c] \in ChildSlot
        BY <1>1
    <2> HIDE DEF k, d
    <2> QED  BY <2>1, <2>2 DEF ChildSlot
<1>3. ASSUME NEW st \in ChildStatus
      PROVE  SameBooks(EndOrder(o), [children EXCEPT ![d].tracked = NoOrder, ![d].status = st])
    <2> DEFINE m == [k EXCEPT ![d].status = st]
    <2> HIDE DEF k
    <2>1. \A c \in Children : m[c].filled = k[c].filled
        BY <1>1, StatusKeepsFilled
    <2>2. m = [children EXCEPT ![d].tracked = NoOrder, ![d].status = st]
        BY DEF k
    <2>3. m \in [Children -> ChildSlot]
        <3>1. k[d] \in ChildSlot /\ d \in Children
            BY <1>1
        <3> HIDE DEF d, m
        <3>2. [k[d] EXCEPT !.status = st] \in ChildSlot
            BY <3>1 DEF ChildSlot
        <3> QED  BY <1>1, <3>1, <3>2 DEF m
    <2> HIDE DEF m, d
    <2> QED  BY <1>1, <1>2, <2>1, <2>2, <2>3 DEF SameBooks
<1> HIDE DEF k
<1>4. SameBooks(orders, children) /\ SameBooks(EndOrder(o), children)
    BY <1>1 DEF SameBooks
<1>5. SameBooks(EndOrder(o), k)
    BY <1>1, <1>2 DEF SameBooks
<1> QED  BY <1>3, <1>4, <1>5 DEF k

LEMMA CancelKeepsFilled ==
    ASSUME TypeOK, NEW i \in Children, NEW why \in {"refresh", "cycle_expired"},
           CancelChild(children, i, why)
    PROVE  /\ children' \in [Children -> ChildSlot]
           /\ \A c \in Children : children'[c].filled = children[c].filled
<1> DEFINE k == [children EXCEPT ![i].status = "CANCELING"]
           m == [k EXCEPT ![i].reason = why]
<1>0. children \in [Children -> ChildSlot]
    BY DEF TypeOK
<1>1. DOMAIN k = Children /\ \A c \in Children : k[c] \in ChildSlot
    BY <1>0 DEF ChildSlot, ChildStatus
<1>2. \A c \in Children : k[c].filled = children[c].filled
    BY <1>0, StatusKeepsFilled
<1>3. children' = children \/ children' = m
    BY DEF CancelChild
<1> HIDE DEF k
<1>4. ASSUME NEW c \in Children  PROVE m[c].filled = k[c].filled
    <2>1. k[c] \in ChildSlot /\ m[c] = IF c = i THEN [k[c] EXCEPT !.reason = why] ELSE k[c]
        BY <1>1
    <2> HIDE DEF m
    <2> QED  BY <2>1 DEF ChildSlot
<1>5. children' \in [Children -> ChildSlot]
    BY <1>0, CancelChildTypes
<1> HIDE DEF m
<1> QED  BY <1>2, <1>3, <1>4, <1>5

LEMMA EndedAccounts ==
    ASSUME TypeOK, OneLiveOrder, NEW o \in 1..submitted, VenueCancels(o) \/ VenueFails(o)
    PROVE  Kept \/ Sent
<1> DEFINE c == orders[o].child
           untracked == [children EXCEPT ![c].tracked = NoOrder]
           idle == [children EXCEPT ![c].tracked = NoOrder, ![c].status = "IDLE"]
           skipped == [children EXCEPT ![c].tracked = NoOrder, ![c].status = "SKIPPED"]
<1>1. MayEnd(o) /\ cumulative_filled' = cumulative_filled
    BY DEF VenueCancels, VenueFails, OrderCanceled, OrderFailed, ReduceOnlyRejected
<1>2. /\ SameBooks(EndOrder(o), children) /\ SameBooks(EndOrder(o), untracked)
      /\ SameBooks(EndOrder(o), idle) /\ SameBooks(EndOrder(o), skipped)
    BY EndBooks DEF ChildStatus
<1>3. c \in Children
    BY OrderFacts
<1>4. CASE ~IsActive(o)
    <2>1. KeepOrders(EndOrder(o), children)
        BY <1>4 DEF VenueCancels, VenueFails, OrderCanceled, OrderFailed, ReduceOnlyRejected
    <2> QED  BY <1>1, <1>2, <2>1, KeepAccounts
<1>5. CASE IsActive(o)
    <2>1. AllEnded(EndOrder(o))
        BY <1>1, <1>5, EndMeansEnded
    <2>2. /\ [untracked EXCEPT ![c].status = "SKIPPED"] = skipped
          /\ [untracked EXCEPT ![c].status = "IDLE"] = idle
        OBVIOUS
    <2>3. \/ KeepOrders(EndOrder(o), idle)
          \/ KeepOrders(EndOrder(o), skipped)
          \/ PlaceAggressive(EndOrder(o), untracked, c)
          \/ PlaceAggressive(EndOrder(o), idle, c)
        BY <1>5, <2>2 DEF VenueCancels, VenueFails, OrderCanceled, OrderFailed,
                          ReduceOnlyRejected
    <2> HIDE DEF c, untracked, idle, skipped
    <2> QED  BY <1>1, <1>2, <1>3, <2>1, <2>3, KeepAccounts, PlaceAccounts
<1> QED  BY <1>4, <1>5

LEMMA StepAccounts == TypeOK /\ OneLiveOrder /\ Step => Kept \/ Sent
<1> SUFFICES ASSUME TypeOK, OneLiveOrder,
                    NEW i \in child_idx..NumChildren + 1, IsNextIdx(i),
                    \/ i > NumChildren /\ StepAllTerminal
                    \/ i <= NumChildren /\ (StepIdle(i) \/ StepActive(i) \/ StepWait(i)),
                    cumulative_filled' = cumulative_filled
             PROVE  Kept \/ Sent
    BY DEF Step
<1>1. SameBooks(orders, children)
    <2>1. orders \in [1..submitted -> OrderRecord] /\ children \in [Children -> ChildSlot]
        BY DEF TypeOK
    <2> QED  BY <2>1 DEF SameBooks
<1>2. CASE (i > NumChildren /\ StepAllTerminal) \/ StepWait(i)
    <2>1. KeepOrders(orders, children)
        BY <1>2 DEF StepAllTerminal, StepWait, KeepOrders
    <2> QED  BY <1>1, <2>1, KeepAccounts
<1>3. CASE i <= NumChildren /\ StepActive(i)
    <2>1. i \in Children
        BY <1>3, ChildrenFacts DEF Children, TypeOK
    <2>2. /\ children' \in [Children -> ChildSlot]
          /\ \A c \in Children : children'[c].filled = children[c].filled
        <3>1. \/ children' = children
              \/ CancelChild(children, i, "refresh")
              \/ CancelChild(children, i, "cycle_expired")
            BY <1>3 DEF StepActive
        <3>2. children \in [Children -> ChildSlot]
            BY DEF TypeOK
        <3> QED  BY <2>1, <3>1, <3>2, CancelKeepsFilled
    <2>3. SameBooks(orders, children') /\ KeepOrders(orders, children')
        BY <1>1, <1>3, <2>2 DEF SameBooks, StepActive, KeepOrders
    <2> QED  BY <2>3, KeepAccounts
<1>4. CASE i <= NumChildren /\ StepIdle(i)
    <2>1. i \in Children
        BY <1>4, ChildrenFacts DEF Children, TypeOK
    <2>2. AllEnded(orders)
        BY <1>4, IdleMeansEnded DEF StepIdle, Working
    <2>3. \/ PlaceLimit(orders, children, i)
          \/ KeepOrders(orders, children)
          \/ KeepOrders(orders, [children EXCEPT ![i].status = "SKIPPED"])
        BY <1>4 DEF StepIdle
    <2>4. SameBooks(orders, [children EXCEPT ![i].status = "SKIPPED"])
        <3>1. children \in [Children -> ChildSlot]
            BY <1>1 DEF SameBooks
        <3>2. /\ [children EXCEPT ![i].status = "SKIPPED"] \in [Children -> ChildSlot]
              /\ \A c \in Children :
                   [children EXCEPT ![i].status = "SKIPPED"][c].filled = children[c].filled
            <4>1. [children EXCEPT ![i].status = "SKIPPED"] \in [Children -> ChildSlot]
                BY <2>1, <3>1 DEF ChildSlot, ChildStatus
            <4> QED  BY <2>1, <3>1, <4>1, StatusKeepsFilled
        <3> QED  BY <1>1, <3>2 DEF SameBooks
    <2> QED  BY <1>1, <2>1, <2>2, <2>3, <2>4, KeepAccounts, PlaceAccounts
<1> QED  BY <1>2, <1>3, <1>4

LEMMA NextAccounts == TypeOK /\ OneLiveOrder /\ RecordsOK /\ [Next]_vars => Accounts
<1> SUFFICES ASSUME TypeOK, OneLiveOrder, RecordsOK, [Next]_vars  PROVE Accounts
    OBVIOUS
<1>1. CASE UNCHANGED <<orders, children, submitted, late, cumulative_filled>>
    <2>1. submitted \in Nat
        BY DEF TypeOK
    <2> QED  BY <1>1, <2>1 DEF Accounts, Kept, Uncredited
<1>2. CASE ValidateSufficientBalance \/ ShutDown \/ EarlyStop \/ Tick \/ UNCHANGED vars
    BY <1>1, <1>2 DEF ValidateSufficientBalance, ShutDown, EarlyStop, Tick, vars, executor
<1>3. CASE Step
    BY <1>3, StepAccounts DEF Accounts
<1>4. ASSUME NEW o \in 1..submitted, VenueCancels(o) \/ VenueFails(o)
      PROVE  Accounts
    BY <1>4, EndedAccounts DEF Accounts
<1>5. ASSUME NEW o \in 1..submitted,
             \/ \E trade \in 1..orders[o].amount : OrderFilled(o, trade)
             \/ \E amount \in 0..orders[o].amount : VenueCompletes(o, amount)
      PROVE  Accounts
    <2>1. PICK r : Credits(o, r)
        BY <1>5, FilledCredits, CompletedCredits
    <2>2. Credited(o, Gain(r)) /\ Gain(r) \in Nat
        BY <2>1, CreditAccounts DEF Credited
    <2> QED  BY <2>2 DEF Accounts
<1>6. ASSUME NEW o \in 1..submitted, CancelLost(o)
      PROVE  Accounts
    BY <1>1, <1>6 DEF CancelLost, executor
<1> QED  BY <1>2, <1>3, <1>4, <1>5, <1>6 DEF Next, ControlTask

\* A child and its live order together stay within the child's target, late
\* fills apart: a submission is cut to the child's room, and a fill moves lots
\* from the order to its child.
THEOREM WithinEachTarget == Spec => []ChildBudget
<1> DEFINE IInv == TypeOK /\ OneLiveOrder /\ RecordsOK /\ ChildBudget
<1>1. Init => IInv
    <2>1. Init => ChildBudget
        <3> SUFFICES ASSUME Init  PROVE ChildBudget
            OBVIOUS
        <3>1. orders = [o \in 1..0 |-> 0]
            BY Zenon DEF Init
        <3>2. Live = {}
            BY <3>1 DEF Live
        <3> QED  BY <3>2 DEF ChildBudget
    <2> QED  BY <2>1, InitTypes, InitOneLive, InitRecords
<1>2. IInv /\ [Next]_vars => IInv'
    <2> SUFFICES ASSUME IInv, [Next]_vars, TypeOK', OneLiveOrder', RecordsOK'
                 PROVE  ChildBudget'
        BY NextTypes, NextOneLive, NextRecords
    <2> SUFFICES ASSUME NEW p \in Live'
                 PROVE  children'[orders'[p].child].filled + orders'[p].amount
                          - orders'[p].credited <= Target(orders'[p].child) + late'
        BY DEF ChildBudget, Target
    <2>1. /\ submitted \in Nat /\ submitted' \in Nat /\ late \in Nat
          /\ p \in 1..submitted' /\ ~orders'[p].terminal
        BY DEF TypeOK, Live
    <2>2. Accounts
        BY NextAccounts
    <2>3. ASSUME p \in 1..submitted, orders[p].terminal => orders'[p].terminal
          PROVE  /\ p \in Live /\ orders[p].child \in Children
                 /\ Target(orders[p].child) \in Int
                 /\ children[orders[p].child].filled \in Nat
                 /\ orders[p].amount \in Nat /\ orders[p].credited \in Nat
                 /\ children[orders[p].child].filled + orders[p].amount
                      - orders[p].credited <= Target(orders[p].child) + late
        <3>1. p \in Live
            BY <2>1, <2>3 DEF Live, TypeOK
        <3>2. orders[p].child \in Children /\ orders[p] \in OrderRecord
            BY <2>3, OrderFacts
        <3>3. children[orders[p].child] \in ChildSlot
            BY <3>2 DEF TypeOK
        <3>4. /\ children[orders[p].child].filled \in Nat
              /\ orders[p].amount \in Nat /\ orders[p].credited \in Nat
            <4>1. PICK r \in OrderRecord, kid \in ChildSlot :
                     r = orders[p] /\ kid = children[orders[p].child]
                BY <3>2, <3>3
            <4>2. r.amount \in Nat /\ r.credited \in Nat
                BY ConfigAssumption DEF OrderRecord
            <4>3. kid.filled \in Nat
                BY DEF ChildSlot
            <4> QED  BY <4>1, <4>2, <4>3
        <3>5. children[orders[p].child].filled + orders[p].amount
                - orders[p].credited <= Target(orders[p].child) + late
            BY <3>1 DEF ChildBudget
        <3> QED  BY <3>1, <3>2, <3>4, <3>5, ChildrenFacts
    <2>4. CASE Kept
        BY <2>1, <2>3, <2>4 DEF Kept, Uncredited
    <2>5. CASE Sent
        <3>1. p = submitted'
            BY <2>1, <2>5 DEF Sent
        <3>2. /\ orders'[p].child \in Children /\ orders'[p].credited = 0
              /\ orders'[p].amount \in 1..Total /\ late' = 0
              /\ orders'[p].amount
                   <= Target(orders'[p].child) - children[orders'[p].child].filled
              /\ children'[orders'[p].child].filled = children[orders'[p].child].filled
            BY <2>5, <3>1 DEF Sent, Uncredited
        <3>3. children[orders'[p].child].filled \in Nat /\ Target(orders'[p].child) \in Int
            <4>1. children[orders'[p].child] \in ChildSlot
                BY <3>2 DEF TypeOK
            <4> QED  BY <3>2, <4>1, ChildrenFacts DEF ChildSlot
        <3>4. orders'[p].amount \in Nat
            BY <3>2, ConfigAssumption
        <3> QED  BY <3>2, <3>3, <3>4
    <2>6. ASSUME NEW o \in 1..submitted, NEW g \in Nat, Credited(o, g)
          PROVE  children'[orders'[p].child].filled + orders'[p].amount
                   - orders'[p].credited <= Target(orders'[p].child) + late'
        <3>1. /\ p \in 1..submitted /\ (orders[p].terminal => orders'[p].terminal)
              /\ orders'[p].child = orders[p].child /\ orders'[p].amount = orders[p].amount
              /\ orders'[p].credited = IF p = o THEN orders[p].credited + g
                                       ELSE orders[p].credited
              /\ late' = IF orders[o].terminal THEN late + g ELSE late
            BY <2>1, <2>6 DEF Credited
        <3>2. children'[orders[p].child].filled
                 = IF orders[p].child = orders[o].child
                   THEN children[orders[p].child].filled + g
                   ELSE children[orders[p].child].filled
            BY <2>3, <2>6, <3>1 DEF Credited
        <3>3. p = o \/ orders[o].terminal
            BY <2>3, <3>1 DEF OneLiveOrder, Live, TypeOK
        <3> QED  BY <2>1, <2>3, <3>1, <3>2, <3>3
    <2> QED  BY <2>2, <2>4, <2>5, <2>6 DEF Accounts
<1> QED  BY <1>1, <1>2, PTL DEF Spec
-------------------------------------------------------------------------------
(* Credits settle: sums of credits, as numbers of lots.                    *)

\* The lots that the orders in S were credited with by the function f.
Lots(S, f) == {lot \in S \X (1..Total) : lot[2] <= f[lot[1]]}

LEMMA LotsNat ==
    ASSUME NEW S, IsFiniteSet(S), NEW f
    PROVE  IsFiniteSet(Lots(S, f)) /\ Cardinality(Lots(S, f)) \in Nat
<1>1. IsFiniteSet(1..Total)
    BY FS_Interval, ConfigAssumption
<1>2. IsFiniteSet(S \X (1..Total)) /\ Lots(S, f) \in SUBSET (S \X (1..Total))
    BY <1>1, FS_Product DEF Lots
<1> QED  BY <1>2, FS_Subset, FS_CardinalityType

\* Credits outside S do not count; nor does a member that has none.
LEMMA LotsSame ==
    ASSUME NEW S, NEW T, S \subseteq T, NEW f, NEW g,
           \A s \in S : g[s] = f[s], \A t \in T \ S : g[t] = 0
    PROVE  Lots(T, g) = Lots(S, f)
<1>1. ASSUME NEW lot \in Lots(T, g)  PROVE lot \in Lots(S, f)
    <2>1. /\ lot[1] \in T /\ lot[2] \in 1..Total /\ lot[2] <= g[lot[1]]
          /\ lot = <<lot[1], lot[2]>>
        BY DEF Lots
    <2>2. lot[1] \in S
        BY <2>1, ConfigAssumption
    <2> QED  BY <2>1, <2>2 DEF Lots
<1>2. ASSUME NEW lot \in Lots(S, f)  PROVE lot \in Lots(T, g)
    BY DEF Lots
<1> QED  BY <1>1, <1>2

\* One member of S gains n.
Gains(S, o, n, f, g) ==
    /\ IsFiniteSet(S) /\ o \in S /\ n \in Nat
    /\ f[o] \in Nat /\ g[o] = f[o] + n /\ g[o] <= Total
    /\ \A s \in S \ {o} : g[s] = f[s]

LEMMA LotsGrow ==
    ASSUME NEW S, NEW o, NEW n, NEW f, NEW g, Gains(S, o, n, f, g)
    PROVE  Cardinality(Lots(S, g)) = Cardinality(Lots(S, f)) + n
<1> USE DEF Gains
<1> DEFINE New == {o} \X (f[o] + 1 .. f[o] + n)
<1>1. Lots(S, g) = Lots(S, f) \cup New
    <2>1. ASSUME NEW lot \in Lots(S, g)  PROVE lot \in Lots(S, f) \cup New
        <3>1. /\ lot[1] \in S /\ lot[2] \in 1..Total /\ lot[2] <= g[lot[1]]
              /\ lot = <<lot[1], lot[2]>>
            BY DEF Lots
        <3>2. CASE lot[1] = o /\ lot[2] > f[o]
            BY <3>1, <3>2, ConfigAssumption
        <3>3. CASE lot[1] = o /\ ~(lot[2] > f[o])
            BY <3>1, <3>3, ConfigAssumption DEF Lots
        <3>4. CASE lot[1] # o
            BY <3>1, <3>4 DEF Lots
        <3> QED  BY <3>2, <3>3, <3>4
    <2>2. ASSUME NEW lot \in Lots(S, f)  PROVE lot \in Lots(S, g)
        <3>1. /\ lot[1] \in S /\ lot[2] \in 1..Total /\ lot[2] <= f[lot[1]]
              /\ lot = <<lot[1], lot[2]>>
            BY DEF Lots
        <3>2. lot[2] <= g[lot[1]]
            BY <3>1, ConfigAssumption
        <3> QED  BY <3>1, <3>2 DEF Lots
    <2>3. ASSUME NEW lot \in New  PROVE lot \in Lots(S, g)
        <3>1. /\ lot[1] = o /\ lot[2] \in f[o] + 1 .. f[o] + n /\ lot = <<lot[1], lot[2]>>
            OBVIOUS
        <3>2. lot[2] \in 1..Total /\ lot[2] <= g[o]
            BY <3>1, ConfigAssumption
        <3> HIDE DEF New
        <3> QED  BY <3>1, <3>2 DEF Lots
    <2> HIDE DEF New
    <2> QED  BY <2>1, <2>2, <2>3
<1>2. Lots(S, f) \cap New = {}
    BY ConfigAssumption DEF Lots
<1>3. IsFiniteSet({o}) /\ Cardinality({o}) = 1
    BY FS_Singleton
<1>4. IsFiniteSet(f[o] + 1 .. f[o] + n) /\ Cardinality(f[o] + 1 .. f[o] + n) = n
    <2>1. f[o] + 1 \in Int /\ f[o] + n \in Int
        OBVIOUS
    <2>2. /\ IsFiniteSet(f[o] + 1 .. f[o] + n)
          /\ Cardinality(f[o] + 1 .. f[o] + n)
               = IF f[o] + 1 > f[o] + n THEN 0 ELSE (f[o] + n) - (f[o] + 1) + 1
        BY <2>1, FS_Interval
    <2> QED  BY <2>2
<1>5. IsFiniteSet(New) /\ Cardinality(New) = n
    <2>1. /\ IsFiniteSet(New)
          /\ Cardinality(New) = Cardinality({o}) * Cardinality(f[o] + 1 .. f[o] + n)
        BY <1>3, <1>4, FS_Product, Zenon
    <2>2. 1 * n = n
        OBVIOUS
    <2> QED  BY <1>3, <1>4, <2>1, <2>2
<1> HIDE DEF New
<1>6. IsFiniteSet(Lots(S, f)) /\ Cardinality(Lots(S, f)) \in Nat
    BY LotsNat
<1>7. Cardinality(Lots(S, f) \cup New)
        = Cardinality(Lots(S, f)) + Cardinality(New) - Cardinality(Lots(S, f) \cap New)
    BY <1>5, <1>6, FS_Union
<1>8. Cardinality(Lots(S, f) \cap New) = 0
    BY <1>2, FS_EmptySet
<1> QED  BY <1>1, <1>5, <1>6, <1>7, <1>8

\* The orders of a child.
OrdersOf(c) == {o \in DOMAIN orders : orders[o].child = c}
CreditOf == [o \in DOMAIN orders |-> orders[o].credited]

LEMMA SettleLots ==
    ASSUME TypeOK
    PROVE  CreditsSettle <=>
             /\ \A c \in Children :
                   children[c].filled = Cardinality(Lots(OrdersOf(c), CreditOf))
             /\ cumulative_filled = Cardinality(Lots(1..submitted, CreditOf))
<1>1. DOMAIN orders = 1..submitted
    BY DEF TypeOK
<1>2. ASSUME NEW S \in SUBSET (1..submitted)  PROVE CreditedLots(S) = Lots(S, CreditOf)
    BY <1>1 DEF CreditedLots, Lots, CreditOf
<1>3. \A c \in Children : OrdersOf(c) \in SUBSET (1..submitted)
    BY <1>1 DEF OrdersOf
<1>4. \A c \in Children : CreditedLots(OrdersOf(c)) = Lots(OrdersOf(c), CreditOf)
    BY <1>2, <1>3
<1>5. CreditedLots(1..submitted) = Lots(1..submitted, CreditOf)
    BY <1>2
<1>6. CreditsSettle <=>
        /\ \A c \in Children : children[c].filled = Cardinality(CreditedLots(OrdersOf(c)))
        /\ cumulative_filled = Cardinality(CreditedLots(1..submitted))
    BY <1>1 DEF CreditsSettle, OrdersOf
<1> QED  BY <1>4, <1>5, <1>6

\* The same in the next state.
LEMMA SettleLotsNext ==
    ASSUME TypeOK',
           \A c \in Children :
              children'[c].filled = Cardinality(Lots(OrdersOf(c)', CreditOf')),
           cumulative_filled' = Cardinality(Lots(1..submitted', CreditOf'))
    PROVE  CreditsSettle'
<1>1. DOMAIN orders' = 1..submitted'
    BY DEF TypeOK
<1>2. ASSUME NEW S \in SUBSET (1..submitted')  PROVE CreditedLots(S)' = Lots(S, CreditOf')
    BY <1>1 DEF CreditedLots, Lots, CreditOf
<1>3. \A c \in Children : OrdersOf(c)' \in SUBSET (1..submitted')
    BY <1>1 DEF OrdersOf
<1>4. ASSUME NEW c \in Children
      PROVE  CreditedLots(OrdersOf(c))' = Lots(OrdersOf(c)', CreditOf')
    BY <1>1, <1>3 DEF CreditedLots, Lots, CreditOf
<1>5. CreditedLots(1..submitted)' = Lots(1..submitted', CreditOf')
    BY <1>1 DEF CreditedLots, Lots, CreditOf
<1>6. /\ \A c \in Children : children'[c].filled = Cardinality(CreditedLots(OrdersOf(c))')
      /\ cumulative_filled' = Cardinality(CreditedLots(1..submitted)')
    BY <1>4, <1>5
<1> QED  BY <1>1, <1>6 DEF CreditsSettle, OrdersOf

LEMMA OrdersOfFinite ==
    ASSUME TypeOK
    PROVE  IsFiniteSet(1..submitted) /\ \A c : IsFiniteSet(OrdersOf(c))
<1>1. IsFiniteSet(1..submitted)
    BY FS_Interval DEF TypeOK
<1>2. \A c : OrdersOf(c) \in SUBSET (1..submitted)
    BY DEF OrdersOf, TypeOK
<1> QED  BY <1>1, <1>2, FS_Subset

LEMMA UncreditedSettles ==
    ASSUME TypeOK, TypeOK', CreditsSettle, Kept \/ Sent
    PROVE  CreditsSettle'
<1>1. /\ Uncredited /\ submitted \in Nat /\ submitted' \in Nat
      /\ DOMAIN orders = 1..submitted /\ DOMAIN orders' = 1..submitted'
      /\ 1..submitted \subseteq 1..submitted'
    <2>1. Uncredited
        BY DEF Kept, Sent
    <2>2. /\ submitted \in Nat /\ submitted' \in Nat
          /\ DOMAIN orders = 1..submitted /\ DOMAIN orders' = 1..submitted'
        BY DEF TypeOK
    <2>3. submitted <= submitted'
        BY <2>1 DEF Uncredited
    <2> QED
        BY ONLY <2>1, <2>2, <2>3
<1>2. \A o \in (1..submitted') \ (1..submitted) : orders'[o].credited = 0
    BY <1>1 DEF Kept, Sent
<1>3. /\ \A o \in 1..submitted : CreditOf'[o] = CreditOf[o]
      /\ \A o \in (1..submitted') \ (1..submitted) : CreditOf'[o] = 0
    BY <1>1, <1>2 DEF CreditOf, Uncredited
<1>4. Lots(1..submitted', CreditOf') = Lots(1..submitted, CreditOf)
    BY <1>1, <1>3, LotsSame
<1>5. ASSUME NEW c \in Children
      PROVE  Lots(OrdersOf(c)', CreditOf') = Lots(OrdersOf(c), CreditOf)
    <2>1. /\ OrdersOf(c) \subseteq OrdersOf(c)' /\ OrdersOf(c) \subseteq 1..submitted
          /\ \A o \in OrdersOf(c)' \ OrdersOf(c) : o \in (1..submitted') \ (1..submitted)
        BY <1>1 DEF OrdersOf, Uncredited
    <2> QED  BY <1>3, <2>1, LotsSame
<1>6. /\ \A c \in Children : children[c].filled = Cardinality(Lots(OrdersOf(c), CreditOf))
      /\ cumulative_filled = Cardinality(Lots(1..submitted, CreditOf))
    BY SettleLots
<1>7. /\ \A c \in Children : children'[c].filled = Cardinality(Lots(OrdersOf(c)', CreditOf'))
      /\ cumulative_filled' = Cardinality(Lots(1..submitted', CreditOf'))
    BY <1>1, <1>4, <1>5, <1>6 DEF Uncredited
<1> QED  BY <1>7, SettleLotsNext

LEMMA CreditedSettles ==
    ASSUME TypeOK, TypeOK', RecordsOK', CreditsSettle,
           NEW o \in 1..submitted, NEW g \in Nat, Credited(o, g)
    PROVE  CreditsSettle'
<1>1. /\ submitted \in Nat /\ submitted' = submitted
      /\ DOMAIN orders = 1..submitted /\ DOMAIN orders' = 1..submitted
    BY DEF TypeOK, Credited
<1>2. /\ orders[o].credited \in Nat /\ orders[o].child \in Children
      /\ orders'[o].credited = orders[o].credited + g
      /\ orders'[o].credited <= Total
    <2>1. orders[o] \in OrderRecord /\ orders'[o] \in OrderRecord
        BY <1>1 DEF TypeOK
    <2>2. orders'[o].credited <= orders'[o].amount /\ orders'[o].amount \in 1..Total
        BY <1>1, <2>1 DEF RecordsOK, RecordOK, OrderRecord
    <2>3. orders[o].credited \in Nat /\ orders'[o].credited \in Nat
          /\ orders[o].child \in Children
        BY <2>1 DEF OrderRecord
    <2>4. orders'[o].credited = orders[o].credited + g
        BY DEF Credited
    <2>5. orders'[o].credited <= Total
        BY <2>2, <2>3, ConfigAssumption
    <2> QED  BY <2>3, <2>4, <2>5
<1>3. /\ CreditOf[o] = orders[o].credited /\ CreditOf'[o] = orders'[o].credited
      /\ \A p \in (1..submitted) \ {o} : CreditOf'[p] = CreditOf[p]
    BY <1>1 DEF CreditOf, Credited
<1>4. IsFiniteSet(1..submitted) /\ \A c : IsFiniteSet(OrdersOf(c))
    BY OrdersOfFinite
<1>5. Cardinality(Lots(1..submitted, CreditOf'))
        = Cardinality(Lots(1..submitted, CreditOf)) + g
    <2>1. Gains(1..submitted, o, g, CreditOf, CreditOf')
        BY <1>2, <1>3, <1>4 DEF Gains
    <2> QED  BY ONLY <2>1, LotsGrow
<1>6. ASSUME NEW c \in Children
      PROVE  /\ OrdersOf(c)' = OrdersOf(c)
             /\ Cardinality(Lots(OrdersOf(c), CreditOf'))
                  = IF c = orders[o].child
                    THEN Cardinality(Lots(OrdersOf(c), CreditOf)) + g
                    ELSE Cardinality(Lots(OrdersOf(c), CreditOf))
    <2>1. OrdersOf(c)' = OrdersOf(c) /\ OrdersOf(c) \subseteq 1..submitted
        BY <1>1 DEF OrdersOf, Credited
    <2>2. o \in OrdersOf(c) <=> c = orders[o].child
        BY <1>1 DEF OrdersOf
    <2>3. CASE c = orders[o].child
        <3>1. \A p \in OrdersOf(c) \ {o} : CreditOf'[p] = CreditOf[p]
            BY <1>3, <2>1
        <3>2. IsFiniteSet(OrdersOf(c)) /\ o \in OrdersOf(c)
            BY <1>4, <2>2, <2>3
        <3>3. Gains(OrdersOf(c), o, g, CreditOf, CreditOf')
            BY <1>2, <1>3, <3>1, <3>2 DEF Gains
        <3>4. Cardinality(Lots(OrdersOf(c), CreditOf'))
                = Cardinality(Lots(OrdersOf(c), CreditOf)) + g
            BY ONLY <3>3, LotsGrow
        <3> QED  BY <2>1, <2>3, <3>4
    <2>4. CASE c # orders[o].child
        <3>1. \A p \in OrdersOf(c) : CreditOf'[p] = CreditOf[p]
            BY <1>3, <2>1, <2>2, <2>4
        <3>2. Lots(OrdersOf(c), CreditOf') = Lots(OrdersOf(c), CreditOf)
            BY <3>1, LotsSame
        <3> QED  BY <2>1, <2>4, <3>2
    <2> QED  BY <2>3, <2>4
<1>7. /\ \A c \in Children : children[c].filled = Cardinality(Lots(OrdersOf(c), CreditOf))
      /\ cumulative_filled = Cardinality(Lots(1..submitted, CreditOf))
    BY SettleLots
<1>8. /\ \A c \in Children : children'[c].filled = Cardinality(Lots(OrdersOf(c)', CreditOf'))
      /\ cumulative_filled' = Cardinality(Lots(1..submitted', CreditOf'))
    BY <1>1, <1>5, <1>6, <1>7 DEF Credited
<1> QED  BY <1>8, SettleLotsNext

\* Every lot executed is credited to the child that submitted its order and to
\* the total, once, whatever the venue repeats, delays or reports of orders that
\* had ended.
THEOREM CreditsAddUp == Spec => []CreditsSettle
<1> DEFINE IInv == TypeOK /\ OneLiveOrder /\ RecordsOK /\ CreditsSettle
<1>1. Init => IInv
    <2>1. Init => CreditsSettle
        <3> SUFFICES ASSUME Init  PROVE CreditsSettle
            OBVIOUS
        <3>1. orders = [o \in 1..0 |-> 0] /\ cumulative_filled = 0
            BY Zenon DEF Init
        <3>2. \A c \in Children : children[c].filled = 0
            BY DEF Init
        <3>3. DOMAIN orders = {}
            BY <3>1
        <3>4. \A S : S \subseteq {} => CreditedLots(S) = {}
            BY DEF CreditedLots
        <3>5. /\ CreditedLots(DOMAIN orders) = {}
              /\ \A c : CreditedLots({o \in DOMAIN orders : orders[o].child = c}) = {}
            BY <3>3, <3>4
        <3> QED  BY <3>1, <3>2, <3>5, FS_EmptySet DEF CreditsSettle
    <2> QED  BY <2>1, InitTypes, InitOneLive, InitRecords
<1>2. IInv /\ [Next]_vars => IInv'
    <2> SUFFICES ASSUME IInv, [Next]_vars, TypeOK', OneLiveOrder', RecordsOK'
                 PROVE  CreditsSettle'
        BY NextTypes, NextOneLive, NextRecords
    <2>1. Accounts
        BY NextAccounts
    <2> QED  BY <2>1, UncreditedSettles, CreditedSettles DEF Accounts
<1> QED  BY <1>1, <1>2, PTL DEF Spec
-------------------------------------------------------------------------------
(* The close type.                                                         *)

\* The close type is set by what ends the run: a stop sets it before.
CloseOK ==
    /\ status \in {"NOT_STARTED", "RUNNING"} => close_type = "NONE"
    /\ status = "SHUTTING_DOWN" => close_type \in {"EARLY_STOP", "POSITION_HOLD"}

\* What a step that closes the executor must establish.
Closing(type) ==
    /\ Outstanding(orders') = 0
    /\ type \in {"EARLY_STOP", "POSITION_HOLD", "INSUFFICIENT_BALANCE", FinalCloseType}
    /\ UNCHANGED <<cumulative_filled, retries>>

LEMMA ClosingTruthful ==
    ASSUME TypeOK, Closing(close_type'), status' = "TERMINATED"
    PROVE  TruthfulClose' /\ CloseOK'
<1>1. cumulative_filled \in Nat /\ retries \in Nat
    BY DEF TypeOK
<1>2. Outstanding(orders)' = 0
    BY DEF Closing, Outstanding, OutstandingLots
<1>3. /\ FinalCloseType # "NONE"
      /\ FinalCloseType = "COMPLETED" => cumulative_filled >= Total /\ retries <= MaxRetries
      /\ FinalCloseType = "TIME_LIMIT" => cumulative_filled < Total
      /\ FinalCloseType = "FAILED" => retries > MaxRetries
    BY <1>1, ConfigAssumption DEF FinalCloseType
<1> HIDE DEF FinalCloseType
<1> QED  BY <1>2, <1>3 DEF Closing, TruthfulClose, CloseOK

\* A step that leaves the status and the close type alone.
LEMMA OpenTruthful ==
    ASSUME CloseOK, status # "TERMINATED", UNCHANGED <<status, close_type>>
    PROVE  TruthfulClose' /\ CloseOK'
BY DEF TruthfulClose, CloseOK

LEMMA NextTruthful ==
    ASSUME TypeOK, OneLiveOrder, StartOK, CloseOK, TruthfulClose, [Next]_vars
    PROVE  TruthfulClose' /\ CloseOK'
<1>1. CASE UNCHANGED executor
    BY <1>1 DEF executor, TruthfulClose, CloseOK, Outstanding, OutstandingLots
<1>2. CASE ValidateSufficientBalance
    <2>1. CASE status' = "RUNNING"
        BY <1>2, <2>1 DEF ValidateSufficientBalance, CloseOK, TruthfulClose
    <2>2. CASE status' = "TERMINATED"
        <3>1. submitted = 0 /\ orders' = orders /\ close_type' = "INSUFFICIENT_BALANCE"
              /\ UNCHANGED <<cumulative_filled, retries>>
            BY <1>2, <2>2 DEF ValidateSufficientBalance, StartOK
        <3>2. Outstanding(orders) = 0
            <4>1. /\ submitted \in Nat /\ orders \in [1..submitted -> OrderRecord]
                  /\ \A p \in 1..submitted : orders[p].terminal
                BY <3>1 DEF TypeOK
            <4> QED  BY <4>1, EndedMeansSettled
        <3> QED  BY <2>2, <3>1, <3>2, ClosingTruthful DEF Closing
    <2> QED  BY <1>2, <2>1, <2>2 DEF ValidateSufficientBalance
<1>3. CASE Step
    <2>1. status = "RUNNING" /\ UNCHANGED <<cumulative_filled, retries>>
        BY <1>3 DEF Step
    <2>2. \/ UNCHANGED <<status, close_type>>
          \/ /\ Outstanding(orders) = 0 /\ orders' = orders
             /\ close_type' = FinalCloseType /\ status' = "TERMINATED"
        BY <1>3 DEF Step, StepAllTerminal, StepIdle, StepActive, StepWait, CloseExecutionBy
    <2> HIDE DEF FinalCloseType
    <2> QED  BY <2>1, <2>2, OpenTruthful, ClosingTruthful DEF Closing
<1>4. CASE ShutDown
    <2>1. \/ status = "SHUTTING_DOWN" /\ UNCHANGED <<status, close_type>>
          \/ /\ Outstanding(orders) = 0 /\ orders' = orders
             /\ close_type' = close_type /\ close_type \in {"EARLY_STOP", "POSITION_HOLD"}
             /\ status' = "TERMINATED" /\ UNCHANGED <<cumulative_filled, retries>>
        BY <1>4 DEF ShutDown, CloseExecutionBy, CloseOK
    <2> QED  BY <2>1, OpenTruthful, ClosingTruthful DEF Closing
<1>5. CASE EarlyStop
    BY <1>5 DEF EarlyStop, TruthfulClose, CloseOK
<1>6. CASE Tick
    BY <1>6, OpenTruthful DEF Tick, Attached
<1>7. ASSUME NEW o \in 1..submitted,
             \/ \E trade \in 1..orders[o].amount : OrderFilled(o, trade)
             \/ \E amount \in 0..orders[o].amount : VenueCompletes(o, amount)
             \/ VenueCancels(o)
             \/ OrderFailed(o)
      PROVE  TruthfulClose' /\ CloseOK'
    <2>1. UNCHANGED <<status, close_type>> /\ status # "TERMINATED"
        BY <1>7 DEF OrderFilled, VenueCompletes, OrderCompleted, VenueCancels, OrderCanceled,
                    OrderFailed, Attached
    <2> QED  BY <2>1, OpenTruthful
<1>8. ASSUME NEW o \in 1..submitted, ReduceOnlyRejected(o)
      PROVE  TruthfulClose' /\ CloseOK'
    <2>1. /\ orders' = EndOrder(o) /\ close_type' = "EARLY_STOP" /\ status' = "TERMINATED"
          /\ UNCHANGED <<cumulative_filled, retries>>
        BY <1>8 DEF ReduceOnlyRejected, CloseExecutionBy, KeepOrders
    <2>2. Outstanding(EndOrder(o)) = 0
        <3>1. /\ submitted \in Nat /\ EndOrder(o) \in [1..submitted -> OrderRecord]
              /\ \A p \in 1..submitted : EndOrder(o)[p].terminal
            BY <1>8, OrderFacts, EndMeansEnded DEF ReduceOnlyRejected, AllEnded, TypeOK
        <3> QED  BY <3>1, EndedMeansSettled
    <2> QED  BY <2>1, <2>2, ClosingTruthful DEF Closing
<1>9. CASE (\E o \in 1..submitted : CancelLost(o)) \/ UNCHANGED vars
    BY <1>1, <1>9 DEF CancelLost, vars
<1> QED  BY <1>2, <1>3, <1>4, <1>5, <1>6, <1>7, <1>8, <1>9
         DEF Next, ControlTask, VenueFails

\* An executor that has closed left nothing on the venue, and says COMPLETED,
\* FAILED or TIME_LIMIT only when that is what happened.
THEOREM ClosesTruthfully == Spec => []TruthfulClose
<1> DEFINE IInv == TypeOK /\ OneLiveOrder /\ StartOK /\ CloseOK /\ TruthfulClose
<1>1. Init => IInv
    BY InitTypes, InitOneLive, InitAllowed DEF Init, CloseOK, TruthfulClose
<1>2. IInv /\ [Next]_vars => IInv'
    BY NextTypes, NextOneLive, NextStartOK, NextTruthful
<1> QED  BY <1>1, <1>2, PTL DEF Spec
===============================================================================
