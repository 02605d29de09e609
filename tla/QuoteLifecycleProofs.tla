------------------------- MODULE QuoteLifecycleProofs -------------------------
(***************************************************************************)
(* The perp controller exceeds its position cap by no more than a cycle    *)
(* that quoted was wrong about the position, never has quotes beside a     *)
(* close, creates no quote while its circuit is open, and does not forget  *)
(* an accepted flatten: for every cap, quote size, time limit, number of   *)
(* executors and number of lots that may be unknown.                       *)
(***************************************************************************)
EXTENDS QuoteLifecycle, TLAPS, WellFoundedInduction

\* Positions a cycle may decide on: the cap exceeded, then misread again.
Reach == Cap + 2 * MaxUnseen
Positions == -Reach .. Reach
Ends == {"running", "stopping"}
Speeds == {"normal", "immediate", "emergency"}

QuoteExecutor ==
    [kind : {"quote"}, side : Sides, left : 1 .. 2 * Reach, reduce : BOOLEAN,
     status : Ends, order : {"none", "sent", "live"}, clock : 0 .. RefreshInterval]

CloseExecutor ==
    [kind : {"close"}, side : Sides, amount : 1 .. 2 * Reach, left : 1 .. 2 * Reach,
     reduce : BOOLEAN, urgency : Speeds, status : Ends, order : {"live"}, clock : 0 .. 3]

Executor == QuoteExecutor \cup CloseExecutor

Intent == {NoIntent}
    \cup [kind : {"quote"}, current : Positions, size : [Sides -> Int]]
    \cup [kind : {"flat"}, current : Positions, target : Positions, urgency : Speeds]

Types ==
    /\ pos \in Int /\ lag \in 0 .. MaxUnseen /\ late \in 0 .. MaxUnseen
    /\ Active \subseteq Ids /\ execs \in [Active -> Executor]
    /\ intent \in Intent
    /\ wd \in [missing : {Never} \cup 0 .. Timeout, cool : 0 .. Cooldown, opened : BOOLEAN]
    /\ refresh \in [pending : BOOLEAN, age : {Never} \cup 0 .. Timeout]
    /\ queue \in [stops : SUBSET Ids, creates : SUBSET Executor]

Clocks == \A e \in Active : execs[e].clock <= ClockLimit(execs[e])

\* A quote that fills completely stays in the cap; a fill of the other side
\* only makes more room.
Fits(x) == Sign(x.side) * pos + x.left <= Cap + late

\* The quotes of one side never add up: there is one.
OnePerSide == \A e, f \in Quotes : execs[e].side = execs[f].side => e = f

\* A close may only reduce.
Reducing == \A e \in Closes : execs[e].reduce

\* What was decided still holds when it is executed: quotes find no
\* executor, closes find no quote, although orders filled in between.
Queued ==
    \A x \in queue.creates :
        /\ x.status = "running" /\ x.clock = 0
        /\ IF x.kind = "quote" THEN Active = {} /\ Fits(x)
                                ELSE Quotes = {} /\ x.reduce
        /\ \A y \in queue.creates :
              /\ x.kind = y.kind
              /\ x.kind = "quote" /\ x.side = y.side => x = y

\* A drain is not pending while the circuit is open, so that its last
\* branch, which re-creates quotes, need not look at the circuit.
DrainClosed == refresh.pending => wd.cool = 0

IInv == /\ Types /\ WithinCap /\ Clocks /\ (\A e \in Quotes : Fits(execs[e]))
        /\ OnePerSide /\ Apart /\ Reducing /\ Queued /\ DrainClosed

-----------------------------------------------------------------------------
(* Small facts.                                                            *)

LEMMA SignTimes ==
    \A side \in Sides, n \in Int : Sign(side) * n = IF side = "buy" THEN n ELSE -n
BY DEF Sides, Sign

LEMMA Constants == /\ Cap \in Nat /\ Cap > 0 /\ QuoteSize \in Nat /\ QuoteSize > 0
                   /\ Timeout \in Nat /\ Timeout > 0 /\ Cooldown \in Nat /\ Cooldown > 0
                   /\ RefreshInterval \in Nat /\ RefreshInterval > 0
                   /\ MaxPerSide \in Nat /\ MaxUnseen \in Nat
                   /\ Reach \in Nat /\ Cap + 2 * MaxUnseen = Reach
BY QuoteAssumption DEF Reach

\* What a cycle knows differs from the venue by the lots it may miss or count twice.
LEMMA KnownFacts ==
    ASSUME Types, WithinCap, NEW p \in Known
    PROVE  p \in Positions /\ Abs(pos - p) \in 0 .. MaxUnseen
<1>1. PICK n \in -lag .. lag : p = pos + n
  BY DEF Known
<1>2. lag \in 0 .. MaxUnseen /\ pos \in Int /\ late \in 0 .. MaxUnseen
  BY DEF Types
<1>3. n \in -MaxUnseen .. MaxUnseen
  BY <1>1, <1>2, Constants
<1>4. pos \in -(Cap + MaxUnseen) .. (Cap + MaxUnseen)
  BY <1>2, Constants DEF WithinCap, Abs
<1> QED
  BY <1>1, <1>3, <1>4, Constants DEF Positions, Abs

\* What a type says of one active executor.
LEMMA ExecutorFacts ==
    ASSUME Types, NEW e \in Active
    PROVE  /\ execs[e] \in Executor
           /\ execs[e].side \in Sides /\ execs[e].left \in 1 .. 2 * Reach
           /\ execs[e].clock \in Nat /\ execs[e].reduce \in BOOLEAN
           /\ e \in Quotes <=> execs[e] \in QuoteExecutor
           /\ e \in Closes <=> execs[e] \in CloseExecutor
<1>1. execs[e] \in Executor
  BY DEF Types
<1>2. e \in Quotes <=> execs[e].kind = "quote"
  BY DEF Quotes
<1>3. e \in Closes <=> execs[e].kind # "quote"
  BY DEF Quotes, Closes
<1>4. CASE execs[e] \in QuoteExecutor
  <2>1. execs[e].kind = "quote" /\ execs[e] \notin CloseExecutor
    BY <1>4 DEF QuoteExecutor, CloseExecutor
  <2> QED
    BY <1>1, <1>2, <1>3, <1>4, <2>1, Constants DEF QuoteExecutor
<1>5. CASE execs[e] \in CloseExecutor
  <2>1. execs[e].kind = "close" /\ execs[e] \notin QuoteExecutor
    BY <1>5 DEF QuoteExecutor, CloseExecutor
  <2>2. /\ execs[e].side \in Sides /\ execs[e].left \in 1 .. 2 * Reach
        /\ execs[e].clock \in Nat /\ execs[e].reduce \in BOOLEAN
    BY <1>5 DEF CloseExecutor
  <2> QED
    BY <1>1, <1>2, <1>3, <1>5, <2>1, <2>2
<1> QED
  BY <1>1, <1>4, <1>5 DEF Executor

LEMMA LimitFacts ==
    ASSUME NEW x \in Executor PROVE ClockLimit(x) \in Nat
BY Constants DEF Executor, QuoteExecutor, CloseExecutor, ClockLimit, CloseLimit

-----------------------------------------------------------------------------
(* Between two decisions: orders are sent, filled and ended, time passes.  *)

\* Executors end, lose lots or change the state of their order; what was
\* decided is left alone, and a quote still fits.
Evolves ==
    /\ Active' \subseteq Active /\ execs' \in [Active' -> Executor]
    /\ \A e \in Active' : /\ execs'[e].kind = execs[e].kind
                          /\ execs'[e].side = execs[e].side
                          /\ execs'[e].reduce = execs[e].reduce
    /\ Clocks' /\ (\A e \in Quotes' : Fits(execs[e])')
    /\ pos' \in Int /\ WithinCap' /\ (Active = {} => pos' = pos)
    /\ lag' \in 0 .. MaxUnseen
    /\ UNCHANGED <<late, intent, queue>>
    /\ wd' \in [missing : {Never} \cup 0 .. Timeout, cool : 0 .. Cooldown, opened : BOOLEAN]
    /\ refresh' \in [pending : BOOLEAN, age : {Never} \cup 0 .. Timeout]
    /\ refresh'.pending = refresh.pending /\ (wd.cool = 0 => wd'.cool = 0)

LEMMA EvolvesInv == IInv /\ Evolves => IInv'
<1> SUFFICES ASSUME IInv, Evolves PROVE IInv'
    OBVIOUS
<1> USE DEF IInv, Evolves
<1>1. Types'
  BY DEF Types
<1>2. /\ Quotes' \subseteq Quotes /\ Closes' \subseteq Closes
      /\ Active = {} => Active' = {}
  BY DEF Quotes, Closes
<1>3. OnePerSide'
  BY <1>2 DEF OnePerSide, Quotes
<1>4. Apart' /\ Reducing'
  BY <1>2 DEF Apart, Reducing, Closes
<1>5. Queued'
  <2> SUFFICES ASSUME NEW x \in queue.creates
               PROVE  /\ x.status = "running" /\ x.clock = 0
                      /\ IF x.kind = "quote" THEN Active' = {} /\ Fits(x)'
                                             ELSE Quotes' = {} /\ x.reduce
                      /\ \A y \in queue.creates :
                            /\ x.kind = y.kind
                            /\ x.kind = "quote" /\ x.side = y.side => x = y
    BY DEF Queued
  <2> QED
    BY <1>2 DEF Queued, Fits
<1>6. DrainClosed'
  BY DEF DrainClosed
<1> QED
  BY <1>1, <1>3, <1>4, <1>5, <1>6

\* What is left of the executors when one of them changes or ends.
Remain ==
    /\ Active' \subseteq Active /\ execs' \in [Active' -> Executor]
    /\ \A e \in Active' : /\ execs'[e].kind = execs[e].kind
                          /\ execs'[e].side = execs[e].side
                          /\ execs'[e].reduce = execs[e].reduce
                          /\ execs'[e].left <= execs[e].left
    /\ Clocks'

LEMMA Changed ==
    ASSUME Types, Clocks, NEW e \in Active, NEW x \in Executor,
           x.kind = execs[e].kind, x.side = execs[e].side,
           x.reduce = execs[e].reduce, x.left <= execs[e].left,
           x.clock <= ClockLimit(x), execs' = [execs EXCEPT ![e] = x]
    PROVE  Remain /\ Active' = Active
<1>1. execs \in [Active -> Executor]
  BY DEF Types
<1>2. Active' = Active /\ execs' \in [Active' -> Executor]
  BY <1>1 DEF Active
<1>3. \A f \in Active : execs[f].left <= execs[f].left
  BY ExecutorFacts
<1>4. \A f \in Active : execs'[f] = IF f = e THEN x ELSE execs[f]
  BY <1>1
<1>5. Clocks'
  BY <1>2, <1>4 DEF Clocks, ClockLimit
<1> QED
  BY <1>2, <1>3, <1>4, <1>5 DEF Remain

LEMMA Ended ==
    ASSUME Types, Clocks, NEW e \in Active, End(e)
    PROVE  Remain /\ Active' = Active \ {e}
<1>1. execs \in [Active -> Executor]
  BY DEF Types
<1>2. /\ Active' = Active \ {e} /\ execs' \in [Active' -> Executor]
      /\ \A f \in Active' : execs'[f] = execs[f]
  BY <1>1 DEF End, Active
<1>3. \A f \in Active' : execs[f].left <= execs[f].left
  BY <1>2, ExecutorFacts
<1>4. Clocks'
  BY <1>2 DEF Clocks, ClockLimit
<1> QED
  BY <1>2, <1>3, <1>4 DEF Remain

\* Without a fill that is all.
LEMMA RemainInv ==
    ASSUME IInv, Remain, pos' = pos, lag' \in 0 .. MaxUnseen,
           UNCHANGED <<late, intent, wd, refresh, queue>>
    PROVE  IInv'
<1> SUFFICES Evolves
    BY EvolvesInv
<1>1. Types
  BY DEF IInv
<1>2. /\ pos' \in Int /\ UNCHANGED <<late, intent, queue>>
      /\ WithinCap'
      /\ wd' \in [missing : {Never} \cup 0 .. Timeout, cool : 0 .. Cooldown, opened : BOOLEAN]
      /\ refresh' \in [pending : BOOLEAN, age : {Never} \cup 0 .. Timeout]
      /\ refresh'.pending = refresh.pending /\ (wd.cool = 0 => wd'.cool = 0)
  BY <1>1 DEF Types, IInv, WithinCap
<1>3. ASSUME NEW e \in Quotes' PROVE Fits(execs[e])'
  <2>1. e \in Quotes /\ e \in Active /\ e \in Active'
    BY DEF Remain, Quotes
  <2>2. Fits(execs[e])
    BY <2>1 DEF IInv
  <2>3. execs[e].left \in Int /\ execs'[e].left \in Int /\ execs[e].side \in Sides
    BY <1>1, <2>1, Constants, ExecutorFacts
       DEF Remain, Executor, QuoteExecutor, CloseExecutor
  <2>4. pos \in Int /\ Cap \in Int /\ late \in Int
    BY <1>1, Constants DEF Types
  <2> QED
    BY <2>1, <2>2, <2>3, <2>4, SignTimes DEF Fits, Remain
<1> QED
  BY <1>2, <1>3 DEF Evolves, Remain

\* A quote's order changes its state.
LEMMA OrderInv ==
    ASSUME IInv, NEW e \in Active, execs[e].order \in {"none", "sent"},
           NEW to \in {"none", "sent", "live"}, execs' = [execs EXCEPT ![e].order = to],
           UNCHANGED <<pos, lag, faults, decided>>
    PROVE  IInv'
<1> DEFINE x == [execs[e] EXCEPT !.order = to]
<1>1. Types /\ Clocks
  BY DEF IInv
<1>2. execs[e] \in QuoteExecutor
  BY <1>1, ExecutorFacts DEF Executor, CloseExecutor
<1>3. /\ x \in QuoteExecutor /\ x.kind = execs[e].kind /\ x.side = execs[e].side
      /\ x.reduce = execs[e].reduce /\ x.left = execs[e].left /\ x.left \in Int
      /\ x.clock = execs[e].clock /\ x.status = execs[e].status
  BY <1>2, Constants DEF QuoteExecutor
<1>4. execs' = [execs EXCEPT ![e] = x]
  BY <1>1 DEF Types
<1>5. x.clock <= ClockLimit(x)
  BY <1>1, <1>2, <1>3 DEF Clocks, ClockLimit, QuoteExecutor
<1>6. x \in Executor /\ x.left <= execs[e].left
  BY <1>3 DEF Executor
<1> HIDE DEF x
<1>7. Remain
  BY <1>1, <1>3, <1>4, <1>5, <1>6, Changed
<1> QED
  BY <1>1, <1>7, RemainInv DEF decided, Types

\* An executor ends without another fill.
LEMMA EndInv ==
    ASSUME IInv, NEW e \in Active, End(e), UNCHANGED <<pos, lag, decided>>
    PROVE  IInv'
<1>1. Remain /\ Types
  BY Ended DEF IInv
<1> QED
  BY <1>1, RemainInv DEF decided, Types

LEMMA QuietInv ==
    ASSUME IInv, NEW e \in Active,
           QuoteSent(e) \/ QuoteAcked(e) \/ QuoteRejected(e) \/ StopConfirmed(e)
              \/ CloseGivesUp(e)
    PROVE  IInv'
<1>1. CASE QuoteSent(e)
  BY <1>1, OrderInv DEF QuoteSent
<1>2. CASE QuoteAcked(e)
  BY <1>2, OrderInv DEF QuoteAcked
<1>3. CASE QuoteRejected(e)
  BY <1>3, OrderInv, EndInv DEF QuoteRejected
<1>4. CASE StopConfirmed(e)
  BY <1>4, EndInv DEF StopConfirmed
<1>5. CASE CloseGivesUp(e)
  BY <1>5, EndInv DEF CloseGivesUp
<1> QED
  BY <1>1, <1>2, <1>3, <1>4, <1>5

\* What a fill of n lots may do to the position.
LEMMA FillBound ==
    ASSUME IInv, NEW e \in Active, NEW n \in 1 .. MayFill(e)
    PROVE  /\ MayFill(e) \in Nat /\ n <= execs[e].left
           /\ pos + Sign(execs[e].side) * n \in Int
           /\ Abs(pos + Sign(execs[e].side) * n) <= Cap + late
           /\ e \in Closes => Sign(execs[e].side) * pos + n <= 0
<1>1. /\ execs[e].side \in Sides /\ execs[e].left \in Nat /\ execs[e].reduce \in BOOLEAN
      /\ pos \in Int /\ late \in Nat /\ -(Cap + late) <= pos /\ pos <= Cap + late
      /\ Cap \in Nat
  BY ExecutorFacts, Constants DEF IInv, Types, WithinCap, Abs
<1>2. MayFill(e) \in Nat /\ MayFill(e) <= execs[e].left
  BY <1>1, SignTimes DEF MayFill, Least, Abs
<1>3. execs[e].reduce => Sign(execs[e].side) * pos + MayFill(e) <= 0 \/ MayFill(e) = 0
  BY <1>1, SignTimes DEF MayFill, Least, Abs
<1>4. e \in Closes => execs[e].reduce
  BY DEF IInv, Reducing
<1>5. e \in Quotes => Sign(execs[e].side) * pos + execs[e].left <= Cap + late
  BY DEF IInv, Fits
<1>6. e \in Quotes \/ e \in Closes
  BY DEF Closes
<1>7. n \in Nat /\ n > 0 /\ n <= MayFill(e)
  BY <1>2
<1>8. CASE execs[e].side = "buy"
  BY <1>1, <1>2, <1>3, <1>4, <1>5, <1>6, <1>7, <1>8, SignTimes DEF Abs
<1>9. CASE execs[e].side = "sell"
  BY <1>1, <1>2, <1>3, <1>4, <1>5, <1>6, <1>7, <1>9, SignTimes DEF Abs
<1> QED
  BY <1>1, <1>8, <1>9 DEF Sides

\* A fill moves the position by what the executor has less to do, or ends
\* the executor.  Two quotes that are filled have different sides.
LEMMA FillInv ==
    ASSUME IInv, NEW e \in Active, NEW n \in 1 .. MayFill(e), Remain,
           pos' = pos + Sign(execs[e].side) * n, UNCHANGED decided,
           lag' \in 0 .. MaxUnseen,
           e \in Active' => execs'[e].left = execs[e].left - n
    PROVE  IInv'
<1>1. Types /\ n \in Nat /\ pos' \in Int /\ n > 0
  BY FillBound DEF IInv
<1>2. UNCHANGED <<late, intent, wd, refresh, queue>>
  BY DEF decided
<1>8. WithinCap'
  BY <1>2, FillBound DEF WithinCap
<1>3. /\ wd' \in [missing : {Never} \cup 0 .. Timeout, cool : 0 .. Cooldown, opened : BOOLEAN]
      /\ refresh' \in [pending : BOOLEAN, age : {Never} \cup 0 .. Timeout]
      /\ refresh'.pending = refresh.pending /\ (wd.cool = 0 => wd'.cool = 0)
  BY <1>1, <1>2 DEF Types
<1>4. ASSUME NEW f \in Quotes' PROVE Fits(execs[f])'
  <2>1. f \in Quotes /\ f \in Active /\ f \in Active'
    BY DEF Remain, Quotes
  <2>2. Fits(execs[f])
    BY <2>1 DEF IInv
  <2>3. e \in Quotes
    BY <2>1 DEF IInv, Apart, Closes
  <2>4. /\ execs[f].left \in Int /\ execs'[f].left \in Int
        /\ execs[f].side \in Sides /\ execs[e].side \in Sides
        /\ pos \in Int /\ Cap \in Int /\ late \in Int /\ execs[e].left \in Int
    BY <1>1, <2>1, Constants, ExecutorFacts
       DEF Remain, Executor, QuoteExecutor, CloseExecutor, Types
  <2>5. execs'[f].side = execs[f].side /\ execs'[f].left <= execs[f].left
    BY <2>1 DEF Remain
  <2>6. CASE f = e
    BY <1>1, <2>1, <1>2, <2>2, <2>4, <2>5, <2>6, SignTimes DEF Fits, Sides
  <2>7. CASE f # e
    <3>1. execs[f].side # execs[e].side
      BY <2>1, <2>3, <2>7 DEF IInv, OnePerSide
    <3> QED
      BY <1>1, <2>1, <1>2, <2>2, <2>4, <2>5, <3>1, SignTimes DEF Fits, Sides
  <2> QED
    BY <2>6, <2>7
<1>5. Evolves
  BY <1>1, <1>2, <1>3, <1>4, <1>8 DEF Evolves, Remain
<1> QED
  BY <1>5, EvolvesInv

\* The lots of a fill may be unseen, up to the bound.
LEMMA FilledLag ==
    ASSUME Types, NEW side \in Sides, NEW n \in Nat, Filled(side, n)
    PROVE  lag' \in 0 .. MaxUnseen
<1>1. lag + n \in Nat
  BY Constants DEF Types
<1>2. Least(lag + n, MaxUnseen) \in 0 .. MaxUnseen
  BY <1>1, Constants DEF Least
<1> QED
  BY <1>2 DEF Types, Filled

LEMMA OrderFillsInv == ASSUME IInv, NEW e \in Active, OrderFills(e) PROVE IInv'
<1>1. PICK n \in 1 .. MayFill(e) : Fill(e, n)
  BY DEF OrderFills
<1>2. Types /\ Clocks
  BY DEF IInv
<1>3. /\ UNCHANGED decided /\ pos' = pos + Sign(execs[e].side) * n
      /\ lag' \in 0 .. MaxUnseen
  <2>1. n \in Nat /\ execs[e].side \in Sides
    BY <1>2, FillBound, ExecutorFacts
  <2> QED
    BY <1>1, <1>2, <2>1, FilledLag DEF OrderFills, Fill, Filled
<1>4. CASE n = execs[e].left
  <2>1. Remain /\ e \notin Active'
    BY <1>1, <1>2, <1>4, Ended DEF Fill
  <2> QED
    BY <1>3, <2>1, FillInv
<1>5. CASE n # execs[e].left
  <2> DEFINE x == [execs[e] EXCEPT !.left = @ - n]
  <2>1. n \in Nat /\ n > 0 /\ n <= execs[e].left /\ execs[e].left \in 1 .. 2 * Reach
    BY <1>2, FillBound, ExecutorFacts
  <2>2. execs[e].left - n \in 1 .. 2 * Reach /\ execs[e].left - n <= execs[e].left
    BY <1>5, <2>1, Constants
  <2>3. /\ x \in Executor /\ x.kind = execs[e].kind /\ x.side = execs[e].side
        /\ x.reduce = execs[e].reduce /\ x.left = execs[e].left - n
        /\ x.clock = execs[e].clock /\ ClockLimit(x) = ClockLimit(execs[e])
    <3>1. CASE execs[e] \in QuoteExecutor
      BY <2>2, <3>1 DEF Executor, QuoteExecutor, ClockLimit
    <3>2. CASE execs[e] \in CloseExecutor
      BY <2>2, <3>2 DEF Executor, CloseExecutor, ClockLimit
    <3> QED
      BY <1>2, <3>1, <3>2, ExecutorFacts DEF Executor
  <2>4. execs' = [execs EXCEPT ![e] = x]
    BY <1>1, <1>5 DEF Fill
  <2>5. x.clock <= ClockLimit(x)
    BY <1>2, <2>3 DEF Clocks
  <2>6. x.left <= execs[e].left
    BY <2>2, <2>3
  <2>7. execs'[e] = x
    BY <1>2, <2>4 DEF Types
  <2> HIDE DEF x
  <2>8. Remain
    BY <1>2, <2>3, <2>4, <2>5, <2>6, Changed
  <2> QED
    BY <1>3, <2>3, <2>7, <2>8, FillInv
<1> QED
  BY <1>4, <1>5

\* A market order fills as far as it reduces, and the executor ends.
LEMMA CloseCrossesInv == ASSUME IInv, NEW e \in Active, CloseCrosses(e) PROVE IInv'
<1>1. Remain /\ e \notin Active' /\ UNCHANGED decided
  BY Ended DEF IInv, CloseCrosses
<1>2. MayFill(e) \in Nat
  <2>1. execs[e].side \in Sides /\ execs[e].left \in Nat /\ pos \in Int /\ Cap \in Nat
    BY ExecutorFacts, Constants DEF IInv, Types
  <2> QED
    BY <2>1, SignTimes DEF MayFill, Least, Abs
<1>3. /\ pos' = pos + Sign(execs[e].side) * MayFill(e)
      /\ lag' \in 0 .. MaxUnseen
  <2>1. Types /\ execs[e].side \in Sides
    BY ExecutorFacts DEF IInv
  <2> QED
    BY <1>2, <2>1, FilledLag DEF CloseCrosses, Filled
<1>4. CASE MayFill(e) > 0
  <2>1. MayFill(e) \in 1 .. MayFill(e)
    BY <1>2, <1>4
  <2> QED
    BY <1>1, <1>3, <2>1, FillInv
<1>5. CASE MayFill(e) = 0
  <2>1. Sign(execs[e].side) \in Int /\ pos \in Int
    BY ExecutorFacts, Constants DEF IInv, Types, Sign
  <2>2. pos' = pos
    BY <1>3, <1>5, <2>1
  <2> QED
    BY <1>1, <1>3, <2>2, RemainInv DEF decided
<1> QED
  BY <1>2, <1>4, <1>5

LEMMA AgeFacts ==
    ASSUME NEW limit \in Nat, NEW n \in {Never} \cup 0 .. limit
    PROVE  /\ Age(n, limit) \in {Never} \cup 0 .. limit
           /\ n # Never => Age(n, limit) \in 0 .. limit
BY DEF Age, Never

LEMMA TickInv == IInv /\ Tick => IInv'
<1> SUFFICES ASSUME IInv, Tick PROVE IInv'
    OBVIOUS
<1>1. Types /\ Clocks
  BY DEF IInv
<1>2. /\ Active' = Active
      /\ \A e \in Active : execs'[e] =
            [execs[e] EXCEPT !.clock = Age(execs[e].clock, ClockLimit(execs[e]))]
  BY DEF Tick, Active
<1>3. ASSUME NEW e \in Active
      PROVE  /\ execs'[e] \in Executor
             /\ execs'[e].kind = execs[e].kind /\ execs'[e].side = execs[e].side
             /\ execs'[e].reduce = execs[e].reduce /\ execs'[e].left = execs[e].left
             /\ execs'[e].left <= execs[e].left
             /\ execs'[e].clock <= ClockLimit(execs'[e])
  <2> DEFINE c == Age(execs[e].clock, ClockLimit(execs[e]))
  <2>1. /\ ClockLimit(execs[e]) \in Nat /\ execs[e].clock \in 0 .. ClockLimit(execs[e])
        /\ execs[e].left <= execs[e].left
    BY <1>1, ExecutorFacts, LimitFacts, Constants DEF Clocks
  <2>2. c \in 0 .. ClockLimit(execs[e])
    BY <2>1, AgeFacts DEF Never
  <2>3. execs'[e] = [execs[e] EXCEPT !.clock = c]
    BY <1>2
  <2> HIDE DEF c
  <2>4. CASE execs[e] \in QuoteExecutor
    <3>1. ClockLimit(execs[e]) = RefreshInterval
      BY <2>4 DEF ClockLimit, QuoteExecutor
    <3> QED
      BY <2>1, <2>2, <2>3, <2>4, <3>1, Constants DEF ClockLimit, Executor, QuoteExecutor
  <2>5. CASE execs[e] \in CloseExecutor
    <3>1. ClockLimit(execs[e]) <= 3
      BY <2>5 DEF ClockLimit, CloseLimit, CloseExecutor
    <3>2. c \in 0 .. 3
      BY <2>1, <2>2, <3>1
    <3> QED
      BY <2>1, <2>2, <2>3, <2>5, <3>2 DEF ClockLimit, Executor, CloseExecutor
  <2> QED
    BY <1>1, <2>4, <2>5, ExecutorFacts DEF Executor
<1>4. Remain
  <2>1. execs' \in [Active' -> Executor]
    BY <1>2, <1>3 DEF Tick
  <2> QED
    BY <1>2, <1>3, <2>1 DEF Remain, Clocks
<1>5. /\ wd' \in [missing : {Never} \cup 0 .. Timeout, cool : 0 .. Cooldown, opened : BOOLEAN]
      /\ wd.cool = 0 => wd'.cool = 0
  <2>1. Age(wd.missing, Timeout) \in {Never} \cup 0 .. Timeout
    BY <1>1, Constants, AgeFacts DEF Types
  <2>2. (IF wd.cool = 0 THEN 0 ELSE wd.cool - 1) \in 0 .. Cooldown
    BY <1>1, Constants DEF Types
  <2> QED
    BY <1>1, <2>1, <2>2 DEF Tick, Types
<1>6. /\ refresh' \in [pending : BOOLEAN, age : {Never} \cup 0 .. Timeout]
      /\ refresh'.pending = refresh.pending
  <2>1. Age(refresh.age, Timeout) \in {Never} \cup 0 .. Timeout
    BY <1>1, Constants, AgeFacts DEF Types
  <2> QED
    BY <1>1, <2>1 DEF Tick, Types
<1>7. ASSUME NEW e \in Quotes' PROVE Fits(execs[e])'
  <2>1. e \in Quotes /\ e \in Active
    BY <1>2, <1>3 DEF Quotes
  <2>2. Fits(execs[e]) /\ pos' = pos /\ late' = late
    BY <2>1 DEF IInv, Tick
  <2> QED
    BY <1>3, <2>1, <2>2 DEF Fits
<1>8. /\ pos' \in Int /\ (Active = {} => pos' = pos) /\ WithinCap'
      /\ lag' \in 0 .. MaxUnseen /\ UNCHANGED <<late, intent, queue>>
  BY <1>1 DEF Tick, Types, IInv, WithinCap
<1>9. Evolves
  BY <1>4, <1>5, <1>6, <1>7, <1>8 DEF Evolves, Remain
<1> QED
  BY <1>9, EvolvesInv

LEMMA PositionSettlesInv == IInv /\ PositionSettles => IInv'
<1> SUFFICES ASSUME IInv, PositionSettles PROVE IInv'
    OBVIOUS
<1>1. /\ UNCHANGED <<pos, late, execs, intent, wd, refresh, queue>>
      /\ lag' \in 0 .. MaxUnseen
  BY Constants DEF PositionSettles, decided
<1>2. Types' /\ WithinCap' /\ Clocks'
  BY <1>1 DEF IInv, Types, WithinCap, Clocks, Active, ClockLimit
<1> QED
  BY <1>1, <1>2 DEF IInv, Quotes, Closes, Active, Fits, OnePerSide, Apart, Reducing,
                    Queued, DrainClosed

-----------------------------------------------------------------------------
(* One decision.                                                           *)

WdType == [missing : {Never} \cup 0 .. Timeout, cool : 0 .. Cooldown, opened : BOOLEAN]
RefreshType == [pending : BOOLEAN, age : {Never} \cup 0 .. Timeout]

\* A quote that fits once the decision is taken.
FitsThen(x) == Sign(x.side) * pos + x.left <= Cap + late'

\* Creates that may be queued now: Queued for the set C.
MayCreate(C) ==
    \A x \in C :
        /\ x \in Executor /\ x.status = "running" /\ x.clock = 0
        /\ IF x.kind = "quote" THEN Active = {} /\ FitsThen(x)
                                ELSE Quotes = {} /\ x.reduce
        /\ \A y \in C : /\ x.kind = y.kind
                        /\ x.kind = "quote" /\ x.side = y.side => x = y

\* What determine_executor_actions leaves: actions that may be executed at
\* any later time, and no quote unless equity is known and the circuit closed.
Decision(susp) ==
    /\ \E S \in SUBSET Active, C \in SUBSET Executor : MayCreate(C) /\ Send(S, C)
    /\ \A x \in queue'.creates : x.kind = "quote" => wd'.cool = 0 /\ ~susp /\ Active = {}
    /\ wd' \in WdType /\ refresh' \in RefreshType
    /\ refresh'.pending => wd'.cool = 0

LEMMA DecisionInv ==
    ASSUME IInv, NEW susp, Decision(susp), intent' \in Intent,
           UNCHANGED <<pos, lag, execs>>, late' \in 0 .. MaxUnseen, late' >= late
    PROVE  IInv'
<1>1. PICK S \in SUBSET Active, C \in SUBSET Executor : MayCreate(C) /\ Send(S, C)
  BY DEF Decision
<1>2. /\ queue' = [stops |-> S, creates |-> C]
      /\ S \in SUBSET Ids
  BY <1>1 DEF Send, IInv, Types
<1>3. /\ UNCHANGED <<Active, Quotes, Closes>>
      /\ \A x : ClockLimit(x)' = ClockLimit(x) /\ Fits(x)' = FitsThen(x)
  BY DEF Active, Quotes, Closes, Fits, FitsThen, ClockLimit
<1>8. Types /\ WithinCap'
  <2>1. /\ Types /\ Abs(pos) <= Cap + late /\ pos' = pos
        /\ Abs(pos) \in Int /\ late \in Int /\ late' \in Int /\ Cap \in Int
    BY Constants DEF IInv, Types, WithinCap, Abs
  <2> QED
    BY <2>1 DEF WithinCap
<1>9. ASSUME NEW e \in Quotes PROVE Fits(execs[e])'
  <2>1. /\ execs[e].side \in Sides /\ execs[e].left \in Int /\ Fits(execs[e])
        /\ pos \in Int /\ late \in Int /\ late' \in Int /\ Cap \in Int
    BY <1>8, ExecutorFacts, Constants DEF IInv, Types, Quotes
  <2> QED
    BY <2>1, SignTimes DEF Fits
<1>4. Types'
  BY <1>2, <1>3, <1>8 DEF Types, Decision, WdType, RefreshType
<1>5. Queued'
  BY <1>1, <1>2, <1>3 DEF Queued, MayCreate
<1>6. DrainClosed'
  BY DEF DrainClosed, Decision
<1>7. Clocks' /\ (\A e \in Quotes : Fits(execs[e]))' /\ OnePerSide' /\ Apart' /\ Reducing'
  BY <1>3, <1>9 DEF IInv, Clocks, OnePerSide, Apart, Reducing
<1> QED
  BY <1>4, <1>5, <1>6, <1>7, <1>8 DEF IInv

\* The quotes of an intent fit the cap but for what it was wrong about.
LEMMA NewQuotes ==
    ASSUME Types, Active = {}, NEW p \in Positions, NEW i, i = Quote(p),
           NEW priced \in SUBSET Sides, Send({}, QuotesFor(i, priced)),
           late' \in Nat, Quoted => Abs(pos - p) <= late'
    PROVE  /\ QuotesFor(i, priced) \subseteq Executor /\ MayCreate(QuotesFor(i, priced))
           /\ \A x \in QuotesFor(i, priced) : x.kind = "quote"
<1>1. /\ pos \in Int /\ p \in Int /\ -Reach <= p /\ p <= Reach /\ Reach >= Cap
  BY Constants DEF Types, Positions
<1>2. i.current = p /\ \A s \in Sides : i.size[s] = Least(QuoteSize, Cap - Sign(s) * p)
  BY DEF Quote
<1>3. ASSUME NEW s \in Sides, i.size[s] > 0
      PROVE  i.size[s] \in 1 .. 2 * Reach /\ Sign(s) * p + i.size[s] <= Cap
  BY <1>1, <1>2, <1>3, SignTimes, Constants DEF Least, Sides
<1>7. ASSUME QuotesFor(i, priced) # {}, NEW s \in Sides, i.size[s] > 0
      PROVE  Sign(s) * pos + i.size[s] <= Cap + late'
  <2>1. Quoted
    BY <1>7 DEF Quoted, QuotesFor, Send
  <2>2. Abs(pos - p) <= late'
    BY <2>1
  <2> QED
    BY <1>1, <1>3, <1>7, <2>2, SignTimes, Constants DEF Abs, Sides
<1>4. ASSUME NEW x \in QuotesFor(i, priced)
      PROVE  /\ x \in QuoteExecutor /\ x.status = "running" /\ x.clock = 0
             /\ x.kind = "quote" /\ FitsThen(x)
             /\ x.side \in Sides
             /\ x = [kind |-> "quote", side |-> x.side, left |-> i.size[x.side],
                     reduce |-> Sign(x.side) * i.current < 0,
                     status |-> "running", order |-> "none", clock |-> 0]
  <2>1. PICK s \in Expected(i) \cap priced :
           x = [kind |-> "quote", side |-> s, left |-> i.size[s],
                reduce |-> Sign(s) * i.current < 0,
                status |-> "running", order |-> "none", clock |-> 0]
    BY DEF QuotesFor
  <2>2. /\ s \in Sides /\ i.size[s] \in 1 .. 2 * Reach
        /\ Sign(s) * pos + i.size[s] <= Cap + late'
    BY <1>3, <1>7 DEF Expected
  <2>3. (Sign(s) * i.current < 0) \in BOOLEAN
    OBVIOUS
  <2>4. x \in QuoteExecutor
    BY <2>1, <2>2, <2>3, Constants DEF QuoteExecutor, Ends
  <2> QED
    BY <2>1, <2>2, <2>4 DEF FitsThen
<1>5. QuotesFor(i, priced) \subseteq Executor /\ \A x \in QuotesFor(i, priced) : x.kind = "quote"
  BY <1>4 DEF Executor
<1>6. ASSUME NEW x \in QuotesFor(i, priced), NEW y \in QuotesFor(i, priced), x.side = y.side
      PROVE  x = y
  BY <1>4, <1>6
<1> QED
  BY <1>4, <1>5, <1>6 DEF MayCreate

\* A request is for a close of the present size of something.
RequestOK(r) == r.side \in Sides /\ r.amount \in 1 .. 2 * Reach /\ r.urgency \in Speeds

LEMMA NewCloses ==
    ASSUME Quotes = {}, NEW R, \A r \in R : RequestOK(r)
    PROVE  /\ {CloseOf(r) : r \in R} \subseteq Executor
           /\ MayCreate({CloseOf(r) : r \in R})
           /\ \A x \in {CloseOf(r) : r \in R} : x.kind # "quote"
<1>1. ASSUME NEW r \in R
      PROVE  /\ CloseOf(r) \in CloseExecutor /\ CloseOf(r).kind = "close"
             /\ CloseOf(r).status = "running" /\ CloseOf(r).clock = 0
             /\ CloseOf(r).reduce
  BY DEF RequestOK, CloseOf, CloseExecutor, Ends
<1> QED
  BY <1>1 DEF MayCreate, Executor

LEMMA Requests ==
    ASSUME NEW i \in Intent
    PROVE  /\ \A r \in ExecutionRequests(i) : RequestOK(r)
           /\ IsQuoting(i) => \A r \in FailsafeRequests(i) : RequestOK(r)
<1>1. \A p, q \in Positions : p # q => Abs(p - q) \in 1 .. 2 * Reach
  BY Constants DEF Positions, Abs
<1>2. \A p \in Positions : p # 0 => Abs(p) \in 1 .. 2 * Reach
  BY Constants DEF Positions, Abs
<1>3. ASSUME NEW r \in ExecutionRequests(i) PROVE RequestOK(r)
  <2>1. i.kind = "flat" /\ i.target # i.current
    BY DEF ExecutionRequests
  <2>2. i.current \in Positions /\ i.target \in Positions /\ i.urgency \in Speeds
    BY <2>1 DEF Intent, NoIntent
  <2> QED
    BY <1>1, <2>1, <2>2 DEF ExecutionRequests, Request, RequestOK, Sides
<1>4. ASSUME IsQuoting(i), NEW r \in FailsafeRequests(i) PROVE RequestOK(r)
  <2>1. i.current \in Positions /\ i.current # 0
    BY <1>4 DEF Intent, NoIntent, IsQuoting, FailsafeRequests
  <2> QED
    BY <1>2, <1>4, <2>1 DEF FailsafeRequests, Request, RequestOK, Sides, Speeds
<1> QED
  BY <1>3, <1>4

\* A branch that creates nothing.
LEMMA OnlyStops ==
    ASSUME NEW susp, NEW S \in SUBSET Active, Send(S, {}),
           wd' \in WdType, refresh' \in RefreshType, refresh'.pending => wd'.cool = 0
    PROVE  Decision(susp)
<1>1. MayCreate({}) /\ {} \in SUBSET Executor
  BY DEF MayCreate
<1>2. queue'.creates = {}
  BY DEF Send
<1> QED
  BY <1>1, <1>2 DEF Decision

LEMMA WatchdogTypes ==
    ASSUME NEW w \in WdType
    PROVE  /\ Suspend(w) \in WdType /\ Suspend(w).cool = w.cool
           /\ Trip(w) \in WdType /\ Trip(w).cool = Cooldown
BY Constants DEF WdType, Suspend, Trip, Never

\* While the circuit is closed observe may open it, and nothing else.
LEMMA ObserveTypes ==
    ASSUME NEW w \in WdType, NEW expected, NEW live
    PROVE  Observe(w, expected, live) \in WdType
<1> DEFINE fresh == IF w.opened
                    THEN [missing |-> Never, cool |-> 0, opened |-> FALSE] ELSE w
<1>1. fresh \in WdType
  BY Constants DEF WdType, Never
<1>2. /\ [w EXCEPT !.missing = Never] \in WdType
      /\ [fresh EXCEPT !.missing = Never] \in WdType
      /\ [fresh EXCEPT !.missing = 0] \in WdType
      /\ [fresh EXCEPT !.cool = Cooldown, !.opened = TRUE] \in WdType
  <2> HIDE DEF fresh
  <2>1. 0 \in 0 .. Timeout /\ Cooldown \in 0 .. Cooldown
    BY Constants
  <2> QED
    BY <1>1, <2>1 DEF WdType
<1>3. Observe(w, expected, live) \in
        {[w EXCEPT !.missing = Never], [fresh EXCEPT !.missing = Never],
         [fresh EXCEPT !.missing = 0], [fresh EXCEPT !.cool = Cooldown, !.opened = TRUE],
         fresh}
  <2> HIDE DEF fresh
  <2> QED
    BY DEF Observe, fresh
<1> QED
  BY <1>1, <1>2, <1>3

LEMMA TimesOut ==
    ASSUME NEW w \in WdType, NEW r \in RefreshType, CancelTimesOut(w, r),
           r.pending => w.cool = 0
    PROVE  /\ wd' \in WdType /\ refresh' \in RefreshType
           /\ refresh'.pending => wd'.cool = 0
<1>1. CASE r.age >= Timeout
  <2>1. wd' = Trip(w) /\ refresh' = [pending |-> FALSE, age |-> Never]
    BY <1>1 DEF CancelTimesOut
  <2>2. [pending |-> FALSE, age |-> Never] \in RefreshType
    BY DEF RefreshType
  <2> QED
    BY <2>1, <2>2, WatchdogTypes
<1>2. CASE ~(r.age >= Timeout)
  BY <1>2 DEF CancelTimesOut
<1> QED
  BY <1>1, <1>2

LEMMA CancelOnlyDecides == ASSUME IInv, NEW susp, CancelOnly PROVE Decision(susp)
<1>1. wd \in WdType /\ refresh \in RefreshType /\ Quotes \in SUBSET Active
  BY DEF IInv, Types, WdType, RefreshType, Quotes
<1>2. refresh' \in RefreshType /\ ~refresh'.pending
  BY <1>1 DEF CancelOnly, NotPending, RefreshType
<1> QED
  BY <1>1, <1>2, OnlyStops, WatchdogTypes DEF CancelOnly

LEMMA StaleBookDecides == ASSUME IInv, NEW susp, StaleBook PROVE Decision(susp)
<1> DEFINE r == IF Quotes # {} /\ ~refresh.pending /\ AllowQuotes
                THEN [pending |-> TRUE, age |-> 0] ELSE refresh
<1>1. wd \in WdType /\ refresh \in RefreshType /\ Quotes \in SUBSET Active
  BY DEF IInv, Types, WdType, RefreshType, Quotes
<1>2. r \in RefreshType
  BY <1>1, Constants DEF RefreshType
<1>3. r.pending => wd.cool = 0
  BY DEF IInv, DrainClosed, AllowQuotes
<1>4. /\ Send(Quotes, {})
      /\ IF r.pending THEN CancelTimesOut(Suspend(wd), r)
         ELSE wd' = Suspend(wd) /\ refresh' = r
  BY DEF StaleBook
<1> HIDE DEF r
<1>5. /\ wd' \in WdType /\ refresh' \in RefreshType
      /\ refresh'.pending => wd'.cool = 0
  BY <1>1, <1>2, <1>3, <1>4, TimesOut, WatchdogTypes
<1> QED
  BY <1>1, <1>4, <1>5, OnlyStops

\* Quotes come from an intent for the position of this cycle, unless equity
\* is unknown; the two branches that create them look at the circuit, or at a
\* drain that is not pending while the circuit is open.
LEMMA QuotingDecides ==
    ASSUME IInv, NEW i \in Intent, NEW susp \in BOOLEAN, IsQuoting(i),
           NEW p \in Positions, ~susp => i = Quote(p), ~(susp /\ AllowQuotes), Quoting(i),
           late' \in Nat, Quoted => Abs(pos - p) <= late'
    PROVE  Decision(susp)
<1> DEFINE w == IF AllowQuotes THEN Observe(wd, Expected(i), LiveSides) ELSE wd
<1>1. wd \in WdType /\ refresh \in RefreshType /\ Types
  BY DEF IInv, Types, WdType, RefreshType
<1>2. w \in WdType
  BY <1>1, ObserveTypes
<1>3. w.cool = 0 => AllowQuotes /\ ~susp
  BY DEF AllowQuotes
<1>4. refresh.pending => wd.cool = 0 /\ AllowQuotes /\ ~susp
  BY DEF IInv, DrainClosed, AllowQuotes
<1>5. Quotes \in SUBSET Active /\ Active \in SUBSET Active
  BY DEF Quotes
<1>6. ASSUME CreateQuotes(i), Active = {}, i = Quote(p), ~susp,
             wd' \in WdType, wd'.cool = 0, refresh' \in RefreshType
      PROVE  Decision(susp)
  <2>1. PICK priced \in SUBSET Sides : Send({}, QuotesFor(i, priced))
    BY <1>6 DEF CreateQuotes
  <2>2. QuotesFor(i, priced) \subseteq Executor /\ MayCreate(QuotesFor(i, priced))
    BY <1>1, <1>6, <2>1, NewQuotes
  <2> QED
    BY <1>6, <2>1, <2>2 DEF Decision, Send
<1> HIDE DEF w
<1>7. CASE Closes # {} /\ CloseInFlight
  <2>1. refresh' \in RefreshType /\ ~refresh'.pending
    BY <1>1, <1>7 DEF CloseInFlight, NotPending, RefreshType
  <2> QED
    BY <1>1, <1>5, <1>7, <2>1, OnlyStops, WatchdogTypes DEF CloseInFlight
<1>8. CASE refresh.pending /\ Draining
  BY <1>1, <1>4, <1>5, <1>8, OnlyStops, TimesOut, WatchdogTypes DEF Draining
<1>9. CASE refresh.pending /\ Active = {} /\ Drained(i)
  <2>1. refresh' \in RefreshType
    BY <1>9 DEF Drained, RefreshType
  <2> QED
    BY <1>1, <1>4, <1>6, <1>9, <2>1, WatchdogTypes DEF Drained
<1>10. CASE ~refresh.pending /\ CircuitOpen(i) /\ wd' = w
  <2>1. refresh' = refresh
    BY <1>10 DEF CircuitOpen
  <2>2. CASE Active # {}
    BY <1>1, <1>2, <1>5, <1>10, <2>1, <2>2, OnlyStops DEF CircuitOpen
  <2>3. CASE Active = {}
    <3> DEFINE C == {CloseOf(r) : r \in FailsafeRequests(i)}
    <3>1. Quotes = {}
      BY <2>3 DEF Quotes
    <3>2. C \subseteq Executor /\ MayCreate(C) /\ \A x \in C : x.kind # "quote"
      BY <3>1, NewCloses, Requests
    <3>3. Send({}, C)
      BY <1>10, <2>3 DEF CircuitOpen
    <3> HIDE DEF C
    <3> QED
      BY <1>1, <1>2, <1>10, <2>1, <3>2, <3>3 DEF Decision, Send
  <2> QED
    BY <2>2, <2>3
<1>11. CASE ~refresh.pending /\ KeepQuotes(w)
  BY <1>1, <1>2, <1>11, OnlyStops DEF KeepQuotes
<1>12. CASE w.cool = 0 /\ StartRefresh(w, i)
  <2>1. refresh' \in RefreshType
    BY <1>12, Constants DEF StartRefresh, RefreshType
  <2> QED
    BY <1>2, <1>5, <1>12, <2>1, OnlyStops, WatchdogTypes DEF StartRefresh
<1>13. CASE w.cool = 0 /\ Active = {} /\ CreateQuotes(i) /\ wd' = w /\ UNCHANGED refresh
  BY <1>1, <1>2, <1>3, <1>6, <1>13
<1> QED
  BY <1>7, <1>8, <1>9, <1>10, <1>11, <1>12, <1>13 DEF Quoting, w

\* The execution of an intent: the quotes go first, then the close starts.
LEMMA ExecutingDecides ==
    ASSUME IInv, NEW i \in Intent, NEW susp, Executing(i) PROVE Decision(susp)
<1> DEFINE wanted == ExecutionWanted(i)
           kept == IF wanted = {} /\ Quotes # {} THEN Closes
                   ELSE UNION {Kept(r) : r \in wanted}
           C == IF kept = {} THEN {CloseOf(r) : r \in wanted} ELSE {}
<1>1. /\ Send(Drop(kept), C) /\ wd' = Suspend(wd) /\ NotPending
      /\ Drop(kept) \in SUBSET Active
  BY DEF Executing, Drop
<1>2. wd' \in WdType /\ refresh' \in RefreshType /\ ~refresh'.pending
  <2>1. wd \in WdType /\ refresh \in RefreshType
    BY DEF IInv, Types, WdType, RefreshType
  <2> QED
    BY <1>1, <2>1, WatchdogTypes DEF NotPending, RefreshType
<1>3. C \subseteq Executor /\ MayCreate(C) /\ \A x \in C : x.kind # "quote"
  <2>1. CASE C = {}
    BY <2>1 DEF MayCreate
  <2>2. CASE C # {}
    <3>1. wanted # {} /\ C = {CloseOf(r) : r \in wanted}
      BY <2>2
    <3>2. Quotes = {} /\ wanted = ExecutionRequests(i)
      BY <3>1 DEF ExecutionWanted
    <3> HIDE DEF C, wanted
    <3> QED
      BY <3>1, <3>2, NewCloses, Requests
  <2> QED
    BY <2>1, <2>2
<1> HIDE DEF C, kept
<1> QED
  BY <1>1, <1>2, <1>3 DEF Decision, Send

LEMMA DeterminesDecision ==
    ASSUME IInv, NEW i \in Intent, NEW susp \in BOOLEAN, NEW p \in Positions,
           IsQuoting(i) /\ ~susp => i = Quote(p), DetermineExecutorActions(i, susp),
           late' \in Nat, Quoted => Abs(pos - p) <= late'
    PROVE  Decision(susp)
<1>1. CASE ~IsQuoting(i) /\ Executing(i)
  BY <1>1, ExecutingDecides
<1>2. CASE IsQuoting(i) /\ CancelOnly
  BY <1>2, CancelOnlyDecides
<1>3. CASE IsQuoting(i) /\ StaleBook
  BY <1>3, StaleBookDecides
<1>4. CASE IsQuoting(i) /\ ~(susp /\ AllowQuotes) /\ Quoting(i)
  BY <1>4, QuotingDecides
<1> QED
  BY <1>1, <1>2, <1>3, <1>4 DEF DetermineExecutorActions

\* What the keeper and the portfolio may ask at the position of a cycle.
LEMMA NewIntents ==
    ASSUME NEW p \in Positions
    PROVE  KeeperIntents(p) \cup PeerIntents(p) \subseteq Intent
<1>1. p \in Int /\ 0 \in Positions
  BY Constants DEF Positions
<1>2. Quote(p) \in Intent
  <2>1. [s \in Sides |-> Least(QuoteSize, Cap - Sign(s) * p)] \in [Sides -> Int]
    BY <1>1, SignTimes, Constants DEF Least
  <2> QED
    BY <1>1, <2>1 DEF Quote, Intent
<1>3. \A t \in Positions, u \in Speeds : Flat(p, t, u) \in Intent
  BY <1>1 DEF Flat, Intent
<1>4. Urgencies \subseteq Speeds /\ "immediate" \in Speeds
  BY QuoteAssumption DEF Speeds
<1> QED
  BY <1>1, <1>2, <1>3, <1>4 DEF KeeperIntents, PeerIntents

\* A cycle's intent is the latched one or one for the position of the cycle.
LEMMA SentIntents ==
    ASSUME Types, NEW p \in Positions, NEW equity \in BOOLEAN,
           NEW i \in KeeperSends(SetPositions(intent, p), p, equity)
    PROVE  i \in Intent /\ (IsQuoting(i) /\ equity => i = Quote(p))
<1> DEFINE old == SetPositions(intent, p)
<1>1. old \in Intent
  BY DEF SetPositions, Types, Intent
<1> HIDE DEF old
<1>2. ASSUME NEW new \in KeeperIntents(p) \cup PeerIntents(p)
      PROVE  /\ SendIntent(old, new, p) \in Intent
             /\ SendIntent(old, new, p) = new \/ ~IsQuoting(SendIntent(old, new, p))
  <2>1. new \in Intent
    BY <1>2, NewIntents
  <2> QED
    BY <1>1, <2>1 DEF SendIntent, Latched, IsQuoting
<1>3. CASE equity
  <2>1. PICK new \in KeeperIntents(p) : i = SendIntent(old, new, p)
    BY <1>3 DEF KeeperSends, old
  <2>2. IsQuoting(new) => new = Quote(p)
    BY <2>1 DEF KeeperIntents, IsQuoting, Flat
  <2> QED
    BY <1>2, <2>1, <2>2
<1>4. CASE ~equity
  BY <1>1, <1>2, <1>4 DEF KeeperSends, old
<1> QED
  BY <1>3, <1>4

LEMMA CycleSucceedsInv ==
    ASSUME IInv, CycleSucceeds
    PROVE  IInv' /\ Decision(suspended')
<1> DEFINE LateThen(p) == late' = IF Quoted /\ Abs(pos - p) > late THEN Abs(pos - p) ELSE late
<1>0. PICK p \in Known, equity \in BOOLEAN :
         /\ \E i \in KeeperSends(SetPositions(intent, p), p, equity) :
              /\ intent' = i /\ suspended' = ~equity
              /\ DetermineExecutorActions(i, ~equity)
         /\ LateThen(p)
  BY DEF CycleSucceeds
<1>1. PICK i \in KeeperSends(SetPositions(intent, p), p, equity) :
         /\ intent' = i /\ suspended' = ~equity
         /\ DetermineExecutorActions(i, ~equity)
  BY <1>0
<1>2. /\ p \in Positions /\ Abs(pos - p) \in 0 .. MaxUnseen
      /\ late \in 0 .. MaxUnseen
  BY KnownFacts DEF IInv, Types
<1>3. /\ late' \in 0 .. MaxUnseen /\ late' >= late
      /\ Quoted => Abs(pos - p) <= late'
  BY <1>0, <1>2, Constants
<1> HIDE DEF LateThen
<1>4. i \in Intent /\ (IsQuoting(i) /\ equity => i = Quote(p))
  BY <1>1, <1>2, SentIntents DEF IInv
<1>5. PICK susp \in BOOLEAN : susp = ~equity
  OBVIOUS
<1>6. Decision(susp)
  <2>1. DetermineExecutorActions(i, susp)
    BY <1>1, <1>5
  <2>2. late' \in Nat
    BY <1>3, Constants
  <2>3. IsQuoting(i) /\ ~susp => i = Quote(p)
    BY <1>4, <1>5
  <2> QED
    BY <1>2, <1>3, <1>4, <2>1, <2>2, <2>3, DeterminesDecision
<1> QED
  BY <1>1, <1>3, <1>4, <1>5, <1>6, DecisionInv DEF CycleSucceeds

LEMMA CycleFailsInv ==
    ASSUME IInv, CycleFails
    PROVE  IInv' /\ Decision(TRUE)
<1>0. PICK p \in Known : intent' = Flat(p, 0, "emergency")
  BY DEF CycleFails
<1> DEFINE i == Flat(p, 0, "emergency")
<1>1. i \in Intent
  <2>1. p \in Positions /\ 0 \in Positions
    BY KnownFacts, Constants DEF IInv, Positions
  <2> QED
    BY <2>1 DEF Flat, Intent, Speeds
<1>2. intent' = i /\ Executing(i) /\ UNCHANGED <<pos, lag, late, execs>>
  BY <1>0 DEF CycleFails
<1>3. late' \in 0 .. MaxUnseen /\ late' >= late
  BY <1>2, Constants DEF IInv, Types
<1> HIDE DEF i
<1>4. Decision(TRUE)
  BY <1>1, <1>2, ExecutingDecides
<1> QED
  BY <1>1, <1>2, <1>3, <1>4, DecisionInv

-----------------------------------------------------------------------------
(* The orchestrator.                                                       *)

Less == {p \in Nat \X Nat : p[1] < p[2]}

\* A set of numbers has a least member.
LEMMA LeastMember ==
    ASSUME NEW S \in SUBSET Nat, S # {}
    PROVE  \E n \in S : \A m \in S : n <= m
<1>1. Less = OpToRel(<, Nat)
  BY DEF Less, OpToRel
<1>2. PICK x \in S : \A y \in S : ~ (<<y, x>> \in Less)
  BY <1>1, NatLessThanWellFounded, WFMin
<1>3. \A y \in S : ~(y < x)
  BY <1>2 DEF Less
<1> QED
  BY <1>3

\* The identifier of a new executor is free and of its side.
LEMMA FreeIdFacts ==
    ASSUME NEW side, FreeIds(side) # {} PROVE FreeId(side) \in FreeIds(side)
<1> DEFINE S == {e[2] : e \in FreeIds(side)}
<1>1. S \in SUBSET Nat /\ S # {}
  BY Constants DEF FreeIds, Ids
<1> HIDE DEF S
<1>2. PICK n \in S : \A m \in S : n <= m
  BY <1>1, LeastMember
<1>3. \E e \in FreeIds(side) : \A f \in FreeIds(side) : e[2] <= f[2]
  BY <1>2 DEF S
<1> QED
  BY <1>3 DEF FreeId

\* An executor that was there goes on or stops, another one is a queued
\* create with its side's free identifier.
LEMMA Executed ==
    ASSUME IInv, ExecuteActions, NEW e \in Active'
    PROVE  /\ e \in Ids /\ execs'[e] \in Executor
           /\ execs'[e].clock <= ClockLimit(execs'[e])
           /\ e \in Active => /\ execs'[e].kind = execs[e].kind
                              /\ execs'[e].side = execs[e].side
                              /\ execs'[e].reduce = execs[e].reduce
                              /\ execs'[e].left = execs[e].left
           /\ e \notin Active => /\ execs'[e] \in queue.creates
                                 /\ e = FreeId(execs'[e].side)
<1> DEFINE D == Active \cup {FreeId(x.side) : x \in queue.creates}
<1>1. /\ e \in D
      /\ execs'[e] = IF e \in Active THEN Stopped(e) ELSE Created(e)
  BY DEF ExecuteActions, Active
<1>2. Types /\ Clocks
  BY DEF IInv
<1>3. CASE e \in Active
  <2>1. e \in Ids
    BY <1>2, <1>3 DEF Types
  <2>2. CASE e \notin queue.stops
    BY <1>1, <1>2, <1>3, <2>1, <2>2, ExecutorFacts DEF Stopped, Clocks
  <2>3. CASE e \in queue.stops /\ e \in Quotes
    <3>1. execs'[e] = [execs[e] EXCEPT !.status = "stopping"]
      BY <1>1, <1>2, <1>3, <2>3, ExecutorFacts DEF Stopped, QuoteExecutor
    <3>2. execs[e] \in QuoteExecutor /\ execs[e].clock <= RefreshInterval
      BY <1>2, <1>3, <2>3, ExecutorFacts, Constants DEF QuoteExecutor
    <3> QED
      BY <1>3, <2>1, <3>1, <3>2 DEF QuoteExecutor, Executor, ClockLimit, Ends
  <2>4. CASE e \in queue.stops /\ e \notin Quotes
    <3>1. execs'[e] = [execs[e] EXCEPT !.status = "stopping", !.clock = 0]
      BY <1>1, <1>3, <2>4 DEF Stopped
    <3>2. execs[e] \in CloseExecutor
      BY <1>2, <1>3, <2>4, ExecutorFacts DEF Closes
    <3>3. /\ execs'[e] \in CloseExecutor /\ execs'[e].clock = 0
          /\ execs'[e].kind = execs[e].kind /\ execs'[e].side = execs[e].side
          /\ execs'[e].reduce = execs[e].reduce /\ execs'[e].left = execs[e].left
          /\ execs'[e].kind = "close" /\ execs'[e].status = "stopping"
      <4> DEFINE y == [execs[e] EXCEPT !.status = "stopping", !.clock = 0]
             z == [execs[e] EXCEPT !.status = "stopping"]
      <4>0. z \in CloseExecutor
        BY <3>2 DEF CloseExecutor, Ends
      <4>1. y \in CloseExecutor
        <5>1. y = [z EXCEPT !.clock = 0]
          BY <3>2 DEF CloseExecutor
        <5> HIDE DEF y, z
        <5> QED
          BY <4>0, <5>1 DEF CloseExecutor
      <4>2. /\ y.clock = 0 /\ y.status = "stopping" /\ y.kind = "close"
            /\ y.side = execs[e].side /\ y.reduce = execs[e].reduce
            /\ y.left = execs[e].left /\ execs[e].kind = "close"
        BY <3>2 DEF CloseExecutor
      <4> QED
        BY <3>1, <4>1, <4>2
    <3>4. ClockLimit(execs'[e]) = 0
      BY <3>3 DEF ClockLimit
    <3> QED
      BY <1>3, <2>1, <3>3, <3>4 DEF Executor
  <2> QED
    BY <2>2, <2>3, <2>4
<1>4. CASE e \notin Active
  <2>1. PICK x \in queue.creates : e = FreeId(x.side)
    BY <1>1, <1>4
  <2>2. e \in Ids
    BY <2>1, FreeIdFacts DEF ExecuteActions, FreeIds
  <2>3. Created(e) \in queue.creates /\ FreeId(Created(e).side) = e
    BY <2>1 DEF Created
  <2> DEFINE c == Created(e)
  <2>4. c \in Executor /\ c.status = "running" /\ c.clock = 0
    BY <1>2, <2>3 DEF Types, IInv, Queued
  <2>5. execs'[e] = c
    BY <1>1, <1>4
  <2>6. c.clock <= ClockLimit(c)
    BY <2>4, LimitFacts
  <2> QED
    BY <1>4, <2>2, <2>3, <2>4, <2>5, <2>6
<1> QED
  BY <1>3, <1>4

LEMMA ExecuteActionsInv == IInv /\ ExecuteActions => IInv'
<1> SUFFICES ASSUME IInv, ExecuteActions PROVE IInv'
    OBVIOUS
<1>1. Types /\ WithinCap' /\ UNCHANGED <<pos, lag, late, intent, wd, refresh>> /\ queue' = [stops |-> {}, creates |-> {}]
  BY DEF IInv, ExecuteActions, Send, WithinCap
<1>2. Types'
  <2>1. DOMAIN execs' = Active' /\ execs' = [e \in Active' |-> execs'[e]]
    BY DEF ExecuteActions, Active
  <2>2. Active' \subseteq Ids /\ execs' \in [Active' -> Executor]
    BY <2>1, Executed
  <2> QED
    BY <1>1, <2>2 DEF Types
<1>3. Clocks'
  BY Executed DEF Clocks
<1>4. ASSUME NEW e \in Quotes'
      PROVE  /\ Fits(execs[e])'
             /\ e \in Quotes \/ (Active = {} /\ e = FreeId(execs'[e].side))
  <2>1. e \in Active' /\ execs'[e].kind = "quote"
    BY DEF Quotes
  <2>2. CASE e \in Active
    BY <1>1, <2>1, <2>2, Executed DEF IInv, Quotes, Fits
  <2>3. CASE e \notin Active
    BY <1>1, <2>1, <2>3, Executed DEF IInv, Queued, Fits
  <2> QED
    BY <2>2, <2>3
<1>5. ASSUME NEW e \in Closes'
      PROVE  /\ execs'[e].reduce
             /\ e \in Closes \/ (Quotes = {} /\ execs'[e] \in queue.creates)
  <2>1. e \in Active' /\ execs'[e].kind # "quote"
    BY DEF Closes, Quotes
  <2>2. CASE e \in Active
    BY <2>1, <2>2, Executed DEF IInv, Closes, Quotes, Reducing
  <2>3. CASE e \notin Active
    BY <2>1, <2>3, Executed DEF IInv, Queued
  <2> QED
    BY <2>2, <2>3
<1>6. OnePerSide'
  <2> SUFFICES ASSUME NEW e \in Quotes', NEW f \in Quotes', execs'[e].side = execs'[f].side
               PROVE  e = f
    BY DEF OnePerSide
  <2>1. CASE e \in Quotes /\ f \in Quotes
    <3>1. e \in Active /\ f \in Active /\ e \in Active' /\ f \in Active'
      BY <2>1 DEF Quotes
    <3> QED
      BY <2>1, <3>1, Executed DEF IInv, OnePerSide
  <2>2. CASE Active = {}
    BY <1>4, <2>2 DEF Quotes
  <2> QED
    BY <1>4, <2>1, <2>2
<1>7. Apart'
  <2> SUFFICES ASSUME NEW e \in Quotes', NEW f \in Closes' PROVE FALSE
    BY DEF Apart
  <2>1. CASE e \in Quotes
    BY <1>5, <2>1 DEF IInv, Apart, Queued
  <2>2. CASE e \notin Quotes
    <3>1. e \in Active' /\ e \notin Active /\ f \notin Active /\ f \in Active'
      BY <1>4, <2>2 DEF Quotes, Closes
    <3>2. execs'[e] \in queue.creates /\ execs'[f] \in queue.creates
      BY <3>1, Executed
    <3>3. execs'[e].kind = "quote" /\ execs'[f].kind # "quote"
      BY <3>1 DEF Quotes, Closes
    <3> QED
      BY <3>2, <3>3 DEF IInv, Queued
  <2> QED
    BY <2>1, <2>2
<1>8. Reducing' /\ Queued' /\ DrainClosed'
  BY <1>1, <1>5 DEF Reducing, Queued, IInv, DrainClosed
<1> QED
  BY <1>1, <1>2, <1>3, <1>4, <1>6, <1>7, <1>8 DEF IInv

-----------------------------------------------------------------------------
(* The invariant and the theorems.                                         *)

LEMMA InitInv == Init => IInv
<1> SUFFICES ASSUME Init PROVE IInv
    OBVIOUS
<1>1. Active = {} /\ execs \in [Active -> Executor]
  BY DEF Init, Active
<1>2. Types
  BY <1>1, Constants DEF Init, Types, Intent, NoIntent
<1>3. WithinCap
  BY Constants DEF Init, WithinCap, Abs
<1> QED
  BY <1>1, <1>2, <1>3 DEF Init, IInv, Clocks, Quotes, Closes, OnePerSide, Apart, Reducing,
                    Queued, DrainClosed

LEMMA NextInv == IInv /\ [Next]_vars => IInv'
<1> SUFFICES ASSUME IInv, [Next]_vars PROVE IInv'
    OBVIOUS
<1>1. CASE CycleSucceeds
  BY <1>1, CycleSucceedsInv
<1>2. CASE CycleFails
  BY <1>2, CycleFailsInv
<1>3. CASE ExecuteActions
  BY <1>3, ExecuteActionsInv
<1>4. CASE Tick
  BY <1>4, TickInv
<1>5. ASSUME NEW e \in Active,
             \/ QuoteSent(e) \/ QuoteAcked(e) \/ QuoteRejected(e)
             \/ OrderFills(e) \/ StopConfirmed(e)
             \/ CloseCrosses(e) \/ CloseGivesUp(e)
      PROVE  IInv'
  BY <1>5, QuietInv, OrderFillsInv, CloseCrossesInv
<1>7. CASE PositionSettles
  BY <1>7, PositionSettlesInv
<1>6. CASE UNCHANGED vars
  BY <1>6 DEF vars, IInv, Types, WithinCap, Clocks, Quotes, Closes, Active, Fits, OnePerSide, Apart,
              Reducing, Queued, DrainClosed, ClockLimit
<1> QED
  BY <1>1, <1>2, <1>3, <1>4, <1>5, <1>6, <1>7 DEF Next

LEMMA Invariance == Spec => []IInv
<1> QED
  BY InitInv, NextInv, PTL DEF Spec

\* Whatever the interleaving of decisions, stops, creations, fills and late
\* news of them, the position leaves the keeper's cap by no more than a
\* cycle that quoted was wrong about it: determine_executor_actions never
\* lets old and new quotes add up, and no close overshoots.
THEOREM StaysWithinCap == Spec => []WithinCap
<1>1. IInv => WithinCap
  BY DEF IInv
<1> QED
  BY Invariance, <1>1, PTL

\* A quote executor and a close executor never work at the same time,
\* although a decision is executed later than it was taken.
THEOREM NeverBoth == Spec => []Apart
<1>1. IInv => Apart
  BY DEF IInv
<1> QED
  BY Invariance, <1>1, PTL

\* Each branch that creates quotes finds the circuit closed, equity known and
\* no executor; for the end of a drain this rests on DrainClosed.
THEOREM CircuitRespected == Spec => CircuitHolds
<1>1. IInv /\ [Next]_vars =>
        [(Ready /\ \E x \in queue'.creates : x.kind = "quote")
           => wd'.cool = 0 /\ ~suspended' /\ Active = {}]_vars
  <2> SUFFICES ASSUME IInv, Next, Ready, NEW x \in queue'.creates, x.kind = "quote"
               PROVE  wd'.cool = 0 /\ ~suspended' /\ Active = {}
    BY DEF vars
  <2>1. CASE CycleSucceeds
    BY <2>1, CycleSucceedsInv DEF Decision
  <2>2. CASE CycleFails
    BY <2>2, CycleFailsInv DEF Decision
  <2>3. ASSUME UNCHANGED queue PROVE FALSE
    BY <2>3 DEF Ready
  <2>4. CASE Tick \/ PositionSettles
    BY <2>3, <2>4 DEF Tick, PositionSettles, decided
  <2>5. ASSUME NEW e \in Active,
               \/ QuoteSent(e) \/ QuoteAcked(e) \/ QuoteRejected(e)
               \/ OrderFills(e) \/ StopConfirmed(e)
               \/ CloseCrosses(e) \/ CloseGivesUp(e)
        PROVE  FALSE
    BY <2>3, <2>5 DEF QuoteSent, QuoteAcked, QuoteRejected, OrderFills, StopConfirmed,
                      CloseCrosses, CloseGivesUp, decided
  <2>6. CASE ExecuteActions
    BY <2>6 DEF ExecuteActions
  <2> QED
    BY <2>1, <2>2, <2>4, <2>5, <2>6 DEF Next
<1> QED
  BY Invariance, <1>1, PTL DEF Spec, CircuitHolds

\* An accepted flatten outlives every cycle, failed or not, until the
\* position may be known as its target: send_intent lets only one as urgent
\* replace it.
THEOREM LatchKept == Spec => LatchHolds
<1>1. IInv /\ [Next]_vars =>
        [(\A p \in Known : Latched(intent, p))
           => /\ intent'.kind = "flat"
              /\ Priority(intent'.urgency) >= Priority(intent.urgency)]_vars
  <2> SUFFICES ASSUME IInv, [Next]_vars, \A p \in Known : Latched(intent, p)
               PROVE  /\ intent'.kind = "flat"
                      /\ Priority(intent'.urgency) >= Priority(intent.urgency)
    OBVIOUS
  <2>1. \A u : Priority(u) \in 0 .. 2
    BY DEF Priority
  <2>2. /\ intent.kind = "flat"
        /\ \A p \in Known : Latched(intent, p) /\ SetPositions(intent, p) = intent
    <3>1. pos \in Known
      BY Constants DEF IInv, Types, Known
    <3> QED
      BY <3>1 DEF Latched, SetPositions
  <2>3. CASE CycleSucceeds
    <3>0. PICK p \in Known, equity \in BOOLEAN :
             intent' \in KeeperSends(SetPositions(intent, p), p, equity)
      BY <2>3 DEF CycleSucceeds
    <3>1. \A new \in KeeperIntents(p) \cup PeerIntents(p) :
             new.kind = "flat" \/ IsQuoting(new)
      BY DEF KeeperIntents, PeerIntents, Quote, Flat, IsQuoting
    <3>2. intent' = intent \/
            \E new \in KeeperIntents(p) \cup PeerIntents(p) :
               intent' = SendIntent(intent, new, p)
      BY <2>2, <3>0 DEF KeeperSends
    <3> QED
      BY <2>1, <2>2, <3>1, <3>2 DEF SendIntent
  <2>4. CASE CycleFails
    BY <2>1, <2>4 DEF CycleFails, Flat, Priority
  <2>5. CASE UNCHANGED intent
    BY <2>1, <2>2, <2>5
  <2>6. CASE ExecuteActions \/ Tick \/ PositionSettles \/ UNCHANGED vars
    BY <2>5, <2>6 DEF ExecuteActions, Tick, PositionSettles, decided, vars
  <2>7. ASSUME NEW e \in Active,
               \/ QuoteSent(e) \/ QuoteAcked(e) \/ QuoteRejected(e)
               \/ OrderFills(e) \/ StopConfirmed(e)
               \/ CloseCrosses(e) \/ CloseGivesUp(e)
        PROVE  UNCHANGED intent
    BY <2>7 DEF QuoteSent, QuoteAcked, QuoteRejected, OrderFills, StopConfirmed,
                CloseCrosses, CloseGivesUp, decided
  <2> QED
    BY <2>3, <2>4, <2>5, <2>6, <2>7 DEF Next
<1> QED
  BY Invariance, <1>1, PTL DEF Spec, LatchHolds
===============================================================================
