------------------------- MODULE GatewayBridgeProofs -------------------------
(***************************************************************************)
(* The book of the Gateway bridge names an open position, at most one is   *)
(* open besides those the Gateway never named, and nothing is placed       *)
(* outside a verb's tolerance: for every pool, tolerance, offset and       *)
(* number of faults.                                                       *)
(***************************************************************************)
EXTENDS GatewayBridge, FiniteSetTheorems, SequenceTheorems, TLAPS

Names == {"withdraw", "swap", "readBid", "placeBid", "readAsk", "placeAsk"}

Verbs == [op : {"none", "deposit", "refresh", "exit"}, calls : Seq(Names),
          expected : Int, tolerance : Int, anchor : Int]

Types ==
    /\ active \in Int /\ verb \in Verbs
    /\ opened \in Nat /\ opened <= MaxPositions /\ open \subseteq 1 .. opened
    /\ book \in 0 .. opened /\ held \in 0 .. opened
    /\ slack \in Int /\ unnamed \subseteq 1 .. opened

\* The next call of the verb reads, swaps or places.
Depositing == verb.calls # <<>> /\ Head(verb.calls) # "withdraw"

\* The positions the bridge was told of.
Named == open \ unnamed

\* The book's position is the only one of them; without a book at most the
\* keeper's is open, and none while a verb deposits.
OneKnown ==
    /\ book # NoPosition => Named \subseteq {book}
    /\ book = NoPosition => Named \subseteq {held}
    /\ book = NoPosition /\ Depositing => Named = {}

IInv == Types /\ BookIsOpen /\ OneKnown /\ PlacedNearExpected

\* The invariant holds at the start.
LEMMA InitInv == Init => IInv
<1> SUFFICES ASSUME Init PROVE IInv
    OBVIOUS
<1>1. Idle \in Verbs /\ Idle.calls = <<>>
  BY DEF Idle, Verbs
<1>2. Types
  BY <1>1, BridgeAssumption DEF Init, Types, NoPosition
<1> QED
  BY <1>1, <1>2 DEF Init, IInv, BookIsOpen, OneKnown, Named, Depositing,
                    PlacedNearExpected, NoPosition

\* A sequence of calls begins as its first part does.
LEMMA ConcatBegins ==
    ASSUME NEW s \in Seq(Names), NEW t \in Seq(Names), s # <<>>
    PROVE  s \o t \in Seq(Names) /\ s \o t # <<>> /\ Head(s \o t) = Head(s)
<1>1. /\ s \o t \in Seq(Names) /\ Len(s \o t) = Len(s) + Len(t)
      /\ \A i \in 1 .. Len(s) + Len(t) :
            (s \o t)[i] = IF i <= Len(s) THEN s[i] ELSE t[i - Len(s)]
  BY ConcatProperties
<1>2. Len(s) \in Nat \ {0} /\ Len(t) \in Nat
  BY EmptySeq, LenProperties
<1>3. s \o t # <<>>
  BY <1>1, <1>2, EmptySeq
<1>4. 1 \in 1 .. Len(s) + Len(t) /\ 1 <= Len(s)
  BY <1>2
<1>5. (s \o t)[1] = s[1]
  BY <1>1, <1>4
<1>6. Head(s \o t) = (s \o t)[1] /\ Head(s) = s[1]
  BY <1>1, <1>3
<1> QED
  BY <1>1, <1>3, <1>5, <1>6

\* The calls of the keeper's verbs: only a withdraw comes first where the
\* keeper has a position.
LEMMA LadderCalls ==
    ASSUME NEW sides \in Ladders
    PROVE  sides \in Seq(Names) /\ sides # <<>> /\ Head(sides) # "withdraw"
<1> DEFINE bid == <<"readBid", "placeBid">>
           ask == <<"readAsk", "placeAsk">>
<1>1. bid \in Seq(Names) /\ bid # <<>> /\ Head(bid) # "withdraw"
  BY DEF Names
<1>2. ask \in Seq(Names) /\ ask # <<>> /\ Head(ask) # "withdraw"
  BY DEF Names
<1>3. sides \in {bid, ask, bid \o ask}
  BY DEF Ladders
<1> HIDE DEF bid, ask
<1>4. bid \o ask \in Seq(Names) /\ bid \o ask # <<>> /\ Head(bid \o ask) = Head(bid)
  BY <1>1, <1>2, ConcatBegins
<1> QED
  BY <1>1, <1>2, <1>3, <1>4

\* The calls of a refresh are a withdrawal and what follows it.
LEMMA RefreshCalls ==
    ASSUME NEW swap \in {<<>>, <<"swap">>}, NEW sides \in Ladders
    PROVE  /\ <<"withdraw">> \o swap \o sides \in Seq(Names)
           /\ <<"withdraw">> \o swap \o sides # <<>>
           /\ Head(<<"withdraw">> \o swap \o sides) = "withdraw"
<1> DEFINE first == <<"withdraw">>
<1>1. first \in Seq(Names) /\ first # <<>> /\ Head(first) = "withdraw"
  BY DEF Names
<1>2. swap \in Seq(Names) /\ sides \in Seq(Names)
  <2>1. <<>> \in Seq(Names) /\ <<"swap">> \in Seq(Names)
    BY DEF Names
  <2> QED
    BY <2>1, LadderCalls
<1> HIDE DEF first
<1>3. /\ first \o swap \in Seq(Names) /\ first \o swap # <<>>
      /\ Head(first \o swap) = "withdraw"
  BY <1>1, <1>2, ConcatBegins
<1>4. /\ first \o swap \o sides \in Seq(Names) /\ first \o swap \o sides # <<>>
      /\ Head(first \o swap \o sides) = "withdraw"
  BY <1>2, <1>3, ConcatBegins
<1> QED
  BY <1>4 DEF first

-----------------------------------------------------------------------------
(* The verbs begin.                                                        *)

\* A verb begins with a ladder only where nothing is open.
LEMMA BeginsInv ==
    ASSUME IInv, NEW op \in {"deposit", "refresh", "exit"}, NEW calls \in Seq(Names),
           Start(op, calls), Head(calls) # "withdraw" => held = NoPosition
    PROVE  IInv'
<1>1. PICK t \in Tolerances :
        verb' = [op |-> op, calls |-> calls, expected |-> active,
                 tolerance |-> t, anchor |-> 0]
  BY DEF Start
<1>2. UNCHANGED <<active, open, opened, book, held, slack, moves, unnamed, faults>>
  BY DEF Start
<1>3. verb' \in Verbs
  BY <1>1, BridgeAssumption DEF IInv, Types, Verbs
<1>4. Types' /\ BookIsOpen' /\ PlacedNearExpected'
  BY <1>2, <1>3 DEF IInv, Types, BookIsOpen, PlacedNearExpected
<1>5. Depositing' => held = NoPosition
  BY <1>1 DEF Depositing
<1>6. NoPosition \notin open
  BY DEF IInv, Types, NoPosition
<1>7. OneKnown'
  BY <1>2, <1>5, <1>6 DEF IInv, OneKnown, Named
<1> QED
  BY <1>4, <1>7 DEF IInv

\* A verb begins with nothing changed but its calls.
LEMMA StartsInv ==
    ASSUME IInv, InitialDeposit \/ RefreshBundle \/ EmergencyExit PROVE IInv'
<1>1. CASE InitialDeposit
  BY <1>1, LadderCalls, BeginsInv DEF InitialDeposit
<1>2. CASE RefreshBundle
  <2>1. PICK swap \in {<<>>, <<"swap">>}, sides \in Ladders :
           Start("refresh", <<"withdraw">> \o swap \o sides)
    BY <1>2 DEF RefreshBundle
  <2>2. /\ <<"withdraw">> \o swap \o sides \in Seq(Names)
        /\ Head(<<"withdraw">> \o swap \o sides) = "withdraw"
    BY RefreshCalls
  <2> QED
    BY <2>1, <2>2, BeginsInv
<1>3. CASE EmergencyExit
  <2>1. <<"withdraw">> \in Seq(Names) /\ Head(<<"withdraw">>) = "withdraw"
    BY DEF Names
  <2> QED
    BY <1>3, <2>1, BeginsInv DEF EmergencyExit
<1> QED
  BY <1>1, <1>2, <1>3

-----------------------------------------------------------------------------
(* The calls of a verb.                                                    *)

\* A verb that goes on has a call less, and may adopt a position.
LEMMA Continues ==
    ASSUME Types, NEW name, Call(name), NEW adopted, VerbContinues(adopted)
    PROVE  verb' \in Verbs /\ held' \in {held, adopted}
<1>1. verb \in Verbs /\ verb.calls \in Seq(Names) /\ verb.calls # <<>>
  BY DEF Types, Verbs, Call
<1>2. Tail(verb.calls) \in Seq(Names)
  BY <1>1, HeadTailProperties
<1>3. Idle \in Verbs
  BY DEF Idle, Verbs
<1>4. [verb EXCEPT !.calls = Rest] \in Verbs
  BY <1>1, <1>2 DEF Rest, Verbs
<1>5. verb' \in {Idle, [verb EXCEPT !.calls = Rest]}
  BY DEF VerbContinues
<1> QED
  BY <1>3, <1>4, <1>5 DEF VerbContinues

\* A verb that fails makes no more calls; a withdraw that fails keeps what
\* the keeper holds.
LEMMA FailsWith ==
    ASSUME VerbFails
    PROVE  /\ verb' \in Verbs /\ ~Depositing'
           /\ held' \in {held, NoPosition}
           /\ Call("withdraw") => held' = held
<1>1. verb' = Idle
  BY DEF VerbFails
<1>2. Idle \in Verbs /\ Idle.calls = <<>>
  BY DEF Idle, Verbs
<1>3. verb' \in Verbs /\ ~Depositing'
  BY <1>1, <1>2 DEF Depositing
<1> QED
  BY <1>3 DEF VerbFails

\* The book drops the position before the bundle may go on.
LEMMA WithdrawInv == ASSUME IInv, Withdraw PROVE IInv'
<1>1. /\ Call("withdraw") /\ UNCHANGED <<active, opened, slack, moves, unnamed>>
      /\ book' \in {book, NoPosition} /\ (book = held => book' = NoPosition)
      /\ book' = NoPosition => book \in {held, NoPosition}
  BY DEF Withdraw, Forget
<1>2. NoPosition \in 0 .. opened /\ NoPosition \notin open
  BY DEF IInv, Types, NoPosition
<1>3. CASE held \in open /\ open' = open \ {held} /\ VerbContinues(NoPosition)
  <2>1. verb' \in Verbs /\ held' \in {held, NoPosition}
    BY <1>1, <1>3, Continues DEF IInv
  <2>2. Types'
    BY <1>1, <1>2, <1>3, <2>1 DEF IInv, Types
  <2>3. BookIsOpen'
    BY <1>1, <1>2, <1>3 DEF IInv, BookIsOpen
  <2>4. book' = NoPosition => Named' = {}
    BY <1>1, <1>3 DEF IInv, OneKnown, Named
  <2>5. book' # NoPosition => Named' \subseteq {book'}
    BY <1>1, <1>3 DEF IInv, OneKnown, Named
  <2>6. OneKnown'
    BY <2>4, <2>5 DEF OneKnown
  <2> QED
    BY <1>1, <2>2, <2>3, <2>6 DEF IInv, PlacedNearExpected
<1>4. CASE AfterFailedWithdraw /\ (open' = open \/ (held \in open /\ open' = open \ {held}))
  <2>1. verb' \in Verbs /\ ~Depositing' /\ held' = held
    BY <1>1, <1>4, FailsWith DEF AfterFailedWithdraw
  <2>2. Types'
    BY <1>1, <1>2, <1>4, <2>1 DEF IInv, Types
  <2>3. BookIsOpen'
    BY <1>1, <1>2, <1>4 DEF IInv, BookIsOpen
  <2>4. OneKnown'
    BY <1>1, <1>4, <2>1 DEF IInv, OneKnown, Named
  <2> QED
    BY <1>1, <2>2, <2>3, <2>4 DEF IInv, PlacedNearExpected
<1> QED
  BY <1>3, <1>4 DEF Withdraw

\* A swap changes no position.
LEMMA SwapInv == ASSUME IInv, Swap PROVE IInv'
<1>1. /\ Call("swap") /\ verb' = [verb EXCEPT !.calls = Rest]
      /\ UNCHANGED <<active, open, opened, book, held, slack, moves, unnamed, faults>>
  BY DEF Swap
<1>2. verb.calls \in Seq(Names) /\ verb.calls # <<>>
  BY <1>1 DEF IInv, Types, Verbs, Call
<1>3. verb' \in Verbs
  <2>1. Tail(verb.calls) \in Seq(Names)
    BY <1>2, HeadTailProperties
  <2> QED
    BY <1>1, <2>1 DEF IInv, Types, Verbs, Rest
<1>4. Depositing
  BY <1>1 DEF Call, Depositing
<1> QED
  BY <1>1, <1>3, <1>4 DEF IInv, Types, BookIsOpen, OneKnown, Named, PlacedNearExpected

\* A deposit goes on only with tolerance left, or its verb ends.
LEMMA ReadInv ==
    ASSUME IInv, NEW side, NEW name \in {"readBid", "readAsk"}, ReadAnchor(side, name)
    PROVE  IInv'
<1>1. Call(name) /\ UNCHANGED <<active, open, opened, book, slack, moves, unnamed>>
  BY DEF ReadAnchor
<1>2. verb.calls \in Seq(Names) /\ verb.calls # <<>> /\ Depositing
  BY <1>1 DEF IInv, Types, Verbs, Call, Depositing
<1>3. BookIsOpen' /\ PlacedNearExpected'
  BY <1>1 DEF IInv, BookIsOpen, PlacedNearExpected
<1>4. book = NoPosition => Named = {}
  BY <1>2 DEF IInv, OneKnown
<1>5. OneKnown'
  BY <1>1, <1>4 DEF IInv, OneKnown, Named
<1>6. verb' \in Verbs /\ held' \in {held, NoPosition}
  <2>1. CASE VerbFails
    BY <2>1, FailsWith
  <2>2. CASE verb' = [verb EXCEPT !.calls = Rest, !.anchor = active] /\ UNCHANGED held
    <3>1. Tail(verb.calls) \in Seq(Names)
      BY <1>2, HeadTailProperties
    <3> QED
      BY <2>2, <3>1 DEF IInv, Types, Verbs, Rest
  <2> QED
    BY <2>1, <2>2 DEF ReadAnchor
<1>7. Types'
  BY <1>1, <1>6 DEF IInv, Types, NoPosition
<1> QED
  BY <1>3, <1>5, <1>7 DEF IInv

\* What remained of the tolerance after the bridge's read covers what the
\* market moved since.
LEMMA WithinTolerance ==
    ASSUME NEW a \in Int, NEW b \in Int, NEW e \in Int, NEW t \in Int,
           Distance(a, b) <= t - Distance(b, e)
    PROVE  t - Distance(a, e) \in Int /\ t - Distance(a, e) >= 0
BY DEF Distance

\* A placement goes to the book's position, or opens the only one.
LEMMA PlaceInv ==
    ASSUME IInv, NEW name \in {"placeBid", "placeAsk"}, Place(name) PROVE IInv'
<1>1. Call(name) /\ UNCHANGED <<active, moves>>
  BY DEF Place
<1>2. Depositing /\ (book = NoPosition => Named = {})
  BY <1>1 DEF IInv, OneKnown, Call, Depositing
<1>3. CASE /\ Lands /\ PlacedIn <= MaxPositions
           /\ open' = open \cup {PlacedIn}
           /\ opened' = IF book = NoPosition THEN opened + 1 ELSE opened
           /\ slack' = verb.tolerance - Distance(active, verb.expected)
           /\ \/ book' = PlacedIn /\ VerbContinues(PlacedIn)
                 /\ UNCHANGED <<unnamed, faults>>
              \/ /\ Fault /\ UNCHANGED book
                 /\ unnamed' = IF book = NoPosition THEN unnamed \cup {PlacedIn}
                               ELSE unnamed
                 /\ \/ VerbFails
                    \/ VerbContinues(IF verb.op = "deposit" THEN held ELSE book)
  <2>1. slack' \in Int /\ slack' >= 0
    <3>1. Distance(active, verb.anchor)
             <= verb.tolerance - Distance(verb.anchor, verb.expected)
      BY <1>3 DEF Lands, Remaining
    <3>2. /\ active \in Int /\ verb.anchor \in Int
          /\ verb.expected \in Int /\ verb.tolerance \in Int
      BY DEF IInv, Types, Verbs
    <3> QED
      BY <1>3, <3>1, <3>2, WithinTolerance
  <2>2. /\ opened' \in Nat /\ opened <= opened' /\ opened' <= MaxPositions
        /\ PlacedIn \in 1 .. opened' /\ PlacedIn # NoPosition
    BY <1>3 DEF IInv, Types, PlacedIn, NoPosition
  <2>3. open' \subseteq 1 .. opened'
    BY <1>3, <2>2 DEF IInv, Types
  <2>4. CASE book' = PlacedIn /\ VerbContinues(PlacedIn) /\ UNCHANGED <<unnamed, faults>>
    <3>1. verb' \in Verbs /\ held' \in {held, PlacedIn}
      BY <1>1, <2>4, Continues DEF IInv
    <3>2. Types'
      BY <1>1, <2>1, <2>2, <2>3, <2>4, <3>1 DEF IInv, Types
    <3>3. Named' \subseteq {PlacedIn}
      BY <1>2, <1>3, <2>4 DEF IInv, OneKnown, Named, PlacedIn
    <3> QED
      BY <1>3, <2>1, <2>2, <2>4, <3>2, <3>3
         DEF IInv, BookIsOpen, OneKnown, PlacedNearExpected
  <2>5. CASE /\ book' = book
             /\ unnamed' = IF book = NoPosition THEN unnamed \cup {PlacedIn} ELSE unnamed
             /\ \/ VerbFails
                \/ VerbContinues(IF verb.op = "deposit" THEN held ELSE book)
    <3>1. verb' \in Verbs /\ held' \in {held, NoPosition, book}
      <4>1. CASE VerbFails
        BY <4>1, FailsWith
      <4>2. CASE VerbContinues(IF verb.op = "deposit" THEN held ELSE book)
        BY <1>1, <4>2, Continues DEF IInv
      <4> QED
        BY <2>5, <4>1, <4>2
    <3>2. unnamed' \subseteq 1 .. opened'
      BY <2>2, <2>5 DEF IInv, Types
    <3>3. Types'
      BY <1>1, <2>1, <2>2, <2>3, <2>5, <3>1, <3>2 DEF IInv, Types, NoPosition
    <3>4. /\ book = NoPosition => Named' = {}
          /\ book # NoPosition => Named' \subseteq {book}
      BY <1>2, <1>3, <2>5 DEF IInv, OneKnown, Named, PlacedIn
    <3>5. OneKnown'
      BY <2>5, <3>4 DEF OneKnown
    <3> QED
      BY <1>3, <2>1, <2>5, <3>3, <3>5 DEF IInv, BookIsOpen, PlacedNearExpected
  <2> QED
    BY <1>3, <2>4, <2>5
<1>4. CASE VerbFails /\ UNCHANGED <<open, opened, slack, book, unnamed>>
  <2>1. verb' \in Verbs /\ held' \in {held, NoPosition}
    BY <1>4, FailsWith
  <2>2. Types'
    BY <1>1, <1>4, <2>1 DEF IInv, Types, NoPosition
  <2>3. OneKnown'
    BY <1>2, <1>4 DEF IInv, OneKnown, Named
  <2> QED
    BY <1>4, <2>2, <2>3 DEF IInv, BookIsOpen, PlacedNearExpected
<1> QED
  BY <1>3, <1>4 DEF Place

\* One case per call, verb and move of the market.
LEMMA NextInv == ASSUME IInv, [Next]_vars PROVE IInv'
<1>1. CASE InitialDeposit \/ RefreshBundle \/ EmergencyExit
  BY <1>1, StartsInv
<1>2. CASE Withdraw
  BY <1>2, WithdrawInv
<1>3. CASE Swap
  BY <1>3, SwapInv
<1>4. CASE Deposit
  <2>1. CASE ReadAnchor("bid", "readBid")
    BY <2>1, ReadInv
  <2>2. CASE ReadAnchor("ask", "readAsk")
    BY <2>2, ReadInv
  <2>3. CASE Place("placeBid") \/ Place("placeAsk")
    BY <2>3, PlaceInv
  <2> QED
    BY <1>4, <2>1, <2>2, <2>3 DEF Deposit
<1>5. CASE MarketMoves
  <2>1. active' \in Int
    BY <1>5, BridgeAssumption DEF MarketMoves
  <2> QED
    BY <1>5, <2>1 DEF MarketMoves, IInv, Types, BookIsOpen, OneKnown, Named, Depositing,
                      PlacedNearExpected
<1>6. CASE UNCHANGED vars
  BY <1>6 DEF vars, IInv, Types, BookIsOpen, OneKnown, Named, Depositing,
              PlacedNearExpected
<1> QED
  BY <1>1, <1>2, <1>3, <1>4, <1>5, <1>6 DEF Next

\* The inductive invariant holds in every state of the bridge (the verbs).
THEOREM Invariance == Spec => []IInv
<1>1. IInv /\ [Next]_vars => IInv'
  BY NextInv
<1> QED
  BY <1>1, InitInv, PTL DEF Spec

\* Liquidity is only ever added to an open position (withdraw forgets the
\* position whatever the Gateway answers).
THEOREM BookStaysOpen == Spec => [](TypeOK /\ BookIsOpen)
<1>1. IInv => TypeOK /\ BookIsOpen
  BY DEF IInv, Types, TypeOK
<1> QED
  BY <1>1, Invariance, PTL

\* No sequence of verbs, refusals and lost answers leaves a second position
\* behind, besides those the bridge was never told the name of
\* (refresh_bundle).
THEOREM NoSecondPosition == Spec => []OnePosition
<1>1. ASSUME IInv PROVE Cardinality(Named) <= 1
  <2>1. PICK p : Named \subseteq {p}
    BY <1>1 DEF IInv, OneKnown
  <2>2. Named = {} \/ Named = {p}
    BY <2>1
  <2>3. Cardinality({}) = 0 /\ Cardinality({p}) = 1
    BY FS_EmptySet, FS_Singleton
  <2> QED
    BY <2>2, <2>3
<1>2. IInv => OnePosition
  BY <1>1 DEF OnePosition, Named
<1> QED
  BY <1>2, Invariance, PTL

\* What is placed is within the tolerance around the bin the keeper
\* expected, however the market moves (remaining_tolerance).
THEOREM PlacedWithinTolerance == Spec => []PlacedNearExpected
<1>1. IInv => PlacedNearExpected
  BY DEF IInv
<1> QED
  BY <1>1, Invariance, PTL
=============================================================================
