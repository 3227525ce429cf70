------------------------- MODULE QuotePurchasesProofs -------------------------
(***************************************************************************)
(* Proofs about QuotePurchases, for any number of transactions, reports of *)
(* any length and launches.                                                *)
(***************************************************************************)
EXTENDS QuotePurchases, SequenceTheorems, TLAPS

\* What the handler has done when it is `step' far with a transaction.
Progress ==
  /\ running /\ step # "begin" => report # <<>>
  /\ running /\ step = "save"   => state[Head(report)] = "purchased" /\ premiums > 0
  /\ running /\ step = "show"   => state[Head(report)] = "restored" /\ isPurchased
  /\ running /\ step = "finish" => /\ state[Head(report)] \in {"purchased", "restored"}
                                   /\ isPurchased /\ premiums > 0

\* Between two transactions the quotes are shown if and only if they are saved.
Shown == running /\ step = "begin" => (isPurchased <=> premiums > 0)

\* Nothing is saved before a payment.
Earned == isPurchased => Paid # {}

IInv == TypeOK /\ Progress /\ Shown /\ Earned

USE BoundAssumption DEF States

LEMMA InitInv == Init => IInv
<1>1. ASSUME Init PROVE TypeOK
  <2>1. report \in Seq(Transactions)
    BY <1>1, EmptySeq DEF Init
  <2>2. state \in [Transactions -> States] /\ unreported \subseteq Open
    BY <1>1 DEF Init
  <2>3. launches \in 1..MaxLaunches
    BY <1>1 DEF Init
  <2>4. /\ running \in BOOLEAN /\ ownedBefore \in BOOLEAN /\ isPurchased \in BOOLEAN
        /\ buyRow \in BOOLEAN /\ stale \in BOOLEAN /\ restoreButton \in BOOLEAN
    BY <1>1, Zenon DEF Init
  <2>5. /\ premiums \in Nat /\ (premiums > 0 => Paid # {})
        /\ step \in {"begin", "save", "show", "finish"}
    BY <1>1 DEF Init
  <2> QED
    BY <2>1, <2>2, <2>3, <2>4, <2>5 DEF TypeOK
<1>2. ASSUME Init PROVE Progress /\ Shown /\ Earned
  BY <1>2 DEF Init, Progress, Shown, Earned
<1> QED
  BY <1>1, <1>2 DEF IInv

\* The transaction at hand is one of them, and so are those after it.
LEMMA AtHand ==
  ASSUME TypeOK, report # <<>>
  PROVE  Transaction \in Transactions /\ Tail(report) \in Seq(Transactions)
BY DEF TypeOK, Transaction

\* Payments stay payments while nothing but the state of t changes.
LEMMA PaidKept ==
  ASSUME TypeOK, NEW t \in Transactions, NEW st \in States,
         state' = [state EXCEPT ![t] = st],
         state[t] \in {"purchased", "restored"} => st = "settled",
         state[t] # "settled"
  PROVE  Paid \subseteq Paid' /\ (st \in {"purchased", "restored", "settled"} => t \in Paid')
BY DEF TypeOK, Paid

\* StoreKit and the user change no transaction the handler is at work on.
LEMMA StoreStep ==
  ASSUME IInv, NEW t \in Transactions,
         buyPremiumQuotes(t) \/ restorePressed(t) \/ Decided(t)
  PROVE  IInv'
<1>1. PICK st \in States : /\ state' = [state EXCEPT ![t] = st]
                           /\ unreported' = unreported \cup {t}
                           /\ st \notin {"unused", "finished", "settled"}
                           /\ state[t] \in {"unused", "purchasing", "deferred"}
  BY DEF buyPremiumQuotes, restorePressed, Decided, Made
<1>2. UNCHANGED <<running, launches, ownedBefore, isPurchased, screen, loop>>
  BY DEF buyPremiumQuotes, restorePressed, Decided
<1>3. Paid \subseteq Paid'
  BY <1>1, PaidKept DEF IInv
<1>4. TypeOK'
  BY <1>1, <1>2, <1>3 DEF IInv, TypeOK, Open, screen, loop
<1>5. Progress'
  BY <1>1, <1>2, AtHand DEF IInv, TypeOK, Progress, Transaction, screen, loop
<1>6. Shown' /\ Earned'
  BY <1>2, <1>3 DEF IInv, Shown, Earned, screen, loop
<1> QED
  BY <1>4, <1>5, <1>6 DEF IInv

LEMMA ReportedStep ==
  ASSUME IInv, Reported
  PROVE  IInv'
<1>0. PICK k \in 1..MaxReports :
         \E ts \in [1..k -> unreported] :
           /\ report' = ts
           /\ unreported' = unreported \ {ts[i] : i \in 1..k}
  BY DEF Reported
<1>1. PICK ts \in [1..k -> unreported] :
         /\ report' = ts
         /\ unreported' = unreported \ {ts[i] : i \in 1..k}
  BY <1>0
<1>2. report' \in Seq(Transactions)
  <2>1. ts \in Seq(Transactions)
    BY <1>1 DEF IInv, TypeOK, Open
  <2> QED
    BY <1>1, <2>1
<1>3. /\ unreported' \subseteq unreported /\ step' = "begin"
      /\ UNCHANGED <<running, launches, ownedBefore, isPurchased, screen, state>>
  BY <1>1 DEF Reported
<1>4. TypeOK'
  BY <1>2, <1>3 DEF IInv, TypeOK, Open, Paid, screen
<1>5. Progress' /\ Shown' /\ Earned'
  BY <1>3 DEF IInv, Progress, Shown, Earned, Paid, screen, Reported, Idle
<1> QED
  BY <1>4, <1>5 DEF IInv

\* A statement of the handler that leaves the transaction where it is.
LEMMA StatementStep ==
  ASSUME IInv, running, report # <<>>, UNCHANGED <<running, launches, ownedBefore>>,
         \/ Handling("purchased", "begin") /\ ShowPremiumQuotes /\ Then("save")
         \/ Handling("purchased", "save") /\ SetPurchased /\ Then("finish")
         \/ Handling("restored", "begin") /\ SetPurchased /\ Then("show")
         \/ Handling("restored", "show") /\ ShowPremiumQuotes /\ Then("finish")
  PROVE  IInv'
<1>1. UNCHANGED <<state, unreported, report>>
  BY DEF Then, store
<1>2. Transaction \in Paid
  BY AtHand DEF IInv, Handling, Paid
<1>3. premiums' \in Nat /\ premiums' >= premiums
  BY DEF IInv, TypeOK, ShowPremiumQuotes, SetPurchased, screen
<1>4. TypeOK'
  BY <1>1, <1>2, <1>3 DEF IInv, TypeOK, Open, Paid, ShowPremiumQuotes, SetPurchased,
                          Then, screen
<1>5. Progress' /\ Shown' /\ Earned'
  BY <1>1, <1>2, <1>3 DEF IInv, TypeOK, Progress, Shown, Earned, Paid, Handling,
                          ShowPremiumQuotes, SetPurchased, Then, Transaction, screen
<1> QED
  BY <1>4, <1>5 DEF IInv

\* The end of a transaction.
LEMMA FinishStep ==
  ASSUME IInv, running, report # <<>>, UNCHANGED <<running, launches, ownedBefore>>,
         FinishTransaction, restoreButton' \in BOOLEAN,
         \/ Handling("purchased", "finish") \/ Handling("restored", "finish")
         \/ Handling("failed", "begin")
  PROVE  IInv'
<1> DEFINE st == IF state[Transaction] = "failed" THEN "finished" ELSE "settled"
<1>1. Transaction \in Transactions /\ Tail(report) \in Seq(Transactions)
  BY AtHand DEF IInv
<1>2. state' = [state EXCEPT ![Transaction] = st]
  BY <1>1 DEF FinishTransaction, IInv, TypeOK
<1>3. Paid \subseteq Paid'
  BY <1>1, <1>2, PaidKept DEF IInv, Handling
<1>4. /\ unreported' = unreported \ {Transaction} /\ report' = Tail(report)
      /\ step' = "begin" /\ UNCHANGED <<isPurchased, premiums, buyRow, stale>>
  BY DEF FinishTransaction
<1>5. state' \in [Transactions -> States] /\ unreported' \subseteq Open'
  BY <1>1, <1>2, <1>4 DEF IInv, TypeOK, Open
<1>6. TypeOK'
  BY <1>1, <1>3, <1>4, <1>5 DEF IInv, TypeOK
<1>7. Progress' /\ Shown' /\ Earned'
  BY <1>3, <1>4 DEF IInv, TypeOK, Progress, Shown, Earned, Handling
<1> QED
  BY <1>6, <1>7 DEF IInv

LEMMA PassedOverStep ==
  ASSUME IInv, PassedOver, UNCHANGED <<running, launches, ownedBefore>>
  PROVE  IInv'
<1>1. /\ step = "begin" /\ report # <<>> /\ report' = Tail(report)
      /\ UNCHANGED <<isPurchased, screen, store, step>>
  BY DEF PassedOver, Handling
<1>2. Tail(report) \in Seq(Transactions)
  BY <1>1, AtHand DEF IInv
<1> QED
  BY <1>1, <1>2 DEF IInv, TypeOK, Progress, Shown, Earned, Open, Paid, screen, store

LEMMA HandlerStep ==
  ASSUME IInv, Handler
  PROVE  IInv'
<1>1. UNCHANGED <<running, launches, ownedBefore>>
  BY DEF Handler
<1>2. CASE Purchased
  BY <1>1, <1>2, StatementStep, FinishStep DEF Purchased, Handling, IInv, TypeOK
<1>3. CASE Restored
  BY <1>1, <1>3, StatementStep, FinishStep DEF Restored, Handling
<1>4. CASE Failed
  BY <1>1, <1>4, FinishStep DEF Failed, Handling, IInv, TypeOK
<1>5. CASE PassedOver
  BY <1>1, <1>5, PassedOverStep
<1> QED
  BY <1>2, <1>3, <1>4, <1>5 DEF Handler

LEMMA ProcessStep ==
  ASSUME IInv, Layout \/ ProcessDies \/ Launch
  PROVE  IInv'
<1>1. UNCHANGED state
  BY DEF Layout, ProcessDies, Launch, store
<1>2. CASE Layout
  BY <1>1, <1>2 DEF Layout, IInv, TypeOK, Progress, Shown, Earned, Open, Paid, store, loop
<1>3. CASE ProcessDies
  BY <1>1, <1>3 DEF ProcessDies, IInv, TypeOK, Progress, Shown, Earned, Open, Paid,
                    screen, store, loop
<1>4. CASE Launch
  <2>1. TypeOK'
    <3>1. launches' \in 1..MaxLaunches /\ isPurchased' \in BOOLEAN
      BY <1>4 DEF Launch, IInv, TypeOK
    <3>2. buyRow' \in BOOLEAN /\ premiums' \in Nat /\ (premiums' > 0 => Paid' # {})
      BY <1>1, <1>4 DEF Launch, LoadsWith, IInv, TypeOK, Earned, Paid
    <3>3. report' \in Seq(Transactions)
      BY <1>4, EmptySeq DEF Launch, LoadsWith
    <3>4. unreported' \subseteq Open'
      BY <1>1, <1>4 DEF Launch, Redelivered, Open
    <3> QED
      BY <1>1, <1>4, <3>1, <3>2, <3>3, <3>4 DEF Launch, LoadsWith, IInv, TypeOK
  <2>2. Progress' /\ Shown' /\ Earned'
    BY <1>1, <1>4 DEF Launch, LoadsWith, IInv, TypeOK, Progress, Shown, Earned, Paid
  <2> QED
    BY <2>1, <2>2 DEF IInv
<1> QED
  BY <1>2, <1>3, <1>4

\* IInv is inductive: whatever the handler has done with the transaction at hand,
\* and between two transactions, the screen and the flag agree.
THEOREM Inductive == Spec => []IInv
<1>1. IInv /\ [Next]_vars => IInv'
  <2> SUFFICES ASSUME IInv, [Next]_vars PROVE IInv'
    OBVIOUS
  <2>1. CASE UNCHANGED vars
    BY <2>1 DEF vars, IInv, TypeOK, Progress, Shown, Earned, Open, Paid, screen, store,
                loop
  <2>2. CASE Next
    BY <2>2, StoreStep, ReportedStep, HandlerStep, ProcessStep DEF Next
  <2> QED
    BY <2>1, <2>2
<1> QED
  BY InitInv, <1>1, PTL DEF Spec

\* Every variable keeps its type, and nobody sees the premium quotes before a
\* payment has gone through (paymentQueue(_:updatedTransactions:), viewDidLoad).
THEOREM TypeCorrect == Spec => []TypeOK
<1>1. IInv => TypeOK
  BY DEF IInv
<1> QED
  BY Inductive, <1>1, PTL

\* Between two events the screen has the premium quotes exactly when the purchase
\* is saved, through reports, redeliveries and launches in any order.
THEOREM ShownSafe == Spec => []ShownIffSaved
<1>1. IInv => ShownIffSaved
  BY DEF IInv, Progress, Shown, ShownIffSaved, TypeOK
<1> QED
  BY Inductive, <1>1, PTL

Settled == {t \in Transactions : state[t] = "settled"}

\* Each step is a payment, the saving of the flag, the end of a paid transaction,
\* or none of these.
LEMMA RightsStep ==
  ASSUME IInv, [Next]_vars
  PROVE  [Rights!Next]_<<Paid, Settled, isPurchased>>
<1>1. CASE \E t \in Transactions : buyPremiumQuotes(t) \/ restorePressed(t) \/ Decided(t)
  <2>1. PICK t \in Transactions, st \in States :
          /\ state' = [state EXCEPT ![t] = st] /\ UNCHANGED isPurchased
          /\ st \notin {"unused", "finished", "settled"}
          /\ state[t] \in {"unused", "purchasing", "deferred"}
    BY <1>1 DEF buyPremiumQuotes, restorePressed, Decided, Made
  <2>2. Settled' = Settled
    BY <2>1 DEF IInv, TypeOK, Settled
  <2>3. CASE st \in {"purchased", "restored"}
    <3>1. Paid' = Paid \cup {t} /\ t \notin Paid
      BY <2>1, <2>3 DEF IInv, TypeOK, Paid
    <3> QED
      BY <2>1, <2>2, <3>1 DEF Rights!Next, Rights!Pay, Settled
  <2>4. CASE st \notin {"purchased", "restored"}
    <3>1. Paid' = Paid
      BY <2>1, <2>4 DEF IInv, TypeOK, Paid
    <3> QED
      BY <2>1, <2>2, <3>1
  <2> QED
    BY <2>3, <2>4
<1>2. CASE Handler
  <2>1. \/ FinishTransaction /\ state[Transaction] \in {"purchased", "restored"} /\ isPurchased
        \/ FinishTransaction /\ state[Transaction] = "failed"
        \/ SetPurchased /\ Transaction \in Paid /\ UNCHANGED state
        \/ UNCHANGED <<state, isPurchased>>
    <3>1. CASE Purchased
      BY <1>2, <3>1, AtHand DEF Purchased, Handling, Then, ShowPremiumQuotes, IInv, Progress,
                                Paid, store
    <3>2. CASE Restored
      BY <1>2, <3>2, AtHand DEF Restored, Handling, Then, ShowPremiumQuotes, IInv, Progress,
                                Paid, store
    <3>3. CASE Failed \/ PassedOver
      BY <3>3 DEF Failed, PassedOver, Handling, store
    <3> QED
      BY <1>2, <3>1, <3>2, <3>3 DEF Handler
  <2>2. Transaction \in Transactions
    BY <1>2, AtHand DEF Handler, Purchased, Restored, Failed, PassedOver, Handling, IInv
  <2>3. CASE FinishTransaction /\ state[Transaction] \in {"purchased", "restored"} /\ isPurchased
    <3>1. /\ state' = [state EXCEPT ![Transaction] = "settled"]
          /\ UNCHANGED isPurchased
      BY <2>2, <2>3 DEF FinishTransaction, IInv, TypeOK
    <3>2. /\ Paid' = Paid /\ Settled' = Settled \cup {Transaction}
          /\ Transaction \in Paid \ Settled
      BY <2>2, <2>3, <3>1 DEF IInv, TypeOK, Paid, Settled
    <3> QED
      BY <2>3, <3>1, <3>2 DEF Rights!Next, Rights!Settle, Settled
  <2>4. CASE FinishTransaction /\ state[Transaction] = "failed"
    BY <2>2, <2>4 DEF FinishTransaction, IInv, TypeOK, Paid, Settled
  <2>5. CASE SetPurchased /\ Transaction \in Paid /\ UNCHANGED state
    BY <2>5 DEF SetPurchased, Rights!Next, Rights!Unlock, Paid, Settled
  <2>6. CASE UNCHANGED <<state, isPurchased>>
    BY <2>6 DEF Paid, Settled
  <2> QED
    BY <2>1, <2>3, <2>4, <2>5, <2>6
<1>3. CASE Reported \/ Layout \/ ProcessDies \/ Launch \/ UNCHANGED vars
  BY <1>3 DEF Reported, Layout, ProcessDies, Launch, vars, store, Paid, Settled
<1> QED
  BY <1>1, <1>2, <1>3 DEF Next

\* The app grants what Entitlement describes: a transaction is finished only when
\* the quotes are unlocked, wherever a process ended before.
THEOREM Refinement == Spec => Implements
<1>1. Init => Rights!Init
  BY DEF Init, Rights!Init, Paid
<1>2. IInv /\ [Next]_vars => [Rights!Next]_<<Paid, Settled, isPurchased>>
  BY RightsStep
<1> QED
  BY Inductive, <1>1, <1>2, PTL DEF Spec, Implements, Rights!Spec, Settled
=============================================================================
