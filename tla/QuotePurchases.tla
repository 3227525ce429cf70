--------------------------- MODULE QuotePurchases ---------------------------
(***************************************************************************)
(* InspoQuotes: QuoteTableViewController sells the premium quotes.         *)
(*                                                                         *)
(* StoreKit keeps a transaction until the app finishes it, and reports it  *)
(* when its state changes and at every launch.  The handler takes the      *)
(* transactions of a report one after the other, each in a few statements; *)
(* the process may end between any two, and what UserDefaults holds stays. *)
(***************************************************************************)
EXTENDS Naturals, Sequences

CONSTANTS Transactions,    \* the transactions StoreKit will ever make
          MaxReports,      \* bound: transactions in one report
          MaxLaunches      \* bound

ASSUME BoundAssumption == MaxReports \in Nat \ {0} /\ MaxLaunches \in Nat \ {0}

VARIABLES
  running, launches,
  ownedBefore,    \* did the user buy the quotes before this installation?
  isPurchased,    \* the flag in UserDefaults
  premiums,       \* how many times quotesToShow has the premium quotes
  buyRow,         \* does the table show "Get More Quotes"?
  stale,          \* has UIKit yet to read numberOfRowsInSection again?
  restoreButton,
  state,          \* StoreKit: the state of each transaction
  unreported,     \* StoreKit: transactions to report to the observer
  report,         \* the transactions the handler's loop has still to take
  step            \* how far it is with the first of them

screen == <<premiums, buyRow, stale, restoreButton>>
store  == <<state, unreported>>
loop   == <<report, step>>
vars   == <<running, launches, ownedBefore, isPurchased, screen, store, loop>>

Open == {t \in Transactions : state[t] \notin {"unused", "finished", "settled"}}

\* viewDidLoad.
LoadsWith(flag) ==
  /\ running' = TRUE
  /\ premiums' = (IF flag THEN 1 ELSE 0) /\ buyRow' = ~flag /\ stale' = FALSE
  /\ restoreButton' = TRUE
  /\ report' = <<>> /\ step' = "begin"

Init ==
  /\ running = TRUE /\ launches = 1 /\ ownedBefore \in BOOLEAN
  /\ isPurchased = FALSE /\ premiums = 0 /\ buyRow = TRUE /\ stale = FALSE
  /\ restoreButton = TRUE
  /\ state = [t \in Transactions |-> "unused"] /\ unreported = {}
  /\ report = <<>> /\ step = "begin"

-----------------------------------------------------------------------------
(* The user, between two events of the main thread.                        *)

Idle == running /\ report = <<>> /\ ~stale

Made(t, st) == /\ state[t] = "unused"
               /\ state' = [state EXCEPT ![t] = st]
               /\ unreported' = unreported \cup {t}

\* didSelectRowAt on the last row.  A payment makes a transaction.
buyPremiumQuotes(t) ==
  /\ Idle /\ buyRow
  /\ Made(t, "purchasing")
  /\ UNCHANGED <<running, launches, ownedBefore, isPurchased, screen, loop>>

\* restoreCompletedTransactions makes a transaction if the quotes were bought.
restorePressed(t) ==
  /\ Idle /\ restoreButton
  /\ ownedBefore \/ \E u \in Transactions : state[u] \in {"purchased", "settled"}
  /\ Made(t, "restored")
  /\ UNCHANGED <<running, launches, ownedBefore, isPurchased, screen, loop>>

-----------------------------------------------------------------------------
(* StoreKit.                                                               *)

\* The payment goes through, fails or waits for a parent; the process need not
\* be running.
Decided(t) ==
  /\ \E st \in {"purchased", "failed", "deferred"} :
       /\ state[t] = "purchasing" \/ (state[t] = "deferred" /\ st # "deferred")
       /\ state' = [state EXCEPT ![t] = st]
  /\ unreported' = unreported \cup {t}
  /\ UNCHANGED <<running, launches, ownedBefore, isPurchased, screen, loop>>

\* updatedTransactions is called with some of what there is to report.
Reported ==
  /\ Idle
  /\ \E k \in 1..MaxReports : \E ts \in [1..k -> unreported] :
       /\ \A i, j \in 1..k : ts[i] = ts[j] => i = j
       /\ report' = ts
       /\ unreported' = unreported \ {ts[i] : i \in 1..k}
  /\ step' = "begin"
  /\ UNCHANGED <<running, launches, ownedBefore, isPurchased, screen, state>>

-----------------------------------------------------------------------------
(* paymentQueue(_:updatedTransactions:), a statement at a time.            *)

Transaction == Head(report)
Handling(st, at) == /\ running /\ report # <<>>
                    /\ state[Transaction] = st /\ step = at

\* showPremiumQuotes.  UIKit reads the number of rows in reloadData, or when it
\* lays the table out after the event.
ShowPremiumQuotes == /\ premiums' = premiums + 1
                     /\ \/ buyRow' = ~isPurchased /\ UNCHANGED stale
                        \/ stale' = TRUE /\ UNCHANGED buyRow
                     /\ UNCHANGED <<isPurchased, restoreButton>>

SetPurchased == isPurchased' = TRUE /\ UNCHANGED screen

FinishTransaction ==
  /\ state' = [state EXCEPT ![Transaction] =
                 IF @ = "failed" THEN "finished" ELSE "settled"]
  /\ unreported' = unreported \ {Transaction}
  /\ report' = Tail(report) /\ step' = "begin"
  /\ UNCHANGED <<isPurchased, premiums, buyRow, stale>>

Then(next) == step' = next /\ UNCHANGED <<store, report>>

\* Mutant: the transaction is finished before the flag is saved.
PurchasedFinishedFirst ==
  \/ Handling("purchased", "begin") /\ ShowPremiumQuotes /\ Then("save")
  \/ Handling("purchased", "save") /\ FinishTransaction /\ UNCHANGED restoreButton
  \/ Handling("settled", "begin") /\ SetPurchased /\ UNCHANGED <<store, loop>>

Purchased ==
  \/ Handling("purchased", "begin") /\ ShowPremiumQuotes /\ Then("save")
  \/ Handling("purchased", "save") /\ SetPurchased /\ Then("finish")
  \/ Handling("purchased", "finish") /\ FinishTransaction /\ UNCHANGED restoreButton

\* Mutant: a restored purchase is saved and not shown.
RestoredUnshown ==
  \/ Handling("restored", "begin") /\ SetPurchased /\ Then("finish")
  \/ Handling("restored", "finish") /\ FinishTransaction /\ restoreButton' = FALSE

Restored ==
  \/ Handling("restored", "begin") /\ SetPurchased /\ Then("show")
  \/ Handling("restored", "show") /\ ShowPremiumQuotes /\ Then("finish")
  \/ Handling("restored", "finish") /\ FinishTransaction /\ restoreButton' = FALSE

\* Mutant: a failed payment shows them.
FailedShown ==
  \/ Handling("failed", "begin") /\ ShowPremiumQuotes /\ Then("finish")
  \/ Handling("failed", "finish") /\ FinishTransaction /\ UNCHANGED restoreButton

Failed == Handling("failed", "begin") /\ FinishTransaction /\ UNCHANGED restoreButton

\* Nothing is done for a transaction that is being processed or deferred.
PassedOver == /\ \E st \in {"purchasing", "deferred"} : Handling(st, "begin")
              /\ report' = Tail(report)
              /\ UNCHANGED <<isPurchased, screen, store, step>>

Handler == /\ Purchased \/ Restored \/ Failed \/ PassedOver
           /\ UNCHANGED <<running, launches, ownedBefore>>

\* UIKit lays the table out when the event is over.
Layout == /\ running /\ report = <<>> /\ stale
          /\ stale' = FALSE /\ buyRow' = ~isPurchased
          /\ UNCHANGED <<running, launches, ownedBefore, isPurchased, premiums,
                         restoreButton, store, loop>>

ProcessDies == /\ running
               /\ launches < MaxLaunches
               /\ running' = FALSE
               /\ UNCHANGED <<launches, ownedBefore, isPurchased, screen, store, loop>>

\* Mutant: the observer is added only when something is bought.
RedeliveredNone == {}

\* viewDidLoad adds the observer: StoreKit reports whatever is not finished.
Redelivered == Open

Launch == /\ ~running /\ launches < MaxLaunches
          /\ launches' = launches + 1
          /\ LoadsWith(isPurchased)
          /\ unreported' = Redelivered
          /\ UNCHANGED <<ownedBefore, isPurchased, state>>

-----------------------------------------------------------------------------
Next == \/ \E t \in Transactions : \/ buyPremiumQuotes(t) \/ restorePressed(t)
                                   \/ Decided(t)
        \/ Reported \/ Handler \/ Layout
        \/ ProcessDies \/ Launch

Spec == Init /\ [][Next]_vars

\* StoreKit reports, the main thread runs, and the user opens the app again.
Fairness == WF_vars(Reported) /\ WF_vars(Handler \/ Layout) /\ WF_vars(Launch)
FairSpec == Spec /\ Fairness
-----------------------------------------------------------------------------
(* Properties.                                                             *)

Paid == {t \in Transactions : state[t] \in {"purchased", "restored", "settled"}}

States == {"unused", "purchasing", "deferred", "purchased", "restored", "failed",
           "finished", "settled"}

\* Every variable has a value of its type, and nobody sees the premium quotes
\* before a payment has gone through.
TypeOK ==
  /\ running \in BOOLEAN /\ launches \in 1..MaxLaunches
  /\ ownedBefore \in BOOLEAN /\ isPurchased \in BOOLEAN /\ premiums \in Nat
  /\ buyRow \in BOOLEAN /\ stale \in BOOLEAN /\ restoreButton \in BOOLEAN
  /\ state \in [Transactions -> States]
  /\ unreported \subseteq Open
  /\ report \in Seq(Transactions) /\ step \in {"begin", "save", "show", "finish"}
  /\ premiums > 0 => Paid # {}

\* Between two events the screen has the premium quotes exactly when the purchase
\* is saved: whatever the order of reports, redeliveries and launches, nobody
\* who has paid misses them and nobody sees them who will not after a launch.
ShownIffSaved == running /\ report = <<>> => (isPurchased <=> premiums > 0)

\* Unlocked once paid, for good, and finished (line 99 and 116) only then: a crash
\* between two statements never loses a purchase.
Rights == INSTANCE Entitlement
  WITH paid     <- Paid,
       settled  <- {t \in Transactions : state[t] = "settled"},
       unlocked <- isPurchased
Implements == Rights!Spec

\* What is paid is unlocked in the end, if the app is opened again and again: no
\* report is lost with a process that ends.
Unlocks == \A t \in Transactions : state[t] \in {"purchased", "restored"} ~> isPurchased
=============================================================================
