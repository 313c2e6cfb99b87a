------------------------------ MODULE MCCheckout ------------------------------
(* Instances of Checkout for TLC.                                          *)
EXTENDS Checkout, TLC

CONSTANTS u1, u2, ss1, ss2, s1, s2, h1, h2, r1, k1, i1, i2, e1, e2, c1, c2

OneSession == [s \in Seats |-> ss1]
\* A seat in each of two sessions of the event.
TwoSessions == (s1 :> ss1) @@ (s2 :> ss2)
Opens  == [ss \in Sessions |-> 0]
Closes == [ss \in Sessions |-> 2]
Starts == [ss \in Sessions |-> 2]

\* One customer's order, on which two events and the event's cancellation meet.
OneBuyer ==
  /\ Cardinality({h \in Holds : hold[h] # AbsentHold}) <= 1
  /\ Cardinality({hold[h].user : h \in {g \in Holds : hold[g] # AbsentHold}}
                 \cup {pending[r].user : r \in {q \in Requests : pending[q].op = "acquire"}}) <= 1
  /\ Cardinality({c \in Callers : call[c] # NoCall}) <= 1
\* Two customers after the same seat, one event between them and no cancellation.
OneEvent ==
  /\ Cardinality({e \in Events : sent[e] # Unsent}) <= 1
  /\ event.status = "PUBLISHED"

\* Every behaviour stays one or the other; either alone is a smaller Checkout.
BuyersAndEventsNext == CheckoutNext /\ (OneBuyer \/ OneEvent)'
BuyersAndEventsSpec == CheckoutInit /\ [][BuyersAndEventsNext]_allVars

\* Holds of two sessions side by side, or the checkout of one; the fairness is Checkout's.
HoldsOrCheckout ==
  \A g, h \in Holds : order[h] # NoOrder /\ g # h => hold[g] = AbsentHold
HoldsOrCheckoutFairSpec == CheckoutInit /\ [][CheckoutNext /\ HoldsOrCheckout']_allVars /\ CheckoutFairness

Symmetry == Permutations(Users) \cup Permutations(Holds) \cup Permutations(Intents)
            \cup Permutations(Events) \cup Permutations(Callers)
=============================================================================
