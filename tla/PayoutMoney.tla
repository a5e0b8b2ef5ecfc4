---------------------------- MODULE PayoutMoney ----------------------------
(***************************************************************************)
(* The money of Payouts: what the reserve must say about all of them.      *)
(***************************************************************************)
EXTENDS Payouts, FiniteSetsExt

\* A reserve belongs to its payout until it is given back, because the payout
\* failed or was rejected, or until the completed transfer turns it into a
\* charge.
Keeping ==
  {p \in Payouts : \/ status[p] \in {"pending", "processing"}
                   \/ status[p] = "completed" /\ charges[p] = 0}

\* Between requests the reserved part is exactly what the payouts keep: none
\* is given back twice, none stays with a payout that will not be paid or was
\* charged.  A completed payout keeps its reserve only while its debit is not
\* settled: that it never is settled is what the run charge shows.
ReserveMatchesPayouts ==
  Quiet => bal.reserved = MapThenSumSet(LAMBDA p : Cost[p], Keeping)
=============================================================================
