---------------------------- MODULE WalkForward ----------------------------
(***************************************************************************)
(* engine/optimize.py: the folds of a walk-forward optimization over n     *)
(* bars.  A fold trains on the bars 1 .. train and is scored on the bars   *)
(* test[1] .. test[2]; the sweep itself, a search of Optuna's over         *)
(* backtests of the training bars, is left out.                            *)
(*                                                                         *)
(* A comment that begins with "Slip" introduces a variant of the definition*)
(* below it with a plausible mistake in it.                                *)
(***************************************************************************)
EXTENDS Integers

(* bars[: seg * k]; and bars[seg * k : seg * (k + 1)], in the last fold    *)
(* bars[seg * k :].                                                        *)
TrainEnd(n, folds, k) == (n \div folds) * k

(* Slip: the test window begins with the last training bar.                *)
TestWindowOverlapping(n, folds, k) ==
  <<(n \div folds) * k, IF k < folds - 1 THEN (n \div folds) * (k + 1) ELSE n>>
TestWindow(n, folds, k) ==
  <<(n \div folds) * k + 1, IF k < folds - 1 THEN (n \div folds) * (k + 1) ELSE n>>

(* _walk_forward: fold by fold, those whose windows hold two bars each.    *)
Size(w) == w[2] - w[1] + 1
Kept(n, folds) ==
  IF n < folds * 2 THEN {}
  ELSE {k \in 1 .. folds - 1 : TrainEnd(n, folds, k) >= 2 /\ Size(TestWindow(n, folds, k)) >= 2}

Folds(n, folds) ==
  [k \in Kept(n, folds) |-> [train |-> TrainEnd(n, folds, k), test |-> TestWindow(n, folds, k)]]

(* optimize.py:8-12: no fold is scored on a bar it was trained on or before *)
(* one, the test windows follow upon each other up to the last bar, and     *)
(* none is shorter than two bars.                                          *)
Separate(n, folds) ==
  LET F == Folds(n, folds)
  IN \A k \in DOMAIN F :
       /\ F[k].test[1] = F[k].train + 1
       /\ F[k].train >= 2 /\ F[k].test[1] + 1 <= F[k].test[2]
       /\ IF k + 1 \in DOMAIN F THEN F[k + 1].test[1] = F[k].test[2] + 1
          ELSE F[k].test[2] = n
============================================================================
