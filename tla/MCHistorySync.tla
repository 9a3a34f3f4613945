--------------------------- MODULE MCHistorySync ---------------------------
(* Two slots, a venue that trades in every bar but two, and windows of     *)
(* which one is followed, one overlapped and one preceded by another.      *)
EXTENDS HistorySync

CONSTANTS a, b

MCSyncs == {a, b}
MCVenueBars == {0, 1, 3, 5, 7}
Ask(since, until, limit, repair) ==
  [since |-> since, until |-> until, limit |-> limit, repair |-> repair]
MCRequests == {Ask(0, 2, 3, TRUE), Ask(0, 8, 1, TRUE), Ask(7, 8, 2, FALSE)}
=============================================================================
