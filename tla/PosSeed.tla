------------------------------ MODULE PosSeed ------------------------------
(***************************************************************************)
(* src/src/pos_solver.c around its iteration: what pos_solve() refuses,    *)
(* the point a cold solve starts from and the choice of the one anchor     *)
(* that is left out.  Coordinates, heights and ranges are whole numbers of *)
(* one unit; quotients keep their divisor.  gn_solve() and the floating    *)
(* point are left out.                                                     *)
(***************************************************************************)
EXTENDS Integers, Sequences, FiniteSets, FiniteSetsExt, SequencesExt

CONSTANTS MaxAnchors,  \* POS_MAX_ANCHORS
          MinSpread,   \* POS_MIN_SPREAD_M2
          MaxResidual  \* POS_OUTLIER_K_SIGMA * POS_RANGE_SIGMA_M

Bigger(a, b) == IF a > b THEN a ELSE b
Size(n) == IF n < 0 THEN -n ELSE n

\* r_h^2: the range in the plane, never below zero.
Planar(m) == Bigger(m.sq - m.dz * m.dz, 0)

\* linear_seed(): the normal equations of the differences to the first anchor.
\* A measurement is [x, y, dz, sq], sq its squared range.
Normal(ms) ==
  LET k == ms[1]
      rows == [i \in 2..Len(ms) |->
                 [u |-> 2 * (k.x - ms[i].x), v |-> 2 * (k.y - ms[i].y),
                  b |-> (Planar(ms[i]) - Planar(k))
                        + (k.x * k.x + k.y * k.y) - (ms[i].x * ms[i].x + ms[i].y * ms[i].y)]]
      Sum(F(_)) == FoldSet(LAMBDA i, t : t + F(rows[i]), 0, DOMAIN rows)
  IN [uu |-> Sum(LAMBDA r : r.u * r.u), uv |-> Sum(LAMBDA r : r.u * r.v),
      vv |-> Sum(LAMBDA r : r.v * r.v),
      ub |-> Sum(LAMBDA r : r.u * r.b), vb |-> Sum(LAMBDA r : r.v * r.b)]

Det(n) == n.uu * n.vv - n.uv * n.uv

\* derive_seed(): the solution, and the centroid when there is none.
Seed(ms) ==
  LET n == Normal(ms)
      Total(F(_)) == FoldSet(LAMBDA i, t : t + F(ms[i]), 0, DOMAIN ms)
  IN IF Det(n) # 0
     THEN [x |-> n.vv * n.ub - n.uv * n.vb, y |-> n.uu * n.vb - n.uv * n.ub, over |-> Det(n)]
     ELSE [x |-> Total(LAMBDA m : m.x), y |-> Total(LAMBDA m : m.y), over |-> Len(ms)]

\* anchor_spread(): twice the largest triangle of three anchors.
Spread(ms) ==
  LET Twice(i, j, k) == Size((ms[j].x - ms[i].x) * (ms[k].y - ms[i].y)
                             - (ms[j].y - ms[i].y) * (ms[k].x - ms[i].x))
  IN Max({0} \cup {Twice(i, j, k) : i, j, k \in DOMAIN ms})

\* The early returns of pos_solve(); a number that is not finite fails them too.
Solvable(ms) == Len(ms) \in 3..MaxAnchors /\ Spread(ms) >= MinSpread

\* The search for the anchor whose removal explains the residuals: worst is the
\* largest residual of the full fit, without[i] that of the fit without anchor i,
\* Failed when that one does not converge.
Failed == -1
NoDrop == 0
Dropped(worst, without) ==
  LET better == {i \in DOMAIN without :
                   without[i] # Failed /\ without[i] < MaxResidual}
  IN IF Len(without) < MaxAnchors \/ worst <= MaxResidual \/ better = {} THEN NoDrop
     ELSE CHOOSE i \in better :
            \A j \in better : \/ without[i] < without[j]
                              \/ without[i] = without[j] /\ i <= j

\* n_used
Used(worst, without) ==
  IF Dropped(worst, without) = NoDrop THEN Len(without) ELSE Len(without) - 1
=============================================================================
