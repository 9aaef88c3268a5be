----------------------------- MODULE Rationals -----------------------------
(***************************************************************************)
(* Exact rational arithmetic.  The post-processing scripts compute means   *)
(* and variances in IEEE doubles; the models compute them exactly, which   *)
(* abstracts rounding (the spec tolerates rounding differences) but keeps  *)
(* every division the code performs.  A rational is a pair <<num, den>>    *)
(* with den > 0, kept in lowest terms so that = is equality of values.     *)
(***************************************************************************)
EXTENDS Integers

RECURSIVE GCD(_, _)
GCD(a, b) == IF b = 0 THEN a ELSE GCD(b, a % b)

AbsInt(a) == IF a < 0 THEN -a ELSE a

\* The rational num / den in lowest terms (den # 0).
Q(num, den) ==
  LET g == GCD(AbsInt(num), AbsInt(den))
      s == IF den < 0 THEN -1 ELSE 1
  IN  <<s * (num \div g), s * (den \div g)>>

Int2Q(n) == <<n, 1>>

QAdd(p, q) == Q(p[1] * q[2] + q[1] * p[2], p[2] * q[2])
QSub(p, q) == Q(p[1] * q[2] - q[1] * p[2], p[2] * q[2])
QMul(p, q) == Q(p[1] * q[1], p[2] * q[2])
QDiv(p, q) == Q(p[1] * q[2], p[2] * q[1])
QLeq(p, q) == p[1] * q[2] <= q[1] * p[2]
QLt(p, q)  == p[1] * q[2] < q[1] * p[2]
QSquare(p) == QMul(p, p)

\* Scaling by an integer count, the form every use in the scripts takes.
QScale(n, p) == Q(n * p[1], p[2])
=============================================================================
