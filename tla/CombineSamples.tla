--------------------------- MODULE CombineSamples ---------------------------
(***************************************************************************)
(* The Statistic Merger: combine_samples, the binary merge of two sample   *)
(* statistics, and the reference definitions its results are judged by.   *)
(* The same combine_samples body is repeated verbatim in the four          *)
(* extract_data.py / proc_res.py scripts; the map names Experiment5's copy.*)
(*                                                                         *)
(* A statistic (avg, stddev, count) is the record [avg, var, cnt] where    *)
(* var is stddev squared: the code only ever uses np.power(stddev, 2) and  *)
(* returns np.sqrt(new_var), so keeping the square loses nothing and keeps *)
(* the arithmetic exact (see Rationals).                                   *)
(***************************************************************************)
EXTENDS Integers, Sequences, Rationals

\* A sample statistic with rational mean and variance.
Stat(avg, var, cnt) == [avg |-> avg, var |-> var, cnt |-> cnt]

\* The (0, 0, 0) tuple the degenerate branches return.
ZeroStat == Stat(Int2Q(0), Int2Q(0), 0)

\* new_avg = ((count1 * avg1) + (count2 * avg2)) / (count1 + count2)
new_avg(s1, s2) ==
  QDiv(QAdd(QScale(s1.cnt, s1.avg), QScale(s2.cnt, s2.avg)), Int2Q(s1.cnt + s2.cnt))

\* Mutant: the pooled term divided by (count1 + count2) instead of
\* (count1 + count2 - 1), the biased estimator.
new_var_biased_pool(s1, s2) ==
  LET n == s1.cnt + s2.cnt
  IN  QAdd(QDiv(QAdd(QScale(s1.cnt - 1, s1.var), QScale(s2.cnt - 1, s2.var)), Int2Q(n)),
           QDiv(QScale(s1.cnt * s2.cnt, QSquare(QAdd(s1.avg, s2.avg))), Int2Q(n * (n - 1))))

(***************************************************************************)
(* new_var: the pooled term plus the cross term, which uses               *)
(* np.power(avg1 + avg2, 2) exactly as the code does (the textbook         *)
(* identity has avg1 - avg2).                                              *)
(***************************************************************************)
new_var(s1, s2) ==
  LET n == s1.cnt + s2.cnt
  IN  QAdd(QDiv(QAdd(QScale(s1.cnt - 1, s1.var), QScale(s2.cnt - 1, s2.var)), Int2Q(n - 1)),
           QDiv(QScale(s1.cnt * s2.cnt, QSquare(QAdd(s1.avg, s2.avg))), Int2Q(n * (n - 1))))

\* Mutant: "if count1 < 1" for "if count1 <= 1", so a one-observation
\* accumulator is merged with its mean weighted in.
Merge_guard_off_by_one(s1, s2, keepVar) ==
  IF s1.cnt < 1
  THEN IF s2.cnt > 1 THEN s2 ELSE ZeroStat
  ELSE IF s2.cnt <= 1
  THEN IF s1.cnt > 1 THEN s1 ELSE ZeroStat
  ELSE Stat(new_avg(s1, s2), IF keepVar THEN new_var(s1, s2) ELSE Int2Q(0), s1.cnt + s2.cnt)

(***************************************************************************)
(* The control of combine_samples(avg1, stddev1, count1, avg2, stddev2,    *)
(* count2): the degenerate branches, then the merge.  keepVar = FALSE      *)
(* leaves the variance at 0 (see combine_means).                           *)
(***************************************************************************)
Merge(s1, s2, keepVar) ==
  IF s1.cnt <= 1
  THEN IF s2.cnt > 1 THEN s2 ELSE ZeroStat
  ELSE IF s2.cnt <= 1
  THEN IF s1.cnt > 1 THEN s1 ELSE ZeroStat
  ELSE Stat(new_avg(s1, s2), IF keepVar THEN new_var(s1, s2) ELSE Int2Q(0), s1.cnt + s2.cnt)

combine_samples(s1, s2) == Merge(s1, s2, TRUE)

(***************************************************************************)
(* combine_samples with the variance left out (kept at 0), for the models  *)
(* whose properties are about counts and means only: exact variances over  *)
(* long folds outgrow TLC's integers.  Same control, same mean and count.  *)
(***************************************************************************)
combine_means(s1, s2) == Merge(s1, s2, FALSE)

(***************************************************************************)
(* combine_sample_list over a non-empty sequence: the first element is the *)
(* accumulator, the rest are merged into it left to right.  The emission   *)
(* loops of every script ("avg, std, cnt = data[0]; for ... in data[1:]")  *)
(* compute the same fold.                                                  *)
(***************************************************************************)
FoldList(seq, keepVar) ==
  LET acc[j \in 1..Len(seq)] ==
        IF j = 1 THEN seq[1] ELSE Merge(acc[j - 1], seq[j], keepVar)
  IN  acc[Len(seq)]

combine_sample_list(seq) == FoldList(seq, TRUE)

combine_mean_list(seq) == FoldList(seq, FALSE)

-----------------------------------------------------------------------------
(***************************************************************************)
(* Reference definitions: what a merge of samples should give, computed    *)
(* directly from the multiset of samples with count > 1 (the spec's        *)
(* "non-degenerate" samples), independent of the order of the fold.        *)
(***************************************************************************)
NonDegenerate(seq) == SelectSeq(seq, LAMBDA s : s.cnt > 1)

RECURSIVE SumOver(_, _)
SumOver(F(_), seq) == IF seq = <<>> THEN Int2Q(0) ELSE QAdd(F(Head(seq)), SumOver(F, Tail(seq)))

PooledCount(seq) ==
  LET RECURSIVE C(_)
      C(s) == IF s = <<>> THEN 0 ELSE Head(s).cnt + C(Tail(s))
  IN  C(NonDegenerate(seq))

\* Count-weighted mean of the non-degenerate samples, 0 when there are none.
PooledMean(seq) ==
  IF PooledCount(seq) = 0 THEN Int2Q(0)
  ELSE QDiv(SumOver(LAMBDA s : QScale(s.cnt, s.avg), NonDegenerate(seq)),
            Int2Q(PooledCount(seq)))

\* Unbiased variance of all observations behind the non-degenerate samples.
PooledVariance(seq) ==
  LET nd == NonDegenerate(seq)
      m  == PooledMean(seq)
      ss == QAdd(SumOver(LAMBDA s : QScale(s.cnt - 1, s.var), nd),
                 SumOver(LAMBDA s : QScale(s.cnt, QSquare(QSub(s.avg, m))), nd))
  IN  QDiv(ss, Int2Q(PooledCount(seq) - 1))
=============================================================================
