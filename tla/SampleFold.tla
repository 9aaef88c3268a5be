----------------------------- MODULE SampleFold -----------------------------
(***************************************************************************)
(* The fold loop of combine_sample_list (Experiment5/extract_data.py),     *)
(* one iteration per step, over every non-empty list of sample statistics  *)
(* drawn from a small domain.  The emission loops of the extract scripts   *)
(* run the same loop, so what holds here holds for every written row.      *)
(***************************************************************************)
EXTENDS Integers, Sequences, CombineSamples

LOCAL Seqs == INSTANCE SequencesExt

CONSTANTS
  Avgs,     \* means a sample may have (delays and sequence-number deltas: >= 0)
  Stddevs,  \* standard deviations a sample may have
  Cnts,     \* observation counts a sample may have, 0 and 1 included
  MaxLen    \* longest list folded

ASSUME Avgs \subseteq Nat /\ Stddevs \subseteq Nat /\ Cnts \subseteq Nat
ASSUME MaxLen \in Nat \ {0}

VARIABLES
  data,  \* the list (avgs, stddevs, counts) being folded
  i,     \* the loop index of "for i in range(1, len(avgs))", 1-based
  acc    \* (avg, stddev, count), the accumulator

vars == <<data, i, acc>>

SampleDomain ==
  {Stat(Int2Q(a), Int2Q(sd * sd), c) : a \in Avgs, sd \in Stddevs, c \in Cnts}

\* Mutant: the loop runs over range(2, len(avgs)), skipping avgs[1].
Init_skips_second ==
  /\ data \in UNION {[1..k -> SampleDomain] : k \in 1..MaxLen}
  /\ acc = data[1]
  /\ i = 3

\* avg = avgs[0]; stddev = stddevs[0]; count = counts[0]
Init ==
  /\ data \in UNION {[1..k -> SampleDomain] : k \in 1..MaxLen}
  /\ acc = data[1]
  /\ i = 2

\* avg, stddev, count = combine_samples(avg, stddev, count, avgs[i], ...)
FoldStep ==
  /\ i <= Len(data)
  /\ acc' = combine_samples(acc, data[i])
  /\ i' = i + 1
  /\ UNCHANGED data

Next == FoldStep

Spec == Init /\ [][Next]_vars /\ WF_vars(FoldStep)

Prefix == SubSeq(data, 1, i - 1)

-----------------------------------------------------------------------------
TypeOK ==
  /\ data \in Seq(SampleDomain)
  /\ i \in 2..(Len(data) + 1)
  /\ acc.cnt \in Nat

(***************************************************************************)
(* Once at least one merge has happened, the accumulator's count is the    *)
(* sum of the counts of the samples with count > 1 merged so far, and its  *)
(* mean is their count-weighted mean (spec 3: the aggregate count is the   *)
(* sum over the non-degenerate samples).  combine_samples' degenerate      *)
(* branches must drop exactly the samples with count <= 1, wherever they   *)
(* sit in the list, and never let their means into the average.           *)
(***************************************************************************)
FoldIsPooledCountAndMean ==
  i > 2 => /\ acc.cnt = PooledCount(Prefix)
           /\ acc.avg = PooledMean(Prefix)

(***************************************************************************)
(* The merged variance is never below the unbiased variance of all the     *)
(* observations behind the non-degenerate samples merged so far: with      *)
(* non-negative means the (avg1 + avg2)^2 cross term of combine_samples    *)
(* can only overstate the spread, so confidence intervals computed from    *)
(* the written stddev are conservative, never too narrow.                  *)
(***************************************************************************)
FoldVarianceNeverBelowPooled ==
  (i > 2 /\ acc.cnt > 1) => QLeq(PooledVariance(Prefix), acc.var)

(***************************************************************************)
(* Spec 8: folding [A, B, C] left to right gives the same count and, up to *)
(* rounding, the same mean and stddev as folding [C, B, A], for lists of   *)
(* non-degenerate samples.  File discovery order is filesystem-dependent,  *)
(* so this is what makes a written row independent of it.                  *)
(***************************************************************************)
FoldOrderIndependent ==
  (i > Len(data) /\ \A j \in 1..Len(data) : data[j].cnt > 1)
    => acc = combine_sample_list(Seqs!Reverse(data))
=============================================================================
