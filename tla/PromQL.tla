------------------------------- MODULE PromQL -------------------------------
(***************************************************************************)
(* The part of PromQL the boards under dashboards/boards/ are written in:  *)
(* instant vectors and the operators of their expressions.  Prometheus is  *)
(* not in the repository; these are the semantics its queries rely on.     *)
(*                                                                         *)
(* A series is [name, labels, value], a vector a set of [labels, value]    *)
(* without two elements of the same labels, and labels a function from     *)
(* label names to values.  An aggregation of nothing is nothing.           *)
(***************************************************************************)
EXTENDS Integers, FiniteSets, FiniteSetsExt, Functions

NoLabels == [label \in {} |-> ""]

Sample(labels, value) == [labels |-> labels, value |-> value]

\* name{}: the samples of a metric.
Samples(db, name) == {Sample(s.labels, s.value) : s \in {t \in db : t.name = name}}

\* {label=~"a|b"}: those of them whose label has one of the values.
Where(vec, label, values) ==
  {x \in vec : label \in DOMAIN x.labels /\ x.labels[label] \in values}

\* vector(c)
Scalar(c) == {Sample(NoLabels, c)}

\* op by (labels)(vec), where Op maps a set of samples to a number.
By(vec, labels, Op(_)) ==
  LET key(x) == Restrict(x.labels, labels \cap DOMAIN x.labels)
  IN {Sample(k, Op({x \in vec : key(x) = k})) : k \in {key(x) : x \in vec}}

Values(samples) == {x.value : x \in samples}
CountOf(samples) == Cardinality(samples)
SumOf(samples) == MapThenSumSet(LAMBDA x : x.value, samples)
MinOf(samples) == Min(Values(samples))
MaxOf(samples) == Max(Values(samples))

\* vec == bool c, vec > bool c: 1 or 0 for every sample.
EqualsBool(vec, c) == {Sample(x.labels, IF x.value = c THEN 1 ELSE 0) : x \in vec}
AboveBool(vec, c) == {Sample(x.labels, IF x.value > c THEN 1 ELSE 0) : x \in vec}

\* vec == c, vec > c: the samples that compare so.
Equals(vec, c) == {x \in vec : x.value = c}
Above(vec, c) == {x \in vec : x.value > c}

\* a + b pairs the samples that have the same labels and drops the others.
Plus(a, b) ==
  UNION {{Sample(x.labels, x.value + y.value) : y \in {z \in b : z.labels = x.labels}} : x \in a}

\* a - b and a * b, likewise.
Minus(a, b) ==
  UNION {{Sample(x.labels, x.value - y.value) : y \in {z \in b : z.labels = x.labels}} : x \in a}
Times(a, b) ==
  UNION {{Sample(x.labels, x.value * y.value) : y \in {z \in b : z.labels = x.labels}} : x \in a}

\* a or b: a, and what b has under labels a does not have.
Or(a, b) == a \cup {y \in b : \A x \in a : x.labels # y.labels}

\* a and on() b
AndOn(a, b) == IF b = {} THEN {} ELSE a

\* absent(vec): 1 under the labels its selector fixes, if vec is empty.
Absent(vec, fixed) == IF vec = {} THEN {Sample(fixed, 1)} ELSE {}
=============================================================================
