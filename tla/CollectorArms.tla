--------------------------- MODULE CollectorArms --------------------------
(***************************************************************************)
(* The three collectors as instances of Collector: which sources each one  *)
(* probes, in which order, under which timeouts, and which of its parsers  *)
(* can raise (crm_mon's XML: ElementTree.ParseError; drbdsetup's numbers:  *)
(* ValueError; the others accept any text).                                *)
(***************************************************************************)
EXTENDS Naturals, Sequences, SequencesExt

NativeHaOrder == <<"nativeha_x", "nativeha_g">>
NativeHaTimeout == [s \in ToSet(NativeHaOrder) |-> 3]

RdqmOrder == <<"rdqmstatus", "drbd", "crm">>
RdqmTimeout == [s \in ToSet(RdqmOrder) |-> IF s = "drbd" THEN 2 ELSE 3]

ClusterOrder == <<"crm", "stonith", "iscsi", "drbd", "daemons">>
ClusterTimeout == [s \in ToSet(ClusterOrder) |-> IF s = "crm" THEN 3 ELSE 2]

RaisingParsers == {"crm", "drbd"}

\* The time the first j probes of an arm may take together.
BudgetOf(order, timeout) ==
  [j \in 0 .. Len(order) |-> FoldLeft(LAMBDA sum, s : sum + timeout[s], 0, SubSeq(order, 1, j))]

\* A run of every arm may outlast the five-second tick it is started on.
ASSUME RunsOutlastTheirTick ==
  /\ BudgetOf(NativeHaOrder, NativeHaTimeout)[2] = 6
  /\ BudgetOf(RdqmOrder, RdqmTimeout)[3] = 8
  /\ BudgetOf(ClusterOrder, ClusterTimeout)[5] = 11
=============================================================================
