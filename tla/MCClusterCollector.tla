------------------------- MODULE MCClusterCollector -------------------------
\* Collector with the sources, order and timeouts of the Cluster arm.
EXTENDS Collector, CollectorArms

McSources == ToSet(ClusterOrder)
McRaising == RaisingParsers \cap McSources
McBudget == BudgetOf(ClusterOrder, ClusterTimeout)
=============================================================================
