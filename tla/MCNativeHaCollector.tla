------------------------- MODULE MCNativeHaCollector -------------------------
\* Collector with the sources, order and timeouts of the Native HA arm.  Its
\* parsers accept any text; probe()'s decoding of what is not UTF-8 raises.
EXTENDS Collector, CollectorArms

McSources == ToSet(NativeHaOrder)
McRaising == McSources
McBudget == BudgetOf(NativeHaOrder, NativeHaTimeout)
=============================================================================
