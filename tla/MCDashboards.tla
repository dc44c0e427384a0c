---------------------------- MODULE MCDashboards ----------------------------
\* Two stacks with one service queue manager.
EXTENDS Dashboards

McStacks == {[short |-> "S1", svc_short |-> "SVC"], [short |-> "S2", svc_short |-> "SVC"]}
McQueues == <<"APP.REPLY", "SVCQM">>
McChannels == <<"APP.SVRCONN", "S1APP.SVCQM", "SVCQM.S1APP">>
=============================================================================
