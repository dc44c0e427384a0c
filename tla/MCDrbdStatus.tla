---------------------------- MODULE MCDrbdStatus ----------------------------
\* DrbdStatus for the two resources of an RDQM queue manager (HA and DR).
EXTENDS DrbdStatus

McNames == <<"qmrdqm", "qmrdqm.dr">>
=============================================================================
