----------------------------- MODULE Exposition -----------------------------
(***************************************************************************)
(* What the render functions of the three collectors share: a textfile as  *)
(* the set of its series, the freshness stamp and the DRBD section.        *)
(***************************************************************************)
EXTENDS Integers

Metric(name, labels, value) == [name |-> name, labels |-> labels, value |-> value]

\* {**a, **b}, for label sets that do not meet.
a ++ b == [label \in DOMAIN a \cup DOMAIN b |-> IF label \in DOMAIN a THEN a[label] ELSE b[label]]

\* A series under the group Prometheus scrapes its host in.
InGroup(groups, s) ==
  Metric(s.name, [label \in {"groups"} \cup DOMAIN s.labels |->
                    IF label = "groups" THEN groups ELSE s.labels[label]], s.value)

Flag(condition) == IF condition THEN 1 ELSE 0

\* The source gave a reading this run.  The time of writing is left out: see
\* Collector.
Fresh(node, source) ==
  Metric("cluster_state_last_write_timestamp", [node |-> node, source |-> source], 1)

\* The DRBD section: drbd maps a resource to its parsed entry.
RenderDrbd(node, drbd) ==
  UNION {LET base == [node |-> node, resource |-> res] IN
         {Metric("cluster_drbd_role", [node |-> node, resource |-> res, role |-> drbd[res].role], 1),
          Metric("cluster_drbd_disk", [node |-> node, resource |-> res, disk |-> drbd[res].disk], 1),
          Metric("cluster_drbd_conn", [node |-> node, resource |-> res, conn |-> drbd[res].conn], 1),
          Metric("cluster_drbd_resync_pct", base, drbd[res].resync_pct),
          Metric("cluster_drbd_out_of_sync_bytes", base, drbd[res].out_of_sync_bytes)}
         : res \in DOMAIN drbd}

\* A file's series of one metric, and whether a source stamped the file.
Rows(series, name) == {s \in series : s.name = name}
Stamped(series, node, source) == Fresh(node, source) \in series
=============================================================================
