------------------------------- MODULE Contract -------------------------------
(***************************************************************************)
(* contract.py: the metric families each collector may emit, with the      *)
(* complete set of labels every one of their series carries.  The families *)
(* shared by several collectors are declared once for each of them.        *)
(***************************************************************************)

\* A declaration is a name with its labels.
Family(names, labels) == names \X {labels}

NATIVEHA ==
  Family({"cluster_quorate", "cluster_nha_quorum"}, {"node"}) \cup
  Family({"cluster_node_online", "cluster_nha_role_code", "cluster_nha_insync",
          "cluster_nha_hastatus_ok"}, {"node", "member"}) \cup
  Family({"cluster_nha_role"}, {"node", "member", "role"}) \cup
  Family({"cluster_nha_hastatus"}, {"node", "member", "status"}) \cup
  Family({"cluster_resource_owner"}, {"node", "resource", "holder"}) \cup
  Family({"cluster_nha_group_role"}, {"node", "group", "role"}) \cup
  Family({"cluster_nha_group_status"}, {"node", "group", "status"}) \cup
  Family({"cluster_nha_connected", "cluster_nha_group_insync", "cluster_nha_group_backlog"},
         {"node", "group"}) \cup
  Family({"cluster_state_last_write_timestamp"}, {"node", "source"})

\* What the Pacemaker and the RDQM collector declare of the shared DRBD parser.
Drbd ==
  Family({"cluster_drbd_role"}, {"node", "resource", "role"}) \cup
  Family({"cluster_drbd_disk"}, {"node", "resource", "disk"}) \cup
  Family({"cluster_drbd_conn"}, {"node", "resource", "conn"}) \cup
  Family({"cluster_drbd_resync_pct", "cluster_drbd_out_of_sync_bytes"}, {"node", "resource"})

PACEMAKER ==
  Family({"cluster_quorate", "cluster_iscsi_sessions"}, {"node"}) \cup
  Family({"cluster_node_online", "cluster_node_unclean", "cluster_fence_count"},
         {"node", "member"}) \cup
  Family({"cluster_resource_started"}, {"node", "resource"}) \cup
  Family({"cluster_resource_owner"}, {"node", "resource", "holder"}) \cup
  Family({"cluster_daemon_up"}, {"node", "unit"}) \cup
  Drbd \cup
  Family({"cluster_state_last_write_timestamp"}, {"node", "source"})

RdqmHa ==
  Family({"cluster_quorate", "cluster_rdqm_ha_status_ok"}, {"node"}) \cup
  Family({"cluster_rdqm_ha_status"}, {"node", "status"}) \cup
  Family({"cluster_rdqm_role"}, {"node", "member", "role"}) \cup
  Family({"cluster_rdqm_role_code", "cluster_rdqm_qm_running", "cluster_node_online"},
         {"node", "member"}) \cup
  Family({"cluster_rdqm_member_status"}, {"node", "member", "status"}) \cup
  Family({"cluster_rdqm_floating_ip"}, {"node", "ip", "interface"}) \cup
  Family({"cluster_rdqm_location"}, {"node", "kind", "holder"}) \cup
  Family({"cluster_resource_owner"}, {"node", "resource", "holder"})

RdqmDr ==
  Family({"cluster_rdqm_dr_role"}, {"node", "role"}) \cup
  Family({"cluster_rdqm_dr_role_code", "cluster_rdqm_dr_status_ok"}, {"node"}) \cup
  Family({"cluster_rdqm_dr_status"}, {"node", "status"})

RdqmPacemaker ==
  Family({"cluster_rdqm_pm_online", "cluster_rdqm_failcount", "cluster_rdqm_qm_startable",
          "cluster_rdqm_node_ready"}, {"node", "member"}) \cup
  Family({"cluster_rdqm_pm_state"}, {"node", "member", "resource"}) \cup
  Family({"cluster_state_last_write_timestamp"}, {"node", "source"})

RDQM == RdqmHa \cup RdqmDr \cup Drbd \cup RdqmPacemaker

\* A series that a collector may emit: by_collector declares its name, and
\* labels_of exactly the labels it has.
Emits(collector, s) == <<s.name, DOMAIN s.labels>> \in collector
=============================================================================
