-------------------------------- MODULE Rdqm --------------------------------
(***************************************************************************)
(* RDQM watched from end to end: what rdqmstatus, drbdsetup and crm_mon    *)
(* report on each node, what collectors/rdqm.py parses and renders of it,  *)
(* and what the RDQM board makes of the union of the nodes' textfiles.     *)
(* Two sites form a DR pair.  Each is an HA group with a primary of its    *)
(* own; the queue manager runs on the primary of a site that has the DR    *)
(* primary role, unless Pacemaker has banned it there.  A cutover, or a    *)
(* disaster that is taken for one, changes the sites' DR roles.            *)
(***************************************************************************)
EXTENDS Integers, Sequences, FiniteSets, SequencesExt, Primitives, Exposition, Contract

CONSTANTS Nodes,      \* the nodes of both sites
          SiteA,      \* those of site A
          Bases,      \* names rdqmadm may have given the volumes and resources
          None,       \* a field that is not in a report
          MaxEvents   \* bound: changes of the clusters and failed probes

Sites == {"rdqm_a", "rdqm_b"}

ASSUME RdqmAssumption ==
  /\ IsFiniteSet(Nodes)
  /\ SiteA \subseteq Nodes /\ SiteA # {} /\ SiteA # Nodes
  /\ Bases # {}
  /\ MaxEvents \in Nat

\* A field that is not there is none of those that are.
ASSUME FieldAssumption ==
  /\ {None, "This node"} \cap Nodes = {}
  /\ None \notin {"This node", "Primary", "Secondary", "Normal", "Partitioned", "Disconnected", "See",
                  "Started", "Promoted", "Unpromoted"}
  /\ None \notin {"floating_ip", "floating_ip_interface"} \X Sites

VARIABLES base,     \* the name of this queue manager's volumes and resources
          up,       \* the nodes that run
          primary,  \* each site's HA primary
          preferred,\* the node each site's operator prefers
          live,     \* the sites with the DR primary role
          linked,   \* is there a network between the sites?
          banned,   \* where Pacemaker has given up on the queue manager
          storage,  \* what ails each site's replicated volume
          events,   \* changes and failed probes so far
          file      \* each node's textfile: a set of series

rdqmVars == <<base, up, primary, preferred, live, linked, banned, storage>>
vars == <<base, up, primary, preferred, live, linked, banned, storage, events, file>>

SiteOf(n) == IF n \in SiteA THEN "rdqm_a" ELSE "rdqm_b"
Members(s) == {n \in Nodes : SiteOf(n) = s}
Left(s) == Members(s) \cap up

---------------------------------------------------------------------------
(* The tools, outside the repository.                                      *)

Running(n) == /\ n \in up \ banned
              /\ primary[SiteOf(n)] = n
              /\ SiteOf(n) \in live

Reachable == linked /\ \A s \in Sites : Left(s) # {}
Diverged == Reachable /\ live = Sites

DrStatus == IF Diverged THEN "Partitioned" ELSE IF Reachable THEN "Normal" ELSE "Disconnected"

\* rdqmstatus: the local block; only a site's primary has the floating IP
\* and the real DR status.
LocalBlock(n) ==
  LET s == SiteOf(n)
      place(m) == IF m = n THEN "This node" ELSE m
  IN [node |-> n,
      qm_status |-> IF Running(n) THEN "Running" ELSE "Ended",
      ha_role |-> IF primary[s] = n THEN "Primary" ELSE "Secondary",
      ha_status |-> IF Members(s) \subseteq up THEN "Normal" ELSE "Degraded",
      ha_current_location |-> place(primary[s]),
      dr_role |-> IF s \in live THEN "Primary" ELSE "Secondary",
      dr_status |-> IF primary[s] = n THEN DrStatus ELSE "See"]
     ++ [field \in {f \in {"floating_ip", "floating_ip_interface"} : primary[s] = n} |-> <<field, s>>]
     ++ [field \in {f \in {"ha_preferred_location"} : preferred[s] # None} |-> place(preferred[s])]

PeerBlock(m) == [node |-> m, ha_status |-> IF m \in up THEN "Normal" ELSE "Not available"]

StatusReport(n) ==
  <<LocalBlock(n)>> \o SetToSeq({PeerBlock(m) : m \in Members(SiteOf(n)) \ {n}})

\* drbdsetup: the HA volume on every node, the DR volume on the primary.
DrbdReport(n) ==
  LET s == SiteOf(n) IN
  [res \in {<<"ha", base>>} |->
     [role |-> IF primary[s] = n \/ storage[s] = "dual" THEN "Primary" ELSE "Secondary",
      disk |-> IF storage[s] = "Diskless" /\ primary[s] = n THEN "Diskless" ELSE "UpToDate",
      conn |-> IF storage[s] = "StandAlone" THEN "StandAlone" ELSE "Connected",
      resync_pct |-> 100,
      out_of_sync_bytes |-> IF storage[s] = "StandAlone" /\ primary[s] = n THEN 4096 ELSE 0]]
  ++
  [res \in {r \in {<<"dr", base>>} : primary[s] = n} |->
     [role |-> IF s \in live THEN "Primary" ELSE "Secondary",
      disk |-> "UpToDate",
      conn |-> IF Diverged THEN "StandAlone" ELSE IF Reachable THEN "Connected" ELSE "Connecting",
      resync_pct |-> 100,
      out_of_sync_bytes |-> IF s \in live /\ (Diverged \/ ~Reachable) THEN 8192 ELSE 0]]

\* Pacemaker's INFINITY.
INFINITY == 1000000

\* crm_mon: the site's nodes, the placed instances of the queue manager's
\* resources, and the fail-counts a node that is online has a history of.
CrmReport(n) ==
  LET s == SiteOf(n) IN
  [nodes |-> Members(s),
   online |-> Left(s),
   resources |->
     {[id |-> <<kind, base>>, node |-> primary[s], role |-> "Started"] :
        kind \in {k \in {"qm", "ip"} : Running(primary[s])}} \cup
     {[id |-> <<"drbd", base>>, node |-> m,
       role |-> IF m = primary[s] THEN "Promoted" ELSE "Unpromoted"] : m \in Left(s)} \cup
     {[id |-> <<"dr", base>>, node |-> m,
       role |-> IF s \in live THEN "Promoted" ELSE "Unpromoted"] : m \in Left(s) \cap {primary[s]}},
   history |-> {[node |-> m, id |-> <<"qm", base>>, failcount |-> INFINITY] : m \in Left(s) \cap banned}]
---------------------------------------------------------------------------
(* collectors/rdqm.py: parse and render.                                   *)

Get(block, field, default) == IF field \in DOMAIN block THEN block[field] ELSE default

\* parse_rdqmstatus: the first block is the local node's, every block is a
\* member's.
ParseStatus(report) ==
  [qm_status |-> Get(report[1], "qm_status", None),
   ha_role |-> Get(report[1], "ha_role", None),
   ha_status |-> Get(report[1], "ha_status", "Unknown"),
   ha_current_location |-> Get(report[1], "ha_current_location", None),
   ha_preferred_location |-> Get(report[1], "ha_preferred_location", None),
   floating_ip |-> Get(report[1], "floating_ip", None),
   floating_ip_interface |-> Get(report[1], "floating_ip_interface", None),
   dr_role |-> Get(report[1], "dr_role", None),
   dr_status |-> Get(report[1], "dr_status", None),
   members |-> {[node |-> report[i].node, ha_status |-> Get(report[i], "ha_status", "Unknown")]
                : i \in DOMAIN report}]

\* Fault variant: the threshold is never met.
StartableAnyhow(failcount) == failcount <= INFINITY

Startable(failcount) == failcount < INFINITY

\* _PM_RESOURCES, and the id parse_crm looks for: fixed names.
PmQm == <<"qm", "qmrdqm">>
PmResources == {<<kind, "qmrdqm">> : kind \in {"qm", "drbd", "dr", "ip"}}
PmCode(role) == CASE role \in {"Started", "Promoted"} -> 2 [] role = "Unpromoted" -> 1 [] OTHER -> 0

\* Fault variant: any node's history of the queue manager counts.
FailCountAnywhere(crm, member) ==
  LET counts == {h.failcount : h \in {k \in crm.history : k.id = PmQm}}
  IN IF counts = {} THEN 0 ELSE CHOOSE c \in counts : TRUE

\* parse_crm and the render's defaults: no history is no failure.
FailCount(crm, member) ==
  LET counts == {h.failcount : h \in {k \in crm.history : k.node = member /\ k.id = PmQm}}
  IN IF counts = {} THEN 0 ELSE CHOOSE c \in counts : TRUE

PmRole(crm, id, member) ==
  LET held == {r.role : r \in {q \in crm.resources : q.id = id /\ q.node = member}}
  IN IF held = {} THEN None ELSE CHOOSE role \in held : TRUE

Present(name, labels, value) == {Metric(name, labels, 1) : v \in {value} \ {None}}

\* Fault variant: the interface is not exported.
FloatingIpBare(node, st) == [node |-> node, ip |-> st.floating_ip]

FloatingIp(node, st) ==
  [node |-> node, ip |-> st.floating_ip, interface |-> st.floating_ip_interface]

Located(node, kind, location) ==
  Present("cluster_rdqm_location",
          [node |-> node, kind |-> kind, holder |-> IF location = "This node" THEN node ELSE location],
          location)

Owns(node, qm, location) ==
  Present("cluster_resource_owner",
          [node |-> node, resource |-> qm, holder |-> IF location = "This node" THEN node ELSE location],
          location)

\* Fault variant: whoever is configured for them owns the queue manager and
\* serves the floating IP.
RenderOwnerUngated(node, qm, st, running) ==
  Present("cluster_rdqm_floating_ip", FloatingIp(node, st), st.floating_ip)
  \cup Owns(node, qm, st.ha_current_location)
  \cup Located(node, "current", st.ha_current_location)
  \cup Located(node, "preferred", st.ha_preferred_location)

\* Ownership and the floating IP belong to the node that runs the queue
\* manager (#287); the locations are published in any case.
RenderOwner(node, qm, st, running) ==
  (IF running THEN Present("cluster_rdqm_floating_ip", FloatingIp(node, st), st.floating_ip)
                   \cup Owns(node, qm, st.ha_current_location) ELSE {})
  \cup Located(node, "current", st.ha_current_location)
  \cup Located(node, "preferred", st.ha_preferred_location)

\* Fault variant: the pointer to the primary is taken for a status.
RenderDrFollowing(node, st) ==
  Present("cluster_rdqm_dr_role", [node |-> node, role |-> st.dr_role], st.dr_role) \cup
  {Metric("cluster_rdqm_dr_role_code", [node |-> node], IF r = "Primary" THEN 2 ELSE 3)
   : r \in {st.dr_role} \ {None}} \cup
  UNION {{Metric("cluster_rdqm_dr_status", [node |-> node, status |-> d], 1),
          Metric("cluster_rdqm_dr_status_ok", [node |-> node], Flag(d = "Normal"))}
         : d \in {st.dr_status} \ {None}}

\* A pointer to the primary is not a status (#287).
RenderDr(node, st) ==
  Present("cluster_rdqm_dr_role", [node |-> node, role |-> st.dr_role], st.dr_role) \cup
  {Metric("cluster_rdqm_dr_role_code", [node |-> node], IF r = "Primary" THEN 2 ELSE 3)
   : r \in {st.dr_role} \ {None}} \cup
  UNION {{Metric("cluster_rdqm_dr_status", [node |-> node, status |-> d], 1),
          Metric("cluster_rdqm_dr_status_ok", [node |-> node], Flag(d = "Normal"))}
         : d \in {st.dr_status} \ {None, "See"}}

RenderHa(node, st, running) ==
  LET ok == Flag(st.ha_status = "Normal")
      member == [node |-> node, member |-> node]
      code == CASE st.ha_role = "Primary" -> 2 [] st.ha_role = "Secondary" -> 1 [] OTHER -> 0
  IN {Metric("cluster_quorate", [node |-> node], ok),
      Metric("cluster_rdqm_ha_status_ok", [node |-> node], ok),
      Metric("cluster_rdqm_ha_status", [node |-> node, status |-> st.ha_status], 1),
      Metric("cluster_rdqm_role_code", member, code),
      Metric("cluster_rdqm_qm_running", member, Flag(running))}
     \cup Present("cluster_rdqm_role", [node |-> node, member |-> node, role |-> st.ha_role], st.ha_role)
     \cup {Metric("cluster_node_online", [node |-> node, member |-> m.node],
                  Flag(m.ha_status = "Normal")) : m \in st.members}
     \cup {Metric("cluster_rdqm_member_status",
                  [node |-> node, member |-> m.node, status |-> m.ha_status], 1) : m \in st.members}

RenderStatus(node, qm, st) ==
  LET running == st.qm_status = "Running" IN
  RenderHa(node, st, running) \cup RenderOwner(node, qm, st, running) \cup RenderDr(node, st)

\* A member is ready if it is online and can start the queue manager.
RenderCrmMember(node, member, crm) ==
  LET labels == [node |-> node, member |-> member]
      fc == FailCount(crm, member)
  IN {Metric("cluster_rdqm_pm_online", labels, Flag(member \in crm.online)),
      Metric("cluster_rdqm_failcount", labels, fc),
      Metric("cluster_rdqm_qm_startable", labels, Flag(Startable(fc))),
      Metric("cluster_rdqm_node_ready", labels, Flag(member \in crm.online /\ Startable(fc)))}
     \cup {Metric("cluster_rdqm_pm_state", [node |-> node, member |-> member, resource |-> id], PmCode(PmRole(crm, id, member)))
           : id \in PmResources}

RenderCrm(node, crm) == UNION {RenderCrmMember(node, m, crm) : m \in crm.nodes}

\* Each probe gave one report or none.
Body(node, qm, status, drbd, crm) ==
  UNION ({RenderStatus(node, qm, ParseStatus(report)) \cup {Fresh(node, "rdqmstatus")} : report \in status}
         \cup {RenderDrbd(node, report) \cup {Fresh(node, "drbd")} : report \in drbd}
         \cup {RenderCrm(node, report) \cup {Fresh(node, "crm")} : report \in crm})

Full(n) == Body(n, "QM", {StatusReport(n)}, {DrbdReport(n)}, {CrmReport(n)})
---------------------------------------------------------------------------
\* The DR pair is whole, or its two sites have been made primary apart.
Init == /\ base \in Bases
        /\ up = Nodes
        /\ preferred = [s \in Sites |-> None]
        /\ primary \in {p \in [Sites -> Nodes] : \A s \in Sites : SiteOf(p[s]) = s}
        /\ live \in (SUBSET Sites) \ {{}}
        /\ linked = (live # Sites)
        /\ banned = {}
        /\ storage = [s \in Sites |-> "fine"]
        /\ events = 0
        /\ file = [n \in Nodes |-> {}]

Event == events < MaxEvents /\ events' = events + 1
Change == Event /\ UNCHANGED <<base, file>>

\* The site's primary after a change: where it is preferred, else as it was,
\* while it can be; else a node that can start the queue manager, else any.
Placed(s, running, barred) ==
  LET there == Members(s) \cap running
      able == there \ barred
  IN IF there = {} THEN {primary[s]}
     ELSE IF preferred[s] \in able THEN {preferred[s]}
     ELSE IF primary[s] \in able THEN {primary[s]}
     ELSE IF able # {} THEN able
     ELSE there

Place(s) == \E p \in Placed(s, up', banned') : primary' = [primary EXCEPT ![s] = p]

\* RDQM itself.  A node goes down, never the last one, comes back with a clean
\* history, or Pacemaker gives up on the queue manager there; an operator has
\* it moved.
Crash(n) == /\ Change
            /\ n \in up /\ up # {n}
            /\ up' = up \ {n} /\ banned' = banned \ {n}
            /\ Place(SiteOf(n))
            /\ UNCHANGED <<preferred, live, linked, storage>>

Restart(n) == /\ Change
              /\ n \notin up
              /\ up' = up \cup {n} /\ banned' = banned
              /\ Place(SiteOf(n))
              /\ UNCHANGED <<preferred, live, linked, storage>>

Ban(n) == /\ Change
          /\ n \in up \ banned
          /\ up' = up /\ banned' = banned \cup {n}
          /\ Place(SiteOf(n))
          /\ UNCHANGED <<preferred, live, linked, storage>>

Move(n) == /\ Change
           /\ n \in up \ banned /\ primary[SiteOf(n)] # n
           /\ preferred' = [preferred EXCEPT ![SiteOf(n)] = n]
           /\ primary' = [primary EXCEPT ![SiteOf(n)] = n]
           /\ UNCHANGED <<up, live, linked, banned, storage>>

\* rdqmdr: a site gives the DR role up; a site takes it, from nobody or with
\* the other site out of reach.
Demote(s) == /\ Change
             /\ s \in live
             /\ live' = live \ {s}
             /\ UNCHANGED <<up, primary, preferred, linked, banned, storage>>

Promote(s) == /\ Change
              /\ s \notin live /\ Left(s) # {}
              /\ live = {} \/ ~Reachable
              /\ live' = live \cup {s}
              /\ UNCHANGED <<up, primary, preferred, linked, banned, storage>>

Link == /\ Change
        /\ linked' = ~linked
        /\ UNCHANGED <<up, primary, preferred, live, banned, storage>>

Ail(s) == /\ Change
          /\ storage[s] = "fine"
          /\ \E fault \in {"Diskless"} \cup
                          {f \in {"StandAlone", "dual"} : Cardinality(Left(s)) > 1} :
               storage' = [storage EXCEPT ![s] = fault]
          /\ UNCHANGED <<up, primary, preferred, live, linked, banned>>

\* collect() and run(): one probe or none fails; then the new file.
Collect(n) ==
  /\ n \in up
  /\ \/ file' = [file EXCEPT ![n] = Full(n)] /\ UNCHANGED events
     \/ /\ Event
        /\ \/ file' = [file EXCEPT ![n] = Body(n, "QM", {}, {DrbdReport(n)}, {CrmReport(n)})]
           \/ file' = [file EXCEPT ![n] = Body(n, "QM", {StatusReport(n)}, {}, {CrmReport(n)})]
           \/ file' = [file EXCEPT ![n] = Body(n, "QM", {StatusReport(n)}, {DrbdReport(n)}, {})]
  /\ UNCHANGED rdqmVars

Next == \/ \E n \in Nodes : Crash(n) \/ Restart(n) \/ Ban(n) \/ Move(n) \/ Collect(n)
        \/ \E s \in Sites : Demote(s) \/ Promote(s) \/ Ail(s)
        \/ Link

Spec == Init /\ [][Next]_vars

---------------------------------------------------------------------------
(* The board: dashboards/boards/rdqm.py.                                   *)

\* The nodes that are up are scraped; another arm's cluster is in the same
\* Prometheus, with two Primaries of its own.
Scraped ==
  (UNION {{InGroup(SiteOf(n), s) : s \in file[n]} : n \in up}) \cup
  {Metric("cluster_drbd_role",
          [node |-> n, resource |-> <<"drbd", "mqlun">>, role |-> "Primary", groups |-> "pcmk"], 1)
   : n \in {"pcmk-a1", "pcmk-a2"}}

\* Fault variant: Primaries are counted over both sites.
DualPrimaryGlobal(db) ==
  By(AboveBool(By(Where(Where(Samples(db, "cluster_drbd_role"), "role", {"Primary"}), "groups", Sites),
                  {"resource"}, CountOf), 1), {}, SumOf)

\* A DR pair has a Primary on each side: they are counted per site.
DualPrimary(db) ==
  By(AboveBool(By(Where(Where(Samples(db, "cluster_drbd_role"), "role", {"Primary"}), "groups", Sites),
                  {"resource", "groups"}, CountOf), 1), {}, SumOf)

\* count(max by (groups)(cluster_rdqm_qm_startable) == 0)
UnstartableSites(db) ==
  By(Equals(By(Samples(db, "cluster_rdqm_qm_startable"), {"groups"}, MaxOf), 0), {}, CountOf)

OrZero(vec) == Or(vec, Scalar(0))

\* _integrity_expr: StandAlone + Diskless + two Primaries at a site + HA not
\* Normal + a site that cannot start the queue manager.
IntegrityExpr(db) ==
  LET number(name, label, state) ==
        By(Where(Where(Samples(db, name), label, {state}), "groups", Sites), {}, CountOf)
      status == Samples(db, "cluster_rdqm_ha_status_ok")
      storageHazards == Plus(OrZero(number("cluster_drbd_conn", "conn", "StandAlone")),
                             OrZero(number("cluster_drbd_disk", "disk", "Diskless")))
      hazards == Plus(Plus(Plus(storageHazards, OrZero(DualPrimary(db))),
                           OrZero(By(Equals(status, 0), {}, CountOf))),
                      OrZero(UnstartableSites(db)))
  IN AndOn(hazards, Above(By(status, {}, CountOf), 0))

Light == LightOf(IntegrityExpr(Scraped))

\* _site_badge: 2 is LIVE, 1 RECOVERY, 0 NOT READY, nothing STALE.
SiteBadge(db, s) ==
  LET mine(name) == By(Where(Samples(db, name), "groups", {s}), {}, MaxOf)
      role == mine("cluster_rdqm_dr_role_code")
      banning == OrZero(EqualsBool(mine("cluster_rdqm_qm_startable"), 0))
      standby == Times(EqualsBool(role, 3), Minus(Scalar(1), banning))
  IN Plus(Times(Scalar(2), EqualsBool(role, 2)), standby)

\* _dr_card: DR status, and whether every site could take over.
DrStatusTile(db) == By(Samples(db, "cluster_rdqm_dr_status_ok"), {}, MinOf)

FailoverReady(db) ==
  AndOn(OrZero(UnstartableSites(db)),
        Above(By(Samples(db, "cluster_rdqm_qm_startable"), {}, CountOf), 0))

\* label_replace of max by (groups)(cluster_rdqm_dr_role{role="Primary"})
DrPrimaryTile(db) ==
  Names(By(Where(Samples(db, "cluster_rdqm_dr_role"), "role", {"Primary"}), {"groups"}, MaxOf), "groups")

DrBacklog(db) ==
  Tile(By(Where(Samples(db, "cluster_drbd_out_of_sync_bytes"), "resource", {<<"dr", base>>}), {}, MaxOf))

\* _status_band, and _timeline.
RunningOn(db) == Names(Where(Samples(db, "cluster_resource_owner"), "resource", {"QM"}), "holder")
FloatingIps(db) == Names(Samples(db, "cluster_rdqm_floating_ip"), "ip")
HaStatusTile(db) == Tile(By(Samples(db, "cluster_rdqm_ha_status_ok"), {}, MinOf))

\* Fault variant: every node's report of a member is counted.
OnlineReports(db) ==
  By(Where(Samples(db, "cluster_node_online"), "groups", Sites), {"member", "node"}, MaxOf)

OnlineMembers(db) ==
  By(Where(Samples(db, "cluster_node_online"), "groups", Sites), {"member"}, MaxOf)
NodesOnline(db) == Tile(By(OnlineMembers(db), {}, SumOf))
Timeline(db) ==
  [running |-> Values(By(Samples(db, "cluster_rdqm_qm_running"), {}, MaxOf)),
   normal |-> HaStatusTile(db),
   primary |-> Values(By(Where(Where(Samples(db, "cluster_drbd_role"), "resource", {<<"ha", base>>}),
                               "role", {"Primary"}), {}, CountOf)),
   connected |-> Values(DrStatusTile(db))]

\* _instance_cols, _pacemaker_cols and _storage_cols: the resources' names
\* come from the profile.
InstanceColumns(db, s) ==
  LET member(name, kind) == Column(Where(Samples(db, name), "member", Members(s)), "member", kind)
      inSync == Where(Where(Where(Samples(db, "cluster_drbd_disk"), "resource", {<<"ha", base>>}),
                            "disk", {"UpToDate"}), "node", Members(s))
  IN [online |-> member("cluster_node_online", "up"),
      role |-> member("cluster_rdqm_role_code", "rdqm_role"),
      running |-> member("cluster_rdqm_qm_running", "qm_running"),
      ready |-> member("cluster_rdqm_node_ready", "node_ready"),
      inSync |-> Column(inSync, "node", "up")]

PacemakerColumns(db, s) ==
  LET here(name) == Where(Samples(db, name), "member", Members(s))
      state(kind) == Column(Where(here("cluster_rdqm_pm_state"), "resource", {<<kind, base>>}),
                            "member", "pm_state")
  IN [ready |-> Column(here("cluster_rdqm_node_ready"), "member", "node_ready"),
      qm |-> state("qm"), drbd |-> state("drbd"), dr |-> state("dr"), ip |-> state("ip"),
      failCount |-> Column(here("cluster_rdqm_failcount"), "member", "failcount")]

StorageColumns(db) ==
  LET volume(name, kind) ==
        Column(Where(Where(Samples(db, name), "resource", {<<"ha", base>>}), "node", Nodes), "node", kind)
  IN [resync |-> volume("cluster_drbd_resync_pct", "sessions"),
      outOfSync |-> volume("cluster_drbd_out_of_sync_bytes", "drbd_oos")]

---------------------------------------------------------------------------
TypeOK ==
  /\ base \in Bases
  /\ up \subseteq Nodes /\ banned \subseteq up
  /\ primary \in [Sites -> Nodes] /\ preferred \in [Sites -> Nodes \cup {None}]
  /\ live \subseteq Sites
  /\ linked \in BOOLEAN
  /\ storage \in [Sites -> {"fine", "Diskless", "StandAlone", "dual"}]
  /\ events \in 0 .. MaxEvents
  /\ \A n \in Nodes : \A s \in file[n] : Emits(RDQM, s)

\* Every node that runs has collected since the clusters last changed.
Current == \A n \in up : file[n] = Full(n)
BothSitesUp == \A s \in Sites : Left(s) # {}

\* "gating on running keeps the board from showing the QM running on two
\* nodes with two floating IPs" (rdqm.py:205-206): a node that has collected
\* since the last change is named exactly if it runs the queue manager,
\* whatever the other nodes' files still say, so two are named only while one
\* of them has not; and once all have, the floating IPs are theirs.
OwnerIsReal ==
  /\ \A n \in up : file[n] = Full(n) => (n \in RunningOn(Scraped) <=> Running(n))
  /\ Current => LET running == {n \in Nodes : Running(n)} IN
                FloatingIps(Scraped) = {<<"floating_ip", SiteOf(n)>> : n \in running}

\* The collector looks a ban up under a fixed name (rdqm.py:159), that of the
\* labs' queue manager.  What the board makes of bans is stated for it; the
\* others are the matter of StrandedShows below.
BansSeen == base = "qmrdqm" \/ banned = {}

Whole(s) == Members(s) \subseteq up
Hazard == \/ Diverged
          \/ \E s \in Sites : ~Whole(s) \/ storage[s] # "fine" \/ Left(s) \subseteq banned

\* While both sites report, the integrity light is red exactly for a split
\* brain within a site or across the two, a lost disk, a node down, or a site
\* with no node that may start the queue manager (boards/rdqm.py:74-78): never
\* for a DR pair's two Primaries, nor for those of another arm.
LightIsRight ==
  Current /\ BansSeen /\ BothSitesUp => Light = IF Hazard THEN "HAZARD" ELSE "OK"

\* "LIVE when the site is the DR primary; RECOVERY when it is the DR standby
\* with a startable node; NOT READY when a recovery site is banned"
\* (boards/rdqm.py:182-184), through a cutover, and STALE for a site that is
\* lost.  A member that is down counts as one that may start the queue manager,
\* so a site that has lost one and has the rest banned is left out.
BadgeIsRight ==
  Current /\ BansSeen => \A s \in Sites :
    Whole(s) \/ ~(Left(s) \subseteq banned) \/ Left(s) = {} =>
      Values(SiteBadge(Scraped, s)) =
        IF Left(s) = {} THEN {}
        ELSE IF s \in live THEN {2}
        ELSE IF Left(s) \subseteq banned THEN {0} ELSE {1}

\* A site's own primary speaks for it: with current reports the DR status is
\* Normal exactly while the two sites replicate, a pointer to the primary
\* never drags it down and one disconnected side does; the card names the
\* sites that are DR primary, both after a disaster; and the backlog is that
\* of the DR volume, whatever the HA volumes owe each other.
DrCardIsRight ==
  LET left == {s \in Sites : Left(s) # {}}
      behind == {s \in left \cap live : Diverged \/ ~Reachable}
  IN Current =>
       /\ Values(DrStatusTile(Scraped)) = {Flag(Reachable /\ ~Diverged)}
       /\ DrPrimaryTile(Scraped) = left \cap live
       /\ DrBacklog(Scraped) = {IF behind # {} THEN 8192 ELSE 0}

\* rdqmstatus calls a node's own HA status Normal only if the site is whole,
\* a peer's if the peer is up: a member is counted online unless it is down,
\* or the only one left of its site.  The timeline's Primaries are those of
\* the HA volume over both sites: two of a healthy pair.
Counted(n) == n \in up /\ (Whole(SiteOf(n)) \/ Left(SiteOf(n)) # {n})
TilesAreRight ==
  Current =>
    /\ NodesOnline(Scraped) = {Cardinality({n \in Nodes : Counted(n)})}
    /\ HaStatusTile(Scraped) = {Flag(\A s \in Sites : Left(s) = {} \/ Whole(s))}
    /\ Timeline(Scraped).running = {Flag(\E n \in Nodes : Running(n))}
    /\ Timeline(Scraped).primary =
         {Cardinality({n \in up : primary[SiteOf(n)] = n \/ storage[SiteOf(n)] = "dual"})}

\* With current reports every member of a site that reports at all has its
\* row.  A member that is down is red in what its peers report and blank in
\* what only it can; a lost disk blanks the in-sync cell, which is never red;
\* a ban is red in the ready and the fail-count cell and a standby never is; and
\* the resources' states follow the running instances where the profile's names
\* are the collector's.
MatricesAreRight ==
  Current => \A s \in {t \in Sites : Left(t) # {}} : \A n \in Members(s) :
    LET instance == InstanceColumns(Scraped, s)
        layer == PacemakerColumns(Scraped, s)
        storageColumns == StorageColumns(Scraped)
        cell(color) == IF n \in up THEN {color} ELSE {}
    IN /\ Color(instance.online, n) = {IF Counted(n) THEN "green" ELSE "red"}
       /\ Color(instance.role, n) = cell(IF primary[s] = n THEN "green" ELSE "blue")
       /\ Color(instance.running, n) = cell(IF Running(n) THEN "green" ELSE "blue")
       /\ Color(instance.inSync, n) =
            IF storage[s] = "Diskless" /\ primary[s] = n THEN {} ELSE cell("green")
       /\ Color(storageColumns.outOfSync, n) =
            cell(IF storage[s] = "StandAlone" /\ primary[s] = n THEN "red" ELSE "green")
       /\ BansSeen =>
            /\ Color(layer.ready, n) = {IF n \in up \ banned THEN "green" ELSE "red"}
            /\ Color(layer.failCount, n) = {IF n \in banned THEN "red" ELSE "green"}
       /\ base = "qmrdqm" =>
            /\ Color(layer.qm, n) = {IF Running(n) THEN "green" ELSE "grey"}
            /\ Color(layer.drbd, n) =
                 {IF n \notin up THEN "grey" ELSE IF primary[s] = n THEN "green" ELSE "blue"}

\* What the board has for a site that cannot take over.  The light goes loud on
\* "a whole site with no startable node" (boards/rdqm.py:74-78); the card has
\* "no startable data -> STALE, not false Ready" (:263); the badge is "NOT READY
\* (red) when a recovery site is banned" (:182-184); the fail-count "turns RED
\* when Pacemaker has banned the QM from a node" (:206-208), and a node
\* "online-but-banned reads red, not a misleading green" (contract.py:506-507); and
\* the resources' cells are found, their names "all derived from the one
\* drbd_resource base" of the profile (:14-15).
LightIsLoud == Light = "HAZARD"
ReadyIsHeld == LightOf(FailoverReady(Scraped)) # "OK"
BadgeIsLoud == \E s \in Sites : Values(SiteBadge(Scraped, s)) = {0}
BanIsRed ==
  \E s \in Sites : \E n \in Members(s) \cap banned :
    LET layer == PacemakerColumns(Scraped, s) IN
    Color(layer.failCount, n) = {"red"} \/ Color(layer.ready, n) = {"red"}
ResourcesAreFound ==
  \E s \in Sites : \E n \in Left(s) : Color(PacemakerColumns(Scraped, s).drbd, n) # {}

\* When a recovery site is lost, the other has given the DR role up for it and
\* Pacemaker has banned the queue manager from each of its nodes, nothing can
\* start it anywhere: the board shows that, or at least one ban, in one of the
\* places that are for it.
StrandedShows ==
  Current /\ live = {} /\ (\E s \in Sites : Left(s) = {}) /\ up \subseteq banned =>
    \/ LightIsLoud \/ ReadyIsHeld \/ BadgeIsLoud
    \/ BanIsRed \/ ResourcesAreFound
=============================================================================
