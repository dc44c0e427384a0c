------------------------------ MODULE NativeHa ------------------------------
(***************************************************************************)
(* A Native HA group watched from end to end: what dspmq reports on each   *)
(* node, what collectors/nativeha.py parses and renders of it, and what    *)
(* the Native HA board makes of the union of the nodes' textfiles.  Every  *)
(* node reports on every instance, each at its own time, so during a       *)
(* failover the union mixes views from before and after.  A second group   *)
(* at the recovery site replicates it, and the two may exchange roles.     *)
(*                                                                         *)
(* A report is a set of lines, a line a record of the fields read from it. *)
(* A host that is down is not scraped and its series end.                  *)
(***************************************************************************)
EXTENDS Integers, FiniteSets, Primitives, Exposition, Contract

CONSTANTS Nodes,       \* the first site's hosts, one instance on each
          Standby,     \* the second site's hosts, healthy throughout
          NoInstance,  \* no instance leads
          Unknown,     \* a number dspmq does not know; a field not there
          MaxEvents    \* bound: changes of the group and failed probes

ASSUME NativeHaAssumption ==
  /\ IsFiniteSet(Nodes) /\ Nodes # {}
  /\ IsFiniteSet(Standby) /\ Standby # {} /\ Standby \cap Nodes = {}
  /\ NoInstance \notin Nodes \cup Standby
  /\ Unknown \notin Nat \cup {"yes", "no"} \cup (Nat \X Nat)
  /\ MaxEvents \in Nat

VARIABLES up,        \* the nodes that run
          live,      \* the first site's group is the live one
          names,     \* the two groups' names
          active,    \* the first site's leader: it runs the queue manager,
                     \* or applies the replication
          insync,    \* the instances whose log is in sync
          recovery,  \* the recovery group: connected or not, its backlog
          events,    \* changes and failed probes so far
          file       \* each node's textfile: a set of series

groupVars == <<up, live, names, active, insync, recovery>>
vars == <<up, live, names, active, insync, recovery, events, file>>

---------------------------------------------------------------------------
(* dspmq, outside the repository: what it prints of the group.             *)

Leading(here) == IF here THEN "Active" ELSE "Leader"
GroupRole(here) == IF here THEN "Live" ELSE "Recovery"
Role(i) == IF i = active THEN Leading(live) ELSE IF i \in up THEN "Replica" ELSE "Unknown"

StandbyLeader == CHOOSE i \in Standby : TRUE
Votes == <<Cardinality(up), Cardinality(Nodes)>>
StandbyVotes == <<Cardinality(Standby), Cardinality(Standby)>>

\* The probe gave nothing.
NoReport == {}

\* quorum is Votes, or Unknown.
XReport(quorum) ==
  {[quorum |-> quorum, grprole |-> GroupRole(live)]} \cup
  {[instance |-> i, role |-> Role(i), insync |-> IF i \in insync THEN "yes" ELSE "no",
    hastatus |-> IF i \in up THEN "Normal" ELSE "Abnormal"] : i \in Nodes}

StandbyReport ==
  {[quorum |-> StandbyVotes, grprole |-> GroupRole(~live)]} \cup
  {[instance |-> i, role |-> IF i = StandbyLeader THEN Leading(~live) ELSE "Replica",
    insync |-> "yes", hastatus |-> "Normal"] : i \in Standby}

\* Only the recovery group's line has CONNGRP, INSYNC and BACKLOG.
GReport ==
  {[grpname |-> IF live THEN names.here ELSE names.there, grprole |-> "Live",
    grstatus |-> "Normal"],
   [grpname |-> IF live THEN names.there ELSE names.here, grprole |-> "Recovery",
    grstatus |-> "Normal",
    conngrp |-> IF recovery.connected THEN "yes" ELSE "no",
    insync |-> IF recovery.backlog = 0 THEN "yes" ELSE "no",
    backlog |-> recovery.backlog]}

---------------------------------------------------------------------------
(* collectors/nativeha.py: parse and render.                               *)

Has(line, field) == field \in DOMAIN line
Field(line, field, default) == IF Has(line, field) THEN line[field] ELSE default

\* The summary line gives the quorum and is no instance row.
ParseX(report) ==
  [summary |-> CHOOSE line \in report : Has(line, "quorum"),
   instances |-> {line \in report : /\ ~Has(line, "quorum")
                                    /\ Has(line, "instance") /\ Has(line, "role")}]

\* _yn and _int_or_none: a facet that is not reported stays unknown.
Yn(line, field) == Field(line, field, Unknown)

ParseG(report) ==
  {[name |-> line.grpname,
    role |-> Field(line, "grprole", "Unknown"),
    status |-> Field(line, "grstatus", "Unknown"),
    connected |-> Yn(line, "conngrp"),
    insync |-> Yn(line, "insync"),
    backlog |-> Field(line, "backlog", Unknown)]
   : line \in {l \in report : Has(l, "grpname") /\ ~Has(l, "quorum")}}

\* Fault variant: a code per role, and one too many.
RoleCodeOff(role) == CASE role = "Active" -> 2 [] role = "Replica" -> 1 [] OTHER -> 4

\* Fault variant: the recovery group's leader has no code.
RoleCodeLeaderless(role) == CASE role = "Active" -> 2 [] role = "Replica" -> 1 [] OTHER -> 0

RoleCode(role) == CASE role = "Active" -> 2
                    [] role = "Leader" -> 3
                    [] role = "Replica" -> 1
                    [] OTHER -> 0

RenderInstance(node, st) ==
  LET base == [node |-> node, member |-> st.instance] IN
  {Metric("cluster_node_online", base, Flag(st.role # "Unknown")),
   Metric("cluster_nha_role", [node |-> node, member |-> st.instance, role |-> st.role], 1),
   Metric("cluster_nha_role_code", base, RoleCode(st.role)),
   Metric("cluster_nha_insync", base, Flag(st.insync = "yes")),
   Metric("cluster_nha_hastatus", [node |-> node, member |-> st.instance, status |-> st.hastatus], 1),
   Metric("cluster_nha_hastatus_ok", base, Flag(st.hastatus = "Normal"))}
  \cup
  {Metric("cluster_resource_owner", [node |-> node, resource |-> "qm", holder |-> st.instance], 1)
   : role \in {st.role} \cap {"Active"}}

RenderX(node, hax) ==
  LET quorum == hax.summary.quorum
      majority == quorum[2] \div 2 + 1
  IN (IF quorum = Unknown THEN {}
      ELSE {Metric("cluster_quorate", [node |-> node], Flag(quorum[1] >= majority)),
            Metric("cluster_nha_quorum", [node |-> node], quorum[1])})
     \cup UNION {RenderInstance(node, st) : st \in hax.instances}

\* Fault variant: what is not known reads 0.
FacetFaking(name, labels, value) == {Metric(name, labels, IF value = Unknown THEN 0 ELSE value)}

\* A facet only where it is known.
Facet(name, labels, value) == IF value = Unknown THEN {} ELSE {Metric(name, labels, value)}
YnFacet(name, labels, yn) == Facet(name, labels, IF yn = Unknown THEN Unknown ELSE Flag(yn = "yes"))

RenderG(node, groups) ==
  UNION {LET base == [node |-> node, group |-> g.name] IN
         {Metric("cluster_nha_group_role", [node |-> node, group |-> g.name, role |-> g.role], 1),
          Metric("cluster_nha_group_status", [node |-> node, group |-> g.name, status |-> g.status], 1)}
         \cup YnFacet("cluster_nha_connected", base, g.connected)
         \cup YnFacet("cluster_nha_group_insync", base, g.insync)
         \cup Facet("cluster_nha_group_backlog", base, g.backlog)
         : g \in groups}

\* A source without a report has no section and no timestamp.
Body(node, x, g) ==
  (IF x = NoReport THEN {} ELSE RenderX(node, ParseX(x)) \cup {Fresh(node, "nativeha_x")}) \cup
  (IF g = NoReport THEN {} ELSE RenderG(node, ParseG(g)) \cup {Fresh(node, "nativeha_g")})

---------------------------------------------------------------------------
Init == /\ up = Nodes
        /\ live = TRUE /\ names = [here |-> "Live", there |-> "Recovery"]
        /\ active \in Nodes
        /\ insync = Nodes
        /\ recovery = [connected |-> TRUE, backlog |-> 0]
        /\ events = 0
        /\ file = [n \in Nodes |-> {}]

Quorate == 2 * Cardinality(up) > Cardinality(Nodes)

Event == events < MaxEvents /\ events' = events + 1
Change == Event /\ UNCHANGED file

\* Native HA itself.  A host goes down with its instance; a majority elects
\* an instance that is in sync; the active one steps down without a majority.
Crash(i) == /\ Change
            /\ i \in up
            /\ up' = up \ {i}
            /\ active' = IF 2 * Cardinality(up \ {i}) > Cardinality(Nodes) /\ active # i
                         THEN active ELSE NoInstance
            /\ insync' = insync \ {i}
            /\ UNCHANGED <<live, names, recovery>>

\* Needs no bound of its own: a host restarts once for every crash.
Restart(i) == /\ i \notin up
              /\ up' = up \cup {i}
              /\ UNCHANGED <<live, names, active, insync, recovery, events, file>>

Elect(i) == /\ Change
            /\ active = NoInstance /\ Quorate /\ i \in up \cap insync
            /\ active' = i
            /\ UNCHANGED <<live, names, up, insync, recovery>>

FallBehind(i) == /\ Change
                 /\ i \in insync \ {active}
                 /\ insync' = insync \ {i}
                 /\ UNCHANGED <<live, names, up, active, recovery>>

CatchUp(i) == /\ Change
              /\ i \in up \ insync /\ active # NoInstance
              /\ insync' = insync \cup {i}
              /\ UNCHANGED <<live, names, up, active, recovery>>

\* A recovery group that waits to be rebased reports BACKLOG(Unknown).
Recovery == /\ Change
            /\ recovery' \in [connected : BOOLEAN, backlog : {0, 5, Unknown}]
            /\ recovery' # recovery
            /\ UNCHANGED <<live, names, up, active, insync>>

\* The two groups exchange their roles.  A name is configured for a group and
\* stays with it, or is changed with the role.
Switch == /\ Change
          /\ active # NoInstance /\ recovery = [connected |-> TRUE, backlog |-> 0]
          /\ live' = ~live
          /\ names' \in {names, [here |-> names.there, there |-> names.here]}
          /\ UNCHANGED <<up, active, insync, recovery>>

\* What a run may read: everything, or without the quorum, a probe or both.
Readings == [x : {XReport(Votes), XReport(Unknown), NoReport}, g : {GReport, NoReport}]
Complete == [x |-> XReport(Votes), g |-> GReport]

\* Fault variant: a probe that fails leaves the section of the last run,
\* without its timestamp.
CollectCaching(n) ==
  /\ n \in up
  /\ \E read \in Readings :
       /\ file' = [file EXCEPT ![n] = Body(n, read.x, read.g) \cup
                     IF read.x = NoReport
                     THEN file[n] \ {Fresh(n, "nativeha_x"), Fresh(n, "nativeha_g")} ELSE {}]
       /\ IF read = Complete THEN UNCHANGED events ELSE Event
  /\ UNCHANGED groupVars

\* collect() and run(): both probes, either may fail; then the new file.
Collect(n) ==
  /\ n \in up
  /\ \E read \in Readings :
       /\ file' = [file EXCEPT ![n] = Body(n, read.x, read.g)]
       /\ IF read = Complete THEN UNCHANGED events ELSE Event
  /\ UNCHANGED groupVars

Next == \/ \E i \in Nodes : \/ Crash(i) \/ Restart(i) \/ Elect(i)
                            \/ FallBehind(i) \/ CatchUp(i) \/ Collect(i)
        \/ Recovery \/ Switch

Spec == Init /\ [][Next]_vars

---------------------------------------------------------------------------
(* The board: dashboards/boards/nativeha.py.                               *)

\* Prometheus scrapes the hosts that are up and labels their series with
\* their group.  Another arm exports the shared families under its own.
Scraped ==
  {InGroup("nativeha", s) :
     s \in UNION ({file[n] : n \in up} \cup {Body(n, StandbyReport, GReport) : n \in Standby})}
  \cup {Metric("cluster_quorate", [node |-> "elsewhere", groups |-> "pacemaker"], 0)}

\* Fault variant: the shared family is not scoped to this cluster.
QuorateAnywhere(db) == Samples(db, "cluster_quorate")

QuorateHere(db) == Where(Samples(db, "cluster_quorate"), "groups", {"nativeha"})

Owner(db) == Where(Samples(db, "cluster_resource_owner"), "resource", {"qm"})

\* _integrity_expr: quorum lost + no owner + instances out of sync, where
\* there is role data.
IntegrityExpr(db) ==
  LET hazards == Plus(Plus(
        EqualsBool(By(QuorateHere(db), {}, MinOf), 0),
        Or(Absent(Owner(db), [resource |-> "qm"]), Scalar(0))),
        Or(By(Equals(Samples(db, "cluster_nha_insync"), 0), {}, CountOf), Scalar(0)))
  IN AndOn(hazards, Above(By(Samples(db, "cluster_nha_role"), {}, CountOf), 0))

Light == LightOf(IntegrityExpr(Scraped))

\* max by (member): every node reports every member.
ByMember(vec) == By(vec, {"member"}, MaxOf)

\* Fault variant: reporters are counted, not instances.
ActiveReports(db) == By(Where(Samples(db, "cluster_nha_role"), "role", {"Active"}), {}, CountOf)

\* count(max by (member)(cluster_nha_role{role="Active"}))
ActiveInstances(db) ==
  By(ByMember(Where(Samples(db, "cluster_nha_role"), "role", {"Active"})), {}, CountOf)

\* _status_band: the tiles of both sites together.
ActiveTile(db) == Names(By(Owner(db), {"holder"}, MaxOf), "holder")
QuorumTile(db) == Tile(By(Samples(db, "cluster_nha_quorum"), {}, MaxOf))
InSyncTile(db) == Tile(By(ByMember(Samples(db, "cluster_nha_insync")), {}, SumOf))
HaStatusTile(db) ==
  Tile(By(ByMember(Where(Samples(db, "cluster_nha_hastatus"), "status", {"Normal"})), {}, MinOf))

\* _instance_cols, for the members of one site.
InstanceColumns(db, site) ==
  LET column(name, kind) == Column(Where(Samples(db, name), "member", site), "member", kind)
  IN [online |-> column("cluster_node_online", "up"),
      role |-> column("cluster_nha_role_code", "role"),
      insync |-> column("cluster_nha_insync", "up"),
      normal |-> column("cluster_nha_hastatus_ok", "up")]

\* _site_badge: 2 is LIVE, 3 is RECOVERY.
SiteBadge(db, site) == Tile(By(Where(Samples(db, "cluster_nha_role_code"), "member", site), {}, MaxOf))

\* _crr_card, of the group that is named Recovery.
CrrCard(db) ==
  LET tile(name) == Tile(By(Where(Samples(db, name), "group", {"Recovery"}), {}, MaxOf))
  IN [connected |-> tile("cluster_nha_connected"),
      insync |-> tile("cluster_nha_group_insync"),
      backlog |-> tile("cluster_nha_group_backlog")]

\* _timeline
Timeline(db) == [active |-> Values(ActiveInstances(db)), quorum |-> QuorumTile(db),
                 insync |-> InSyncTile(db), connected |-> CrrCard(db).connected]

---------------------------------------------------------------------------
TypeOK ==
  /\ up \subseteq Nodes
  /\ live \in BOOLEAN /\ {names.here, names.there} = {"Live", "Recovery"}
  /\ active \in Nodes \cup {NoInstance}
  /\ insync \subseteq Nodes
  /\ recovery \in [connected : BOOLEAN, backlog : {0, 5, Unknown}]
  /\ events \in 0 .. MaxEvents
  /\ \A n \in Nodes : \A s \in file[n] :
       /\ Emits(NATIVEHA, s)
       /\ s.labels["node"] = n
       /\ s.name = "cluster_nha_role_code" => s.value \in 0 .. 3

\* The node has collected in full since anything changed; every node of the
\* site that runs has.
Collected(n) == file[n] = Body(n, XReport(Votes), GReport)
Current == \A n \in up : Collected(n)

\* The instance that runs the queue manager, at either site.
Holder == IF live THEN active ELSE StandbyLeader

\* The integrity light.  While the files of the nodes are from before and
\* after a failover together, one node that has collected since is enough for
\* a lost quorum or an instance out of sync to show (boards/nativeha.py:59-60),
\* whatever the other files still say.  Once every report is current, red is
\* never a false red, whatever other arms export, and it is not STALE.
LightIsRight ==
  /\ \A n \in up : Collected(n) /\ (~Quorate \/ insync # Nodes) => Light = "HAZARD"
  /\ Current /\ up # {} =>
       CASE Light = "OK" -> Quorate /\ insync = Nodes
         [] Light = "HAZARD" -> ~Quorate \/ insync # Nodes \/ Holder = NoInstance
         [] Light = "STALE" -> FALSE

\* A source is in the file with its timestamp and a row for every instance,
\* quorum known or not, or not at all: one unreadable field does not blank
\* the rest (#390), and a probe that failed leaves no last-known value.
SourceAllOrNothing ==
  \A n \in Nodes :
    /\ Cardinality(Rows(file[n], "cluster_nha_role_code")) =
         IF Stamped(file[n], n, "nativeha_x") THEN Cardinality(Nodes) ELSE 0
    /\ Cardinality(Rows(file[n], "cluster_nha_group_status")) =
         IF Stamped(file[n], n, "nativeha_g") THEN 2 ELSE 0

\* With current reports the tiles and the timeline name and count instances,
\* not reporters (boards/nativeha.py:230-232), through elections and
\* switchovers.  The quorum is the larger one of the two sites'.  The HA status
\* is constrained here only while no instance is down: see LostSiteShows.
TilesAreRight ==
  Current =>
    /\ ActiveTile(Scraped) = {Holder} \ {NoInstance}
    /\ Timeline(Scraped).active = IF Holder = NoInstance THEN {} ELSE {1}
    /\ QuorumTile(Scraped) = {Max({Cardinality(up), Cardinality(Standby)})}
    /\ InSyncTile(Scraped) = {Cardinality(Standby) + IF up = {} THEN 0 ELSE Cardinality(insync)}
    /\ up = Nodes => HaStatusTile(Scraped) = {1}

\* With current reports a site's chip reads LIVE where the queue manager runs
\* and RECOVERY where the replication is applied, so it flips on a switchover
\* (boards/nativeha.py:154-156), and a site without a leader reads neither; the
\* matrix colours every instance by its own state.
SitesAreRight ==
  Current /\ up # {} =>
    LET columns == InstanceColumns(Scraped, Nodes)
    IN /\ SiteBadge(Scraped, Nodes) = {IF active = NoInstance THEN 1 ELSE IF live THEN 2 ELSE 3}
       /\ SiteBadge(Scraped, Standby) = {IF live THEN 3 ELSE 2}
       /\ \A i \in Nodes :
            /\ Color(columns.online, i) = {IF i \in up THEN "green" ELSE "red"}
            /\ Color(columns.normal, i) = {IF i \in up THEN "green" ELSE "red"}
            /\ Color(columns.insync, i) = {IF i \in insync THEN "green" ELSE "red"}
            /\ Color(columns.role, i) = {IF i \notin up THEN "red"
                                         ELSE IF i = active /\ live THEN "green" ELSE "blue"}

\* The recovery group goes by the name Recovery, which the card takes for a
\* product constant (boards/nativeha.py:47-50).
RecoveryNamedSo == "Recovery" = IF live THEN names.there ELSE names.here

\* With current reports, while the recovery group is the one of that name, the
\* replication card is that of the recovery group, and a facet that is not
\* known is absent and never faked (nativeha.py:169-170).
CrrCardIsRight ==
  Current /\ up # {} /\ RecoveryNamedSo =>
    LET known(value) == {value} \ {Unknown}
        card == CrrCard(Scraped)
    IN /\ card.connected = known(Flag(recovery.connected))
       /\ card.insync = known(Flag(recovery.backlog = 0))
       /\ card.backlog = known(recovery.backlog)

\* Three things the board says of the loss of the live site.  "no-Active-owner"
\* is a hazard (boards/nativeha.py:59-60).  "No-data reads STALE/DOWN, never
\* healthy" (boards/nativeha.py:72-73), with 0 shown as DOWN (line 80).  The
\* replication card is that of the recovery group, whichever of the two that
\* is: its role is MQ's and "not a lab identity" (boards/nativeha.py:47-50).
NoOwnerLights == Light = "HAZARD"
StatusIsDown == HaStatusTile(Scraped) # {1}
CardIsThere == CrrCard(Scraped).connected = {Flag(recovery.connected)}

\* When the site that was live is lost, with the queue manager and all, at
\* least one of them shows it.
LostSiteShows ==
  Current /\ Holder = NoInstance /\ up = {} => NoOwnerLights \/ StatusIsDown \/ CardIsThere
=============================================================================
