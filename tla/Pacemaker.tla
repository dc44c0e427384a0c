------------------------------ MODULE Pacemaker ------------------------------
(***************************************************************************)
(* A Pacemaker/DRBD cluster watched from end to end: what crm_mon,         *)
(* stonith_admin, iscsiadm, systemctl and drbdsetup report on each host,   *)
(* what collectors/cluster.py parses and renders of it, and what the       *)
(* Pacemaker board makes of the union of the hosts' textfiles.             *)
(*                                                                         *)
(* Compute nodes run the queue manager over iSCSI, storage nodes replicate *)
(* one DRBD resource between two of them, a host may be both: there is no  *)
(* role flag, a source a host cannot answer is absent.  A host that is cut *)
(* off loses quorum and sees itself as the only member online.  An RDQM    *)
(* pair may be watched by the same Prometheus.                             *)
(***************************************************************************)
EXTENDS Integers, Sequences, FiniteSets, Primitives, Exposition, Contract

CONSTANTS Compute,    \* the nodes of the Pacemaker cluster
          Storage,    \* the two nodes that replicate the volume
          NoNode,     \* nobody
          NoReport,   \* the probe gave nothing
          MaxEvents   \* bound: changes of the cluster and failed probes

ASSUME PacemakerAssumption ==
  /\ IsFiniteSet(Compute)
  /\ IsFiniteSet(Storage) /\ Cardinality(Storage) = 2
  /\ {NoNode, "rdqm-a", "rdqm-b"} \cap (Compute \cup Storage) = {}
  /\ MaxEvents \in Nat

\* What a probe gives is never nothing.
ASSUME ReportAssumption ==
  /\ NoReport \notin [dc_quorum : BOOLEAN, nodes : [Compute -> [online : BOOLEAN, unclean : BOOLEAN]],
                     grouped : [qm : [role : {"Started", "Stopped"}, node : Compute \cup {NoNode}]]]
  /\ \A lines \in SUBSET [target : Compute, action : 1 .. MaxEvents] : lines # NoReport
  /\ NoReport \notin [mqlun : [role : {"Primary", "Secondary"}, disk : {"UpToDate", "Diskless"},
                             conn : {"Connected", "Connecting", "StandAlone"},
                             resync_pct : Nat, out_of_sync_bytes : Nat]]
  /\ NoReport \notin Seq({"tcp:", "active", "inactive"})

VARIABLES cut,       \* the host the network has cut off
          down,      \* the hosts that are down
          owner,     \* the compute node that runs the queue manager
          sessions,  \* the compute nodes with an iSCSI session
          primary,   \* the storage nodes where DRBD is Primary
          broken,    \* DRBD has found a split brain: both sides StandAlone
          diskless,  \* the storage nodes whose backing disk is gone
          fenced,    \* fence actions in the history, per compute node
          neighbour, \* an RDQM pair is in the same Prometheus
          events,    \* changes and failed probes so far
          file       \* each host's textfile: a set of series

clusterVars == <<cut, down, owner, sessions, primary, broken, diskless, fenced, neighbour>>
vars == <<cut, down, owner, sessions, primary, broken, diskless, fenced, neighbour, events, file>>

Hosts == Compute \cup Storage
Units == <<"corosync", "pacemaker", "drbd">>

\* What one collection may lose: a whole probe, or systemctl's last lines.
Losses == {"nothing", "crm", "stonith", "iscsi", "drbd", "daemons", "lines"}

---------------------------------------------------------------------------
(* The tools, outside the repository.                                      *)

Online(n) == IF n = cut THEN {n} ELSE Compute \ (down \cup {cut})

\* crm_mon: the partition without quorum has stopped its resources.
CrmReport(n) ==
  IF n \notin Compute THEN NoReport
  ELSE [dc_quorum |-> n # cut,
        nodes |-> [member \in Compute |-> [online |-> member \in Online(n),
                                           unclean |-> member \notin Online(n)]],
        grouped |-> [qm |-> IF n = cut \/ owner = NoNode
                            THEN [role |-> "Stopped", node |-> NoNode]
                            ELSE [role |-> "Started", node |-> owner]]]

\* stonith_admin --history: a line for every action, a cut-off node sees its
\* own part of the history.
StonithReport(n) ==
  IF n \notin Compute THEN NoReport
  ELSE UNION {{[target |-> m, action |-> k] : k \in 1 .. fenced[m]} : m \in Online(n) \cup (Compute \cap down)}

\* iscsiadm -m session: fails where there is no session.
IscsiReport(n) == IF n \in sessions THEN <<"tcp:">> ELSE NoReport

Linked == ~broken /\ (Storage \cap (down \cup {cut})) = {}

\* drbdsetup status: a Primary has blocks to send while its peer is away; after
\* a split brain either side has more, whatever its role.
DrbdReport(n) ==
  IF n \notin Storage THEN NoReport
  ELSE [mqlun |-> [role |-> IF n \in primary THEN "Primary" ELSE "Secondary",
                   disk |-> IF n \in diskless THEN "Diskless" ELSE "UpToDate",
                   conn |-> IF broken THEN "StandAlone"
                            ELSE IF Linked THEN "Connected" ELSE "Connecting",
                   resync_pct |-> 100,
                   out_of_sync_bytes |-> IF broken THEN 20480
                                         ELSE IF n \in primary /\ ~Linked THEN 4096 ELSE 0]]

\* systemctl is-active: a line per unit, by what runs on the host.
ActiveLines(n) ==
  LET line(active) == IF active THEN "active" ELSE "inactive"
  IN <<line(n \in Compute), line(n \in Compute), line(n \in Storage)>>

---------------------------------------------------------------------------
(* collectors/cluster.py: parse and render.                                *)

\* parse_stonith counts the lines per node.
ParseStonith(lines) ==
  [m \in {l.target : l \in lines} |-> Cardinality({l \in lines : l.target = m})]

\* parse_iscsi counts the lines that start with a transport.
ParseIscsi(lines) == Cardinality({i \in DOMAIN lines : lines[i] \in {"tcp:", "iser:"}})

\* Fault variant: a unit without a line is taken to be up.
ParseDaemonsLenient(lines) ==
  [i \in DOMAIN Units |-> i > Len(lines) \/ lines[i] = "active"]

\* parse_daemons: line i is unit i's; a missing line reads down.
ParseDaemons(lines) ==
  [i \in DOMAIN Units |-> i <= Len(lines) /\ lines[i] = "active"]

FenceCount(fences, member) == IF member \in DOMAIN fences THEN fences[member] ELSE 0

RenderMember(node, member, st, fences) ==
  LET base == [node |-> node, member |-> member] IN
  {Metric("cluster_node_online", base, Flag(st.online)),
   Metric("cluster_node_unclean", base, Flag(st.unclean)),
   Metric("cluster_fence_count", base, FenceCount(fences, member))}

\* Fault variant: the owner series does not say what is owned.
RenderResourceUnnamed(node, rid, r) ==
  {Metric("cluster_resource_started", [node |-> node, resource |-> rid], Flag(r.role = "Started"))} \cup
  {Metric("cluster_resource_owner", [node |-> node, holder |-> h], 1) : h \in {r.node} \ {NoNode}}

RenderResource(node, rid, r) ==
  LET rbase == [node |-> node, resource |-> rid] IN
  {Metric("cluster_resource_started", rbase, Flag(r.role = "Started"))} \cup
  {Metric("cluster_resource_owner", [node |-> node, resource |-> rid, holder |-> h], 1) : h \in {r.node} \ {NoNode}}

\* Without a stonith reading every member has the clean baseline.
RenderCrm(node, crm, stonith) ==
  LET fences == IF stonith = NoReport THEN NoLabels ELSE ParseStonith(stonith) IN
  {Metric("cluster_quorate", [node |-> node], Flag(crm.dc_quorum))}
  \cup (UNION {RenderMember(node, m, crm.nodes[m], fences) : m \in DOMAIN crm.nodes})
  \cup (UNION {RenderResource(node, rid, crm.grouped[rid]) : rid \in DOMAIN crm.grouped})

RenderDaemons(node, up) ==
  {Metric("cluster_daemon_up", [node |-> node, unit |-> Units[i]], Flag(up[i])) : i \in DOMAIN up}

\* Each source has its section and its stamp, or neither; the fence counts
\* are part of crm's section.
Body(node, crm, stonith, iscsi, drbd, daemons) ==
  (IF crm = NoReport THEN {} ELSE RenderCrm(node, crm, stonith) \cup {Fresh(node, "crm")}) \cup
  (IF stonith = NoReport THEN {} ELSE {Fresh(node, "stonith")}) \cup
  (IF iscsi = NoReport THEN {}
   ELSE {Metric("cluster_iscsi_sessions", [node |-> node], ParseIscsi(iscsi)), Fresh(node, "iscsi")}) \cup
  (IF drbd = NoReport THEN {} ELSE RenderDrbd(node, drbd) \cup {Fresh(node, "drbd")}) \cup
  (IF daemons = NoReport THEN {}
   ELSE RenderDaemons(node, ParseDaemons(daemons)) \cup {Fresh(node, "daemons")})

\* collect(): every probe, of which one may be lost.
collect(n, lost) ==
  LET kept(source, report) == IF lost = source THEN NoReport ELSE report
  IN Body(n, kept("crm", CrmReport(n)), kept("stonith", StonithReport(n)),
          kept("iscsi", IscsiReport(n)), kept("drbd", DrbdReport(n)),
          kept("daemons", IF lost = "lines" THEN SubSeq(ActiveLines(n), 1, 1) ELSE ActiveLines(n)))

---------------------------------------------------------------------------
Init == /\ cut = NoNode /\ down = {}
        /\ owner = NoNode /\ sessions = Compute
        /\ \E n \in Storage : primary = {n}
        /\ broken = FALSE /\ diskless = {}
        /\ fenced = [n \in Compute |-> 0]
        /\ neighbour \in BOOLEAN
        /\ events = 0
        /\ file = [n \in Hosts |-> {}]

Event == events < MaxEvents /\ events' = events + 1
Change == Event /\ UNCHANGED <<neighbour, file>>

\* The cluster itself.  The network cuts a host off and heals; a host goes
\* down, never the last one, and boots with the textfile it left; the quorate side fences a compute
\* node it has lost, which reboots it into the cluster; two Primaries that meet again have diverged.
Isolate(n) == /\ Change
              /\ cut = NoNode /\ n \notin down
              /\ cut' = n
              /\ owner' = IF owner = n THEN NoNode ELSE owner
              /\ UNCHANGED <<down, sessions, primary, broken, diskless, fenced>>

Crash(n) == /\ Change
            /\ n \notin down \cup {cut} /\ Hosts # down \cup {n}
            /\ down' = down \cup {n}
            /\ owner' = IF owner = n THEN NoNode ELSE owner
            /\ sessions' = sessions \ {n}
            /\ primary' = primary \ {n}
            /\ UNCHANGED <<cut, broken, diskless, fenced>>

Boot(n) == /\ Change
           /\ n \in down
           /\ down' = down \ {n}
           /\ UNCHANGED <<cut, owner, sessions, primary, broken, diskless, fenced>>

Fence(n) == /\ Change
            /\ n \in down \cup {cut}
            /\ Compute \ (down \cup {cut}) # {}
            /\ cut' = IF cut = n THEN NoNode ELSE cut
            /\ down' = down \ {n}
            /\ primary' = primary \ {n}
            /\ fenced' = [fenced EXCEPT ![n] = @ + 1]
            /\ UNCHANGED <<owner, sessions, broken, diskless>>

Heal == /\ Change
        /\ cut # NoNode
        /\ cut' = NoNode
        /\ broken' = (broken \/ primary = Storage)
        /\ UNCHANGED <<down, owner, sessions, primary, diskless, fenced>>

Place(n) == /\ Change
            /\ n \notin down \cup {cut, owner}
            /\ owner' = n
            /\ UNCHANGED <<cut, down, sessions, primary, broken, diskless, fenced>>

Logout(n) == /\ Change
             /\ n \in sessions
             /\ sessions' = sessions \ {n}
             /\ UNCHANGED <<cut, down, owner, primary, broken, diskless, fenced>>

\* DRBD refuses a second Primary while it sees the first.
Promote(n) == /\ Change
              /\ n \notin primary \cup down
              /\ primary = {} \/ ~Linked
              /\ primary' = primary \cup {n}
              /\ UNCHANGED <<cut, down, owner, sessions, broken, diskless, fenced>>

Demote(n) == /\ Change
             /\ n \in primary
             /\ primary' = primary \ {n}
             /\ UNCHANGED <<cut, down, owner, sessions, broken, diskless, fenced>>

Detach(n) == /\ Change
             /\ n \notin diskless
             /\ diskless' = diskless \cup {n}
             /\ UNCHANGED <<cut, down, owner, sessions, primary, broken, fenced>>

\* run(): probe, render, replace the file.
Collect(n) ==
  /\ n \notin down
  /\ \/ file' = [file EXCEPT ![n] = collect(n, "nothing")] /\ UNCHANGED events
     \/ /\ Event
        /\ \E lost \in Losses \ {"nothing"} : file' = [file EXCEPT ![n] = collect(n, lost)]
  /\ UNCHANGED clusterVars

Next == \/ \E n \in Compute : Fence(n) \/ Place(n) \/ Logout(n)
        \/ \E n \in Storage : Promote(n) \/ Demote(n) \/ Detach(n)
        \/ \E n \in Hosts : Isolate(n) \/ Crash(n) \/ Boot(n) \/ Collect(n)
        \/ Heal

Spec == Init /\ [][Next]_vars

---------------------------------------------------------------------------
(* The board: dashboards/boards/cluster.py.                                *)

\* An RDQM DR pair: each site has its Primary, one node is gone.
Neighbour ==
  {Metric("cluster_quorate", [node |-> "rdqm-a"], 0),
   Metric("cluster_node_online", [node |-> "rdqm-a", member |-> "rdqm-c"], 0),
   Metric("cluster_resource_owner", [node |-> "rdqm-a", resource |-> "qmrdqm", holder |-> "rdqm-a"], 1),
   Metric("cluster_drbd_out_of_sync_bytes", [node |-> "rdqm-a", resource |-> "qmrdqm"], 8192)} \cup
  {Metric("cluster_drbd_role", [node |-> n, resource |-> "qmrdqm", role |-> "Primary"], 1)
     : n \in {"rdqm-a", "rdqm-b"}}

Own == {InGroup("pacemaker", s) : s \in UNION {file[n] : n \in Hosts \ down}}
Scraped == Own \cup {InGroup("rdqm", s) : s \in IF neighbour THEN Neighbour ELSE {}}

Here(db, name) == Where(Samples(db, name), "groups", {"pacemaker"})
OfQm(db, name) == Where(Samples(db, name), "resource", {"qm"})

\* Fault variant: a member is counted once for every report of it.
OnlineMembersReported(db) == By(Here(db, "cluster_node_online"), {"member", "node"}, MaxOf)

\* max by (member)(cluster_node_online{groups})
OnlineMembers(db) == By(Here(db, "cluster_node_online"), {"member"}, MaxOf)

\* _hero_tiles: a member is online if anybody says so; the backlog is not
\* scoped to the cluster.
HealthTile(db) == Tile(By(OnlineMembers(db), {}, MinOf))
NodesOnline(db) == Tile(By(OnlineMembers(db), {}, SumOf))
OwnerTile(db) == Names(By(OfQm(db, "cluster_resource_owner"), {"holder"}, MaxOf), "holder")
BacklogTile(db) == Tile(By(Samples(db, "cluster_drbd_out_of_sync_bytes"), {}, MaxOf))

\* Fault variant: more than two Primaries.
IntegrityExprLoose(db) ==
  LET number(name, label, state) == By(Where(Samples(db, name), label, {state}), {}, CountOf)
      hazards == Plus(Plus(Or(number("cluster_drbd_conn", "conn", "StandAlone"), Scalar(0)),
                           Or(number("cluster_drbd_disk", "disk", "Diskless"), Scalar(0))),
                      AboveBool(number("cluster_drbd_role", "role", "Primary"), 2))
  IN AndOn(hazards, Above(By(Samples(db, "cluster_drbd_role"), {}, CountOf), 0))

\* _integrity_panel: StandAlone + Diskless + two Primaries, where there is
\* DRBD data; the counts are not scoped to the cluster.
IntegrityExpr(db) ==
  LET number(name, label, state) == By(Where(Samples(db, name), label, {state}), {}, CountOf)
      hazards == Plus(Plus(Or(number("cluster_drbd_conn", "conn", "StandAlone"), Scalar(0)),
                           Or(number("cluster_drbd_disk", "disk", "Diskless"), Scalar(0))),
                      AboveBool(number("cluster_drbd_role", "role", "Primary"), 1))
  IN AndOn(hazards, Above(By(Samples(db, "cluster_drbd_role"), {}, CountOf), 0))

Light == LightOf(IntegrityExpr(Scraped))

\* _compute_cols: the daemons and iSCSI by reporter, the rest by member.
ComputeColumns(db) ==
  LET unit(name) == Column(Where(Samples(db, "cluster_daemon_up"), "unit", {name}), "node", "up")
      member(vec, kind) == Column(vec, "member", kind)
  IN [corosync |-> unit("corosync"), pacemaker |-> unit("pacemaker"),
      iSCSI |-> Column(Samples(db, "cluster_iscsi_sessions"), "node", "sessions"),
      fence |-> member(Samples(db, "cluster_fence_count"), "clean0"),
      online |-> member(Here(db, "cluster_node_online"), "up"),
      unclean |-> member(Samples(db, "cluster_node_unclean"), "clean0")]

\* _STORAGE_COLS
StorageColumns(db) ==
  [resync |-> Column(Samples(db, "cluster_drbd_resync_pct"), "node", "sessions"),
   outOfSync |-> Column(Samples(db, "cluster_drbd_out_of_sync_bytes"), "node", "clean0")]

\* Fault variant: the best any reporter has.
TimelineMost(db) ==
  [online  |-> NodesOnline(db),
   running |-> Values(By(OfQm(db, "cluster_resource_started"), {}, MaxOf)),
   primary |-> Values(By(Where(Samples(db, "cluster_drbd_role"), "role", {"Primary"}), {}, CountOf)),
   quorate |-> Values(By(Here(db, "cluster_quorate"), {}, MaxOf))]

\* _timeline
Timeline(db) ==
  [online  |-> NodesOnline(db),
   running |-> Values(By(OfQm(db, "cluster_resource_started"), {}, MaxOf)),
   primary |-> Values(By(Where(Samples(db, "cluster_drbd_role"), "role", {"Primary"}), {}, CountOf)),
   quorate |-> Values(By(Here(db, "cluster_quorate"), {}, MinOf))]

---------------------------------------------------------------------------
TypeOK ==
  /\ cut \in Hosts \cup {NoNode} /\ owner \in Compute \cup {NoNode}
  /\ down \subseteq Hosts /\ sessions \subseteq Compute
  /\ primary \subseteq Storage /\ diskless \subseteq Storage
  /\ broken \in BOOLEAN /\ neighbour \in BOOLEAN
  /\ fenced \in [Compute -> 0 .. MaxEvents]
  /\ events \in 0 .. MaxEvents
  /\ \A n \in Hosts : \A s \in file[n] : Emits(PACEMAKER, s)

Collected(n, lost) == file[n] = collect(n, lost)

\* Every host has collected in full since the cluster last changed.
Current == \A n \in Hosts \ down : Collected(n, "nothing")

Up == Compute \ down
DrbdHazard == broken \/ diskless \ down # {} \/ primary = Storage

\* With current reports and a Primary somewhere the integrity light shows a
\* split brain, a lost disk or two Primaries, and nothing else as a hazard; it
\* is STALE when no storage node is left to report
\* (boards/cluster.py:102-103).  Reports without a Primary, and an RDQM pair in
\* the same Prometheus, are the matter of SplitBrainShows and
\* NeighbourStaysOut below.
LightIsRight ==
  Current /\ ~neighbour =>
    /\ primary # {} => Light = IF DrbdHazard THEN "HAZARD" ELSE "OK"
    /\ Storage \subseteq down => Light = "STALE"

\* A fence action in the history is on the board as soon as one node outside
\* the loss has reported it, though the other's stonith_admin gave nothing
\* and its file shows the clean baseline.
FencingShows ==
  LET fence == ComputeColumns(Scraped).fence
  IN \A n \in Up \ {cut} : Collected(n, "nothing") =>
       \A m \in Online(n) \cup (Compute \cap down) :
         \A v \in Cell(fence.vec, fence.label, m) : v >= fenced[m]

\* During a partition each side reports itself online, so the health tile,
\* which does show a host that is down, sees everybody; the timeline's quorum
\* still shows the loss, and a neighbour's quorum is not taken for this one's.
PartitionShows ==
  Current /\ Up # {} =>
    /\ HealthTile(Scraped) = {Flag(Compute \cap down = {})}
    /\ Timeline(Scraped).quorate = {Flag(cut \notin Compute)}

\* With current reports the tiles name the node that runs the queue manager
\* and count the members that are up, a neighbour's never among them; without a
\* neighbour the backlog is that of the worst volume and the timeline counts
\* the Primaries.
TilesAreRight ==
  Current =>
    /\ NodesOnline(Scraped) = IF Up = {} THEN {} ELSE {Cardinality(Up)}
    /\ OwnerTile(Scraped) = {owner} \ {NoNode}
    /\ Timeline(Scraped).running = IF Up = {} THEN {} ELSE {Flag(owner # NoNode)}
    /\ ~neighbour =>
         /\ Timeline(Scraped).primary = {Cardinality(primary)} \ {0}
         /\ LET own == {DrbdReport(n).mqlun.out_of_sync_bytes : n \in Storage \ down}
            IN BacklogTile(Scraped) = {v \in own : \A w \in own : w <= v}

\* A row of the matrices says what its host reported, whatever the others did:
\* a systemctl report cut short fails loud (collectors/cluster.py:121-122), a
\* host without an iSCSI session has no cell, never a 0, a storage node reads
\* red for daemons it does not run, and a Primary that has blocks to send red.
\* The count after a split brain is the matter of SplitBrainShows.
MatricesAreRight ==
  LET compute == ComputeColumns(Scraped)
      storage == StorageColumns(Scraped)
  IN \A n \in Hosts \ down, lost \in Losses : Collected(n, lost) =>
       /\ Color(compute.corosync, n) =
            IF lost = "daemons" THEN {} ELSE IF n \in Compute THEN {"green"} ELSE {"red"}
       /\ Color(compute.pacemaker, n) =
            IF lost = "daemons" THEN {}
            ELSE IF n \in Compute /\ lost # "lines" THEN {"green"} ELSE {"red"}
       /\ Color(compute.iSCSI, n) =
            IF n \in sessions /\ lost # "iscsi" THEN {"green"} ELSE {}
       /\ n \notin Storage \/ lost = "drbd" => Color(storage.outOfSync, n) = {}
       /\ n \in Storage /\ lost # "drbd" /\ ~broken =>
            Color(storage.outOfSync, n) = IF n \in primary /\ ~Linked THEN {"red"} ELSE {"green"}

\* What the board says of a split brain.  The light has the "split-brain /
\* dual-primary / Diskless hazard count", and STALE is for no data
\* (boards/cluster.py:102-103).  The out-of-sync column is a clean0 one:
\* "0 green / >=1 red" (boards/primitives.py:32).
SplitBrainLights == Light = "HAZARD"
OutOfSyncIsRed == \E n \in Storage : Color(StorageColumns(Scraped).outOfSync, n) = {"red"}

\* When both sides of the volume report StandAlone and thousands of blocks that
\* differ, at least one of the two shows it, whether or not the storage has been
\* made Secondary meanwhile to stop the damage.
SplitBrainShows ==
  Current /\ ~neighbour /\ broken /\ Storage \cap down = {} => SplitBrainLights \/ OutOfSyncIsRed

\* "A board query over it MUST be scoped to its own arm's groups or another
\* cluster's nodes leak in" (boards/cluster.py:42-44), of the families that are
\* shared, cluster_drbd_* among them (contract.py:309-313): the light, the
\* backlog and the timeline's Primaries are what the cluster's own series give.
LightIsOwn == Light = LightOf(IntegrityExpr(Own))
BacklogIsOwn == BacklogTile(Scraped) = BacklogTile(Own)
PrimariesAreOwn == Timeline(Scraped).primary = Timeline(Own).primary

\* An RDQM pair in the same Prometheus leaves at least one of them as it is.
NeighbourStaysOut == Current => LightIsOwn \/ BacklogIsOwn \/ PrimariesAreOwn
=============================================================================
